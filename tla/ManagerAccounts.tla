-------------------------- MODULE ManagerAccounts --------------------------
(***************************************************************************)
(* Accounts at the manager (managerServer/api, routes/auth.py and          *)
(* users.py): logging in with a second factor, logging out, setting the    *)
(* factor up and verifying it, and the routes that change, deactivate and  *)
(* delete a user.  Statements are atomic and those of different requests   *)
(* interleave; jwt_tokens.user_id cascades (database/schema.sql:67-78).    *)
(*                                                                         *)
(* A token is named by the login that stored it, or by its account when it *)
(* was stored earlier; a TOTP secret by the setup request that drew it.  A *)
(* code is named by the secret it was computed from.  Passwords, names,    *)
(* roles and expiry are left out: a login may be refused for any of them.  *)
(***************************************************************************)
CONSTANTS
    Accounts,         \* the users there are at first
    AccountRequests,
    NoSecret          \* a NULL mfa_secret, and no mfa_code

ASSUME AccountsAssumption ==
    /\ Accounts \cap AccountRequests = {}
    /\ NoSecret \notin AccountRequests

VARIABLES
    removed,        \* the accounts deleted
    inactive,       \* those with is_active FALSE
    mfaSecret, mfaEnabled,  \* the two columns of each account
    jwt,            \* jwt_tokens
    does,           \* what each request asks for
    account,        \* the account it is about
    bearer,         \* the token it carries
    code,           \* the secret its code was computed from
    stands,         \* where its handler is
    overBefore      \* history: the requests that were over when it began

accountVars == <<removed, inactive, mfaSecret, mfaEnabled, jwt, does, account,
                 bearer, code, stands, overBefore>>

Tokens == Accounts \cup AccountRequests
Secret == AccountRequests \cup {NoSecret}
Ops == {"login", "logout", "setup", "verify", "activate", "deactivate",
        "password", "delete"}
Ended == {"answered", "refused", "failed"}

AccountsTypeOK ==
    /\ removed \subseteq Accounts /\ inactive \subseteq Accounts
    /\ mfaSecret \in [Accounts -> Secret]
    /\ mfaEnabled \in [Accounts -> BOOLEAN]
    /\ jwt \in [Tokens -> {"none", "live", "revoked"}]
    /\ does \in [AccountRequests -> Ops]
    /\ account \in [AccountRequests -> Accounts]
    /\ bearer \in [AccountRequests -> Tokens]
    /\ code \in [AccountRequests -> Secret]
    /\ stands \in [AccountRequests ->
                     {"new", "asked", "authorised", "checked"} \cup Ended]
    /\ overBefore \in [AccountRequests -> SUBSET AccountRequests]

(* Every account has a session and no second factor.                       *)
AccountsInit ==
    /\ removed = {} /\ inactive = {}
    /\ mfaSecret = [a \in Accounts |-> NoSecret]
    /\ mfaEnabled = [a \in Accounts |-> FALSE]
    /\ jwt = [t \in Tokens |-> IF t \in Accounts THEN "live" ELSE "none"]
    /\ does = [q \in AccountRequests |-> "login"]
    /\ account \in [AccountRequests -> Accounts]
    /\ bearer = [q \in AccountRequests |-> account[q]]
    /\ code = [q \in AccountRequests |-> NoSecret]
    /\ stands = [q \in AccountRequests |-> "new"]
    /\ overBefore = [q \in AccountRequests |-> {}]

Owner(t) == IF t \in Accounts THEN t ELSE account[t]

(* The secrets a client can know: setup answers with the one it drew.      *)
Told == {s \in AccountRequests : does[s] = "setup" /\ stands[s] = "answered"}

-----------------------------------------------------------------------------
Unchanged(q) == UNCHANGED <<does, account, bearer, code, overBefore>>
To(q, place) == stands' = [stands EXCEPT ![q] = place]

(* A request is sent: a login with or without a code, the others with a    *)
(* token that was answered; setup and verify are about its owner.          *)
Ask(q, op, a, t, s) ==
    /\ stands[q] = "new"
    /\ op # "login" => jwt[t] # "none"
    /\ op = "login" => t = a
    /\ op \in {"logout", "setup", "verify"} => a = Owner(t)
    /\ s \in Told \cup {NoSecret} /\ (op = "verify" => s # NoSecret)
    /\ op \notin {"login", "verify"} => s = NoSecret
    /\ does' = [does EXCEPT ![q] = op]
    /\ account' = [account EXCEPT ![q] = a]
    /\ bearer' = [bearer EXCEPT ![q] = t]
    /\ code' = [code EXCEPT ![q] = s]
    /\ overBefore' = [overBefore EXCEPT ![q] =
                        {p \in AccountRequests : stands[p] \in Ended}]
    /\ To(q, "asked")
    /\ UNCHANGED <<removed, inactive, mfaSecret, mfaEnabled, jwt>>

(* Mutant: a code is compared when there is one, and not asked for.        *)
CheckCodeIfGiven(q) ==
    /\ does[q] = "login" /\ stands[q] = "asked"
    /\ account[q] \notin removed \cup inactive
    /\ mfaEnabled[account[q]] => code[q] \in {NoSecret, mfaSecret[account[q]]}
    /\ To(q, "checked")
    /\ UNCHANGED <<removed, inactive, mfaSecret, mfaEnabled, jwt>> /\ Unchanged(q)

(* login: the row is selected, and password and code are compared with it. *)
CheckCredentials(q) ==
    /\ does[q] = "login" /\ stands[q] = "asked"
    /\ account[q] \notin removed \cup inactive
    /\ mfaEnabled[account[q]] => code[q] = mfaSecret[account[q]]
    /\ To(q, "checked")
    /\ UNCHANGED <<removed, inactive, mfaSecret, mfaEnabled, jwt>> /\ Unchanged(q)

(* The INSERT of the token; there must still be its user.                  *)
StoreToken(q) ==
    /\ does[q] = "login" /\ stands[q] = "checked" /\ account[q] \notin removed
    /\ jwt' = [jwt EXCEPT ![q] = "live"]
    /\ To(q, "answered")
    /\ UNCHANGED <<removed, inactive, mfaSecret, mfaEnabled>> /\ Unchanged(q)

(* logout asks for no live token: its UPDATE matches the row or none.      *)
RevokeToken(q) ==
    /\ does[q] = "logout" /\ stands[q] = "asked"
    /\ jwt' = [jwt EXCEPT ![bearer[q]] = IF @ = "live" THEN "revoked" ELSE @]
    /\ To(q, "answered")
    /\ UNCHANGED <<removed, inactive, mfaSecret, mfaEnabled>> /\ Unchanged(q)

(* get_user_from_token.                                                    *)
Authorise(q) ==
    /\ does[q] \notin {"login", "logout"} /\ stands[q] = "asked"
    /\ jwt[bearer[q]] = "live"
    /\ To(q, "authorised")
    /\ UNCHANGED <<removed, inactive, mfaSecret, mfaEnabled, jwt>> /\ Unchanged(q)

(* Mutant: a code for the secret that was set up last is not asked for.    *)
FindUserUnverified(q) ==
    /\ stands[q] = "authorised" /\ account[q] \notin removed
    /\ does[q] = "verify" => mfaSecret[account[q]] # NoSecret
    /\ To(q, "checked")
    /\ UNCHANGED <<removed, inactive, mfaSecret, mfaEnabled, jwt>> /\ Unchanged(q)

(* The row of the user is selected; verify compares its code with it.      *)
FindUser(q) ==
    /\ stands[q] = "authorised" /\ account[q] \notin removed
    /\ does[q] = "verify" =>
          /\ mfaSecret[account[q]] # NoSecret
          /\ code[q] = mfaSecret[account[q]]
    /\ To(q, "checked")
    /\ UNCHANGED <<removed, inactive, mfaSecret, mfaEnabled, jwt>> /\ Unchanged(q)

(* What follows is one UPDATE, which matches no row of a user who is gone. *)
Writes(q, op) == does[q] = op /\ stands[q] = "checked" /\ To(q, "answered")
Here(q, column, value) ==
    IF account[q] \in removed THEN column
    ELSE [column EXCEPT ![account[q]] = value]

(* mfa_setup: a new secret, not enabled until it is verified.              *)
SetUp(q) ==
    /\ Writes(q, "setup")
    /\ mfaSecret' = Here(q, mfaSecret, q)
    /\ mfaEnabled' = Here(q, mfaEnabled, FALSE)
    /\ UNCHANGED <<removed, inactive, jwt>> /\ Unchanged(q)

(* mfa_verify.                                                             *)
Enable(q) ==
    /\ Writes(q, "verify")
    /\ mfaEnabled' = Here(q, mfaEnabled, TRUE)
    /\ UNCHANGED <<removed, inactive, mfaSecret, jwt>> /\ Unchanged(q)

(* update_user, whose other columns are left out, reads the row again and  *)
(* raises when it is gone.                                                 *)
SetActive(q) ==
    /\ does[q] \in {"activate", "deactivate"} /\ stands[q] = "checked"
    /\ inactive' = IF account[q] \in removed THEN inactive
                   ELSE IF does[q] = "activate" THEN inactive \ {account[q]}
                   ELSE inactive \cup {account[q]}
    /\ To(q, IF account[q] \in removed THEN "failed" ELSE "answered")
    /\ UNCHANGED <<removed, mfaSecret, mfaEnabled, jwt>> /\ Unchanged(q)

(* change_password: the hash is left out.                                  *)
SetPassword(q) ==
    /\ Writes(q, "password")
    /\ UNCHANGED <<removed, inactive, mfaSecret, mfaEnabled, jwt>> /\ Unchanged(q)

(* delete_user: the tokens of the user go with the row.                    *)
RemoveUser(q) ==
    /\ Writes(q, "delete")
    /\ removed' = removed \cup {account[q]}
    /\ jwt' = [t \in Tokens |-> IF Owner(t) = account[q] THEN "none" ELSE jwt[t]]
    /\ UNCHANGED <<inactive, mfaSecret, mfaEnabled>> /\ Unchanged(q)

(* Every check may fail (400, 401, 404); a statement may raise, as the     *)
(* INSERT of the token of a user who is gone does (500).                   *)
TurnDown(q) ==
    /\ stands[q] \in {"asked", "authorised", "checked"}
    /\ \/ stands[q] # "checked" /\ To(q, "refused")
       \/ To(q, "failed")
    /\ UNCHANGED <<removed, inactive, mfaSecret, mfaEnabled, jwt>> /\ Unchanged(q)

AccountStep(q) ==
    \/ CheckCredentials(q) \/ StoreToken(q) \/ RevokeToken(q) \/ Authorise(q)
    \/ FindUser(q) \/ SetUp(q) \/ Enable(q) \/ SetActive(q) \/ SetPassword(q)
    \/ RemoveUser(q) \/ TurnDown(q)

AccountsNext == \E q \in AccountRequests :
    \/ \E op \in Ops, a \in Accounts, t \in Tokens, s \in Secret : Ask(q, op, a, t, s)
    \/ AccountStep(q)

AccountsSpec == AccountsInit /\ [][AccountsNext]_accountVars

-----------------------------------------------------------------------------
Overlap(p, q) == p \notin overBefore[q] /\ q \notin overBefore[p]

(* A second factor that is asked for is one its user has shown to have:    *)
(* mfa_verify compared a code with the very secret, unless that verify and *)
(* the setup that drew the secret were under way at the same time.         *)
EnabledWasVerified ==
    \A a \in Accounts : mfaEnabled[a] =>
        \E v \in AccountRequests :
            /\ does[v] = "verify" /\ account[v] = a /\ stands[v] = "answered"
            /\ code[v] = mfaSecret[a] \/ Overlap(v, mfaSecret[a])

(* Once a verify was answered, and unless the factor has been set up again *)
(* since it began, every login that succeeds has brought a code of it.     *)
LoginNeedsCode ==
    \A l, v \in AccountRequests :
        /\ does[l] = "login" /\ stands[l] = "answered"
        /\ does[v] = "verify" /\ stands[v] = "answered" /\ v \in overBefore[l]
        /\ account[v] = account[l]
        /\ \A s \in AccountRequests : does[s] = "setup" /\ account[s] = account[v]
                => stands[s] = "new" \/ s \in overBefore[v]
        => code[l] = code[v]

(* A token that was signed out, or whose user was deleted, opens nothing   *)
(* that was asked for afterwards; a login that overlaps the deletion of    *)
(* its user stores none.                                                   *)
SignedOutStaysOut ==
    \A q, e \in AccountRequests :
        /\ does[q] \notin {"login", "logout"} /\ stands[q] \in {"authorised", "checked", "answered"}
        /\ stands[e] = "answered" /\ e \in overBefore[q]
        => /\ does[e] = "logout" => bearer[e] # bearer[q]
           /\ does[e] = "delete" => account[e] # Owner(bearer[q])
=============================================================================
