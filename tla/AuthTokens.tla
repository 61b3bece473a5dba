----------------------------- MODULE AuthTokens -----------------------------
(***************************************************************************)
(* Sessions and passwords of the unified API: AuthService                  *)
(* (services/unified-api/services/auth_service.py) behind the routes of    *)
(* routes/auth.py.                                                         *)
(*                                                                         *)
(* One action per database statement: between two, an await lets any other *)
(* request run, in this worker or in another.  A statement may raise; the  *)
(* request is then answered with an error, except where the code ignores   *)
(* it.  The tables are users (password_hash), refresh_tokens (is_revoked)  *)
(* and password_reset_tokens (is_used).                                    *)
(*                                                                         *)
(* A row of a token is named by the request that inserted it, and a token  *)
(* by the first row that holds it: a JWT is made of the user, the type and *)
(* the second, so that requests of one second store the same token in rows *)
(* of their own.  A password is named by the request that set it: every    *)
(* new password is one the user never had.  Expiry and every other refusal *)
(* are Fail.  MFA and is_active, which no registered route clears, are     *)
(* left out.                                                               *)
(***************************************************************************)
EXTENDS Naturals

CONSTANTS
    Requests,   \* the calls of the routes (bounds how many are made)
    Users,
    Initial     \* the password every account starts with

ASSUME AuthAssumption == Initial \notin Requests

VARIABLES
    password,       \* users.password_hash
    refreshToken,   \* refresh_tokens, by the login that inserted the row
    resetToken,     \* password_reset_tokens, by the request that inserted it
    token,          \* the token in the row a request inserted
    op,             \* which route each request calls
    user,           \* the user it is about
    arg,            \* the password or the token it presents
    row,            \* the row of the reset token it has found
    pc,             \* its next statement
    answer          \* how it was answered

(* What clients can observe of the order of requests, and the order of     *)
(* passwords: no code reads these.                                         *)
VARIABLES
    before,     \* the requests answered when a request was made
    older,      \* the passwords a password has replaced
    skipped     \* the requests whose revocation failed unnoticed

tables  == <<password, refreshToken, resetToken, token>>
history == <<before, older, skipped>>
request == <<op, user, arg, row>>
vars    == <<tables, request, pc, answer, history>>

Passwords == Requests \cup {Initial}

Ops == {"none", "login", "refresh", "logout", "forgot", "reset", "change"}
Setters  == {"reset", "change"}
Revokers == Setters \cup {"logout"}

TypeOK ==
    /\ password \in [Users -> Passwords]
    /\ refreshToken \in [Requests -> {"none", "live", "revoked"}]
    /\ resetToken \in [Requests -> {"none", "fresh", "used"}]
    /\ token \in [Requests -> Requests]
    /\ op \in [Requests -> Ops]
    /\ user \in [Requests -> Users]
    /\ arg \in [Requests -> Passwords]
    /\ row \in [Requests -> Requests]
    /\ pc \in [Requests -> {"idle", "select", "store", "write", "mark",
                            "revoke", "answer", "done"}]
    /\ answer \in [Requests -> {"none", "ok", "failed"}]
    /\ before \in [Requests -> SUBSET Requests]
    /\ older \in [Passwords -> SUBSET Passwords]
    /\ skipped \subseteq Requests
    /\ \A q \in Requests : refreshToken[q] # "none" => op[q] = "login"
    /\ \A q \in Requests : resetToken[q] # "none" => op[q] = "forgot"

(* The user of a request not yet made does not matter.                     *)
Init ==
    /\ password = [u \in Users |-> Initial]
    /\ refreshToken = [q \in Requests |-> "none"]
    /\ resetToken = [q \in Requests |-> "none"]
    /\ token = [q \in Requests |-> q] /\ row = [q \in Requests |-> q]
    /\ op = [q \in Requests |-> "none"]
    /\ \E u \in Users : user = [q \in Requests |-> u]
    /\ arg = [q \in Requests |-> Initial]
    /\ pc = [q \in Requests |-> "idle"]
    /\ answer = [q \in Requests |-> "none"]
    /\ before = [q \in Requests |-> {}]
    /\ older = [p \in Passwords |-> {}]
    /\ skipped = {}

-----------------------------------------------------------------------------
(* The requests.                                                           *)

Answered == {q \in Requests : answer[q] # "none"}

Begin(q, o, u, a, first) ==
    /\ pc[q] = "idle"
    /\ op' = [op EXCEPT ![q] = o]
    /\ user' = [user EXCEPT ![q] = u]
    /\ arg' = [arg EXCEPT ![q] = a]
    /\ pc' = [pc EXCEPT ![q] = first]
    /\ before' = [before EXCEPT ![q] = Answered]
    /\ UNCHANGED <<tables, row, answer, older, skipped>>

(* The passwords somebody may give for a user.                             *)
Known(u) ==
    {Initial} \cup {c \in Requests : op[c] \in Setters /\ user[c] = u}

(* _verify_token: the caller has an access token, which is not looked up   *)
(* anywhere.                                                               *)
Authenticated(u) ==
    \E l \in Requests : op[l] = "login" /\ user[l] = u /\ answer[l] = "ok"

BeginLogin(q)  == \E u \in Users : \E p \in Known(u) :
                      Begin(q, "login", u, p, "select")
BeginRefresh(q) == \E l \in Requests :
                      /\ op[l] = "login" /\ answer[l] = "ok"
                      /\ Begin(q, "refresh", user[l], token[l], "select")
BeginLogout(q) == \E u \in Users :
                      Authenticated(u) /\ Begin(q, "logout", u, Initial, "revoke")
BeginForgot(q) == \E u \in Users : Begin(q, "forgot", u, Initial, "store")
BeginReset(q)  == \E k \in Requests :
                      /\ resetToken[k] # "none"
                      /\ Begin(q, "reset", user[k], token[k], "select")
BeginChange(q) == \E u \in Users : \E p \in Known(u) :
                      Authenticated(u) /\ Begin(q, "change", u, p, "select")

Call(q) ==
    \/ BeginLogin(q) \/ BeginRefresh(q) \/ BeginLogout(q)
    \/ BeginForgot(q) \/ BeginReset(q) \/ BeginChange(q)

-----------------------------------------------------------------------------
(* The statements.                                                         *)

GoTo(q, next) ==
    /\ pc' = [pc EXCEPT ![q] = next]
    /\ UNCHANGED <<request, answer, before>>

Reply(q, a) ==
    /\ pc' = [pc EXCEPT ![q] = "done"]
    /\ answer' = [answer EXCEPT ![q] = a]
    /\ UNCHANGED <<request, history, tables>>

(* A statement raises, the token has expired, or the worker is gone.       *)
Fail(q) == pc[q] \notin {"idle", "done"} /\ Reply(q, "failed")

(* Mutant: a password hash from before is as good.                         *)
VerifiedStale(q) == arg[q] \in older[password[user[q]]] \cup {password[user[q]]}

(* _verify_password against the row just read.                             *)
Verified(q) == arg[q] = password[user[q]]

(* SELECT the user, compare the hash.                                      *)
CheckPassword(q, next) ==
    /\ pc[q] = "select"
    /\ IF Verified(q)
         THEN GoTo(q, next) /\ UNCHANGED <<tables, older, skipped>>
         ELSE Reply(q, "failed")

(* authenticate.                                                           *)
CheckLogin(q) == op[q] = "login" /\ CheckPassword(q, "store")

(* change_password.                                                        *)
CheckCurrent(q) == op[q] = "change" /\ CheckPassword(q, "write")

Stored(q) == refreshToken[q] # "none" \/ resetToken[q] # "none"

(* _generate_jwt: a token of its own, or one that was made for its user,   *)
(* for the same purpose, in the same second.                               *)
Generate(q) ==
    \E v \in {q} \cup {token[k] : k \in {k \in Requests :
                          Stored(k) /\ op[k] = op[q] /\ user[k] = user[q]}} :
        token' = [token EXCEPT ![q] = v]

(* authenticate: INSERT the refresh token.                                 *)
StoreRefresh(q) ==
    /\ op[q] = "login" /\ pc[q] = "store"
    /\ Generate(q)
    /\ refreshToken' = [refreshToken EXCEPT ![q] = "live"]
    /\ GoTo(q, "answer")
    /\ UNCHANGED <<password, resetToken, older, skipped>>

(* Mutant: is_revoked is not looked at.                                    *)
CheckRefreshAny(q) ==
    /\ op[q] = "refresh" /\ pc[q] = "select"
    /\ IF \E l \in Requests : token[l] = arg[q] /\ refreshToken[l] # "none"
         THEN GoTo(q, "answer") /\ UNCHANGED <<tables, older, skipped>>
         ELSE Reply(q, "failed")

(* refresh_access_token: SELECT the token where it is not revoked.         *)
CheckRefresh(q) ==
    /\ op[q] = "refresh" /\ pc[q] = "select"
    /\ IF \E l \in Requests : token[l] = arg[q] /\ refreshToken[l] = "live"
         THEN GoTo(q, "answer") /\ UNCHANGED <<tables, older, skipped>>
         ELSE Reply(q, "failed")

(* send_password_reset_email: INSERT the reset token of a user it found.   *)
(* Nothing is sent: whoever is given the token may present it.             *)
StoreReset(q) ==
    /\ op[q] = "forgot" /\ pc[q] = "store"
    /\ Generate(q)
    /\ resetToken' = [resetToken EXCEPT ![q] = "fresh"]
    /\ GoTo(q, "answer")
    /\ UNCHANGED <<password, refreshToken, older, skipped>>

FindReset(q, states) ==
    /\ op[q] = "reset" /\ pc[q] = "select"
    /\ \/ \E k \in Requests :
             /\ token[k] = arg[q] /\ resetToken[k] \in states
             /\ row' = [row EXCEPT ![q] = k]
             /\ pc' = [pc EXCEPT ![q] = "write"]
             /\ UNCHANGED <<tables, op, user, arg, answer, history>>
       \/ /\ \A k \in Requests : token[k] = arg[q] => resetToken[k] \notin states
          /\ Reply(q, "failed")

(* Mutant: is_used is not looked at.                                       *)
CheckResetAny(q) == FindReset(q, {"fresh", "used"})

(* reset_password: SELECT a row of the token that is not used.             *)
CheckReset(q) == FindReset(q, {"fresh"})

(* UPDATE the hash, whatever it is now.                                    *)
SetPassword(q, next) ==
    /\ pc[q] = "write"
    /\ LET old == password[user[q]]
       IN  older' = [older EXCEPT ![q] = older[old] \cup {old}]
    /\ password' = [password EXCEPT ![user[q]] = q]
    /\ GoTo(q, next)
    /\ UNCHANGED <<refreshToken, resetToken, token, skipped>>

(* reset_password, for the user the token names.                           *)
ResetPassword(q) == op[q] = "reset" /\ SetPassword(q, "mark")

(* change_password.                                                        *)
ChangePassword(q) == op[q] = "change" /\ SetPassword(q, "revoke")

(* reset_password: UPDATE the row that was found.                          *)
Mark(q) ==
    /\ op[q] = "reset" /\ pc[q] = "mark"
    /\ resetToken' = [resetToken EXCEPT ![row[q]] = "used"]
    /\ GoTo(q, "revoke")
    /\ UNCHANGED <<password, refreshToken, token, older, skipped>>

(* revoke_tokens: UPDATE all refresh tokens of the user.                   *)
Revoke(q) ==
    /\ pc[q] = "revoke"
    /\ refreshToken' = [l \in Requests |->
          IF refreshToken[l] = "live" /\ user[l] = user[q]
          THEN "revoked" ELSE refreshToken[l]]
    /\ GoTo(q, "answer")
    /\ UNCHANGED <<password, resetToken, token, older, skipped>>

(* revoke_tokens catches what its UPDATE raises and returns an error, which *)
(* the logout route reports (Fail) and the other two do not look at.       *)
RevokeIgnored(q) ==
    /\ op[q] \in Setters /\ pc[q] = "revoke"
    /\ skipped' = skipped \cup {q}
    /\ GoTo(q, "answer")
    /\ UNCHANGED <<tables, older>>

Succeed(q) == pc[q] = "answer" /\ Reply(q, "ok")

Serve(q) ==
    \/ CheckLogin(q) \/ StoreRefresh(q) \/ CheckRefresh(q)
    \/ StoreReset(q) \/ CheckReset(q) \/ ResetPassword(q) \/ Mark(q)
    \/ CheckCurrent(q) \/ ChangePassword(q)
    \/ Revoke(q) \/ RevokeIgnored(q) \/ Succeed(q)

Next == \E q \in Requests : Call(q) \/ Serve(q) \/ Fail(q)

Spec == Init /\ [][Next]_vars

-----------------------------------------------------------------------------
Did(q, ops) == op[q] \in ops /\ answer[q] = "ok"

(* A session that was open when its user logged out, or changed or reset   *)
(* the password, is over once that was answered: its refresh token is      *)
(* refused from then on, unless the UPDATE of the revocation failed.  A    *)
(* token that is honoured was stored by a login that was not answered yet: *)
(* one that had verified the old password and had not stored its token, or *)
(* one of the same second that was given the same token again.             *)
RevocationHolds ==
    \A r, c \in Requests :
        /\ Did(r, {"refresh"}) /\ Did(c, Revokers)
        /\ user[c] = user[r] /\ c \in before[r] /\ c \notin skipped
        => \E l \in Requests :
              op[l] = "login" /\ Stored(l) /\ token[l] = arg[r] /\ l \notin before[c]

(* "Reset token is invalid or already used": a reset that is answered with *)
(* success uses up one row of its token, and none that follows the answer  *)
(* finds it again: a token sets a password once for each time that         *)
(* forgot-password stored it, but for resets that overlap.                 *)
ResetTokenOnce ==
    \A q, r \in Requests :
        Did(q, {"reset"}) /\ Did(r, {"reset"}) /\ q \in before[r]
            => /\ row[q] # row[r] /\ Stored(row[r]) /\ token[row[r]] = arg[r]

(* Nobody is logged out but by a request about himself, and not by one     *)
(* that was over when he logged in.                                        *)
RevokedForAReason ==
    \A l \in Requests : refreshToken[l] = "revoked" =>
        \E c \in Requests :
            /\ op[c] \in Revokers /\ user[c] = user[l]
            /\ pc[c] \in {"answer", "done"} /\ c \notin before[l]

(* A password that had been replaced when a change or a reset was answered *)
(* opens no session afterwards.                                            *)
OldPasswordRefused ==
    \A l, c \in Requests :
        /\ Did(l, {"login"}) /\ Did(c, Setters)
        /\ user[c] = user[l] /\ c \in before[l]
        => arg[l] \notin older[c]
=============================================================================
