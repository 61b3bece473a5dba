--------------------------- MODULE ContainerClient --------------------------
(***************************************************************************)
(* A round of tests of the container client (containerClient/client.py):   *)
(* run_all_tests gathers one loop for each protocol, and each loop uploads *)
(* a result before it makes its next test.  The loops share the tokens of  *)
(* the configuration; a lock is held around the first login only.          *)
(*                                                                         *)
(* The loops are coroutines of one event loop: what runs between two       *)
(* awaits is one step, and so is the store of a new access token with the  *)
(* header built from it.  A token is named by its place in the order in    *)
(* which the manager issued tokens, 0 when there is none; a login issues   *)
(* two under one name.  What a test measures, and what the manager does    *)
(* with a result, are left out.                                            *)
(***************************************************************************)
EXTENDS Naturals

CONSTANTS
    Loops,         \* the protocols that are enabled and have targets
    Endless,       \* those whose tests may never end: ICMP, see Probes
    LoopTargets,   \* the number of targets of each
    MaxTokens,     \* bound on the tokens the manager issues
    NoLoop         \* nobody holds the lock

ASSUME ContainerAssumption ==
    /\ Endless \subseteq Loops /\ NoLoop \notin Loops
    /\ MaxTokens \in Nat \ {0} /\ LoopTargets \in [Loops -> Nat \ {0}]

VARIABLES
    at,               \* where each loop is
    tested,           \* the number of targets it is done with
    hasPassword,      \* auth_user and auth_pass are set
    access, refresh,  \* the tokens of the configuration
    tokenLock,        \* the loop that holds _token_lock
    issued,           \* the manager: the last token there is
    response,            \* the token in the answer to a loop's request, or 0
    upload            \* of each loop's call of _upload_result: the token in
                      \* the header of its request; and, history, the last
                      \* token issued before the call, and whether one was
                      \* issued to it

containerVars == <<at, tested, hasPassword, access, refresh, tokenLock,
                   issued, response, upload>>

(* Awaiting its test; _token_lock; the answer to the login that holds it,  *)
(* to the refresh, to the login after that, to the upload; gather.         *)
LoopPlaces == {"test", "lock", "login", "refresh", "relogin", "upload", "done"}

NoUpload == [token |-> 0, began |-> 0, renewed |-> FALSE]

ContainerTypeOK ==
    /\ at \in [Loops -> LoopPlaces]
    /\ tested \in [Loops -> Nat] /\ hasPassword \in BOOLEAN
    /\ issued \in 1..MaxTokens /\ access \in 0..issued /\ refresh \in 0..issued
    /\ tokenLock \in Loops \cup {NoLoop} /\ response \in [Loops -> 0..issued]
    /\ upload \in [Loops -> [token : 0..issued, began : 0..issued, renewed : BOOLEAN]]

(* Tokens and password may be set in the environment, in any combination.  *)
ContainerInit ==
    /\ at = [l \in Loops |-> "test"] /\ tested = [l \in Loops |-> 0]
    /\ hasPassword \in BOOLEAN /\ issued = 1
    /\ access \in {0, 1} /\ refresh \in {0, 1} /\ tokenLock = NoLoop
    /\ response = [l \in Loops |-> 0] /\ upload = [l \in Loops |-> NoUpload]

-----------------------------------------------------------------------------
(* What happens between the awaits.                                        *)

Go(l, place) == at' = [at EXCEPT ![l] = place]

(* The upload, if there was one, is over.                                  *)
NextTarget(l) ==
    /\ tested' = [tested EXCEPT ![l] = @ + 1]
    /\ upload' = [upload EXCEPT ![l] = NoUpload]
    /\ Go(l, IF tested[l] + 1 = LoopTargets[l] THEN "done" ELSE "test")

(* Mutant: the headers are built before the token is refreshed.            *)
PostOld(l, token, new) ==
    /\ Go(l, "upload") /\ upload' = [upload EXCEPT ![l].token = access, ![l].renewed = new]

(* _get_auth_headers and the request of _upload_result.                    *)
Post(l, token, new) ==
    /\ Go(l, "upload") /\ upload' = [upload EXCEPT ![l].token = token, ![l].renewed = new]

(* The rest of _refresh_token where there is no refresh token, or no new   *)
(* access token for it: _login, which without a password returns at once.  *)
LoginAgain(l) ==
    IF hasPassword THEN Go(l, "relogin") /\ UNCHANGED upload
    ELSE Post(l, access, upload[l].renewed)

-----------------------------------------------------------------------------
(* A test ends, with a result to upload or with an exception.              *)
LoopTestDone(l) ==
    /\ at[l] = "test"
    /\ \/ /\ Go(l, "lock") /\ upload' = [upload EXCEPT ![l].began = issued]
          /\ UNCHANGED tested
       \/ NextTarget(l)
    /\ UNCHANGED <<hasPassword, access, refresh, tokenLock, issued, response>>

(* _ensure_authenticated: under the lock the token is looked at, and a     *)
(* login awaited when there is none.  When there is one it is refreshed.   *)
EnsureAuthenticated(l) ==
    /\ at[l] = "lock" /\ tokenLock = NoLoop
    /\ \/ /\ access # 0 /\ UNCHANGED <<tested, tokenLock>>
          /\ IF refresh # 0 THEN Go(l, "refresh") /\ UNCHANGED upload ELSE LoginAgain(l)
       \/ /\ access = 0 /\ hasPassword /\ Go(l, "login")
          /\ tokenLock' = l /\ UNCHANGED <<tested, upload>>
       \/ access = 0 /\ ~hasPassword /\ NextTarget(l) /\ UNCHANGED tokenLock
    /\ UNCHANGED <<hasPassword, access, refresh, issued, response>>

(* The manager logs the user in, or issues a new access token.             *)
Issue(l) ==
    /\ at[l] \in {"login", "refresh", "relogin"} /\ response[l] = 0 /\ issued < MaxTokens
    /\ issued' = issued + 1 /\ response' = [response EXCEPT ![l] = issued + 1]
    /\ UNCHANGED <<at, tested, hasPassword, access, refresh, tokenLock, upload>>

(* The answer arrives.  The first login is followed by the refresh of the  *)
(* token it brought, and both others by the upload.                        *)
Answered(l) ==
    /\ response[l] # 0
    /\ access' = response[l] /\ response' = [response EXCEPT ![l] = 0]
    /\ \/ /\ at[l] = "login" /\ refresh' = response[l] /\ tokenLock' = NoLoop
          /\ Go(l, "refresh") /\ upload' = [upload EXCEPT ![l].renewed = TRUE]
       \/ /\ at[l] = "refresh" /\ Post(l, response[l], TRUE)
          /\ UNCHANGED <<refresh, tokenLock>>
       \/ /\ at[l] = "relogin" /\ refresh' = response[l] /\ Post(l, response[l], TRUE)
          /\ UNCHANGED tokenLock
    /\ UNCHANGED <<tested, hasPassword, issued>>

(* Mutant: the lock stays with a loop whose login failed.                  *)
LoginKeepsLock(l) == at[l] = "login" /\ NextTarget(l) /\ UNCHANGED tokenLock

LoginRefused(l) == at[l] = "login" /\ NextTarget(l) /\ tokenLock' = NoLoop

(* The request is refused, or its answer is lost or comes too late.        *)
(* Without the first login there is no upload; without a new token there   *)
(* is one, with the token there is.                                        *)
Refused(l) ==
    /\ \/ LoginRefused(l)
       \/ at[l] = "refresh" /\ LoginAgain(l) /\ UNCHANGED <<tested, tokenLock>>
       \/ /\ at[l] = "relogin" /\ Post(l, access, upload[l].renewed)
          /\ UNCHANGED <<tested, tokenLock>>
    /\ response' = [response EXCEPT ![l] = 0]
    /\ UNCHANGED <<hasPassword, access, refresh, issued>>

(* The upload is answered, or not in time; it is not repeated.             *)
UploadOver(l) ==
    /\ at[l] = "upload" /\ NextTarget(l)
    /\ UNCHANGED <<hasPassword, access, refresh, tokenLock, issued, response>>

(* All loops have returned to gather; the scheduler sleeps and calls       *)
(* run_all_tests again.                                                    *)
NextRound ==
    /\ \A l \in Loops : at[l] = "done"
    /\ at' = [l \in Loops |-> "test"] /\ tested' = [l \in Loops |-> 0]
    /\ UNCHANGED <<hasPassword, access, refresh, tokenLock, issued, response, upload>>

LoopStep(l) ==
    EnsureAuthenticated(l) \/ Answered(l) \/ Refused(l) \/ UploadOver(l)

ContainerNext ==
    NextRound \/ \E l \in Loops : LoopTestDone(l) \/ LoopStep(l) \/ Issue(l)

ContainerSpec == ContainerInit /\ [][ContainerNext]_containerVars

-----------------------------------------------------------------------------
(* Whichever loops log in, refresh and overwrite each other's tokens in    *)
(* the meantime, an upload carries a token, and one that was issued after  *)
(* its result was measured unless no request of its own was answered.      *)
UploadIsFresh ==
    \A l \in Loops : at[l] = "upload" =>
        /\ upload[l].token # 0
        /\ upload[l].renewed => upload[l].token > upload[l].began

(* A loop that has a result to upload gets through its targets, though     *)
(* other loops log in before it and a test of theirs does not end.         *)
LoopsReturn == \A l \in Loops \ Endless : at[l] = "lock" ~> at[l] = "done"
=============================================================================
