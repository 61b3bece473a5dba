-------------------------- MODULE AuthTokensProofs --------------------------
(***************************************************************************)
(* Proofs about AuthTokens for any sets of requests and users: its type    *)
(* invariant, that revoked sessions stay over, that a reset token works    *)
(* once for each time it was stored, that nobody is logged out without a   *)
(* reason and that old passwords are refused.                              *)
(***************************************************************************)
EXTENDS AuthTokens, TLAPS

(* The request has got what it asked for.                                  *)
Passed(q) == pc[q] = "answer" \/ answer[q] = "ok"

(* A reset that has found a row of its token.                              *)
Found(q) == op[q] = "reset" /\ (pc[q] \in {"write", "mark", "revoke"} \/ Passed(q))

(* Where a request is, and what it has stored.                             *)
RequestInv ==
    \A q \in Requests :
        /\ pc[q] = "idle" <=> op[q] = "none"
        /\ pc[q] = "select" => op[q] \in {"login", "refresh", "reset", "change"}
        /\ pc[q] = "store" => op[q] \in {"login", "forgot"}
        /\ pc[q] = "write" => op[q] \in Setters
        /\ pc[q] = "mark" => op[q] = "reset"
        /\ pc[q] = "revoke" => op[q] \in Revokers
        /\ answer[q] # "none" <=> pc[q] = "done"
        /\ \A x \in before[q] : answer[x] # "none"
        /\ refreshToken[q] # "none" \/ resetToken[q] # "none" =>
              pc[q] \in {"answer", "done"}
        /\ op[q] = "login" /\ Passed(q) => refreshToken[q] # "none"

(* A token names a row of its user and purpose; a refresh presents one     *)
(* that was stored for its user, a reset has found a row of the one it     *)
(* presents.                                                               *)
TokenInv ==
    \A q \in Requests :
        /\ Stored(q) => /\ Stored(token[q]) /\ op[token[q]] = op[q]
                        /\ user[token[q]] = user[q]
        /\ op[q] = "refresh" => /\ arg[q] \in Requests
                                /\ refreshToken[arg[q]] # "none"
                                /\ user[arg[q]] = user[q]
        /\ Found(q) => resetToken[row[q]] # "none" /\ token[row[q]] = arg[q]

(* After a revocation no session opened before it is live; and a refresh   *)
(* that saw its token live saw it in the row of a later login.             *)
RevokeInv ==
    \A c \in Requests : op[c] \in Revokers /\ Passed(c) /\ c \notin skipped =>
        \A l \in before[c] : user[l] = user[c] => refreshToken[l] # "live"

HonourInv ==
    \A r, c \in Requests :
        /\ op[r] = "refresh" /\ Passed(r) /\ Did(c, Revokers)
        /\ user[c] = user[r] /\ c \in before[r] /\ c \notin skipped
        => \E l \in Requests :
              op[l] = "login" /\ Stored(l) /\ token[l] = arg[r] /\ l \notin before[c]

(* A reset marks the row it found before it is answered.                   *)
MarkInv ==
    \A q \in Requests :
        op[q] = "reset" /\ (pc[q] = "revoke" \/ Passed(q))
            => resetToken[row[q]] = "used"

OnceInv ==
    \A q, r \in Requests :
        Did(q, {"reset"}) /\ Found(r) /\ q \in before[r] => row[q] # row[r]

(* The passwords of a user form a chain that ends in the current one.      *)
Set(p) == p = Initial \/ pc[p] \in {"mark", "revoke", "answer", "done"}

ChainInv ==
    /\ \A u \in Users : Set(password[u]) /\ password[u] \notin older[password[u]]
    /\ \A p \in Passwords : \A x \in older[p] : Set(x)
    /\ \A c \in Requests :
          op[c] \in Setters /\ (pc[c] \in {"mark", "revoke"} \/ Passed(c)) =>
             LET p == password[user[c]]
             IN  (c = p \/ c \in older[p]) /\ older[c] \subseteq older[p]

LoginInv ==
    \A l, c \in Requests :
        /\ op[l] = "login" /\ (pc[l] = "store" \/ Passed(l))
        /\ Did(c, Setters) /\ user[c] = user[l] /\ c \in before[l]
        => arg[l] \notin older[c]

IInv ==
    /\ TypeOK /\ RequestInv /\ TokenInv /\ RevokeInv /\ HonourInv
    /\ MarkInv /\ OnceInv /\ ChainInv /\ LoginInv /\ RevokedForAReason

-----------------------------------------------------------------------------
(* A request begins: which route, for whom, with what.                     *)
Made(q, o, u, a, first) ==
    /\ Begin(q, o, u, a, first)
    /\ \/ o \in {"login", "refresh", "reset", "change"} /\ first = "select"
       \/ o = "logout" /\ first = "revoke"
       \/ o = "forgot" /\ first = "store"
    /\ o = "refresh" =>
          /\ a \in Requests /\ refreshToken[a] # "none" /\ user[a] = u

(* Each route begins a request as Made describes it.                        *)
LEMMA CallMade ==
    ASSUME TypeOK, RequestInv, TokenInv, NEW q \in Requests, Call(q)
    PROVE  \E o \in Ops, u \in Users, a \in Passwords,
              first \in {"select", "store", "revoke"} :
              Made(q, o, u, a, first)
<1>1. CASE BeginLogin(q)
    <2>0. PICK u \in Users : \E p \in Known(u) : Begin(q, "login", u, p, "select")
        BY <1>1 DEF BeginLogin
    <2>1. PICK p \in Known(u) : Begin(q, "login", u, p, "select")
        BY <2>0
    <2>2. p \in Passwords
        BY DEF Known, Passwords
    <2>3. Made(q, "login", u, p, "select")
        BY <2>1 DEF Made
    <2> QED BY <2>2, <2>3 DEF Ops
<1>2. CASE BeginRefresh(q)
    <2>1. PICK l \in Requests : /\ op[l] = "login" /\ answer[l] = "ok"
                               /\ Begin(q, "refresh", user[l], token[l], "select")
        BY <1>2 DEF BeginRefresh
    <2>2. user[l] \in Users /\ token[l] \in Requests /\ token[l] \in Passwords
        BY DEF TypeOK, Passwords
    <2>3. refreshToken[token[l]] # "none" /\ user[token[l]] = user[l]
        <3>1. Stored(token[l]) /\ op[token[l]] = "login" /\ user[token[l]] = user[l]
            BY <2>1 DEF RequestInv, TokenInv, Stored, Passed
        <3> QED BY <2>2, <3>1 DEF Stored, TypeOK
    <2>4. Made(q, "refresh", user[l], token[l], "select")
        BY <2>1, <2>2, <2>3 DEF Made
    <2> QED BY <2>2, <2>4 DEF Ops
<1>3. CASE BeginLogout(q)
    <2>1. PICK u \in Users : Begin(q, "logout", u, Initial, "revoke")
        BY <1>3 DEF BeginLogout
    <2>2. Made(q, "logout", u, Initial, "revoke")
        BY <2>1 DEF Made
    <2> QED BY <2>2 DEF Ops, Passwords
<1>4. CASE BeginForgot(q)
    <2>1. PICK u \in Users : Begin(q, "forgot", u, Initial, "store")
        BY <1>4 DEF BeginForgot
    <2>2. Made(q, "forgot", u, Initial, "store")
        BY <2>1 DEF Made
    <2> QED BY <2>2 DEF Ops, Passwords
<1>5. CASE BeginReset(q)
    <2>1. PICK k \in Requests : /\ resetToken[k] # "none"
                               /\ Begin(q, "reset", user[k], token[k], "select")
        BY <1>5 DEF BeginReset
    <2>2. user[k] \in Users /\ token[k] \in Passwords
        BY DEF TypeOK, Passwords
    <2>3. Made(q, "reset", user[k], token[k], "select")
        BY <2>1 DEF Made
    <2> QED BY <2>2, <2>3 DEF Ops
<1>6. CASE BeginChange(q)
    <2>0. PICK u \in Users : \E p \in Known(u) : Begin(q, "change", u, p, "select")
        BY <1>6 DEF BeginChange
    <2>1. PICK p \in Known(u) : Begin(q, "change", u, p, "select")
        BY <2>0
    <2>2. p \in Passwords
        BY DEF Known, Passwords
    <2>3. Made(q, "change", u, p, "select")
        BY <2>1 DEF Made
    <2> QED BY <2>2, <2>3 DEF Ops
<1> QED BY <1>1, <1>2, <1>3, <1>4, <1>5, <1>6 DEF Call

(* The checks that pass; those that do not are failures like any other.    *)
PassLogin(q) ==
    /\ op[q] = "login" /\ pc[q] = "select" /\ Verified(q) /\ GoTo(q, "store")
    /\ UNCHANGED <<tables, older, skipped>>

PassCurrent(q) ==
    /\ op[q] = "change" /\ pc[q] = "select" /\ GoTo(q, "write")
    /\ UNCHANGED <<tables, older, skipped>>

PassRefresh(q) ==
    /\ op[q] = "refresh" /\ pc[q] = "select" /\ GoTo(q, "answer")
    /\ \E l \in Requests : token[l] = arg[q] /\ refreshToken[l] = "live"
    /\ UNCHANGED <<tables, older, skipped>>

FindRow(q) ==
    /\ op[q] = "reset" /\ pc[q] = "select" /\ pc' = [pc EXCEPT ![q] = "write"]
    /\ \E k \in Requests : /\ token[k] = arg[q] /\ resetToken[k] = "fresh"
                           /\ row' = [row EXCEPT ![q] = k]
    /\ UNCHANGED <<tables, op, user, arg, answer, history>>

(* The steps of a request.                                                 *)
Steps(q) ==
    \/ \E o \in Ops, u \in Users, a \in Passwords,
          first \in {"select", "store", "revoke"} :
          Made(q, o, u, a, first)
    \/ PassLogin(q) \/ StoreRefresh(q) \/ PassRefresh(q) \/ StoreReset(q) \/ FindRow(q)
    \/ ResetPassword(q) \/ Mark(q) \/ PassCurrent(q) \/ ChangePassword(q)
    \/ Revoke(q) \/ RevokeIgnored(q) \/ Succeed(q) \/ Fail(q)

(* Every step is one of these.                                             *)
LEMMA NextSteps ==
    ASSUME TypeOK, RequestInv, TokenInv, Next
    PROVE  \E q \in Requests : Steps(q)
<1>1. PICK q \in Requests : Call(q) \/ Serve(q) \/ Fail(q)
    BY DEF Next
<1>2. CASE Call(q)
    BY <1>2, CallMade DEF Steps
<1>3. CASE CheckLogin(q)
    BY <1>3 DEF CheckLogin, CheckPassword, PassLogin, Fail, Steps
<1>4. CASE CheckCurrent(q)
    BY <1>4 DEF CheckCurrent, CheckPassword, PassCurrent, Fail, Steps
<1>5. CASE CheckRefresh(q)
    BY <1>5 DEF CheckRefresh, PassRefresh, Fail, Steps
<1>6. CASE CheckReset(q)
    BY <1>6 DEF CheckReset, FindReset, FindRow, Fail, Steps
<1> QED BY <1>1, <1>2, <1>3, <1>4, <1>5, <1>6 DEF Steps, Serve

-----------------------------------------------------------------------------
(* The initial state is well typed.                                        *)
LEMMA TypeInit == Init => TypeOK
BY DEF Init, TypeOK, Passwords, Ops

(* Every step keeps the types, given what is known of the requests.        *)
LEMMA TypeNext == TypeOK /\ RequestInv /\ TokenInv /\ [Next]_vars => TypeOK'
<1> SUFFICES ASSUME TypeOK, RequestInv, TokenInv, [Next]_vars PROVE TypeOK'
    OBVIOUS
<1> USE DEF TypeOK, tables, request, history
<1>1. ASSUME NEW q \in Requests, NEW o \in Ops, NEW u \in Users,
             NEW a \in Passwords, NEW first \in {"select", "store", "revoke"},
             Made(q, o, u, a, first)
      PROVE  TypeOK'
    BY <1>1 DEF Made, Begin, Answered, RequestInv
<1>2. ASSUME NEW q \in Requests, PassLogin(q)
      PROVE  TypeOK'
    BY <1>2 DEF PassLogin, GoTo, Reply, RequestInv
<1>3. ASSUME NEW q \in Requests, StoreRefresh(q)
      PROVE  TypeOK'
    <2>1. token' \in [Requests -> Requests]
        BY <1>3 DEF StoreRefresh, Generate
    <2> QED BY <1>3, <2>1 DEF StoreRefresh, GoTo
<1>4. ASSUME NEW q \in Requests, PassRefresh(q)
      PROVE  TypeOK'
    BY <1>4 DEF PassRefresh, GoTo, Reply, RequestInv
<1>5. ASSUME NEW q \in Requests, StoreReset(q)
      PROVE  TypeOK'
    <2>1. token' \in [Requests -> Requests]
        BY <1>5 DEF StoreReset, Generate
    <2> QED BY <1>5, <2>1 DEF StoreReset, GoTo
<1>6. ASSUME NEW q \in Requests, FindRow(q)
      PROVE  TypeOK'
    BY <1>6 DEF FindRow, GoTo, Reply, RequestInv
<1>7. ASSUME NEW q \in Requests, ResetPassword(q)
      PROVE  TypeOK'
    <2>1. q \in Passwords /\ user[q] \in Users
        BY DEF Passwords
    <2>2. password' \in [Users -> Passwords]
        BY <1>7, <2>1 DEF ResetPassword, SetPassword
    <2>3. older' \in [Passwords -> SUBSET Passwords]
        <3>1. older[password[user[q]]] \cup {password[user[q]]} \in SUBSET Passwords
            BY <2>1
        <3> QED BY <1>7, <2>1, <3>1 DEF ResetPassword, SetPassword
    <2> QED BY <1>7, <2>2, <2>3 DEF ResetPassword, SetPassword, GoTo
<1>8. ASSUME NEW q \in Requests, Mark(q)
      PROVE  TypeOK'
    <2>1. row[q] \in Requests /\ resetToken[row[q]] # "none"
        BY <1>8 DEF Mark, TokenInv, Found
    <2> QED BY <1>8, <2>1 DEF Mark, GoTo
<1>9. ASSUME NEW q \in Requests, PassCurrent(q)
      PROVE  TypeOK'
    BY <1>9 DEF PassCurrent, GoTo, Reply, RequestInv
<1>10. ASSUME NEW q \in Requests, ChangePassword(q)
      PROVE  TypeOK'
    <2>1. q \in Passwords /\ user[q] \in Users
        BY DEF Passwords
    <2>2. password' \in [Users -> Passwords]
        BY <1>10, <2>1 DEF ChangePassword, SetPassword
    <2>3. older' \in [Passwords -> SUBSET Passwords]
        <3>1. older[password[user[q]]] \cup {password[user[q]]} \in SUBSET Passwords
            BY <2>1
        <3> QED BY <1>10, <2>1, <3>1 DEF ChangePassword, SetPassword
    <2> QED BY <1>10, <2>2, <2>3 DEF ChangePassword, SetPassword, GoTo
<1>11. ASSUME NEW q \in Requests, Revoke(q)
      PROVE  TypeOK'
    BY <1>11 DEF Revoke, GoTo, Reply, RequestInv
<1>12. ASSUME NEW q \in Requests, RevokeIgnored(q)
      PROVE  TypeOK'
    BY <1>12 DEF RevokeIgnored, GoTo, Reply, RequestInv
<1>13. ASSUME NEW q \in Requests, Succeed(q)
      PROVE  TypeOK'
    BY <1>13 DEF Succeed, GoTo, Reply, RequestInv
<1>14. ASSUME NEW q \in Requests, Fail(q)
      PROVE  TypeOK'
    BY <1>14 DEF Fail, GoTo, Reply, RequestInv
<1>15. CASE UNCHANGED vars
    BY <1>15 DEF vars
<1> QED
    BY NextSteps, <1>1, <1>2, <1>3, <1>4, <1>5, <1>6, <1>7, <1>8, <1>9,
       <1>10, <1>11, <1>12, <1>13, <1>14, <1>15 DEF Steps

-----------------------------------------------------------------------------
(* What no step takes back.                                                *)
Kept ==
    /\ \A x \in Requests : pc[x] # "idle" =>
          /\ pc'[x] # "idle" /\ op'[x] = op[x] /\ user'[x] = user[x]
          /\ arg'[x] = arg[x] /\ before'[x] = before[x]
    /\ \A x \in Requests : pc[x] \notin {"idle", "select"} => row'[x] = row[x]
    /\ \A x \in Requests : Stored(x) => Stored(x)' /\ token'[x] = token[x]
    /\ \A x \in Requests : answer[x] # "none" =>
          answer'[x] = answer[x] /\ pc'[x] = "done"
    /\ \A x \in Requests :
          /\ refreshToken[x] = "revoked" => refreshToken'[x] = "revoked"
          /\ refreshToken[x] # "none" => refreshToken'[x] # "none"
          /\ resetToken[x] = "used" => resetToken'[x] = "used"
          /\ resetToken[x] # "none" => resetToken'[x] # "none"
    /\ skipped \subseteq skipped'

(* Every step keeps them.                                                  *)
LEMMA StepsKeep == TypeOK /\ RequestInv /\ TokenInv /\ [Next]_vars => Kept
<1> SUFFICES ASSUME TypeOK, RequestInv, TokenInv, [Next]_vars PROVE Kept
    OBVIOUS
<1> USE DEF TypeOK, tables, request, history
<1>1. ASSUME NEW q \in Requests, NEW o \in Ops, NEW u \in Users,
             NEW a \in Passwords, NEW first \in {"select", "store", "revoke"},
             Made(q, o, u, a, first)
      PROVE  Kept
    BY <1>1 DEF Made, Begin, Answered, RequestInv, Stored, Kept
<1>2. ASSUME NEW q \in Requests, PassLogin(q)
      PROVE  Kept
    BY <1>2 DEF PassLogin, GoTo, Reply, RequestInv, Stored, Kept
<1>3. ASSUME NEW q \in Requests, StoreRefresh(q)
      PROVE  Kept
    <2>1. answer[q] = "none"
        BY <1>3 DEF StoreRefresh, RequestInv
    <2>2. refreshToken[q] = "none" /\ resetToken[q] = "none"
        BY <1>3 DEF StoreRefresh, RequestInv
    <2> QED BY <1>3, <2>1, <2>2 DEF StoreRefresh, Generate, GoTo, Reply, RequestInv, Stored, Kept
<1>4. ASSUME NEW q \in Requests, PassRefresh(q)
      PROVE  Kept
    BY <1>4 DEF PassRefresh, GoTo, Reply, RequestInv, Stored, Kept
<1>5. ASSUME NEW q \in Requests, StoreReset(q)
      PROVE  Kept
    <2>1. answer[q] = "none"
        BY <1>5 DEF StoreReset, RequestInv
    <2>2. refreshToken[q] = "none" /\ resetToken[q] = "none"
        BY <1>5 DEF StoreReset, RequestInv
    <2> QED BY <1>5, <2>1, <2>2 DEF StoreReset, Generate, GoTo, Reply, RequestInv, Stored, Kept
<1>6. ASSUME NEW q \in Requests, FindRow(q)
      PROVE  Kept
    BY <1>6 DEF FindRow, GoTo, Reply, RequestInv, Stored, Kept
<1>7. ASSUME NEW q \in Requests, ResetPassword(q)
      PROVE  Kept
    BY <1>7 DEF ResetPassword, SetPassword, GoTo, Reply, RequestInv, Stored, Kept
<1>8. ASSUME NEW q \in Requests, Mark(q)
      PROVE  Kept
    BY <1>8 DEF Mark, GoTo, Reply, RequestInv, Stored, Kept
<1>9. ASSUME NEW q \in Requests, PassCurrent(q)
      PROVE  Kept
    BY <1>9 DEF PassCurrent, GoTo, Reply, RequestInv, Stored, Kept
<1>10. ASSUME NEW q \in Requests, ChangePassword(q)
      PROVE  Kept
    BY <1>10 DEF ChangePassword, SetPassword, GoTo, Reply, RequestInv, Stored, Kept
<1>11. ASSUME NEW q \in Requests, Revoke(q)
      PROVE  Kept
    BY <1>11 DEF Revoke, GoTo, Reply, RequestInv, Stored, Kept
<1>12. ASSUME NEW q \in Requests, RevokeIgnored(q)
      PROVE  Kept
    BY <1>12 DEF RevokeIgnored, GoTo, Reply, RequestInv, Stored, Kept
<1>13. ASSUME NEW q \in Requests, Succeed(q)
      PROVE  Kept
    BY <1>13 DEF Succeed, GoTo, Reply, RequestInv, Stored, Kept
<1>14. ASSUME NEW q \in Requests, Fail(q)
      PROVE  Kept
    BY <1>14 DEF Fail, GoTo, Reply, RequestInv, Stored, Kept
<1>15. CASE UNCHANGED vars
    BY <1>15 DEF vars, Kept, RequestInv, Stored
<1> QED
    BY NextSteps, <1>1, <1>2, <1>3, <1>4, <1>5, <1>6, <1>7, <1>8, <1>9,
       <1>10, <1>11, <1>12, <1>13, <1>14, <1>15 DEF Steps

-----------------------------------------------------------------------------
(* What a step brings: a token, a request that presents one, a token that  *)
(* is honoured, a row that is found.                                       *)
News ==
    /\ \A x \in Requests : pc[x] = "idle" /\ pc'[x] # "idle" =>
          /\ pc'[x] \in {"select", "store", "revoke"} /\ answer'[x] = "none"
          /\ op'[x] = "reset" => pc'[x] = "select"
          /\ op'[x] = "refresh" => /\ pc'[x] = "select" /\ arg'[x] \in Requests
                                   /\ refreshToken[arg'[x]] # "none"
                                   /\ user[arg'[x]] = user'[x]
    /\ \A x \in Requests : pc'[x] = "idle" => op'[x] = "none" /\ answer'[x] = "none"
    /\ \A x \in Requests : Stored(x)' /\ ~Stored(x) =>
          /\ pc[x] # "idle"
          /\ \/ token'[x] = x
             \/ \E k \in Requests : /\ Stored(k) /\ op[k] = op[x] /\ user[k] = user[x]
                                    /\ token'[x] = token[k]
    /\ \A x \in Requests : (op[x] = "refresh" /\ Passed(x))' /\ ~Passed(x) =>
          \E l \in Requests : token[l] = arg[x] /\ refreshToken[l] = "live"
    /\ \A x \in Requests : Found(x)' /\ ~Found(x) =>
          resetToken[row'[x]] = "fresh" /\ token[row'[x]] = arg[x]

(* Every step brings no more.                                              *)
LEMMA StepsBring == TypeOK /\ RequestInv /\ TokenInv /\ [Next]_vars => News
<1> SUFFICES ASSUME TypeOK, RequestInv, TokenInv, [Next]_vars PROVE News
    OBVIOUS
<1> USE DEF TypeOK, tables, request, history
<1>1. ASSUME NEW q \in Requests, NEW o \in Ops, NEW u \in Users,
             NEW a \in Passwords, NEW first \in {"select", "store", "revoke"},
             Made(q, o, u, a, first)
      PROVE  News
    BY <1>1 DEF Made, Begin, RequestInv, Passed, Stored, Found, News
<1>2. ASSUME NEW q \in Requests, PassLogin(q)
      PROVE  News
    BY <1>2 DEF PassLogin, GoTo, RequestInv, Passed, Stored, Found,
       Setters, Revokers, News
<1>3. ASSUME NEW q \in Requests, StoreRefresh(q)
      PROVE  News
    BY <1>3 DEF StoreRefresh, Generate, GoTo, RequestInv, Passed, Stored, Found,
       Setters, Revokers, News
<1>4. ASSUME NEW q \in Requests, PassRefresh(q)
      PROVE  News
    BY <1>4 DEF PassRefresh, GoTo, RequestInv, Passed, Stored, Found,
       Setters, Revokers, News
<1>5. ASSUME NEW q \in Requests, StoreReset(q)
      PROVE  News
    BY <1>5 DEF StoreReset, Generate, GoTo, RequestInv, Passed, Stored, Found,
       Setters, Revokers, News
<1>6. ASSUME NEW q \in Requests, FindRow(q)
      PROVE  News
    BY <1>6 DEF FindRow, RequestInv, Passed, Stored, Found,
       Setters, Revokers, News
<1>7. ASSUME NEW q \in Requests, ResetPassword(q)
      PROVE  News
    BY <1>7 DEF ResetPassword, SetPassword, GoTo, RequestInv, Passed, Stored, Found,
       Setters, Revokers, News
<1>8. ASSUME NEW q \in Requests, Mark(q)
      PROVE  News
    <2>1. row[q] \in Requests /\ resetToken[row[q]] # "none"
        BY <1>8 DEF Mark, TokenInv, Found
    <2>2. \A x \in Requests : Stored(x)' => Stored(x)
        BY <1>8, <2>1 DEF Mark, Stored
    <2> QED BY <1>8, <2>2 DEF Mark, GoTo, RequestInv, Passed, Found,
               Setters, Revokers, News
<1>9. ASSUME NEW q \in Requests, PassCurrent(q)
      PROVE  News
    BY <1>9 DEF PassCurrent, GoTo, RequestInv, Passed, Stored, Found,
       Setters, Revokers, News
<1>10. ASSUME NEW q \in Requests, ChangePassword(q)
      PROVE  News
    BY <1>10 DEF ChangePassword, SetPassword, GoTo, RequestInv, Passed, Stored, Found,
       Setters, Revokers, News
<1>11. ASSUME NEW q \in Requests, Revoke(q)
      PROVE  News
    <2>1. \A x \in Requests : Stored(x)' => Stored(x)
        BY <1>11 DEF Revoke, Stored
    <2>2. /\ pc[q] = "revoke" /\ op[q] \in Revokers
          /\ pc' = [pc EXCEPT ![q] = "answer"] /\ UNCHANGED <<request, answer, token>>
        BY <1>11 DEF Revoke, GoTo, RequestInv
    <2>3. \A x \in Requests : Found(x)' => Found(x)
        BY <2>2 DEF Found, Passed
    <2>4. \A x \in Requests : (op[x] = "refresh" /\ Passed(x))' => Passed(x)
        BY <2>2 DEF Passed, Revokers, Setters
    <2>5. \A x \in Requests : pc'[x] = "idle" => op'[x] = "none" /\ answer'[x] = "none"
        BY <2>2 DEF RequestInv
    <2>6. \A x \in Requests : pc[x] = "idle" => pc'[x] = "idle"
        BY <2>2
    <2> QED BY <2>1, <2>3, <2>4, <2>5, <2>6 DEF News
<1>12. ASSUME NEW q \in Requests, RevokeIgnored(q)
      PROVE  News
    BY <1>12 DEF RevokeIgnored, GoTo, RequestInv, Passed, Stored, Found,
       Setters, Revokers, News
<1>13. ASSUME NEW q \in Requests, Succeed(q)
      PROVE  News
    BY <1>13 DEF Succeed, Reply, RequestInv, Passed, Stored, Found,
       Setters, Revokers, News
<1>14. ASSUME NEW q \in Requests, Fail(q)
      PROVE  News
    BY <1>14 DEF Fail, Reply, RequestInv, Passed, Stored, Found,
       Setters, Revokers, News
<1>15. CASE UNCHANGED vars
    BY <1>15 DEF vars, RequestInv, Passed, Stored, Found, News
<1> QED
    BY NextSteps, <1>1, <1>2, <1>3, <1>4, <1>5, <1>6, <1>7, <1>8, <1>9,
       <1>10, <1>11, <1>12, <1>13, <1>14, <1>15 DEF Steps

(* Tokens stay those of their users.                                       *)
LEMMA TokenInvNext == TypeOK /\ RequestInv /\ TokenInv /\ [Next]_vars => TokenInv'
<1> SUFFICES ASSUME TypeOK, RequestInv, TokenInv, [Next]_vars, NEW x \in Requests
             PROVE  /\ Stored(x)' => /\ Stored(token[x])' /\ op'[token'[x]] = op'[x]
                                     /\ user'[token'[x]] = user'[x]
                    /\ op'[x] = "refresh" => /\ arg'[x] \in Requests
                                             /\ refreshToken'[arg'[x]] # "none"
                                             /\ user'[arg'[x]] = user'[x]
                    /\ Found(x)' => resetToken'[row'[x]] # "none" /\ token'[row'[x]] = arg'[x]
    BY DEF TokenInv
<1>1. Kept /\ News /\ TypeOK'
    BY StepsKeep, StepsBring, TypeNext
<1>2. \A y \in Requests : Stored(y) => pc[y] # "idle" /\ op'[y] = op[y] /\ user'[y] = user[y]
    BY <1>1 DEF Kept, Stored, RequestInv
<1>3. ASSUME Stored(x)'
      PROVE  Stored(token[x])' /\ op'[token'[x]] = op'[x] /\ user'[token'[x]] = user'[x]
    <2>1. ASSUME NEW k \in Requests, Stored(k), token'[x] = token[k],
                 op[k] = op'[x], user[k] = user'[x]
          PROVE  Stored(token[x])' /\ op'[token'[x]] = op'[x] /\ user'[token'[x]] = user'[x]
        <3>1. token[k] \in Requests /\ Stored(token[k])
              /\ op[token[k]] = op[k] /\ user[token[k]] = user[k]
            BY <2>1 DEF TokenInv, TypeOK
        <3>2. \A y \in Requests : Stored(y) => Stored(y)'
            BY <1>1 DEF Kept
        <3>3. refreshToken'[token[k]] # "none" \/ resetToken'[token[k]] # "none"
            BY <3>1, <3>2 DEF Stored
        <3> QED BY <1>2, <2>1, <3>1, <3>3 DEF Stored
    <2>2. CASE Stored(x)
        BY <1>1, <1>2, <2>1, <2>2 DEF Kept
    <2>3. CASE ~Stored(x)
        <3>1. pc[x] # "idle" /\ op'[x] = op[x] /\ user'[x] = user[x]
            BY <1>1, <1>3, <2>3 DEF News, Kept
        <3>2. CASE token'[x] = x
            BY <1>3, <3>2 DEF Stored
        <3>3. CASE token'[x] # x
            BY <1>1, <1>3, <2>1, <2>3, <3>1, <3>3 DEF News
        <3> QED BY <3>2, <3>3
    <2> QED BY <2>2, <2>3
<1>4. ASSUME op'[x] = "refresh"
      PROVE  /\ arg'[x] \in Requests /\ refreshToken'[arg'[x]] # "none"
             /\ user'[arg'[x]] = user'[x]
    <2>1. arg'[x] \in Requests /\ refreshToken[arg'[x]] # "none" /\ user[arg'[x]] = user'[x]
        BY <1>1, <1>4 DEF Kept, News, TokenInv
    <2> QED BY <1>1, <1>2, <2>1 DEF Kept, Stored
<1>5. ASSUME Found(x)'
      PROVE  resetToken'[row'[x]] # "none" /\ token'[row'[x]] = arg'[x]
    <2>1. row'[x] \in Requests
        BY <1>1 DEF TypeOK
    <2>2. resetToken[row'[x]] # "none" /\ token[row'[x]] = arg'[x]
        <3>1. pc[x] # "idle"
            BY <1>1, <1>5 DEF News, Found, Passed
        <3>2. arg'[x] = arg[x]
            BY <1>1, <3>1 DEF Kept
        <3>3. CASE Found(x)
            <4>1. pc[x] \notin {"idle", "select"}
                BY <3>3 DEF Found, Passed, RequestInv
            <4> QED BY <1>1, <3>2, <3>3, <4>1 DEF Kept, TokenInv
        <3>4. CASE ~Found(x)
            BY <1>1, <1>5, <3>2, <3>4 DEF News
        <3> QED BY <3>3, <3>4
    <2> QED BY <1>1, <2>1, <2>2 DEF Kept, Stored
<1> QED BY <1>3, <1>4, <1>5

(* Requests follow their route.                                            *)
LEMMA RequestNext == TypeOK /\ RequestInv /\ TokenInv /\ [Next]_vars => RequestInv'
<1> SUFFICES ASSUME TypeOK, RequestInv, TokenInv, [Next]_vars PROVE RequestInv'
    OBVIOUS
<1> USE DEF TypeOK, tables, request, history
<1>1. ASSUME NEW q \in Requests, NEW o \in Ops, NEW u \in Users,
             NEW a \in Passwords, NEW first \in {"select", "store", "revoke"},
             Made(q, o, u, a, first)
      PROVE  RequestInv'
    BY <1>1 DEF Made, Begin, Answered, RequestInv, Passed, Setters, Revokers,
       Ops
<1>2. ASSUME NEW q \in Requests, PassLogin(q)
      PROVE  RequestInv'
    BY <1>2 DEF PassLogin, GoTo, Reply, RequestInv, Passed,
       Setters, Revokers, Ops
<1>3. ASSUME NEW q \in Requests, StoreRefresh(q)
      PROVE  RequestInv'
    BY <1>3 DEF StoreRefresh, GoTo, Reply, RequestInv, Passed, Setters,
       Revokers, Ops
<1>4. ASSUME NEW q \in Requests, PassRefresh(q)
      PROVE  RequestInv'
    BY <1>4 DEF PassRefresh, GoTo, Reply, RequestInv, Passed, Setters,
       Revokers, Ops
<1>5. ASSUME NEW q \in Requests, StoreReset(q)
      PROVE  RequestInv'
    BY <1>5 DEF StoreReset, GoTo, Reply, RequestInv, Passed, Setters, Revokers,
       Ops
<1>6. ASSUME NEW q \in Requests, FindRow(q)
      PROVE  RequestInv'
    BY <1>6 DEF FindRow, GoTo, Reply, RequestInv, Passed, Setters, Revokers,
       Ops
<1>7. ASSUME NEW q \in Requests, ResetPassword(q)
      PROVE  RequestInv'
    BY <1>7 DEF ResetPassword, SetPassword, GoTo, Reply, RequestInv, Passed,
       Setters, Revokers, Ops
<1>8. ASSUME NEW q \in Requests, Mark(q)
      PROVE  RequestInv'
    <2>1. row[q] \in Requests /\ resetToken[row[q]] # "none"
        BY <1>8 DEF Mark, TokenInv, Found
    <2>2. \A x \in Requests : resetToken'[x] # "none" => resetToken[x] # "none"
        BY <1>8, <2>1 DEF Mark
    <2> QED BY <1>8, <2>2 DEF Mark, GoTo, Reply, RequestInv, Passed, Setters, Revokers, Ops
<1>9. ASSUME NEW q \in Requests, PassCurrent(q)
      PROVE  RequestInv'
    BY <1>9 DEF PassCurrent, GoTo, Reply, RequestInv, Passed,
       Setters, Revokers, Ops
<1>10. ASSUME NEW q \in Requests, ChangePassword(q)
      PROVE  RequestInv'
    BY <1>10 DEF ChangePassword, SetPassword, GoTo, Reply, RequestInv, Passed,
       Setters, Revokers, Ops
<1>11. ASSUME NEW q \in Requests, Revoke(q)
      PROVE  RequestInv'
    BY <1>11 DEF Revoke, GoTo, Reply, RequestInv, Passed, Setters, Revokers,
       Ops
<1>12. ASSUME NEW q \in Requests, RevokeIgnored(q)
      PROVE  RequestInv'
    BY <1>12 DEF RevokeIgnored, GoTo, Reply, RequestInv, Passed, Setters,
       Revokers, Ops
<1>13. ASSUME NEW q \in Requests, Succeed(q)
      PROVE  RequestInv'
    BY <1>13 DEF Succeed, GoTo, Reply, RequestInv, Passed, Setters, Revokers,
       Ops
<1>14. ASSUME NEW q \in Requests, Fail(q)
      PROVE  RequestInv'
    BY <1>14 DEF Fail, GoTo, Reply, RequestInv, Passed, Setters, Revokers, Ops
<1>15. CASE UNCHANGED vars
    BY <1>15 DEF vars, RequestInv, Passed
<1> QED
    BY NextSteps, <1>1, <1>2, <1>3, <1>4, <1>5, <1>6, <1>7, <1>8, <1>9,
       <1>10, <1>11, <1>12, <1>13, <1>14, <1>15 DEF Steps

-----------------------------------------------------------------------------
(* A revocation ends every session opened before.                          *)
LEMMA RevokeInvNext == TypeOK /\ RequestInv /\ TokenInv /\ RevokeInv /\ [Next]_vars => RevokeInv'
<1> SUFFICES ASSUME TypeOK, RequestInv, TokenInv, RevokeInv, [Next]_vars PROVE RevokeInv'
    OBVIOUS
<1> USE DEF TypeOK, tables, request, history
<1>1. ASSUME NEW q \in Requests, NEW o \in Ops, NEW u \in Users,
             NEW a \in Passwords, NEW first \in {"select", "store", "revoke"},
             Made(q, o, u, a, first)
      PROVE  RevokeInv'
    BY <1>1 DEF Made, Begin, Answered, RequestInv, Passed, Did, Setters,
       Revokers, RevokeInv
<1>2. ASSUME NEW q \in Requests, PassLogin(q)
      PROVE  RevokeInv'
    BY <1>2 DEF PassLogin, GoTo, Reply, RequestInv, Passed,
       Did, Setters, Revokers, RevokeInv
<1>3. ASSUME NEW q \in Requests, StoreRefresh(q)
      PROVE  RevokeInv'
    BY <1>3 DEF StoreRefresh, GoTo, Reply, RequestInv, Passed, Did, Setters,
       Revokers, RevokeInv
<1>4. ASSUME NEW q \in Requests, PassRefresh(q)
      PROVE  RevokeInv'
    BY <1>4 DEF PassRefresh, GoTo, Reply, RequestInv, Passed, Did, Setters,
       Revokers, RevokeInv
<1>5. ASSUME NEW q \in Requests, StoreReset(q)
      PROVE  RevokeInv'
    BY <1>5 DEF StoreReset, GoTo, Reply, RequestInv, Passed, Did, Setters,
       Revokers, RevokeInv
<1>6. ASSUME NEW q \in Requests, FindRow(q)
      PROVE  RevokeInv'
    BY <1>6 DEF FindRow, GoTo, Reply, RequestInv, Passed, Did, Setters,
       Revokers, RevokeInv
<1>7. ASSUME NEW q \in Requests, ResetPassword(q)
      PROVE  RevokeInv'
    BY <1>7 DEF ResetPassword, SetPassword, GoTo, Reply, RequestInv, Passed,
       Did, Setters, Revokers, RevokeInv
<1>8. ASSUME NEW q \in Requests, Mark(q)
      PROVE  RevokeInv'
    BY <1>8 DEF Mark, GoTo, Reply, RequestInv, Passed, Did, Setters, Revokers,
       RevokeInv
<1>9. ASSUME NEW q \in Requests, PassCurrent(q)
      PROVE  RevokeInv'
    BY <1>9 DEF PassCurrent, GoTo, Reply, RequestInv, Passed,
       Did, Setters, Revokers, RevokeInv
<1>10. ASSUME NEW q \in Requests, ChangePassword(q)
      PROVE  RevokeInv'
    BY <1>10 DEF ChangePassword, SetPassword, GoTo, Reply, RequestInv, Passed,
       Did, Setters, Revokers, RevokeInv
<1>11. ASSUME NEW q \in Requests, Revoke(q)
      PROVE  RevokeInv'
    BY <1>11 DEF Revoke, GoTo, Reply, RequestInv, Passed, Did, Setters,
       Revokers, RevokeInv
<1>12. ASSUME NEW q \in Requests, RevokeIgnored(q)
      PROVE  RevokeInv'
    BY <1>12 DEF RevokeIgnored, GoTo, Reply, RequestInv, Passed, Did, Setters,
       Revokers, RevokeInv
<1>13. ASSUME NEW q \in Requests, Succeed(q)
      PROVE  RevokeInv'
    BY <1>13 DEF Succeed, GoTo, Reply, RequestInv, Passed, Did, Setters,
       Revokers, RevokeInv
<1>14. ASSUME NEW q \in Requests, Fail(q)
      PROVE  RevokeInv'
    BY <1>14 DEF Fail, GoTo, Reply, RequestInv, Passed, Did, Setters, Revokers,
       RevokeInv
<1>15. CASE UNCHANGED vars
    BY <1>15 DEF vars, RevokeInv, Passed, Did
<1> QED
    BY NextSteps, <1>1, <1>2, <1>3, <1>4, <1>5, <1>6, <1>7, <1>8, <1>9,
       <1>10, <1>11, <1>12, <1>13, <1>14, <1>15 DEF Steps

(* A refresh sees the revocations answered before it.                      *)
LEMMA HonourInvNext ==
    TypeOK /\ RequestInv /\ TokenInv /\ HonourInv /\ RevokeInv /\ [Next]_vars => HonourInv'
<1> SUFFICES ASSUME TypeOK, RequestInv, TokenInv, HonourInv, RevokeInv, [Next]_vars,
                    NEW r \in Requests, NEW c \in Requests,
                    (op[r] = "refresh")', Passed(r)', Did(c, Revokers)',
                    (user[c] = user[r])', (c \in before[r])', (c \notin skipped)'
             PROVE  \E l \in Requests :
                        (op[l] = "login" /\ Stored(l) /\ token[l] = arg[r] /\ l \notin before[c])'
    BY DEF HonourInv
<1>1. Kept /\ News
    BY StepsKeep, StepsBring
<1>2. pc[r] # "idle" /\ op[r] = "refresh" /\ user'[r] = user[r] /\ arg'[r] = arg[r]
      /\ before'[r] = before[r]
    BY <1>1 DEF News, Kept, Passed
<1>3. answer[c] # "none" /\ pc[c] = "done" /\ pc[c] # "idle"
    BY <1>2 DEF RequestInv
<1>4. Did(c, Revokers) /\ user[c] = user[r] /\ c \in before[r] /\ c \notin skipped
      /\ before'[c] = before[c]
    BY <1>1, <1>2, <1>3 DEF Kept, Did
<1>5. PICK l \in Requests :
          op[l] = "login" /\ Stored(l) /\ token[l] = arg[r] /\ l \notin before[c]
    <2>1. CASE Passed(r)
        BY <1>2, <1>4, <2>1 DEF HonourInv
    <2>2. CASE ~Passed(r)
        <3>1. PICK l \in Requests : token[l] = arg[r] /\ refreshToken[l] = "live"
            BY <1>1, <1>2, <2>2 DEF News
        <3>2. Stored(l) /\ op[l] = "login"
            BY <3>1 DEF Stored, TypeOK
        <3>3. user[l] = user[r]
            BY <1>2, <3>1, <3>2 DEF TokenInv
        <3>4. op[c] \in Revokers /\ Passed(c)
            BY <1>4 DEF Did, Passed
        <3> QED BY <1>4, <3>1, <3>2, <3>3, <3>4 DEF RevokeInv
    <2> QED BY <2>1, <2>2
<1>6. pc[l] # "idle"
    BY <1>5 DEF RequestInv
<1> QED BY <1>1, <1>2, <1>4, <1>5, <1>6 DEF Kept

(* The token is marked before the revocation and the answer.               *)
LEMMA MarkInvNext == TypeOK /\ RequestInv /\ TokenInv /\ MarkInv /\ [Next]_vars => MarkInv'
<1> SUFFICES ASSUME TypeOK, RequestInv, TokenInv, MarkInv, [Next]_vars PROVE MarkInv'
    OBVIOUS
<1> USE DEF TypeOK, tables, request, history
<1>1. ASSUME NEW q \in Requests, NEW o \in Ops, NEW u \in Users,
             NEW a \in Passwords, NEW first \in {"select", "store", "revoke"},
             Made(q, o, u, a, first)
      PROVE  MarkInv'
    BY <1>1 DEF Made, Begin, Answered, RequestInv, Passed, Did, Setters,
       Revokers, MarkInv
<1>2. ASSUME NEW q \in Requests, PassLogin(q)
      PROVE  MarkInv'
    BY <1>2 DEF PassLogin, GoTo, Reply, RequestInv, Passed,
       Did, Setters, Revokers, MarkInv
<1>3. ASSUME NEW q \in Requests, StoreRefresh(q)
      PROVE  MarkInv'
    BY <1>3 DEF StoreRefresh, GoTo, Reply, RequestInv, Passed, Did, Setters,
       Revokers, MarkInv
<1>4. ASSUME NEW q \in Requests, PassRefresh(q)
      PROVE  MarkInv'
    BY <1>4 DEF PassRefresh, GoTo, Reply, RequestInv, Passed, Did, Setters,
       Revokers, MarkInv
<1>5. ASSUME NEW q \in Requests, StoreReset(q)
      PROVE  MarkInv'
    BY <1>5 DEF StoreReset, GoTo, Reply, RequestInv, Passed, Did, Setters,
       Revokers, MarkInv
<1>6. ASSUME NEW q \in Requests, FindRow(q)
      PROVE  MarkInv'
    <2>1. pc'[q] = "write" /\ answer'[q] = "none"
        BY <1>6 DEF FindRow, RequestInv
    <2>2. \A x \in Requests : x # q => row'[x] = row[x] /\ pc'[x] = pc[x]
        BY <1>6 DEF FindRow
    <2>3. UNCHANGED <<op, answer, resetToken>>
        BY <1>6 DEF FindRow
    <2> SUFFICES ASSUME NEW x \in Requests, op'[x] = "reset",
                        pc'[x] = "revoke" \/ Passed(x)'
                 PROVE  resetToken'[row'[x]] = "used"
        BY DEF MarkInv
    <2>4. x # q
        BY <2>1 DEF Passed
    <2>5. op[x] = "reset" /\ (pc[x] = "revoke" \/ Passed(x))
        BY <2>2, <2>3, <2>4 DEF Passed
    <2> QED BY <2>2, <2>3, <2>4, <2>5 DEF MarkInv
<1>7. ASSUME NEW q \in Requests, ResetPassword(q)
      PROVE  MarkInv'
    BY <1>7 DEF ResetPassword, SetPassword, GoTo, Reply, RequestInv, Passed,
       Did, Setters, Revokers, MarkInv
<1>8. ASSUME NEW q \in Requests, Mark(q)
      PROVE  MarkInv'
    BY <1>8 DEF Mark, GoTo, Reply, RequestInv, Passed, Did, Setters, Revokers,
       MarkInv
<1>9. ASSUME NEW q \in Requests, PassCurrent(q)
      PROVE  MarkInv'
    BY <1>9 DEF PassCurrent, GoTo, Reply, RequestInv, Passed,
       Did, Setters, Revokers, MarkInv
<1>10. ASSUME NEW q \in Requests, ChangePassword(q)
      PROVE  MarkInv'
    BY <1>10 DEF ChangePassword, SetPassword, GoTo, Reply, RequestInv, Passed,
       Did, Setters, Revokers, MarkInv
<1>11. ASSUME NEW q \in Requests, Revoke(q)
      PROVE  MarkInv'
    BY <1>11 DEF Revoke, GoTo, Reply, RequestInv, Passed, Did, Setters,
       Revokers, MarkInv
<1>12. ASSUME NEW q \in Requests, RevokeIgnored(q)
      PROVE  MarkInv'
    BY <1>12 DEF RevokeIgnored, GoTo, Reply, RequestInv, Passed, Did, Setters,
       Revokers, MarkInv
<1>13. ASSUME NEW q \in Requests, Succeed(q)
      PROVE  MarkInv'
    BY <1>13 DEF Succeed, GoTo, Reply, RequestInv, Passed, Did, Setters,
       Revokers, MarkInv
<1>14. ASSUME NEW q \in Requests, Fail(q)
      PROVE  MarkInv'
    BY <1>14 DEF Fail, GoTo, Reply, RequestInv, Passed, Did, Setters, Revokers,
       MarkInv
<1>15. CASE UNCHANGED vars
    BY <1>15 DEF vars, MarkInv, Passed, Did
<1> QED
    BY NextSteps, <1>1, <1>2, <1>3, <1>4, <1>5, <1>6, <1>7, <1>8, <1>9,
       <1>10, <1>11, <1>12, <1>13, <1>14, <1>15 DEF Steps

(* A reset finds no row that an answered one has marked.                   *)
LEMMA OnceInvNext ==
    TypeOK /\ RequestInv /\ TokenInv /\ OnceInv /\ MarkInv /\ [Next]_vars => OnceInv'
<1> SUFFICES ASSUME TypeOK, RequestInv, TokenInv, OnceInv, MarkInv, [Next]_vars,
                    NEW q \in Requests, NEW r \in Requests,
                    Did(q, {"reset"})', Found(r)', (q \in before[r])'
             PROVE  row'[q] # row'[r]
    BY DEF OnceInv
<1>1. Kept /\ News
    BY StepsKeep, StepsBring
<1>2. pc[r] # "idle" /\ before'[r] = before[r]
    BY <1>1 DEF News, Kept, Found, Passed
<1>3. answer[q] # "none" /\ pc[q] = "done" /\ pc[q] \notin {"idle", "select"}
    BY <1>2 DEF RequestInv
<1>4. Did(q, {"reset"}) /\ row'[q] = row[q]
    BY <1>1, <1>3 DEF Kept, Did
<1>5. CASE Found(r)
    <2>1. pc[r] \notin {"idle", "select"}
        BY <1>5 DEF Found, Passed, RequestInv
    <2> QED BY <1>1, <1>2, <1>4, <1>5, <2>1 DEF Kept, OnceInv
<1>6. CASE ~Found(r)
    <2>1. resetToken[row'[r]] = "fresh"
        BY <1>1, <1>6 DEF News
    <2>2. resetToken[row[q]] = "used"
        BY <1>4 DEF Did, Passed, MarkInv
    <2> QED BY <1>4, <2>1, <2>2
<1> QED BY <1>5, <1>6

(* RevokedForAReason is inductive.                                         *)
LEMMA RevokedForAReasonNext == TypeOK /\ RequestInv /\ TokenInv /\ RevokedForAReason /\ [Next]_vars => RevokedForAReason'
<1> SUFFICES ASSUME TypeOK, RequestInv, TokenInv, RevokedForAReason, [Next]_vars PROVE RevokedForAReason'
    OBVIOUS
<1> USE DEF TypeOK, tables, request, history
<1>1. ASSUME NEW q \in Requests, NEW o \in Ops, NEW u \in Users,
             NEW a \in Passwords, NEW first \in {"select", "store", "revoke"},
             Made(q, o, u, a, first)
      PROVE  RevokedForAReason'
    <2> SUFFICES ASSUME NEW l \in Requests, refreshToken'[l] = "revoked"
                 PROVE  \E c \in Requests :
                          /\ op'[c] \in Revokers /\ user'[c] = user'[l]
                          /\ pc'[c] \in {"answer", "done"} /\ c \notin before'[l]
        BY DEF RevokedForAReason
    <2>1. refreshToken[l] = "revoked" /\ pc[q] = "idle"
        BY <1>1 DEF Made, Begin
    <2>2. PICK c \in Requests :
             /\ op[c] \in Revokers /\ user[c] = user[l]
             /\ pc[c] \in {"answer", "done"} /\ c \notin before[l]
        BY <2>1 DEF RevokedForAReason
    <2>3. l # q /\ c # q
        BY <2>1, <2>2 DEF RequestInv
    <2> QED BY <1>1, <2>2, <2>3 DEF Made, Begin
<1>2. ASSUME NEW q \in Requests, PassLogin(q)
      PROVE  RevokedForAReason'
    BY <1>2 DEF PassLogin, GoTo, Reply, RequestInv, Passed,
       Did, Setters, Revokers, RevokedForAReason
<1>3. ASSUME NEW q \in Requests, StoreRefresh(q)
      PROVE  RevokedForAReason'
    BY <1>3 DEF StoreRefresh, GoTo, Reply, RequestInv, Passed, Did, Setters,
       Revokers, RevokedForAReason
<1>4. ASSUME NEW q \in Requests, PassRefresh(q)
      PROVE  RevokedForAReason'
    BY <1>4 DEF PassRefresh, GoTo, Reply, RequestInv, Passed, Did, Setters,
       Revokers, RevokedForAReason
<1>5. ASSUME NEW q \in Requests, StoreReset(q)
      PROVE  RevokedForAReason'
    BY <1>5 DEF StoreReset, GoTo, Reply, RequestInv, Passed, Did, Setters,
       Revokers, RevokedForAReason
<1>6. ASSUME NEW q \in Requests, FindRow(q)
      PROVE  RevokedForAReason'
    BY <1>6 DEF FindRow, GoTo, Reply, RequestInv, Passed, Did, Setters,
       Revokers, RevokedForAReason
<1>7. ASSUME NEW q \in Requests, ResetPassword(q)
      PROVE  RevokedForAReason'
    BY <1>7 DEF ResetPassword, SetPassword, GoTo, Reply, RequestInv, Passed,
       Did, Setters, Revokers, RevokedForAReason
<1>8. ASSUME NEW q \in Requests, Mark(q)
      PROVE  RevokedForAReason'
    BY <1>8 DEF Mark, GoTo, Reply, RequestInv, Passed, Did, Setters, Revokers,
       RevokedForAReason
<1>9. ASSUME NEW q \in Requests, PassCurrent(q)
      PROVE  RevokedForAReason'
    BY <1>9 DEF PassCurrent, GoTo, Reply, RequestInv, Passed,
       Did, Setters, Revokers, RevokedForAReason
<1>10. ASSUME NEW q \in Requests, ChangePassword(q)
      PROVE  RevokedForAReason'
    BY <1>10 DEF ChangePassword, SetPassword, GoTo, Reply, RequestInv, Passed,
       Did, Setters, Revokers, RevokedForAReason
<1>11. ASSUME NEW q \in Requests, Revoke(q)
      PROVE  RevokedForAReason'
    BY <1>11 DEF Revoke, GoTo, Reply, RequestInv, Passed, Did, Setters,
       Revokers, RevokedForAReason
<1>12. ASSUME NEW q \in Requests, RevokeIgnored(q)
      PROVE  RevokedForAReason'
    BY <1>12 DEF RevokeIgnored, GoTo, Reply, RequestInv, Passed, Did, Setters,
       Revokers, RevokedForAReason
<1>13. ASSUME NEW q \in Requests, Succeed(q)
      PROVE  RevokedForAReason'
    BY <1>13 DEF Succeed, GoTo, Reply, RequestInv, Passed, Did, Setters,
       Revokers, RevokedForAReason
<1>14. ASSUME NEW q \in Requests, Fail(q)
      PROVE  RevokedForAReason'
    BY <1>14 DEF Fail, GoTo, Reply, RequestInv, Passed, Did, Setters, Revokers,
       RevokedForAReason
<1>15. CASE UNCHANGED vars
    BY <1>15 DEF vars, RevokedForAReason, Passed, Did
<1> QED
    BY NextSteps, <1>1, <1>2, <1>3, <1>4, <1>5, <1>6, <1>7, <1>8, <1>9,
       <1>10, <1>11, <1>12, <1>13, <1>14, <1>15 DEF Steps

(* Setting a password extends the chain of its user and no other.          *)
LEMMA ChainGrows ==
    ASSUME TypeOK, RequestInv, TokenInv, ChainInv, NEW q \in Requests,
           NEW next \in {"mark", "revoke"}, SetPassword(q, next),
           op[q] \in Setters
    PROVE  ChainInv'
<1> USE DEF TypeOK, tables, request, history
<1>. DEFINE u == user[q]
            old == password[u]
<1>1. /\ pc[q] = "write" /\ pc' = [pc EXCEPT ![q] = next]
      /\ older' = [older EXCEPT ![q] = older[old] \cup {old}]
      /\ password' = [password EXCEPT ![u] = q]
      /\ UNCHANGED <<op, user, answer>>
    BY DEF SetPassword, GoTo
<1>2. u \in Users /\ q \in Passwords /\ old \in Passwords /\ q # Initial
    BY AuthAssumption DEF Passwords
<1>3. ~Set(q)
    BY <1>1, <1>2 DEF Set
<1>4. \A p \in Passwords : Set(p) => p # q /\ older'[p] = older[p] /\ Set(p)'
    BY <1>1, <1>2, <1>3 DEF Set, Passwords
<1>5. older'[q] = older[old] \cup {old} /\ Set(q)'
    BY <1>1, <1>2 DEF Set
<1>6. Set(old) /\ \A x \in older[old] : x \in Passwords /\ Set(x)
    BY <1>2 DEF ChainInv
<1>7. \A v \in Users : Set(password[v])' /\ (password[v] \notin older[password[v]])'
    <2> TAKE v \in Users
    <2>1. CASE v = u
        <3>1. password'[v] = q
            BY <1>1, <1>2, <2>1
        <3>2. q \notin older'[q]
            BY <1>3, <1>5, <1>6
        <3> QED BY <1>5, <3>1, <3>2 DEF Set
    <2>2. CASE v # u
        <3>1. password'[v] = password[v] /\ password[v] \in Passwords
            BY <1>1, <2>2
        <3>2. Set(password[v]) /\ password[v] \notin older[password[v]]
            BY DEF ChainInv
        <3>3. older'[password[v]] = older[password[v]] /\ Set(password[v])'
            BY <1>4, <3>1, <3>2 DEF Set
        <3> QED BY <3>1, <3>2, <3>3
    <2> QED BY <2>1, <2>2
<1>8. \A p \in Passwords : \A x \in older'[p] : Set(x)'
    <2> TAKE p \in Passwords
    <2>1. older'[p] \in SUBSET Passwords /\ \A x \in older'[p] : Set(x)
        BY <1>1, <1>2, <1>5, <1>6 DEF ChainInv
    <2> QED BY <1>4, <2>1
<1>9. \A c \in Requests :
        op[c] \in Setters /\ (pc'[c] \in {"mark", "revoke"} \/ pc'[c] = "answer" \/ answer[c] = "ok") =>
           /\ c = password'[user[c]] \/ c \in older'[password'[user[c]]]
           /\ older'[c] \subseteq older'[password'[user[c]]]
    <2> SUFFICES ASSUME NEW c \in Requests, op[c] \in Setters,
                        pc'[c] \in {"mark", "revoke"} \/ pc'[c] = "answer" \/ answer[c] = "ok"
                 PROVE  /\ c = password'[user[c]] \/ c \in older'[password'[user[c]]]
                        /\ older'[c] \subseteq older'[password'[user[c]]]
        OBVIOUS
    <2>1. CASE c = q
        BY <1>1, <1>2, <2>1
    <2>2. CASE c # q
        <3>. DEFINE p == password[user[c]]
        <3>1. pc'[c] = pc[c]
            BY <1>1, <2>2
        <3>2. (c = p \/ c \in older[p]) /\ older[c] \subseteq older[p]
            BY <3>1 DEF ChainInv, Passed
        <3>3. older'[c] = older[c]
            BY <1>1, <1>2, <2>2 DEF Passwords
        <3>4. CASE user[c] = u
            BY <1>1, <1>2, <1>5, <3>2, <3>3, <3>4
        <3>5. CASE user[c] # u
            <4>1. password'[user[c]] = p /\ p \in Passwords /\ user[c] \in Users
                BY <1>1, <3>5
            <4>2. older'[p] = older[p]
                BY <1>4, <4>1 DEF ChainInv
            <4> QED BY <3>2, <3>3, <4>1, <4>2
        <3> QED BY <3>4, <3>5
    <2> QED BY <2>1, <2>2
<1> QED BY <1>1, <1>7, <1>8, <1>9 DEF ChainInv, Passed

(* Steps that change no password leave the chains alone.                   *)
LEMMA ChainStays ==
    ASSUME TypeOK, RequestInv, TokenInv, ChainInv, UNCHANGED <<password, older>>, Kept,
           \A c \in Requests :
              /\ Set(c) => Set(c)'
              /\ op'[c] \in Setters
                    /\ (pc'[c] \in {"mark", "revoke"} \/ Passed(c)')
                 => /\ op[c] \in Setters /\ user'[c] = user[c]
                    /\ pc[c] \in {"mark", "revoke"} \/ Passed(c)
    PROVE  ChainInv'
<1>1. \A p \in Passwords : Set(p) => Set(p)'
    BY DEF Set, Passwords
<1>2. \A u \in Users : password[u] \in Passwords
    BY DEF TypeOK
<1>3. \A p \in Passwords : older[p] \subseteq Passwords
    BY DEF TypeOK
<1>4. \A u \in Users : Set(password[u])' /\ (password[u] \notin older[password[u]])'
    <2> TAKE u \in Users
    <2>1. Set(password[u]) /\ password[u] \notin older[password[u]]
        BY DEF ChainInv
    <2>2. password'[u] = password[u] /\ older'[password[u]] = older[password[u]]
        OBVIOUS
    <2> QED BY <1>1, <1>2, <2>1, <2>2 DEF Set
<1>5. \A p \in Passwords : \A x \in older'[p] : Set(x)'
    BY <1>1, <1>3 DEF ChainInv
<1>6. \A c \in Requests :
        op'[c] \in Setters /\ (pc'[c] \in {"mark", "revoke"} \/ Passed(c)') =>
           /\ c = password'[user'[c]] \/ c \in older'[password'[user'[c]]]
           /\ older'[c] \subseteq older'[password'[user'[c]]]
    BY DEF ChainInv
<1> QED BY <1>4, <1>5, <1>6 DEF ChainInv

(* Every step keeps the chains of passwords.                               *)
LEMMA ChainInvNext == TypeOK /\ RequestInv /\ TokenInv /\ ChainInv /\ [Next]_vars => ChainInv'
<1> SUFFICES ASSUME TypeOK, RequestInv, TokenInv, ChainInv, [Next]_vars PROVE ChainInv'
    OBVIOUS
<1> USE DEF TypeOK, tables, request, history
<1>1. ASSUME NEW q \in Requests, NEW o \in Ops, NEW u \in Users,
             NEW a \in Passwords, NEW first \in {"select", "store", "revoke"},
             Made(q, o, u, a, first)
      PROVE  ChainInv'
    BY <1>1 DEF Made, Begin, Answered, RequestInv, Passed, Did, Setters,
       Revokers, ChainInv, Set, Passwords
<1>2. ASSUME NEW q \in Requests, PassLogin(q)
      PROVE  ChainInv'
    <2>1. UNCHANGED <<password, older>> /\ op' = op /\ user' = user
        BY <1>2 DEF PassLogin, GoTo, Reply
    <2>2. \A c \in Requests : Set(c) => Set(c)'
        BY <1>2 DEF PassLogin, GoTo, Reply, Set
    <2>3. \A c \in Requests :
             op[c] \in Setters /\ (pc'[c] \in {"mark", "revoke"} \/ Passed(c)')
               => pc[c] \in {"mark", "revoke"} \/ Passed(c)
        BY <1>2 DEF PassLogin, GoTo, Reply, Passed, Setters
    <2> QED BY StepsKeep, ChainStays, <2>1, <2>2, <2>3
<1>3. ASSUME NEW q \in Requests, StoreRefresh(q)
      PROVE  ChainInv'
    BY <1>3 DEF StoreRefresh, GoTo, Reply, RequestInv, Passed, Did, Setters,
       Revokers, ChainInv, Set, Passwords
<1>4. ASSUME NEW q \in Requests, PassRefresh(q)
      PROVE  ChainInv'
    BY <1>4 DEF PassRefresh, GoTo, Reply, RequestInv, Passed, Did, Setters,
       Revokers, ChainInv, Set, Passwords
<1>5. ASSUME NEW q \in Requests, StoreReset(q)
      PROVE  ChainInv'
    BY <1>5 DEF StoreReset, GoTo, Reply, RequestInv, Passed, Did, Setters,
       Revokers, ChainInv, Set, Passwords
<1>6. ASSUME NEW q \in Requests, FindRow(q)
      PROVE  ChainInv'
    BY <1>6 DEF FindRow, GoTo, Reply, RequestInv, Passed, Did, Setters,
       Revokers, ChainInv, Set, Passwords
<1>7. ASSUME NEW q \in Requests, ResetPassword(q)
      PROVE  ChainInv'
    BY <1>7, ChainGrows DEF ResetPassword, Setters
<1>8. ASSUME NEW q \in Requests, Mark(q)
      PROVE  ChainInv'
    BY <1>8 DEF Mark, GoTo, Reply, RequestInv, Passed, Did, Setters, Revokers,
       ChainInv, Set, Passwords
<1>9. ASSUME NEW q \in Requests, PassCurrent(q)
      PROVE  ChainInv'
    BY <1>9 DEF PassCurrent, GoTo, Reply, RequestInv, Passed,
       Did, Setters, Revokers, ChainInv, Set, Passwords
<1>10. ASSUME NEW q \in Requests, ChangePassword(q)
      PROVE  ChainInv'
    BY <1>10, ChainGrows DEF ChangePassword, Setters
<1>11. ASSUME NEW q \in Requests, Revoke(q)
      PROVE  ChainInv'
    BY <1>11 DEF Revoke, GoTo, Reply, RequestInv, Passed, Did, Setters,
       Revokers, ChainInv, Set, Passwords
<1>12. ASSUME NEW q \in Requests, RevokeIgnored(q)
      PROVE  ChainInv'
    BY <1>12 DEF RevokeIgnored, GoTo, Reply, RequestInv, Passed, Did, Setters,
       Revokers, ChainInv, Set, Passwords
<1>13. ASSUME NEW q \in Requests, Succeed(q)
      PROVE  ChainInv'
    BY <1>13 DEF Succeed, GoTo, Reply, RequestInv, Passed, Did, Setters,
       Revokers, ChainInv, Set, Passwords
<1>14. ASSUME NEW q \in Requests, Fail(q)
      PROVE  ChainInv'
    BY <1>14 DEF Fail, GoTo, Reply, RequestInv, Passed, Did, Setters, Revokers,
       ChainInv, Set, Passwords
<1>15. CASE UNCHANGED vars
    BY <1>15 DEF vars, ChainInv, Passed, Did, Set
<1> QED
    BY NextSteps, <1>1, <1>2, <1>3, <1>4, <1>5, <1>6, <1>7, <1>8, <1>9,
       <1>10, <1>11, <1>12, <1>13, <1>14, <1>15 DEF Steps

(* A login that got past the password check knew no replaced password.     *)
LEMMA LoginInvNext == TypeOK /\ RequestInv /\ TokenInv /\ LoginInv /\ ChainInv /\ [Next]_vars => LoginInv'
<1> SUFFICES ASSUME TypeOK, RequestInv, TokenInv, LoginInv, ChainInv, [Next]_vars PROVE LoginInv'
    OBVIOUS
<1> USE DEF TypeOK, tables, request, history
<1>1. ASSUME NEW q \in Requests, NEW o \in Ops, NEW u \in Users,
             NEW a \in Passwords, NEW first \in {"select", "store", "revoke"},
             Made(q, o, u, a, first)
      PROVE  LoginInv'
    BY <1>1 DEF Made, Begin, Answered, RequestInv, Passed, Did, Setters,
       Revokers, ChainInv, LoginInv, Set, Passwords, Verified
<1>2. ASSUME NEW q \in Requests, PassLogin(q)
      PROVE  LoginInv'
    BY <1>2 DEF PassLogin, GoTo, Reply, RequestInv, Passed,
       Did, Setters, Revokers, ChainInv, LoginInv, Set, Passwords, Verified
<1>3. ASSUME NEW q \in Requests, StoreRefresh(q)
      PROVE  LoginInv'
    BY <1>3 DEF StoreRefresh, GoTo, Reply, RequestInv, Passed, Did, Setters,
       Revokers, ChainInv, LoginInv, Set, Passwords, Verified
<1>4. ASSUME NEW q \in Requests, PassRefresh(q)
      PROVE  LoginInv'
    BY <1>4 DEF PassRefresh, GoTo, Reply, RequestInv, Passed, Did, Setters,
       Revokers, ChainInv, LoginInv, Set, Passwords, Verified
<1>5. ASSUME NEW q \in Requests, StoreReset(q)
      PROVE  LoginInv'
    BY <1>5 DEF StoreReset, GoTo, Reply, RequestInv, Passed, Did, Setters,
       Revokers, ChainInv, LoginInv, Set, Passwords, Verified
<1>6. ASSUME NEW q \in Requests, FindRow(q)
      PROVE  LoginInv'
    BY <1>6 DEF FindRow, GoTo, Reply, RequestInv, Passed, Did, Setters,
       Revokers, ChainInv, LoginInv, Set, Passwords, Verified
<1>7. ASSUME NEW q \in Requests, ResetPassword(q)
      PROVE  LoginInv'
    BY <1>7 DEF ResetPassword, SetPassword, GoTo, Reply, RequestInv, Passed,
       Did, Setters, Revokers, ChainInv, LoginInv, Set, Passwords, Verified
<1>8. ASSUME NEW q \in Requests, Mark(q)
      PROVE  LoginInv'
    BY <1>8 DEF Mark, GoTo, Reply, RequestInv, Passed, Did, Setters, Revokers,
       ChainInv, LoginInv, Set, Passwords, Verified
<1>9. ASSUME NEW q \in Requests, PassCurrent(q)
      PROVE  LoginInv'
    BY <1>9 DEF PassCurrent, GoTo, Reply, RequestInv, Passed,
       Did, Setters, Revokers, ChainInv, LoginInv, Set, Passwords, Verified
<1>10. ASSUME NEW q \in Requests, ChangePassword(q)
      PROVE  LoginInv'
    BY <1>10 DEF ChangePassword, SetPassword, GoTo, Reply, RequestInv, Passed,
       Did, Setters, Revokers, ChainInv, LoginInv, Set, Passwords, Verified
<1>11. ASSUME NEW q \in Requests, Revoke(q)
      PROVE  LoginInv'
    BY <1>11 DEF Revoke, GoTo, Reply, RequestInv, Passed, Did, Setters,
       Revokers, ChainInv, LoginInv, Set, Passwords, Verified
<1>12. ASSUME NEW q \in Requests, RevokeIgnored(q)
      PROVE  LoginInv'
    BY <1>12 DEF RevokeIgnored, GoTo, Reply, RequestInv, Passed, Did, Setters,
       Revokers, ChainInv, LoginInv, Set, Passwords, Verified
<1>13. ASSUME NEW q \in Requests, Succeed(q)
      PROVE  LoginInv'
    BY <1>13 DEF Succeed, GoTo, Reply, RequestInv, Passed, Did, Setters,
       Revokers, ChainInv, LoginInv, Set, Passwords, Verified
<1>14. ASSUME NEW q \in Requests, Fail(q)
      PROVE  LoginInv'
    BY <1>14 DEF Fail, GoTo, Reply, RequestInv, Passed, Did, Setters, Revokers,
       ChainInv, LoginInv, Set, Passwords, Verified
<1>15. CASE UNCHANGED vars
    BY <1>15 DEF vars, LoginInv, Passed, Did
<1> QED
    BY NextSteps, <1>1, <1>2, <1>3, <1>4, <1>5, <1>6, <1>7, <1>8, <1>9,
       <1>10, <1>11, <1>12, <1>13, <1>14, <1>15 DEF Steps

-----------------------------------------------------------------------------
(* The invariant holds initially ...                                       *)
LEMMA InitInv == Init => IInv
<1> SUFFICES ASSUME Init PROVE IInv
    OBVIOUS
<1>1. TypeOK
    BY TypeInit
<1>2. RequestInv /\ TokenInv
    BY DEF Init, RequestInv, TokenInv, Stored, Found, Passed
<1>3. RevokeInv /\ HonourInv /\ MarkInv /\ OnceInv /\ LoginInv /\ RevokedForAReason
    BY DEF Init, RevokeInv, HonourInv, MarkInv, OnceInv, LoginInv,
           RevokedForAReason, Passed, Did
<1>4. ChainInv
    BY DEF Init, ChainInv, Set, Passed, Setters, Passwords
<1> QED BY <1>1, <1>2, <1>3, <1>4 DEF IInv

(* ... and is preserved.                                                   *)
LEMMA NextInv == IInv /\ [Next]_vars => IInv'
BY TypeNext, RequestNext, TokenInvNext, RevokeInvNext, HonourInvNext, MarkInvNext,
   OnceInvNext, ChainInvNext, LoginInvNext, RevokedForAReasonNext DEF IInv

(* The inductive invariant.                                                *)
THEOREM Inductive == Spec => []IInv
BY InitInv, NextInv, PTL DEF Spec

(* Type correctness for all requests and users.                            *)
THEOREM TypeCorrect == Spec => []TypeOK
<1>1. IInv => TypeOK
    BY DEF IInv
<1> QED BY <1>1, Inductive, PTL

(* A session open before a logout, a change or a reset is not prolonged    *)
(* after it was answered, unless the revocation failed or a later login    *)
(* stored the same token: AuthService.revoke_tokens.                       *)
THEOREM RevocationCorrect == Spec => []RevocationHolds
<1>1. IInv => RevocationHolds
    BY DEF IInv, HonourInv, RevocationHolds, Passed, Did
<1> QED BY <1>1, Inductive, PTL

(* Of two resets of one token, the second begun after the first was        *)
(* answered, each uses up a stored row of its own:                         *)
(* AuthService.reset_password.                                             *)
THEOREM ResetOnce == Spec => []ResetTokenOnce
<1>1. IInv => ResetTokenOnce
    BY DEF IInv, OnceInv, TokenInv, ResetTokenOnce, Found, Stored, Passed, Did
<1> QED BY <1>1, Inductive, PTL

(* Nobody is logged out by others, or by a request that was over when he   *)
(* logged in.                                                              *)
THEOREM RevokedWithReason == Spec => []RevokedForAReason
<1>1. IInv => RevokedForAReason
    BY DEF IInv
<1> QED BY <1>1, Inductive, PTL

(* A password replaced when a change or a reset was answered opens no      *)
(* session afterwards.                                                     *)
THEOREM OldRefused == Spec => []OldPasswordRefused
<1>1. IInv => OldPasswordRefused
    BY DEF IInv, LoginInv, OldPasswordRefused, Passed, Did
<1> QED BY <1>1, Inductive, PTL
=============================================================================
