----------------------- MODULE ManagerFrontendProofs -----------------------
(***************************************************************************)
(* Proofs about the manager's frontend.  ManagerSession: its type          *)
(* invariant, and that a tab that reads no login half stored is signed in  *)
(* by one login that is not over, for any number of tabs and logins.       *)
(* ManagerPages: that rows are those asked for and updates those of their  *)
(* user, for any lists, filters and numbers of clicks.  TestReports: its   *)
(* type invariant, and that the two pages agree, for any number of results *)
(* of any devices and types, any limits and any cuts.                      *)
(***************************************************************************)
EXTENDS ManagerSession, ManagerPages, TestReports, FiniteSetTheorems, SequenceTheorems,
        TLAPS

Steps == [at : {"nothing", "loading", "reading", "storing", "removing", "clearing"},
          login : 0..MaxSignIns, torn : BOOLEAN, reload : BOOLEAN]
Contexts == [token : 0..MaxSignIns, user : 0..MaxSignIns]

(* No login is known before it is made.                                    *)
Numbered ==
    \A t \in Tabs : context[t].token \in 0..signIns /\ doing[t].login \in 0..signIns

(* Two tabs never store one login, and its user is stored once.            *)
StoringInv ==
    \A t \in Tabs : Does(t, "storing") =>
        /\ doing[t].login \notin {0, storedUser}
        /\ \A u \in Tabs \ {t} : Does(u, "storing") => doing[u].login # doing[t].login

(* A tab that removed the token finds only a later one in its place.       *)
ClearInv ==
    \A t \in Tabs : Does(t, "clearing") => authToken = 0 \/ authToken # context[t].token

(* The stored token is that of the user, of no user, or of the one login   *)
(* that is being stored: unless two were at a time.                        *)
PairInv ==
    authToken # 0 /\ authToken \notin crossed =>
        /\ \A t \in Tabs : Does(t, "storing") =>
              doing[t].login = authToken /\ authToken \notin ended
        /\ storedUser = authToken => authToken \notin ended
        /\ storedUser \in {0, authToken} \/ \E t \in Tabs : Does(t, "storing")

(* What a tab that has read the token is about to read.                    *)
ReadInv ==
    \A t \in Tabs :
        Does(t, "reading") /\ ~doing[t].torn
        /\ doing[t].login # 0 /\ doing[t].login \notin crossed =>
            storedUser \in {0, doing[t].login} /\ storedUser \notin ended

SessionInv == ManagerTypeOK /\ Numbered /\ StoringInv /\ ClearInv /\ PairInv /\ ReadInv

(* The pages and the requests of the tabs.                                 *)
PagesOK ==
    /\ route \in [Tabs -> AppPages \cup {"login"}] /\ context \in [Tabs -> Contexts]
    /\ waiting \subseteq Tabs /\ leaving \in [Tabs -> 0..MaxSignOuts]

LEMMA DoingFields ==
    ASSUME NEW at \in {"nothing", "loading", "reading", "storing", "removing", "clearing"},
           NEW k \in 0..MaxSignIns, NEW torn \in BOOLEAN, NEW reload \in BOOLEAN
    PROVE  /\ Doing(at, k, torn, reload) \in Steps
           /\ Doing(at, k, torn, reload).at = at /\ Doing(at, k, torn, reload).login = k
           /\ Doing(at, k, torn, reload).torn = torn
BY DEF Doing, Steps

LEMMA RestFields == AtRest \in Steps /\ AtRest.at = "nothing" /\ AtRest.login = 0
<1>1. 0 \in 0..MaxSignIns
    BY ManagerSessionAssumption
<1> QED BY <1>1 DEF AtRest, Doing, Steps

LEMMA NobodyFields == Nobody \in Contexts /\ Nobody.token = 0 /\ Nobody.user = 0
<1>1. 0 \in 0..MaxSignIns
    BY ManagerSessionAssumption
<1> QED BY <1>1 DEF Nobody, Contexts

LEMMA Ranges ==
    ASSUME ManagerTypeOK
    PROVE  /\ signIns \in Nat /\ signIns <= MaxSignIns /\ MaxSignIns \in Nat
           /\ authToken \in 0..signIns /\ storedUser \in 0..signIns
           /\ 0 \in 0..signIns /\ 0 \in 0..MaxSignIns /\ signIns \in 0..MaxSignIns
           /\ \A k \in 0..signIns : k \in 0..MaxSignIns /\ k \in Nat
           /\ \A k \in 0..signIns : k # 0 => k \in 1..signIns
           /\ 0 \notin ended /\ 0 \notin crossed
           /\ PagesOK /\ doing \in [Tabs -> Steps]
<1>1. /\ signIns \in 0..MaxSignIns /\ {authToken, storedUser} \subseteq 0..signIns
      /\ ended \subseteq 1..signIns /\ crossed \subseteq 1..signIns
    BY DEF ManagerTypeOK
<1>2. PagesOK /\ doing \in [Tabs -> Steps]
    BY DEF ManagerTypeOK, PagesOK, Contexts, Steps
<1> QED BY <1>1, <1>2, ManagerSessionAssumption

(* A step of one tab that changes nothing else of what the tabs are doing. *)
LEMMA DoOne ==
    ASSUME ManagerTypeOK, NEW t \in Tabs, NEW d \in Steps, doing' = [doing EXCEPT ![t] = d]
    PROVE  /\ doing' \in [Tabs -> Steps] /\ doing'[t] = d
           /\ \A u \in Tabs \ {t} : doing'[u] = doing[u]
BY Ranges

LEMMA DoTearing ==
    ASSUME ManagerTypeOK, NEW t \in Tabs, NEW d \in Steps, TearReads(t, d)
    PROVE  /\ doing' \in [Tabs -> Steps] /\ doing'[t] = d
           /\ \A u \in Tabs \ {t} : /\ doing'[u].at = doing[u].at
                                    /\ doing'[u].login = doing[u].login
                                    /\ doing'[u].at = "reading" => doing'[u].torn
<1>1. \A u \in Tabs : doing[u] \in Steps /\ doing[u].login \in 0..MaxSignIns
    BY Ranges DEF Steps
<1>2. \A u \in Tabs : Doing("reading", doing[u].login, TRUE, FALSE) \in Steps
    BY <1>1, DoingFields
<1>3. \A u \in Tabs \ {t} : Does(u, "reading") =>
          doing'[u] = Doing("reading", doing[u].login, TRUE, FALSE)
    BY DEF TearReads
<1>4. \A u \in Tabs \ {t} : ~Does(u, "reading") => doing'[u] = doing[u]
    BY DEF TearReads
<1>5. doing'[t] = d
    BY DEF TearReads
<1>6. doing' \in [Tabs -> Steps]
    BY <1>1, <1>2 DEF TearReads
<1>7. \A u \in Tabs : Doing("reading", doing[u].login, TRUE, FALSE).at = "reading"
          /\ Doing("reading", doing[u].login, TRUE, FALSE).login = doing[u].login
          /\ Doing("reading", doing[u].login, TRUE, FALSE).torn
    BY DEF Doing
<1> QED BY <1>3, <1>4, <1>5, <1>6, <1>7 DEF Does

(* A tab that is loaded anew.                                              *)
LEMMA LoadKeeps ==
    ASSUME ManagerTypeOK, NEW t \in Tabs, NEW path \in AppPages \cup {"login"},
           LoadPage(t, path)
    PROVE  /\ PagesOK' /\ doing' \in [Tabs -> Steps]
           /\ doing'[t].at = "loading" /\ doing'[t].login = 0
           /\ \A u \in Tabs \ {t} : doing'[u] = doing[u] /\ context'[u] = context[u]
           /\ context'[t] = Nobody
<1> DEFINE d == Doing("loading", 0, FALSE, FALSE)
<1>1. d \in Steps /\ d.at = "loading" /\ d.login = 0
    BY Ranges DEF Doing, Steps
<1>2. doing' = [doing EXCEPT ![t] = d]
    BY DEF LoadPage
<1> HIDE DEF d
<1>3. /\ doing' \in [Tabs -> Steps] /\ doing'[t] = d
      /\ \A u \in Tabs \ {t} : doing'[u] = doing[u]
    BY <1>1, <1>2, DoOne
<1>4. 0 \in 0..MaxSignOuts
    BY ManagerSessionAssumption
<1>5. PagesOK' /\ context'[t] = Nobody /\ \A u \in Tabs \ {t} : context'[u] = context[u]
    BY <1>4, Ranges, NobodyFields DEF LoadPage, PagesOK
<1> QED BY <1>1, <1>3, <1>5

LEMMA SessionStart == ManagerInit => SessionInv
<1> SUFFICES ASSUME ManagerInit PROVE SessionInv
    OBVIOUS
<1>1. 0 \in 0..MaxSignIns /\ 0 \in 0..MaxSignOuts /\ 0 \in 0..0 /\ {} \subseteq 1..0
    BY ManagerSessionAssumption
<1>2. ManagerTypeOK
    BY <1>1, RestFields, NobodyFields
       DEF ManagerInit, ManagerTypeOK, Steps, Contexts
<1>3. \A t \in Tabs : doing[t] = AtRest /\ context[t] = Nobody
    BY DEF ManagerInit
<1> QED BY <1>1, <1>2, <1>3, RestFields, NobodyFields
        DEF ManagerInit, SessionInv, Numbered, StoringInv, ClearInv, PairInv, ReadInv, Does

(* The invariant but for the types, when no tab begins to read or store or *)
(* to clear: the stored user stays or goes, and then it may be over; the   *)
(* token stays.                                                            *)
LEMMA Onward ==
    ASSUME SessionInv, NEW t \in Tabs,
           UNCHANGED <<authToken, signIns, crossed>>,
           \/ UNCHANGED <<storedUser, ended>>
           \/ storedUser' = 0 /\ ended' \subseteq ended \cup ({storedUser} \ {0}),
           ~Does(t, "storing"), doing'[t].at \notin {"reading", "storing", "clearing"},
           doing'[t].login = 0,
           \A u \in Tabs \ {t} : doing'[u] = doing[u] /\ context'[u] = context[u],
           context'[t].token \in 0..signIns
    PROVE  (Numbered /\ StoringInv /\ ClearInv /\ PairInv /\ ReadInv)'
<1> USE DEF SessionInv
<1>1. authToken \in 0..signIns /\ 0 \in 0..signIns /\ 0 \notin ended /\ 0 \notin crossed
    BY Ranges
<1>2. Numbered'
    BY <1>1 DEF Numbered
<1>3. \A u \in Tabs : Does(u, "storing")' => u # t /\ Does(u, "storing") /\ doing'[u] = doing[u]
    BY DEF Does
<1>4. \A u \in Tabs : Does(u, "storing") => Does(u, "storing")'
    BY DEF Does
<1>5. StoringInv'
    BY <1>3 DEF StoringInv
<1>6. ClearInv'
    BY DEF ClearInv, Does
<1>7. PairInv'
    <2> SUFFICES ASSUME authToken # 0, authToken \notin crossed
                 PROVE  /\ \A u \in Tabs : Does(u, "storing")' =>
                              doing'[u].login = authToken /\ authToken \notin ended'
                        /\ storedUser' = authToken => authToken \notin ended'
                        /\ storedUser' \in {0, authToken} \/ \E u \in Tabs : Does(u, "storing")'
        BY DEF PairInv
    <2>1. ASSUME NEW u \in Tabs, Does(u, "storing")'
          PROVE  doing'[u].login = authToken /\ authToken \notin ended'
        <3>1. doing[u].login = authToken /\ authToken \notin ended /\ storedUser # authToken
            BY <1>3, <2>1 DEF PairInv, StoringInv
        <3> QED BY <1>3, <2>1, <3>1
    <2> QED BY <1>4, <2>1 DEF PairInv
<1>8. ReadInv'
    BY <1>1 DEF ReadInv, Does
<1> QED BY <1>2, <1>5, <1>6, <1>7, <1>8

(* Steps of a tab that is in the middle of nothing and stays so.           *)
LEMMA FreeInv ==
    ASSUME SessionInv, NEW t \in Tabs, Free(t),
           UNCHANGED <<authToken, signIns, crossed, context, doing>>,
           \/ UNCHANGED <<storedUser, ended>>
           \/ ForgetUser,
           PagesOK'
    PROVE  SessionInv'
<1> USE DEF SessionInv
<1>1. doing[t] = AtRest
    BY DEF Free
<1>2. context[t].token \in 0..signIns
    BY DEF Numbered
<1>3. \/ UNCHANGED <<storedUser, ended>>
      \/ storedUser' = 0 /\ ended' \subseteq ended \cup ({storedUser} \ {0})
    BY DEF ForgetUser
<1>4. (Numbered /\ StoringInv /\ ClearInv /\ PairInv /\ ReadInv)'
    BY <1>1, <1>2, <1>3, RestFields, Onward DEF Does
<1>5. ended' \subseteq 1..signIns /\ storedUser' \in 0..signIns
    BY <1>3, Ranges DEF ManagerTypeOK
<1>6. ManagerTypeOK'
    BY <1>5 DEF ManagerTypeOK, PagesOK, Contexts
<1> QED BY <1>4, <1>6

LEMMA OpenInv ==
    ASSUME SessionInv, NEW t \in Tabs, NEW path \in AppPages \cup {"login"}, Free(t),
           LoadPage(t, path), UNCHANGED <<authToken, signIns, crossed>>,
           UNCHANGED <<storedUser, ended>> \/ ForgetUser
    PROVE  SessionInv'
<1> USE DEF SessionInv
<1>1. /\ PagesOK' /\ doing' \in [Tabs -> Steps]
      /\ doing'[t].at = "loading" /\ doing'[t].login = 0
      /\ \A u \in Tabs \ {t} : doing'[u] = doing[u] /\ context'[u] = context[u]
      /\ context'[t] = Nobody
    BY LoadKeeps
<1>2. ~Does(t, "storing")
    BY RestFields DEF Free, Does
<1>3. \/ UNCHANGED <<storedUser, ended>>
      \/ storedUser' = 0 /\ ended' \subseteq ended \cup ({storedUser} \ {0})
    BY DEF ForgetUser
<1>4. context'[t].token \in 0..signIns
    BY <1>1, NobodyFields, Ranges
<1>5. (Numbered /\ StoringInv /\ ClearInv /\ PairInv /\ ReadInv)'
    BY <1>1, <1>2, <1>3, <1>4, Onward
<1>6. ended' \subseteq 1..signIns /\ storedUser' \in 0..signIns
    BY <1>3, Ranges DEF ManagerTypeOK
<1>7. ManagerTypeOK'
    BY <1>1, <1>6 DEF ManagerTypeOK, PagesOK, Contexts, Steps
<1> QED BY <1>5, <1>7

LEMMA ReadTokenInv == ASSUME SessionInv, NEW t \in Tabs, ReadToken(t) PROVE SessionInv'
<1> USE DEF SessionInv
<1> DEFINE d == Doing("reading", authToken, Storing # {}, FALSE)
<1>1. UNCHANGED <<authToken, storedUser, signIns, route, context, waiting, leaving, ended, crossed>>
      /\ doing' = [doing EXCEPT ![t] = d] /\ Does(t, "loading")
    BY DEF ReadToken, shared, shown, requests
<1>2. authToken \in 0..MaxSignIns /\ authToken \in 0..signIns
    BY Ranges
<1>3. d \in Steps /\ d.at = "reading" /\ d.login = authToken /\ d.torn = (Storing # {})
    BY <1>2 DEF Doing, Steps
<1> HIDE DEF d
<1>4. /\ doing' \in [Tabs -> Steps] /\ doing'[t] = d
      /\ \A u \in Tabs \ {t} : doing'[u] = doing[u]
    BY <1>1, <1>3, DoOne
<1>5. ManagerTypeOK'
    BY <1>1, <1>4 DEF ManagerTypeOK, Steps
<1>6. \A u \in Tabs : Does(u, "storing")' =>
          u # t /\ Does(u, "storing") /\ doing'[u] = doing[u]
    BY <1>3, <1>4 DEF Does
<1>7. \A u \in Tabs : Does(u, "storing") => Does(u, "storing")'
    BY <1>1, <1>4 DEF Does
<1>8. Numbered'
    BY <1>1, <1>2, <1>3, <1>4 DEF Numbered
<1>9. StoringInv'
    BY <1>1, <1>6 DEF StoringInv
<1>10. ClearInv'
    BY <1>1, <1>3, <1>4 DEF ClearInv, Does
<1>11. PairInv'
    BY <1>1, <1>6, <1>7 DEF PairInv
<1>12. ReadInv'
    <2>1. ASSUME ~d.torn, authToken # 0, authToken \notin crossed
          PROVE  storedUser \in {0, authToken} /\ storedUser \notin ended
        <3>1. \A u \in Tabs : ~Does(u, "storing")
            BY <1>3, <2>1 DEF Storing
        <3> QED BY <2>1, <3>1, Ranges DEF PairInv
    <2> QED BY <1>1, <1>3, <1>4, <2>1 DEF ReadInv, Does
<1> QED BY <1>5, <1>8, <1>9, <1>10, <1>11, <1>12

LEMMA ReadUserInv == ASSUME SessionInv, NEW t \in Tabs, ReadUser(t) PROVE SessionInv'
<1> USE DEF SessionInv
<1> DEFINE c == Restored(doing[t].login, storedUser)
<1>1. /\ UNCHANGED <<authToken, storedUser, signIns, leaving, ended, crossed>>
      /\ Does(t, "reading") /\ doing' = [doing EXCEPT ![t] = AtRest]
      /\ context' = [context EXCEPT ![t] = c]
      /\ route' = [route EXCEPT ![t] = Routed(c, route[t])]
      /\ waiting' = Loads(t, Routed(c, route[t]))
    BY DEF ReadUser, shared
<1>2. c \in Contexts /\ c.token \in 0..signIns
    BY Ranges, NobodyFields DEF Numbered, Restored, Contexts
<1> HIDE DEF c
<1>3. /\ doing' \in [Tabs -> Steps] /\ doing'[t] = AtRest
      /\ \A u \in Tabs \ {t} : doing'[u] = doing[u]
    BY <1>1, RestFields, DoOne
<1>4. Routed(c, route[t]) \in AppPages \cup {"login"}
    BY Ranges DEF Routed, Protected, PagesOK
<1>5. PagesOK' /\ context'[t] = c /\ \A u \in Tabs \ {t} : context'[u] = context[u]
    BY <1>1, <1>2, <1>4, Ranges DEF PagesOK, Loads
<1>6. ManagerTypeOK'
    BY <1>1, <1>3, <1>5 DEF ManagerTypeOK, PagesOK, Contexts, Steps
<1>7. (Numbered /\ StoringInv /\ ClearInv /\ PairInv /\ ReadInv)'
    BY <1>1, <1>2, <1>3, <1>5, RestFields, Onward DEF Does
<1> QED BY <1>6, <1>7

LEMMA StoreTokenInv == ASSUME SessionInv, NEW t \in Tabs, onSuccess(t) PROVE SessionInv'
<1> USE DEF SessionInv
<1> DEFINE n == signIns + 1
           d == Doing("storing", n, FALSE, FALSE)
<1>1. /\ Free(t) /\ signIns < MaxSignIns /\ signIns' = n /\ authToken' \in {0, n}
      /\ TearReads(t, d)
      /\ crossed' = IF Storing = {} THEN crossed ELSE crossed \cup Storing \cup {n}
      /\ UNCHANGED <<storedUser, route, context, waiting, leaving, ended>>
    BY DEF onSuccess, shown, requests
<1>2. /\ n \in 0..MaxSignIns /\ n \in 0..n /\ n \in 1..n /\ 0 \in 0..n /\ n # 0
      /\ \A k \in 0..signIns : k \in 0..n /\ k # n
      /\ \A k \in 1..signIns : k \in 1..n /\ k # n
    BY <1>1, Ranges
<1>3. d \in Steps /\ d.at = "storing" /\ d.login = n
    BY <1>2 DEF Doing, Steps
<1> HIDE DEF d
<1>4. /\ doing' \in [Tabs -> Steps] /\ doing'[t] = d
      /\ \A u \in Tabs \ {t} : /\ doing'[u].at = doing[u].at
                               /\ doing'[u].login = doing[u].login
                               /\ doing'[u].at = "reading" => doing'[u].torn
    BY <1>1, <1>3, DoTearing
<1>5. Storing \subseteq 1..signIns
    BY Ranges DEF Storing, StoringInv, Numbered
<1>6. crossed' \subseteq 1..n /\ ended \subseteq 1..n /\ n \notin ended
    <2>1. ended \subseteq 1..signIns /\ crossed \subseteq 1..signIns
        BY DEF ManagerTypeOK
    <2> QED BY <1>1, <1>2, <1>5, <2>1
<1>7. ManagerTypeOK'
    <2>1. signIns' \in 0..MaxSignIns /\ {authToken, storedUser}' \subseteq 0..signIns'
        BY <1>1, <1>2, Ranges
    <2> QED BY <1>1, <1>4, <1>6, <2>1, Ranges DEF ManagerTypeOK, PagesOK, Contexts, Steps
<1>8. Numbered'
    BY <1>1, <1>2, <1>3, <1>4 DEF Numbered
<1>9. \A u \in Tabs \ {t} : Does(u, "storing")' => Does(u, "storing") /\ doing[u].login \in 0..signIns
    BY <1>4 DEF Does, Numbered
<1>10. StoringInv'
    <2>1. storedUser # n
        BY <1>2, Ranges
    <2>2. ASSUME NEW u \in Tabs, Does(u, "storing")'
          PROVE  /\ doing'[u].login \notin {0, storedUser}
                 /\ \A v \in Tabs \ {u} : Does(v, "storing")' => doing'[v].login # doing'[u].login
        <3>1. CASE u = t
            BY <1>2, <1>3, <1>4, <1>9, <2>1, <3>1
        <3>2. CASE u # t
            <4>1. Does(u, "storing") /\ doing'[u].login = doing[u].login
                  /\ doing[u].login \in 0..signIns
                BY <1>4, <1>9, <2>2, <3>2
            <4> QED BY <1>2, <1>3, <1>4, <1>9, <4>1, <3>2 DEF StoringInv
        <3> QED BY <3>1, <3>2
    <2> QED BY <1>1, <2>2 DEF StoringInv
<1>11. ClearInv'
    BY <1>1, <1>2, <1>3, <1>4 DEF ClearInv, Does, Numbered
<1>12. PairInv'
    <2> SUFFICES ASSUME authToken' = n, n \notin crossed'
                 PROVE  /\ \A u \in Tabs : Does(u, "storing")' =>
                              doing'[u].login = n /\ n \notin ended
                        /\ storedUser = n => n \notin ended
                        /\ storedUser \in {0, n} \/ \E u \in Tabs : Does(u, "storing")'
        BY <1>1 DEF PairInv
    <2>1. Storing = {}
        BY <1>1
    <2>2. \A u \in Tabs : ~Does(u, "storing")
        BY <2>1 DEF Storing
    <2>3. Does(t, "storing")'
        BY <1>3, <1>4 DEF Does
    <2> QED BY <1>3, <1>4, <1>6, <1>9, <2>2, <2>3
<1>13. ReadInv'
    BY <1>3, <1>4 DEF ReadInv, Does
<1> QED BY <1>7, <1>8, <1>10, <1>11, <1>12, <1>13

LEMMA StoreUserInv == ASSUME SessionInv, NEW t \in Tabs, StoreUser(t) PROVE SessionInv'
<1> USE DEF SessionInv
<1> DEFINE k == doing[t].login
<1>1. /\ Does(t, "storing") /\ storedUser' = k /\ TearReads(t, AtRest)
      /\ route' = [route EXCEPT ![t] = Protected(context[t], "dashboard")]
      /\ waiting' = Loads(t, route'[t])
      /\ UNCHANGED <<authToken, signIns, context, leaving, ended, crossed>>
    BY DEF StoreUser
<1>2. /\ doing' \in [Tabs -> Steps] /\ doing'[t] = AtRest
      /\ \A u \in Tabs \ {t} : /\ doing'[u].at = doing[u].at
                               /\ doing'[u].login = doing[u].login
                               /\ doing'[u].at = "reading" => doing'[u].torn
    BY <1>1, RestFields, DoTearing
<1>3. k \in 0..signIns /\ k # 0
    BY <1>1 DEF Numbered, StoringInv
<1>4. PagesOK'
    <2>1. Protected(context[t], "dashboard") \in AppPages \cup {"login"}
        BY DEF Protected, AppPages
    <2>2. route' \in [Tabs -> AppPages \cup {"login"}] /\ waiting' \subseteq Tabs
        BY <1>1, <2>1, Ranges DEF PagesOK, Loads
    <2> QED BY <1>1, <2>2, Ranges DEF PagesOK
<1>5. ManagerTypeOK'
    BY <1>1, <1>2, <1>3, <1>4 DEF ManagerTypeOK, PagesOK, Contexts, Steps
<1>6. \A u \in Tabs : Does(u, "storing")' =>
          u # t /\ Does(u, "storing") /\ doing'[u].login = doing[u].login
    BY <1>2, RestFields DEF Does
<1>7. Numbered'
    BY <1>1, <1>2, RestFields, Ranges DEF Numbered
<1>8. StoringInv'
    BY <1>1, <1>6 DEF StoringInv
<1>9. ClearInv'
    BY <1>1, <1>2, RestFields DEF ClearInv, Does
<1>10. PairInv'
    BY <1>1, <1>6 DEF PairInv
<1>11. ReadInv'
    BY <1>1, <1>2, RestFields DEF ReadInv, Does
<1> QED BY <1>5, <1>7, <1>8, <1>9, <1>10, <1>11

LEMMA LeaveInv == ASSUME SessionInv, NEW t \in Tabs, contextLogout(t) PROVE SessionInv'
<1> USE DEF SessionInv
<1>1. PICK reload \in BOOLEAN : doing' = [doing EXCEPT ![t] = Doing("removing", 0, FALSE, reload)]
    BY DEF contextLogout
<1>2. /\ Free(t) /\ leaving[t] > 0 /\ leaving' = [leaving EXCEPT ![t] = @ - 1]
      /\ UNCHANGED <<authToken, signIns, route, context, waiting, crossed>>
      /\ \/ UNCHANGED <<storedUser, ended>>
         \/ storedUser' = 0 /\ ended' \subseteq ended \cup ({storedUser} \ {0})
    BY DEF contextLogout, ForgetUser, shown
<1> DEFINE d == Doing("removing", 0, FALSE, reload)
<1>3. d \in Steps /\ d.at = "removing" /\ d.login = 0
    BY Ranges DEF Doing, Steps
<1> HIDE DEF d
<1>4. /\ doing' \in [Tabs -> Steps] /\ doing'[t] = d
      /\ \A u \in Tabs \ {t} : doing'[u] = doing[u]
    BY <1>1, <1>3, DoOne DEF d
<1>5. leaving' \in [Tabs -> 0..MaxSignOuts]
    <2>1. leaving \in [Tabs -> 0..MaxSignOuts] /\ MaxSignOuts \in Nat
        BY Ranges, ManagerSessionAssumption DEF PagesOK
    <2>2. leaving[t] - 1 \in 0..MaxSignOuts
        BY <1>2, <2>1
    <2> QED BY <1>2, <2>1, <2>2
<1>6. ended' \subseteq 1..signIns /\ storedUser' \in 0..signIns
    BY <1>2, Ranges DEF ManagerTypeOK
<1>7. ManagerTypeOK'
    BY <1>2, <1>4, <1>5, <1>6 DEF ManagerTypeOK, Steps
<1>8. ~Does(t, "storing") /\ context'[t].token \in 0..signIns
    BY <1>2, RestFields DEF Free, Does, Numbered
<1>9. (Numbered /\ StoringInv /\ ClearInv /\ PairInv /\ ReadInv)'
    BY <1>2, <1>3, <1>4, <1>8, Onward
<1> QED BY <1>7, <1>9

LEMMA RemoveTokenInv == ASSUME SessionInv, NEW t \in Tabs, RemoveToken(t) PROVE SessionInv'
<1> USE DEF SessionInv
<1> DEFINE d == Doing("clearing", 0, FALSE, doing[t].reload)
<1>1. /\ Does(t, "removing") /\ authToken' = 0 /\ doing' = [doing EXCEPT ![t] = d]
      /\ UNCHANGED <<storedUser, signIns, route, context, waiting, leaving, ended, crossed>>
    BY DEF RemoveToken, shown, requests
<1>2. d \in Steps /\ d.at = "clearing" /\ d.login = 0
    <2>1. doing[t].reload \in BOOLEAN
        BY Ranges DEF Steps
    <2> QED BY <2>1, Ranges DEF Doing, Steps
<1> HIDE DEF d
<1>3. /\ doing' \in [Tabs -> Steps] /\ doing'[t] = d
      /\ \A u \in Tabs \ {t} : doing'[u] = doing[u]
    BY <1>1, <1>2, DoOne
<1>4. ManagerTypeOK'
    BY <1>1, <1>3, Ranges DEF ManagerTypeOK, Steps
<1>5. Numbered' /\ ClearInv' /\ PairInv'
    BY <1>1, <1>2, <1>3, Ranges DEF Numbered, ClearInv, PairInv
<1>6. StoringInv'
    BY <1>1, <1>2, <1>3 DEF StoringInv, Does
<1>7. ReadInv'
    BY <1>1, <1>2, <1>3 DEF ReadInv, Does
<1> QED BY <1>4, <1>5, <1>6, <1>7

LEMMA RemoveUserInv == ASSUME SessionInv, NEW t \in Tabs, RemoveUser(t) PROVE SessionInv'
<1> USE DEF SessionInv
<1>1. /\ Does(t, "clearing") /\ storedUser' = 0
      /\ ended' = ended \cup ({context[t].token, storedUser} \ {0})
      /\ UNCHANGED <<authToken, signIns, crossed>>
    BY DEF RemoveUser
<1>2. /\ PagesOK' /\ doing' \in [Tabs -> Steps]
      /\ doing'[t].at \in {"loading", "nothing"} /\ doing'[t].login = 0
      /\ \A u \in Tabs \ {t} : doing'[u] = doing[u] /\ context'[u] = context[u]
      /\ context'[t] = Nobody
    <2>1. CASE LoadPage(t, "login")
        BY <2>1, LoadKeeps
    <2>2. CASE /\ context' = [context EXCEPT ![t] = Nobody]
               /\ route' = [route EXCEPT ![t] = "login"]
               /\ doing' = [doing EXCEPT ![t] = AtRest] /\ UNCHANGED <<waiting, leaving>>
        <3>1. /\ doing' \in [Tabs -> Steps] /\ doing'[t] = AtRest
              /\ \A u \in Tabs \ {t} : doing'[u] = doing[u]
            BY <2>2, RestFields, DoOne
        <3> QED BY <2>2, <3>1, RestFields, NobodyFields, Ranges DEF PagesOK
    <2> QED BY <2>1, <2>2 DEF RemoveUser, requests
<1>3. context[t].token \in 0..signIns
    BY DEF Numbered
<1>4. ended' \subseteq 1..signIns /\ 0 \notin ended'
    BY <1>1, <1>3, Ranges DEF ManagerTypeOK
<1>5. ManagerTypeOK'
    BY <1>1, <1>2, <1>4, Ranges DEF ManagerTypeOK, PagesOK, Contexts, Steps
<1>6. Numbered'
    BY <1>1, <1>2, NobodyFields, Ranges DEF Numbered
<1>7. \A u \in Tabs : Does(u, "storing")' =>
          u # t /\ Does(u, "storing") /\ doing'[u] = doing[u]
    BY <1>2 DEF Does
<1>8. StoringInv'
    BY <1>1, <1>7 DEF StoringInv
<1>9. ClearInv'
    BY <1>1, <1>2 DEF ClearInv, Does
<1>10. PairInv'
    <2>1. ASSUME authToken # 0, authToken \notin crossed, NEW u \in Tabs, Does(u, "storing")'
          PROVE  doing'[u].login = authToken /\ authToken \notin ended'
        <3>1. doing[u].login = authToken /\ authToken \notin ended /\ storedUser # authToken
            BY <1>7, <2>1 DEF PairInv, StoringInv
        <3>2. context[t].token # authToken
            BY <1>1, <2>1 DEF ClearInv
        <3> QED BY <1>1, <1>7, <2>1, <3>1, <3>2
    <2> QED BY <1>1, <2>1 DEF PairInv
<1>11. ReadInv'
    BY <1>1, <1>2, <1>4 DEF ReadInv, Does
<1> QED BY <1>5, <1>6, <1>8, <1>9, <1>10, <1>11

LEMMA SessionStep == SessionInv /\ [ManagerNext]_managerVars => SessionInv'
<1> SUFFICES ASSUME SessionInv, [ManagerNext]_managerVars PROVE SessionInv'
    OBVIOUS
<1>1. PagesOK
    BY Ranges DEF SessionInv
<1>2. ASSUME NEW t \in Tabs, NEW path \in AppPages \cup {"login"}, OpenURL(t, path)
      PROVE  SessionInv'
    BY <1>2, OpenInv DEF OpenURL, shared
<1>3. ASSUME NEW t \in Tabs, NEW path \in AppPages, FollowLink(t, path)
      PROVE  SessionInv'
    <2>1. PagesOK'
        BY <1>1, <1>3 DEF FollowLink, PagesOK, Loads
    <2> QED BY <1>3, <2>1, FreeInv DEF FollowLink, shared
<1>4. ASSUME NEW t \in Tabs, Answered(t) PROVE SessionInv'
    <2>1. PagesOK'
        BY <1>1, <1>4 DEF Answered, PagesOK, shown
    <2> QED BY <1>4, <2>1, FreeInv DEF Answered, shared, shown
<1>5. ASSUME NEW t \in Tabs, Unauthorised(t) PROVE SessionInv'
    <2>1. CASE LoadPage(t, "login")
        BY <1>5, <2>1, OpenInv DEF Unauthorised
    <2>2. CASE waiting' \in {waiting, waiting \ {t}} /\ UNCHANGED <<shown, leaving, doing>>
        <3>1. PagesOK'
            BY <1>1, <2>2 DEF PagesOK, shown
        <3> QED BY <1>5, <2>2, <3>1, FreeInv DEF Unauthorised, shown
    <2> QED BY <1>5, <2>1, <2>2 DEF Unauthorised
<1>6. ASSUME NEW t \in Tabs, handleLogout(t) PROVE SessionInv'
    <2>1. leaving \in [Tabs -> 0..MaxSignOuts] /\ MaxSignOuts \in Nat
        BY <1>1, ManagerSessionAssumption DEF PagesOK
    <2>2. leaving[t] + 1 \in 0..MaxSignOuts
        BY <1>6, <2>1 DEF handleLogout
    <2>3. PagesOK'
        BY <1>1, <1>6, <2>1, <2>2 DEF handleLogout, PagesOK, shown
    <2> QED BY <1>6, <2>3, FreeInv DEF handleLogout, shared, shown
<1>7. CASE UNCHANGED managerVars
    BY <1>7 DEF managerVars, shared, shown, requests, SessionInv, ManagerTypeOK, Numbered,
                StoringInv, ClearInv, PairInv, ReadInv, Does
<1> QED BY <1>2, <1>3, <1>4, <1>5, <1>6, <1>7, ReadTokenInv, ReadUserInv, StoreTokenInv,
           StoreUserInv, LeaveInv, RemoveTokenInv, RemoveUserInv DEF ManagerNext

THEOREM SessionCorrect == ManagerSpec => []SessionInv
BY SessionStart, SessionStep, PTL DEF ManagerSpec

(* The type invariant of ManagerSession.                                   *)
THEOREM SessionTypes == ManagerSpec => []ManagerTypeOK
BY SessionCorrect, PTL DEF SessionInv

(* A tab's context changes when the tab is loaded, when it has read what   *)
(* is stored, and when it signs out.                                       *)
LEMMA SignedInStep ==
    ASSUME SessionInv, [ManagerNext]_managerVars, NEW t \in Tabs,
           context'[t] # context[t], ~doing[t].torn, context'[t].token \notin crossed
    PROVE  context'[t].token = context'[t].user /\ context'[t].user \notin ended
<1>0. 0 \notin ended /\ context \in [Tabs -> Contexts]
    BY Ranges DEF SessionInv, PagesOK
<1>1. Nobody.token = Nobody.user /\ Nobody.user \notin ended
    BY <1>0, NobodyFields
<1>2. ASSUME NEW s \in Tabs, ReadUser(s)
      PROVE  context'[t].token = context'[t].user /\ context'[t].user \notin ended
    <2> DEFINE c == Restored(doing[s].login, storedUser)
    <2>1. context' = [context EXCEPT ![s] = c] /\ Does(s, "reading")
        BY <1>2 DEF ReadUser
    <2>2. s = t /\ context'[t] = c
        BY <1>0, <2>1
    <2>3. CASE doing[t].login # 0 /\ storedUser # 0
        <3>1. c = [token |-> doing[t].login, user |-> storedUser]
            BY <2>2, <2>3 DEF Restored
        <3>2. c.token = doing[t].login /\ c.user = storedUser
            BY <3>1
        <3> QED BY <2>1, <2>2, <2>3, <3>2 DEF SessionInv, ReadInv
    <2>4. CASE ~(doing[t].login # 0 /\ storedUser # 0)
        BY <1>1, <2>2, <2>4 DEF Restored
    <2> QED BY <2>3, <2>4
<1>3. ASSUME NEW s \in Tabs, NEW path, LoadPage(s, path) PROVE context'[t] = Nobody
    BY <1>0, <1>3 DEF LoadPage
<1>4. ASSUME NEW s \in Tabs, RemoveUser(s) PROVE context'[t] = Nobody
    BY <1>0, <1>3, <1>4 DEF RemoveUser
<1>5. ASSUME NEW s \in Tabs, Unauthorised(s) PROVE context'[t] = Nobody
    BY <1>3, <1>5 DEF Unauthorised, shown
<1>6. ASSUME NEW s \in Tabs, NEW path, OpenURL(s, path) PROVE context'[t] = Nobody
    BY <1>3, <1>6 DEF OpenURL
<1>7. ASSUME NEW s \in Tabs,
             (\E path \in AppPages : FollowLink(s, path)) \/ onSuccess(s) \/ StoreUser(s)
             \/ Answered(s) \/ handleLogout(s) \/ ReadToken(s) \/ contextLogout(s)
             \/ RemoveToken(s)
      PROVE  FALSE
    BY <1>7 DEF FollowLink, onSuccess, StoreUser, Answered, handleLogout, ReadToken,
        contextLogout, RemoveToken, shown
<1>8. ~UNCHANGED managerVars
    BY DEF managerVars, shown
<1> QED BY <1>1, <1>2, <1>4, <1>5, <1>6, <1>7, <1>8 DEF ManagerNext

(* A tab that is loaded, or that signs out, is left with the token and the *)
(* user of one login that is not over, or with neither, unless a login was *)
(* being stored while it read them, or two were at a time: AuthContext,    *)
(* Login.tsx and the interceptor of services/api.ts.                       *)
THEOREM EndedOut == ManagerSpec => EndedStaysOut
<1>1. SessionInv /\ [ManagerNext]_managerVars =>
        [\A t \in Tabs : context'[t] # context[t] =>
            \/ doing[t].torn \/ context'[t].token \in crossed
            \/ /\ context'[t].token = context'[t].user
               /\ context'[t].user \notin ended]_managerVars
    BY SignedInStep
<1> QED BY <1>1, SessionCorrect, PTL DEF ManagerSpec, EndedStaysOut

-----------------------------------------------------------------------------
(* ManagerPages.  Requests can only have crossed where they may, a page    *)
(* whose requests did not cross has at most one in flight, for its query,  *)
(* and the user of the edit modal is the one whose data the form holds.    *)
FlightInv ==
    /\ sent # {} => changed
    /\ raced => changed \/ mounted \in {"devices", "statistics"}
    /\ ~raced => \A r \in ListQueries :
          /\ listLoading /\ r = query => flying[r] = 1
          /\ ~listLoading \/ r # query => flying[r] = 0
    /\ ~listLoading /\ listed # Nothing /\ ~failed /\ ~raced => listed = query

EditInv == currentUser \in {None, formOf} /\ UpdateIsOfItsUser

PagesInv == PagesTypeOK /\ FlightInv /\ EditInv

LEMMA FirstIsQuery == FirstQuery \in ListQueries /\ 1 \in 1..MaxPages /\ 0 \in 0..MaxActs
BY PagesAssumption DEF FirstQuery, ListQueries

(* A page just mounted, by the router or at the start.                     *)
LEMMA MountedInv ==
    ASSUME NEW p \in PageNames, Mounted(p), acts' \in 0..MaxActs,
           canManage' \in BOOLEAN
    PROVE  PagesInv'
<1>1. flying' \in [ListQueries -> Nat]
    BY DEF Mounted
<1>2. PagesTypeOK'
    BY <1>1, FirstIsQuery DEF Mounted, PagesTypeOK
<1>3. FlightInv'
    BY DEF Mounted, FlightInv
<1>4. EditInv'
    BY DEF Mounted, EditInv, UpdateIsOfItsUser
<1> QED BY <1>2, <1>3, <1>4 DEF PagesInv

LEMMA PagesStart == PagesInit => PagesInv
<1> SUFFICES ASSUME PagesInit PROVE PagesInv
    OBVIOUS
<1>1. flying \in [ListQueries -> Nat]
    BY DEF PagesInit
<1>2. PagesTypeOK
    BY <1>1, FirstIsQuery DEF PagesInit, PagesTypeOK, PageNames
<1>3. FlightInv
    BY DEF PagesInit, FlightInv
<1>4. EditInv
    BY DEF PagesInit, EditInv, UpdateIsOfItsUser
<1> QED BY <1>2, <1>3, <1>4 DEF PagesInv

LEMMA Acted == ASSUME PagesTypeOK, Act PROVE acts' \in 0..MaxActs /\ acts' \in 1..MaxActs
BY PagesAssumption DEF PagesTypeOK, Act

(* What a request for the list of q does to the flights.                   *)
LEMMA Loading ==
    ASSUME PagesTypeOK, NEW q \in ListQueries, NEW now \in ListQueries,
           LoadList(q, now), query' = now
    PROVE  /\ listLoading' = TRUE /\ raced' \in BOOLEAN
           /\ flying' \in [ListQueries -> Nat]
           /\ ~raced' => q = now /\ \A r \in ListQueries : flying[r] = 0
           /\ ~raced' => \A r \in ListQueries :
                  /\ listLoading' /\ r = query' => flying'[r] = 1
                  /\ ~listLoading' \/ r # query' => flying'[r] = 0
<1>1. flying \in [ListQueries -> Nat]
    BY DEF PagesTypeOK
<1>2. listLoading' = TRUE /\ flying' = [flying EXCEPT ![q] = @ + 1]
      /\ raced' = (q # now \/ \E r \in ListQueries : flying[r] > 0)
    BY DEF LoadList
<1>3. flying[q] + 1 \in Nat
    BY <1>1
<1>4. flying' \in [ListQueries -> Nat]
    BY <1>1, <1>2, <1>3
<1>5. raced' \in BOOLEAN
    BY <1>2
<1>6. ASSUME ~raced' PROVE q = now /\ \A r \in ListQueries : flying[r] = 0
    <2>1. q = now /\ \A r \in ListQueries : ~(flying[r] > 0)
        BY <1>2, <1>6
    <2> QED BY <1>1, <2>1
<1>7. ASSUME ~raced', NEW r \in ListQueries
      PROVE  /\ r = query' => flying'[r] = 1
             /\ r # query' => flying'[r] = 0
    BY <1>1, <1>2, <1>6, <1>7
<1> QED BY <1>2, <1>4, <1>5, <1>6, <1>7

LEMMA AskInv == ASSUME PagesInv, NEW q \in ListQueries, Ask(q) PROVE PagesInv'
<1> USE DEF PagesInv
<1>1. q \in DevicesFilters \cup DevicesPager \cup UsersPager \cup StatisticsFilters
      /\ query' = q /\ LoadList(q, q) /\ Act
      /\ UNCHANGED <<canManage, mounted, listed, pages, edits, sent, failed, changed>>
    BY DEF Ask
<1>2. /\ listLoading' = TRUE /\ raced' \in BOOLEAN
      /\ flying' \in [ListQueries -> Nat]
      /\ ~raced' => \A r \in ListQueries : flying[r] = 0
      /\ ~raced' => \A r \in ListQueries :
             /\ listLoading' /\ r = query' => flying'[r] = 1
             /\ ~listLoading' \/ r # query' => flying'[r] = 0
    BY <1>1, Loading
<1>3. PagesTypeOK'
    BY <1>1, <1>2, Acted DEF PagesTypeOK, edits
<1>4. mounted \in {"devices", "statistics"} \/ q \in UsersPager
    BY <1>1 DEF DevicesFilters, DevicesPager, StatisticsFilters
<1>5. ASSUME raced', q \in UsersPager PROVE changed \/ mounted \in {"devices", "statistics"}
    <2>1. ~listLoading
        BY <1>5 DEF UsersPager
    <2>2. \E r \in ListQueries : flying[r] > 0
        BY <1>1, <1>5 DEF LoadList
    <2>3. raced
        BY <2>1, <2>2 DEF FlightInv
    <2> QED BY <2>3 DEF FlightInv
<1>6. FlightInv'
    BY <1>1, <1>2, <1>4, <1>5 DEF FlightInv
<1>7. EditInv'
    BY <1>1 DEF EditInv, UpdateIsOfItsUser, edits
<1> QED BY <1>3, <1>6, <1>7

LEMMA AnswerInv == ASSUME PagesInv, NEW q \in ListQueries, ListAnswered(q) PROVE PagesInv'
<1> USE DEF PagesInv
<1>1. /\ flying[q] > 0 /\ flying' = [flying EXCEPT ![q] = @ - 1]
      /\ listLoading' = FALSE
      /\ UNCHANGED <<canManage, mounted, query, edits, sent, acts, raced, changed>>
    BY DEF ListAnswered
<1>2. \/ listed' = q /\ pages' \in 1..MaxPages /\ failed' = FALSE
      \/ failed' = TRUE /\ UNCHANGED <<listed, pages>>
    BY DEF ListAnswered
<1>3. flying' \in [ListQueries -> Nat] /\ flying[q] - 1 \in Nat
    BY <1>1 DEF PagesTypeOK
<1>4. PagesTypeOK'
    BY <1>1, <1>2, <1>3 DEF PagesTypeOK, edits
<1>5. ASSUME ~raced PROVE q = query /\ \A r \in ListQueries : flying'[r] = 0
    <2>1. q = query /\ listLoading
        BY <1>1, <1>5 DEF FlightInv
    <2>2. flying[q] = 1 /\ \A r \in ListQueries \ {q} : flying[r] = 0
        BY <1>5, <2>1 DEF FlightInv
    <2> QED BY <1>1, <2>1, <2>2 DEF PagesTypeOK
<1>6. FlightInv'
    BY <1>1, <1>2, <1>5 DEF FlightInv
<1>7. EditInv'
    BY <1>1 DEF EditInv, UpdateIsOfItsUser, edits
<1> QED BY <1>4, <1>6, <1>7

LEMMA SendInv ==
    ASSUME PagesInv, NEW op \in Ops, NEW id \in Ids \cup {None}, SendChange(op, id),
           op = "edit" => id = currentUser /\ currentUser # None
    PROVE  PagesInv'
<1> USE DEF PagesInv
<1> DEFINE c == [op |-> op, id |-> id, query |-> query, n |-> acts',
                 form |-> IF op = "edit" THEN formOf ELSE None]
<1>1. sent' = sent \cup {c} /\ changed' = TRUE
      /\ UNCHANGED <<canManage, mounted, query, listLoading, listed, pages, edits,
                     flying, failed, raced>>
    BY DEF SendChange
<1>2. acts' \in 0..MaxActs /\ acts' \in 1..MaxActs
    BY Acted DEF SendChange
<1>3. (IF op = "edit" THEN formOf ELSE None) \in Ids \cup {None}
    BY DEF PagesTypeOK
<1>4. c \in Changes
    BY <1>2, <1>3 DEF PagesTypeOK, Changes
<1>5. c.op = "edit" => c.form = c.id /\ c.id # None
    BY DEF EditInv
<1> HIDE DEF c
<1>6. PagesTypeOK'
    BY <1>1, <1>2, <1>4 DEF PagesTypeOK, edits
<1>7. FlightInv'
    BY <1>1 DEF FlightInv
<1>8. EditInv'
    BY <1>1, <1>5 DEF EditInv, UpdateIsOfItsUser, edits
<1> QED BY <1>6, <1>7, <1>8

LEMMA ChangeInv == ASSUME PagesInv, NEW c \in sent, ChangeAnswered(c) PROVE PagesInv'
<1> USE DEF PagesInv
<1>1. /\ sent' = sent \ {c}
      /\ UNCHANGED <<canManage, mounted, query, listed, pages, formOf, acts, failed, changed>>
    BY DEF ChangeAnswered
<1>2. c.query \in ListQueries /\ query \in ListQueries
    BY DEF PagesTypeOK, Changes
<1>3. open' \subseteq Forms
    <2>1. Opens(c.op) \subseteq Forms
        BY DEF Opens, Forms
    <2> QED BY <2>1 DEF ChangeAnswered, PagesTypeOK
<1>4. currentUser' \in {None, formOf} /\ currentUser' \in Ids \cup {None}
    BY DEF ChangeAnswered, PagesTypeOK, EditInv
<1>5. changed
    BY DEF FlightInv
<1>6. LoadList(c.query, query) \/ UNCHANGED <<listLoading, flying, raced>>
    BY DEF ChangeAnswered
<1>7. EditInv'
    BY <1>1, <1>4 DEF EditInv, UpdateIsOfItsUser
<1>8. CASE LoadList(c.query, query)
    <2>1. /\ listLoading' = TRUE /\ raced' \in BOOLEAN
          /\ flying' \in [ListQueries -> Nat]
          /\ ~raced' => \A r \in ListQueries :
                 /\ listLoading' /\ r = query' => flying'[r] = 1
                 /\ ~listLoading' \/ r # query' => flying'[r] = 0
        BY <1>1, <1>2, <1>8, Loading
    <2>2. PagesTypeOK'
        BY <1>1, <1>3, <1>4, <2>1 DEF PagesTypeOK
    <2>3. FlightInv'
        BY <1>1, <1>5, <2>1 DEF FlightInv
    <2> QED BY <1>7, <2>2, <2>3
<1>9. CASE UNCHANGED <<listLoading, flying, raced>>
    <2>1. PagesTypeOK'
        BY <1>1, <1>3, <1>4, <1>9 DEF PagesTypeOK
    <2>2. FlightInv'
        BY <1>1, <1>5, <1>9 DEF FlightInv
    <2> QED BY <1>7, <2>1, <2>2
<1> QED BY <1>6, <1>8, <1>9

LEMMA FormInv ==
    ASSUME PagesInv,
           (\E f \in Forms : Toggle(f)) \/ (\E id \in Ids : openEditModal(id))
    PROVE  PagesInv'
<1> USE DEF PagesInv
<1>1. ASSUME NEW f \in Forms, Toggle(f) PROVE PagesInv'
    <2>1. /\ Act
          /\ UNCHANGED <<canManage, mounted, query, listLoading, listed, pages,
                         currentUser, formOf, flying, sent, failed, raced, changed>>
        BY <1>1 DEF Toggle
    <2>2. open' \subseteq Forms
        BY <1>1 DEF Toggle, PagesTypeOK
    <2>3. PagesTypeOK'
        BY <2>1, <2>2, Acted DEF PagesTypeOK
    <2> QED BY <2>1, <2>3 DEF FlightInv, EditInv, UpdateIsOfItsUser
<1>2. ASSUME NEW id \in Ids, openEditModal(id) PROVE PagesInv'
    <2>1. /\ Act /\ currentUser' = id /\ formOf' = id /\ open' = open \cup {"edit"}
          /\ UNCHANGED <<canManage, mounted, query, listLoading, listed, pages, flying,
                         sent, failed, raced, changed>>
        BY <1>2 DEF openEditModal
    <2>2. open' \subseteq Forms
        BY <2>1 DEF PagesTypeOK, Forms
    <2>3. PagesTypeOK'
        BY <2>1, <2>2, Acted DEF PagesTypeOK
    <2> QED BY <2>1, <2>3 DEF FlightInv, EditInv, UpdateIsOfItsUser
<1> QED BY <1>1, <1>2

LEMMA PagesStep == PagesInv /\ [PagesNext]_pagesVars => PagesInv'
<1> SUFFICES ASSUME PagesInv, [PagesNext]_pagesVars PROVE PagesInv'
    OBVIOUS
<1>0. {"device", "create", "edit", "delete", "setup", "verify", "password"} \subseteq Ops
    BY DEF Ops
<1>1. ASSUME NEW p \in PageNames, Visit(p) PROVE PagesInv'
    <2>1. Mounted(p) /\ canManage' = canManage /\ Act
        BY <1>1 DEF Visit
    <2> QED BY <2>1, MountedInv, Acted DEF PagesInv, PagesTypeOK
<1>2. ASSUME NEW id \in Ids, handleDeactivate(id) \/ handleDelete(id) PROVE PagesInv'
    BY <1>0, <1>2, SendInv DEF handleDeactivate, handleDelete
<1>3. ASSUME handleCreate \/ CreateOrganization \/ handleSetupMfa \/ handleVerifyMfa
             \/ handleChangePassword
      PROVE  PagesInv'
    BY <1>0, <1>3, SendInv DEF handleCreate, CreateOrganization, handleSetupMfa,
       handleVerifyMfa, handleChangePassword
<1>4. ASSUME handleEdit PROVE PagesInv'
    <2>1. currentUser # None /\ SendChange("edit", currentUser)
        BY <1>4 DEF handleEdit, EditUserModal
    <2>2. currentUser \in Ids \cup {None}
        BY DEF PagesInv, PagesTypeOK
    <2> QED BY <1>0, <2>1, <2>2, SendInv
<1>5. CASE UNCHANGED pagesVars
    <2>1. UNCHANGED <<canManage, mounted, query, listLoading, listed, pages, open,
                      currentUser, formOf, flying, sent, acts, failed, raced, changed>>
        BY <1>5 DEF pagesVars, edits
    <2>2. PagesTypeOK'
        BY <2>1 DEF PagesInv, PagesTypeOK
    <2> QED BY <2>1, <2>2 DEF PagesInv, FlightInv, EditInv, UpdateIsOfItsUser
<1> QED BY <1>1, <1>2, <1>3, <1>4, <1>5, AskInv, AnswerInv, ChangeInv, FormInv
        DEF PagesNext, UserActs

THEOREM PagesCorrect == PagesSpec => []PagesInv
BY PagesStart, PagesStep, PTL DEF PagesSpec

(* The type invariant of ManagerPages.                                     *)
THEOREM PagesTypes == PagesSpec => []PagesTypeOK
BY PagesCorrect, PTL DEF PagesInv

(* Rows that are shown are those asked for, unless a request failed or two *)
(* crossed: the effects and handlers of Devices, Users and Statistics.     *)
THEOREM RowsCorrect == PagesSpec => []RowsAreAskedFor
<1>1. PagesInv => RowsAreAskedFor
    BY DEF PagesInv, FlightInv, RowsAreAskedFor
<1> QED BY <1>1, PagesCorrect, PTL

(* An update is of its user: the edit modal of Users.                      *)
THEOREM UpdateCorrect == PagesSpec => []UpdateIsOfItsUser
<1>1. PagesInv => UpdateIsOfItsUser
    BY DEF PagesInv, EditInv
<1> QED BY <1>1, PagesCorrect, PTL

-----------------------------------------------------------------------------
LEMMA TypesOfResults ==
    ASSUME ReportsTypeOK PROVE uniqueTestTypes \subseteq TestTypes
<1>1. ASSUME NEW i \in DOMAIN tests PROVE tests[i].type \in TestTypes
    <2> DEFINE n == IF limit < Len(recorded) THEN limit ELSE Len(recorded)
    <2>1. recorded \in Seq(Result) /\ n \in 0..Len(recorded)
        BY DEF ReportsTypeOK
    <2>2. tests = SubSeq(recorded, 1, n)
        BY DEF tests, getRecentTests, First
    <2> HIDE DEF n
    <2>3. tests[i] = recorded[i] /\ i \in 1..Len(recorded)
        BY <1>1, <2>1, <2>2
    <2>4. recorded[i] \in Result
        BY <2>1, <2>3
    <2> QED BY <2>3, <2>4 DEF Result
<1> QED BY <1>1 DEF uniqueTestTypes

(* The type invariant of TestReports.                                      *)
THEOREM ReportsTypes == ReportsSpec => []ReportsTypeOK
<1>1. ReportsInit => ReportsTypeOK
    BY ReportsAssumption DEF ReportsInit, ReportsTypeOK
<1>2. ReportsTypeOK /\ [ReportsNext]_reportVars => ReportsTypeOK'
    <2> SUFFICES ASSUME ReportsTypeOK, [ReportsNext]_reportVars PROVE ReportsTypeOK'
        OBVIOUS
    <2>1. CASE Filter
        BY <2>1, TypesOfResults DEF Filter, ReportsTypeOK
    <2>2. CASE SetLimit
        BY <2>2, ReportsAssumption DEF SetLimit, ReportsTypeOK
    <2>3. CASE UNCHANGED reportVars
        BY <2>3 DEF reportVars, ReportsTypeOK
    <2> QED BY <2>1, <2>2, <2>3 DEF ReportsNext
<1> QED BY <1>1, <1>2, PTL DEF ReportsSpec

-----------------------------------------------------------------------------
(* The sum of the numbers of elements with each value is the number of     *)
(* those with any of the values.                                           *)
LEMMA SumOfCounts ==
    ASSUME NEW D, IsFiniteSet(D), NEW g, NEW f, IsFiniteSet(DOMAIN f),
           \A x \in DOMAIN f : f[x] = Cardinality({i \in D : g[i] = x})
    PROVE  SumFunction(f) = Cardinality({i \in D : g[i] \in DOMAIN f})
<1> DEFINE S == DOMAIN f
           Of(s) == {i \in D : g[i] \in s}
           one(s) == CHOOSE x \in s : TRUE
           counts == [s \in SUBSET S |-> Cardinality(Of(s))]
           Sums(it) == it = [s \in SUBSET S |->
                             IF s = {} THEN 0 ELSE f[one(s)] + it[s \ {one(s)}]]
           sums == CHOOSE it : Sums(it)
<1>1. SumFunction(f) = sums[S]
    BY DEF SumFunction, SumFunctionOnSet, FoldFunctionOnSet, MapThenFoldSet
<1>2. ASSUME NEW s \in SUBSET S, s # {}
      PROVE  /\ one(s) \in s
             /\ Cardinality(Of(s)) = f[one(s)] + Cardinality(Of(s \ {one(s)}))
    <2>1. one(s) \in s
        BY <1>2
    <2> HIDE DEF one
    <2> DEFINE A == {i \in D : g[i] = one(s)}
    <2>2. Of(s) = A \cup Of(s \ {one(s)}) /\ A \cap Of(s \ {one(s)}) = {}
        BY <2>1
    <2>3. IsFiniteSet(A) /\ IsFiniteSet(Of(s \ {one(s)}))
        BY FS_Subset
    <2>4. /\ Cardinality(A) \in Nat /\ Cardinality(Of(s \ {one(s)})) \in Nat
          /\ Cardinality(A \cap Of(s \ {one(s)})) = 0
        BY <2>2, <2>3, FS_CardinalityType, FS_EmptySet
    <2>5. f[one(s)] = Cardinality(A)
        BY <2>1
    <2> HIDE DEF A, Of
    <2>6. Cardinality(A \cup Of(s \ {one(s)})) =
            Cardinality(A) + Cardinality(Of(s \ {one(s)})) - Cardinality(A \cap Of(s \ {one(s)}))
        BY <2>3, FS_Union
    <2> QED BY <2>1, <2>2, <2>4, <2>5, <2>6
<1>3. Of({}) = {} /\ Cardinality(Of({})) = 0
    BY FS_EmptySet
<1>4. Sums(counts)
    <2> HIDE DEF one, Of
    <2>1. ASSUME NEW s \in SUBSET S
          PROVE  counts[s] = IF s = {} THEN 0 ELSE f[one(s)] + counts[s \ {one(s)}]
        BY <1>2, <1>3
    <2> QED BY <2>1 DEF counts
<1>5. Sums(sums)
    <2> HIDE DEF Sums, counts
    <2> QED BY <1>4
<1>6. ASSUME NEW s \in SUBSET S
      PROVE  sums[s] = IF s = {} THEN 0 ELSE f[one(s)] + sums[s \ {one(s)}]
    <2> HIDE DEF sums, one
    <2> QED BY <1>5
<1> HIDE DEF sums, one, Of
<1>7. ASSUME sums[S] # counts[S] PROVE FALSE
    <2> DEFINE wrong == {s \in SUBSET S : sums[s] # counts[s]}
    <2>1. S \in wrong
        BY <1>7
    <2>2. wrong \subseteq FiniteSubsetsOf(S)
        BY FS_FiniteSubsetsOfFinite
    <2>3. PICK s \in wrong : \A t \in wrong : <<t, s>> \notin StrictSubsetOrdering(S)
        <3> HIDE DEF wrong
        <3>1. IsWellFoundedOn(StrictSubsetOrdering(S), FiniteSubsetsOf(S))
            BY FS_StrictSubsetOrderingWellFounded
        <3> QED BY <2>1, <2>2, <3>1, WFMin
    <2>4. s \in SUBSET S /\ s # {}
        BY <1>3, <1>6, <2>3
    <2>5. one(s) \in s
        BY <1>2, <2>4
    <2>6. <<s \ {one(s)}, s>> \in StrictSubsetOrdering(S)
        BY <2>4, <2>5 DEF StrictSubsetOrdering
    <2>7. sums[s \ {one(s)}] = counts[s \ {one(s)}]
        BY <2>3, <2>4, <2>6
    <2>8. sums[s] = f[one(s)] + Cardinality(Of(s \ {one(s)}))
        BY <1>6, <2>4, <2>7
    <2>9. sums[s] = counts[s]
        BY <1>2, <2>4, <2>8
    <2> QED BY <2>3, <2>9
<1> QED BY <1>1, <1>7 DEF Of

(* Half up to a percent and to a tenth of it: ten times the one is within  *)
(* five tenths of the other.                                               *)
LEMMA RoundedBounds ==
    ASSUME NEW a \in Nat, NEW n \in Nat \ {0}
    PROVE  /\ Rounded(a, n) \in Nat
           /\ 2 * (n * Rounded(a, n)) <= 2 * a + n
           /\ 2 * a < 2 * (n * Rounded(a, n)) + n
<1> DEFINE m == 2 * a + n
           d == 2 * n
           q == m \div d
<1>1. m \in Nat /\ d \in Nat \ {0}
    OBVIOUS
<1> HIDE DEF m, d
<1>2. q \in Nat /\ d * q <= m /\ m < d * q + d
    BY <1>1
<1>3. q = Rounded(a, n)
    BY DEF m, d, Rounded
<1> HIDE DEF q
<1>4. d * q = 2 * (n * q)
    BY <1>2 DEF d
<1> QED BY <1>2, <1>3, <1>4 DEF m, d

LEMMA Products ==
    ASSUME NEW n \in Nat \ {0}, NEW x \in Int, NEW k \in Int, 2 * (n * x) < (2 * k + 1) * n
    PROVE  x <= k
<1> SUFFICES ASSUME x >= k + 1 PROVE FALSE
    OBVIOUS
<1>1. n * x >= n * (k + 1)
    OBVIOUS
<1> QED BY <1>1

LEMMA PercentAndTenths ==
    ASSUME NEW n \in Nat \ {0}, NEW c \in Nat
    PROVE  /\ 10 * Rounded(100 * c, n) <= Rounded(1000 * c, n) + 5
           /\ Rounded(1000 * c, n) <= 10 * Rounded(100 * c, n) + 5
<1> DEFINE p == Rounded(100 * c, n)
           t == Rounded(1000 * c, n)
<1>1. /\ p \in Nat /\ t \in Nat
      /\ 2 * (n * p) <= 200 * c + n /\ 200 * c < 2 * (n * p) + n
      /\ 2 * (n * t) <= 2000 * c + n /\ 2000 * c < 2 * (n * t) + n
    <2>1. 100 * c \in Nat /\ 1000 * c \in Nat
        OBVIOUS
    <2> HIDE DEF p, t
    <2>2. p \in Nat /\ 2 * (n * p) <= 2 * (100 * c) + n /\ 2 * (100 * c) < 2 * (n * p) + n
        BY <2>1, RoundedBounds DEF p
    <2>3. t \in Nat /\ 2 * (n * t) <= 2 * (1000 * c) + n /\ 2 * (1000 * c) < 2 * (n * t) + n
        BY <2>1, RoundedBounds DEF t
    <2> QED BY <2>2, <2>3
<1> HIDE DEF p, t
<1> DEFINE np == n * p
           nt == n * t
<1>2. np \in Nat /\ nt \in Nat
    BY <1>1
<1>3. n * (10 * p - t) = 10 * np - nt /\ n * (t - 10 * p) = nt - 10 * np
    BY <1>1
<1>4. 2 * np <= 200 * c + n /\ 200 * c < 2 * np + n /\ 2 * nt <= 2000 * c + n /\ 2000 * c < 2 * nt + n
    BY <1>1
<1> HIDE DEF np, nt
<1>5. 2 * (10 * np - nt) < (2 * 5 + 1) * n /\ 2 * (nt - 10 * np) < (2 * 5 + 1) * n
    BY <1>2, <1>4
<1>6. 10 * p - t \in Int /\ t - 10 * p \in Int
    BY <1>1
<1>7. 10 * p - t <= 5 /\ t - 10 * p <= 5
    BY <1>3, <1>5, <1>6, Products
<1> QED BY <1>1, <1>7 DEF p, t

-----------------------------------------------------------------------------
LEMMA UpTo == ASSUME NEW n \in Nat PROVE IsFiniteSet(1..n) /\ Cardinality(1..n) = n
BY FS_Interval

(* Filtering by a condition that holds of every element changes nothing.   *)
LEMMA KeptAll == ASSUME NEW R, NEW s \in Seq(R) PROVE Kept(s, DOMAIN s) = s
<1>1. Len(s) \in Nat /\ DOMAIN s = 1..Len(s) /\ Cardinality(1..Len(s)) = Len(s)
    <2>1. Len(s) \in Nat /\ DOMAIN s = 1..Len(s)
        OBVIOUS
    <2> QED BY <2>1, FS_Interval
<1>2. ASSUME NEW i \in DOMAIN s PROVE Cardinality({j \in DOMAIN s : j <= i}) = i
    <2>1. {j \in DOMAIN s : j <= i} = 1..i
        BY <1>1
    <2>2. Cardinality(1..i) = i
        BY <1>1, FS_Interval
    <2> QED BY <2>1, <2>2
<1>3. ASSUME NEW n \in DOMAIN s
      PROVE  (CHOOSE i \in DOMAIN s : Cardinality({j \in DOMAIN s : j <= i}) = n) = n
    BY <1>2
<1>4. Kept(s, DOMAIN s) = [n \in DOMAIN s |->
          s[CHOOSE i \in DOMAIN s : Cardinality({j \in DOMAIN s : j <= i}) = n]]
    BY <1>1 DEF Kept
<1>5. Kept(s, DOMAIN s) = [n \in DOMAIN s |-> s[n]]
    BY <1>3, <1>4
<1> QED BY <1>1, <1>5

(* Filtering keeps as many as satisfy the condition.                       *)
LEMMA KeptSome ==
    ASSUME NEW s, NEW which, IsFiniteSet(which)
    PROVE  \E R : Kept(s, which) \in Seq(R) /\ Len(Kept(s, which)) = Cardinality(which)
<1>1. Cardinality(which) \in Nat
    BY FS_CardinalityType
<1> DEFINE n == Cardinality(which)
           e(k) == s[CHOOSE i \in which : Cardinality({j \in which : j <= i}) = k]
           R == {e(k) : k \in 1..n}
<1> HIDE DEF n, e
<1>2. [k \in 1..n |-> e(k)] \in Seq(R) /\ Len([k \in 1..n |-> e(k)]) = n
    BY <1>1 DEF n
<1>3. Kept(s, which) = [k \in 1..n |-> e(k)]
    BY DEF Kept, n, e
<1> QED BY <1>2, <1>3 DEF n

LEMMA FirstOf ==
    ASSUME NEW R, NEW s \in Seq(R), NEW n \in Nat
    PROVE  /\ First(n, s) \in Seq(R)
           /\ Len(First(n, s)) = IF n < Len(s) THEN n ELSE Len(s)
           /\ \A i \in 1..Len(First(n, s)) : First(n, s)[i] = s[i]
<1> DEFINE m == IF n < Len(s) THEN n ELSE Len(s)
<1>1. m \in 0..Len(s)
    OBVIOUS
<1> HIDE DEF m
<1>2. First(n, s) = SubSeq(s, 1, m)
    BY DEF First, m
<1>3. \A i \in 1..m : s[i] \in R
    BY <1>1
<1>4. /\ SubSeq(s, 1, m) \in Seq(R) /\ Len(SubSeq(s, 1, m)) = m
      /\ \A i \in 1..m : SubSeq(s, 1, m)[i] = s[i]
    <2>1. m \in Nat
        BY <1>1
    <2> QED BY <1>3, <2>1, SubSeqProperties
<1> QED BY <1>2, <1>4 DEF m

(* The shorter of two cuts of a list is a prefix of the longer.            *)
LEMMA FirstIsPrefix ==
    ASSUME NEW R, NEW s \in Seq(R), NEW n \in Nat, NEW m \in Nat, n <= m
    PROVE  IsPrefix(First(n, s), First(m, s))
<1> DEFINE a == First(n, s)
           b == First(m, s)
<1>1. a \in Seq(R) /\ b \in Seq(R) /\ Len(a) <= Len(b)
      /\ \A i \in 1..Len(a) : a[i] = b[i]
    <2>0. /\ a \in Seq(R) /\ Len(a) = IF n < Len(s) THEN n ELSE Len(s)
          /\ \A i \in 1..Len(a) : a[i] = s[i]
        BY FirstOf
    <2>1. /\ b \in Seq(R) /\ Len(b) = IF m < Len(s) THEN m ELSE Len(s)
          /\ \A i \in 1..Len(b) : b[i] = s[i]
        BY FirstOf
    <2> HIDE DEF a, b
    <2>2. Len(a) <= Len(b) /\ Len(s) \in Nat
        BY <2>0, <2>1
    <2> QED BY <2>0, <2>1, <2>2
<1> HIDE DEF a, b
<1>2. Len(a) \in Nat /\ SubSeq(a, 1, Len(a)) = SubSeq(b, 1, Len(a))
    BY <1>1
<1>3. IsPrefix(a, b)
    BY <1>1, <1>2 DEF IsPrefix
<1> QED BY <1>3 DEF a, b

LEMMA ReverseTwice ==
    ASSUME NEW R, NEW s \in Seq(R)
    PROVE  /\ Reverse(Reverse(s)) = s
           /\ Len(Reverse(s)) = Len(s)
<1> DEFINE r == Reverse(s)
<1>1. Len(s) \in Nat
    OBVIOUS
<1>2. r = [i \in 1..Len(s) |-> s[(Len(s) - i) + 1]]
    BY DEF Reverse
<1> HIDE DEF r
<1>3. Len(r) = Len(s)
    BY <1>1, <1>2
<1>4. \A i \in 1..Len(s) : (Len(s) - i) + 1 \in 1..Len(s)
    BY <1>1
<1>5. \A i \in 1..Len(s) : r[(Len(s) - i) + 1] = s[i]
    <2> TAKE i \in 1..Len(s)
    <2>1. r[(Len(s) - i) + 1] = s[(Len(s) - ((Len(s) - i) + 1)) + 1]
        BY <1>2, <1>4
    <2>2. (Len(s) - ((Len(s) - i) + 1)) + 1 = i
        BY <1>1
    <2> QED BY <2>1, <2>2
<1>6. Reverse(r) = [i \in 1..Len(s) |-> r[(Len(s) - i) + 1]]
    BY <1>3 DEF Reverse
<1>7. Reverse(r) = [i \in 1..Len(s) |-> s[i]]
    BY <1>5, <1>6
<1> QED BY <1>3, <1>7 DEF r

-----------------------------------------------------------------------------
LEMMA TestsAreResults ==
    ASSUME ReportsTypeOK
    PROVE  tests \in Seq(Result) /\ IsFiniteSet(DOMAIN tests)
<1>1. tests \in Seq(Result)
    BY FirstOf DEF ReportsTypeOK, tests, getRecentTests
<1>2. DOMAIN tests = 1..Len(tests) /\ Len(tests) \in Nat
    BY <1>1
<1> QED BY <1>1, <1>2, FS_Interval

(* What is known of the filtered results, whatever the filters.            *)
LEMMA FilteredTests ==
    ASSUME ReportsTypeOK
    PROVE  /\ \E R : filteredTests \in Seq(R)
           /\ IsFiniteSet(DOMAIN filteredTests) /\ Len(filteredTests) \in Nat
           /\ Cardinality(DOMAIN filteredTests) = Len(filteredTests)
<1> DEFINE which == {i \in DOMAIN tests : /\ tests[i].device \in deviceFilter
                                         /\ tests[i].type \in testTypeFilter}
<1>1. IsFiniteSet(which)
    BY TestsAreResults, FS_Subset
<1>2. filteredTests = Kept(tests, which)
    BY DEF filteredTests
<1> HIDE DEF which
<1>3. PICK R : filteredTests \in Seq(R)
    BY <1>1, <1>2, KeptSome
<1>4. DOMAIN filteredTests = 1..Len(filteredTests) /\ Len(filteredTests) \in Nat
    BY <1>3
<1>5. /\ IsFiniteSet(1..Len(filteredTests))
      /\ Cardinality(1..Len(filteredTests)) = Len(filteredTests)
    BY <1>4, UpTo
<1> QED BY <1>3, <1>4, <1>5

LEMMA UnfilteredTests ==
    ASSUME ReportsTypeOK, deviceFilter = Devices, testTypeFilter = TestTypes
    PROVE  filteredTests = tests
<1>1. tests \in Seq(Result)
    BY TestsAreResults
<1>2. \A i \in DOMAIN tests : tests[i] \in Result
    BY <1>1
<1>3. {i \in DOMAIN tests : /\ tests[i].device \in deviceFilter
                           /\ tests[i].type \in testTypeFilter} = DOMAIN tests
    BY <1>2 DEF Result
<1> QED BY <1>1, <1>3, KeptAll DEF filteredTests

(* Each filtered result is counted in the bar of its type.                 *)
LEMMA BarsAddUp ==
    ASSUME ReportsTypeOK PROVE SumFunction(prepareTestTypeChart) = Len(filteredTests)
<1> DEFINE D == DOMAIN filteredTests
           T == {filteredTests[i].type : i \in D}
           g == [i \in D |-> filteredTests[i].type]
<1>1. IsFiniteSet(D) /\ Cardinality(D) = Len(filteredTests)
    BY FilteredTests
<1>2. prepareTestTypeChart = [type \in T |-> Cardinality({i \in D : filteredTests[i].type = type})]
    BY DEF prepareTestTypeChart
<1>3. IsFiniteSet(T)
    <2>1. g \in Surjection(D, T)
        BY DEF Surjection
    <2> HIDE DEF g, D, T
    <2> QED BY <1>1, <2>1, FS_Surjection
<1>4. ASSUME NEW x \in T
      PROVE  prepareTestTypeChart[x] = Cardinality({i \in D : g[i] = x})
    <2>1. {i \in D : filteredTests[i].type = x} = {i \in D : g[i] = x}
        OBVIOUS
    <2> HIDE DEF T
    <2>2. prepareTestTypeChart[x] = Cardinality({i \in D : filteredTests[i].type = x})
        BY <1>2
    <2> QED BY <2>1, <2>2
<1>5. {i \in D : g[i] \in T} = D
    OBVIOUS
<1>6. DOMAIN prepareTestTypeChart = T
    BY <1>2
<1> HIDE DEF g, D, T
<1>7. SumFunction(prepareTestTypeChart) = Cardinality({i \in D : g[i] \in T})
    BY <1>1, <1>3, <1>4, <1>6, SumOfCounts
<1> QED BY <1>1, <1>5, <1>7

(* An average that is not 0 is of measured results, and they are drawn.    *)
LEMMA CurveOfAverage ==
    ASSUME ReportsTypeOK, calculateAvgLatency > 0 PROVE prepareLatencyChart # <<>>
<1> DEFINE M == Measured(filteredTests)
           X == Kept(filteredTests, M)
<1>1. M # {}
    BY DEF calculateAvgLatency
<1>2. IsFiniteSet(M)
    <2>1. M \subseteq DOMAIN filteredTests
        BY DEF Measured
    <2> QED BY <2>1, FilteredTests, FS_Subset
<1> HIDE DEF M
<1>3. PICK R : X \in Seq(R) /\ Len(X) = Cardinality(M)
    BY <1>2, KeptSome
<1>4. Cardinality(M) \in Nat \ {0}
    BY <1>1, <1>2, FS_CardinalityType, FS_EmptySet
<1>5. prepareLatencyChart = Reverse(First(WideCut, X))
    BY DEF prepareLatencyChart, M
<1> HIDE DEF X
<1>6. WideCut \in Nat \ {0}
    BY ReportsAssumption
<1>7. First(WideCut, X) \in Seq(R) /\ Len(First(WideCut, X)) # 0
    BY <1>3, <1>4, <1>6, FirstOf
<1>8. Len(Reverse(First(WideCut, X))) # 0
    BY <1>7, ReverseTwice
<1> QED BY <1>5, <1>8, EmptySeq

(* What the two pages show of the same results.                            *)
LEMMA SamePages ==
    ASSUME ReportsTypeOK, deviceFilter = Devices, testTypeFilter = TestTypes,
           limit = DashboardLimit
    PROVE  LET d == DashboardReport  s == StatisticsReport
           IN  /\ d.cards.totalTests = s.cards.totalTests
               /\ d.cards.avgLatency = s.cards.avgLatency
               /\ d.cards.uniqueDevices = s.cards.uniqueDevices
               /\ 10 * d.cards.successRate <= s.cards.successRate + 5
               /\ s.cards.successRate <= 10 * d.cards.successRate + 5
               /\ IsSuffix(d.chart, s.chart) /\ IsPrefix(d.rows, StatisticsRows)
<1> USE ReportsAssumption
<1>1. filteredTests = tests /\ tests \in Seq(Result) /\ IsFiniteSet(DOMAIN tests)
    BY UnfilteredTests, TestsAreResults
<1>2. getRecentTests(DashboardLimit) = tests
    BY DEF tests
<1> DEFINE c == calculateStats(tests)
           X == Kept(tests, Measured(tests))
<1>3. DashboardReport = [cards |-> c, chart |-> Reverse(First(Cut, X)), rows |-> First(Cut, tests)]
    BY <1>2 DEF DashboardReport, prepareChartData
<1>4. /\ StatisticsReport.cards = [totalTests |-> Len(tests),
            successRate |-> calculateSuccessRate, avgLatency |-> calculateAvgLatency,
            uniqueDevices |-> Cardinality(DevicesOf(tests))]
      /\ StatisticsReport.chart = Reverse(First(WideCut, X))
      /\ StatisticsRows = First(WideCut, tests)
    BY <1>1 DEF StatisticsReport, StatisticsRows, prepareLatencyChart
<1>5. /\ c.totalTests = Len(tests) /\ c.avgLatency = calculateAvgLatency
      /\ c.uniqueDevices = Cardinality(DevicesOf(tests))
    BY <1>1 DEF calculateStats, calculateAvgLatency
<1>6. /\ 10 * c.successRate <= calculateSuccessRate + 5
      /\ calculateSuccessRate <= 10 * c.successRate + 5
    <2>1. CASE tests = <<>>
        BY <1>1, <2>1 DEF calculateStats, calculateSuccessRate
    <2>2. CASE tests # <<>>
        <3> DEFINE n == Len(tests)
                   k == Cardinality(Succeeded(tests))
        <3>1. n \in Nat \ {0}
            BY <1>1, <2>2, EmptySeq
        <3>2. k \in Nat
            <4>1. Succeeded(tests) \subseteq DOMAIN tests
                BY DEF Succeeded
            <4> QED BY <1>1, <4>1, FS_Subset, FS_CardinalityType
        <3>3. c.successRate = Rounded(100 * k, n) /\ calculateSuccessRate = Rounded(1000 * k, n)
            BY <1>1, <2>2 DEF calculateStats, calculateSuccessRate
        <3> HIDE DEF n, k, c
        <3> QED BY <3>1, <3>2, <3>3, PercentAndTenths
    <2> QED BY <2>1, <2>2
<1>7. Cut \in Nat /\ WideCut \in Nat /\ Cut <= WideCut
    OBVIOUS
<1>8. IsPrefix(First(Cut, tests), First(WideCut, tests))
    BY <1>1, <1>7, FirstIsPrefix
<1>9. IsSuffix(Reverse(First(Cut, X)), Reverse(First(WideCut, X)))
    <2>1. IsFiniteSet(Measured(tests))
        <3>1. Measured(tests) \subseteq DOMAIN tests
            BY DEF Measured
        <3> QED BY <1>1, <3>1, FS_Subset
    <2>2. PICK R : X \in Seq(R)
        BY <2>1, KeptSome
    <2> HIDE DEF X
    <2>3. /\ Reverse(Reverse(First(Cut, X))) = First(Cut, X)
          /\ Reverse(Reverse(First(WideCut, X))) = First(WideCut, X)
        BY <1>7, <2>2, FirstOf, ReverseTwice
    <2> QED BY <1>7, <2>2, <2>3, FirstIsPrefix DEF IsSuffix
<1> HIDE DEF c, X
<1> QED BY <1>3, <1>4, <1>5, <1>6, <1>8, <1>9

(* The two pages agree about the same results, each result is counted in   *)
(* the bar of its type, and there is a curve when there is an average:     *)
(* Dashboard.tsx and Statistics.tsx.                                       *)
THEOREM ReportsCorrect == ReportsSpec => []ReportsAgree
<1>1. ReportsTypeOK => ReportsAgree
    <2> SUFFICES ASSUME ReportsTypeOK PROVE ReportsAgree
        OBVIOUS
    <2>1. SumFunction(StatisticsReport.types) = StatisticsReport.cards.totalTests
        BY BarsAddUp DEF StatisticsReport
    <2>2. StatisticsReport.cards.avgLatency > 0 => StatisticsReport.chart # <<>>
        BY CurveOfAverage DEF StatisticsReport
    <2> QED BY <2>1, <2>2, SamePages DEF ReportsAgree
<1> QED BY <1>1, ReportsTypes, PTL
=============================================================================
