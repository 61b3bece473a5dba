-------------------------- MODULE WebClientProofs --------------------------
(***************************************************************************)
(* Proofs about the web client's pages.  SpeedSession: its type invariant, *)
(* that cancelled tests show no result and that downloads which do are     *)
(* whole, for any numbers of mounts, pings, streams and parts.             *)
(* WebSession: its type invariant, and that a login is ended by its own    *)
(* user only, or in another tab, for any numbers of tabs, logins and       *)
(* clicks.  WebTestSession: its type invariant, and what TestRunner and    *)
(* TraceTest show as running and as result, for any tests, sockets and     *)
(* lost connections.  TestForm: that what the form accepts is accepted     *)
(* behind it, but for the targets that only the browser takes, and fits    *)
(* its type, for any numbers and names that are typed.                     *)
(***************************************************************************)
EXTENDS WebTestSession, SpeedSession, WebSession, TestForm, TLAPS

(* SpeedSession: what holds of a page and its run, mounted or not.         *)
RunOf(i) ==
    /\ i > mounts => doing[i] = "idle" /\ ~result[i]
    /\ Running(i) => ~result[i]
    /\ doing[i] = "chunk" => test[i] = "file" /\ missing[i] > 0
    /\ Running(i) /\ doing[i] # "chunk" => test[i] = "speed"
    /\ test[i] = "file" /\ result[i] => missing[i] = 0

(* A run that goes on after its cancel is between two pings.               *)
CancelOf(i) ==
    /\ Running(i) /\ aborted[i] => doing[i] = "gap"
    /\ Running(i) /\ cancelled[i] = "early" =>
          doing[i] = "gap" /\ aborted[i] /\ pings[i] > 0
    /\ result[i] => cancelled[i] # "early"

SpeedInv == SpeedTypeOK /\ \A i \in Mounts : RunOf(i) /\ CancelOf(i)

LEMMA SpeedBegins == SpeedInit => SpeedInv
<1> SUFFICES ASSUME SpeedInit PROVE SpeedInv
    OBVIOUS
<1>1. /\ 0 \in 0..MaxMounts /\ 0 \in 0..0 /\ 0 \in 0..(Pings - 1) /\ 1 \in 1..MaxStreams
      /\ 0 \in 0..MaxStreams /\ 0 \in 0..Chunks
    BY SpeedAssumption
<1>2. SpeedTypeOK
    BY <1>1 DEF SpeedInit, SpeedTypeOK
<1> QED BY <1>2 DEF SpeedInit, SpeedInv, RunOf, CancelOf, Running

(* A step of page i leaves the others as they are.                         *)
Others(i) ==
    \A j \in Mounts \ {i} :
       /\ test'[j] = test[j] /\ doing'[j] = doing[j] /\ pings'[j] = pings[j]
       /\ missing'[j] = missing[j] /\ aborted'[j] = aborted[j]
       /\ result'[j] = result[j] /\ cancelled'[j] = cancelled[j]

LEMMA OthersKeep ==
    ASSUME SpeedInv, SpeedTypeOK', NEW i \in Mounts, Others(i), mounts' = mounts,
           (RunOf(i) /\ CancelOf(i))'
    PROVE  SpeedInv'
BY DEF SpeedInv, Others, RunOf, CancelOf, Running

LEMMA SpeedUserInv == ASSUME SpeedInv, NEW i \in Mounts, SpeedUser(i) PROVE SpeedInv'
<1> USE DEF SpeedInv
<1>0. SpeedTypeOK /\ RunOf(i) /\ CancelOf(i)
    OBVIOUS
<1>1. CASE RunSpeedTest(i)
    <2>1. Pings - 1 \in 0..(Pings - 1)
        BY SpeedAssumption
    <2>2. SpeedTypeOK'
        BY <1>1, <2>1 DEF RunSpeedTest, SpeedTypeOK
    <2>3. Others(i)
        BY <1>1 DEF RunSpeedTest, SpeedTypeOK, Others
    <2>4. i <= mounts
        BY <1>1 DEF RunSpeedTest, SpeedTypeOK
    <2>5. test[i] = "speed"
        BY <1>1 DEF RunSpeedTest, SpeedStart, SpeedModal
    <2>6. /\ doing'[i] = "ping" /\ aborted'[i] = FALSE /\ result'[i] = FALSE
          /\ cancelled'[i] = "never" /\ test' = test /\ mounts' = mounts
        BY <1>1 DEF RunSpeedTest, SpeedTypeOK
    <2>7. (RunOf(i) /\ CancelOf(i))'
        BY <2>4, <2>5, <2>6 DEF RunOf, CancelOf, Running, SpeedTypeOK, Mounts
    <2> QED BY <2>2, <2>3, <2>6, <2>7, OthersKeep
<1>2. CASE RunDownloadTest(i)
    <2>1. PICK n \in 1..Chunks : missing' = [missing EXCEPT ![i] = n]
        BY <1>2 DEF RunDownloadTest
    <2>2. n \in 0..Chunks /\ n > 0
        BY <2>1
    <2>3. SpeedTypeOK'
        BY <1>2, <2>1, <2>2 DEF RunDownloadTest, SpeedTypeOK
    <2>4. Others(i)
        BY <1>2, <2>1 DEF RunDownloadTest, SpeedTypeOK, Others
    <2>5. i <= mounts
        BY <1>2 DEF RunDownloadTest, SpeedTypeOK
    <2>6. test[i] = "file"
        BY <1>2 DEF RunDownloadTest, FileStart, FileModal
    <2>7. /\ doing'[i] = "chunk" /\ aborted'[i] = FALSE /\ result'[i] = FALSE
          /\ cancelled'[i] = "never" /\ test' = test /\ mounts' = mounts
          /\ missing'[i] > 0
        BY <1>2, <2>1, <2>2 DEF RunDownloadTest, SpeedTypeOK
    <2>8. (RunOf(i) /\ CancelOf(i))'
        BY <2>5, <2>6, <2>7 DEF RunOf, CancelOf, Running, SpeedTypeOK, Mounts
    <2> QED BY <2>3, <2>4, <2>7, <2>8, OthersKeep
<1>3. CASE CloseModal(i)
    <2>1. SpeedTypeOK'
        BY <1>3 DEF CloseModal, SpeedTypeOK
    <2>2. Others(i) /\ mounts' = mounts
        BY <1>3 DEF CloseModal, SpeedTypeOK, Others
    <2>3. (RunOf(i) /\ CancelOf(i))'
        BY <1>3 DEF CloseModal, RunOf, CancelOf, Running, SpeedTypeOK
    <2> QED BY <2>1, <2>2, <2>3, OthersKeep
<1>4. CASE Cancel(i)
    <2>1. Running(i) /\ ~result[i]
        BY <1>4 DEF Cancel, SpeedCancel, FileCancel, RunOf
    <2>2. doing' \in [Mounts -> {"idle", "ping", "gap", "download", "upload", "chunk"}]
          /\ result' = result
        BY <1>4 DEF Cancel, Fail, SpeedTypeOK
    <2>3. cancelled' \in [Mounts -> {"never", "early", "late"}]
        BY <1>4 DEF Cancel, SpeedTypeOK
    <2>4. SpeedTypeOK'
        BY <1>4, <2>2, <2>3 DEF Cancel, SpeedTypeOK
    <2>5. Others(i) /\ mounts' = mounts
        BY <1>4 DEF Cancel, Fail, SpeedTypeOK, Others
    <2>6. (RunOf(i) /\ CancelOf(i))'
        <3>1. CASE doing[i] = "gap"
            <4>1. doing' = doing /\ aborted'[i] = TRUE /\ result'[i] = FALSE
                  /\ UNCHANGED <<mounts, test, pings, missing>>
                BY <1>4, <2>1, <2>2, <3>1 DEF Cancel, SpeedTypeOK
            <4>2. cancelled'[i] = IF pings[i] = 0 THEN "late" ELSE "early"
                BY <1>4, <3>1 DEF Cancel, SpeedTypeOK
            <4>3. pings[i] \in Nat
                BY SpeedAssumption DEF SpeedTypeOK
            <4> QED BY <2>1, <3>1, <4>1, <4>2, <4>3 DEF RunOf, CancelOf, Running
        <3>2. CASE doing[i] # "gap"
            <4>1. doing'[i] = "idle" /\ result'[i] = FALSE
                  /\ UNCHANGED <<mounts, test, pings, missing>>
                BY <1>4, <2>1, <2>2, <3>2 DEF Cancel, Fail, SpeedTypeOK
            <4> QED BY <4>1 DEF RunOf, CancelOf, Running
        <3> QED BY <3>1, <3>2
    <2> QED BY <2>4, <2>5, <2>6, OthersKeep
<1> QED BY <1>1, <1>2, <1>3, <1>4 DEF SpeedUser

LEMMA SpeedNetworkInv == ASSUME SpeedInv, NEW i \in Mounts, SpeedNetwork(i) PROVE SpeedInv'
<1> USE DEF SpeedInv
<1>0. /\ SpeedTypeOK /\ RunOf(i) /\ CancelOf(i)
      /\ pings[i] \in 0..(Pings - 1) /\ streams[i] \in 0..MaxStreams
      /\ chosen[i] \in 1..MaxStreams /\ missing[i] \in 0..Chunks
      /\ {Pings, MaxStreams, Chunks} \subseteq Nat \ {0}
    BY SpeedAssumption DEF SpeedTypeOK
<1>1. CASE PingEnds(i)
    <2>1. SpeedTypeOK' /\ Others(i) /\ mounts' = mounts
        BY <1>1 DEF PingEnds, SpeedTypeOK, Others
    <2>2. (RunOf(i) /\ CancelOf(i))'
        BY <1>0, <1>1 DEF PingEnds, RunOf, CancelOf, Running, SpeedTypeOK
    <2> QED BY <2>1, <2>2, OthersKeep
<1>2. CASE GapEnds(i)
    <2>0. UNCHANGED <<page, mounts, test, chosen, missing, aborted, cancelled>>
          /\ Running(i) /\ doing[i] = "gap"
        BY <1>2 DEF GapEnds, Running
    <2>1. CASE pings[i] > 0
        <3>1. /\ pings' = [pings EXCEPT ![i] = @ - 1] /\ streams' = streams
              /\ result' = result
              /\ doing' = [doing EXCEPT ![i] = IF aborted[i] THEN "idle" ELSE "ping"]
            BY <1>2, <2>1 DEF GapEnds, Fail
        <3>2. pings[i] - 1 \in 0..(Pings - 1)
            BY <1>0, <2>1
        <3>3. SpeedTypeOK' /\ Others(i)
            BY <2>0, <3>1, <3>2 DEF SpeedTypeOK, Others
        <3>4. (RunOf(i) /\ CancelOf(i))'
            BY <1>0, <2>0, <3>1 DEF RunOf, CancelOf, Running, SpeedTypeOK
        <3> QED BY <2>0, <3>3, <3>4, OthersKeep
    <2>2. CASE ~(pings[i] > 0) /\ aborted[i]
        <3>1. /\ pings' = pings /\ streams' = streams
              /\ doing' = [doing EXCEPT ![i] = "idle"]
              /\ result' = [result EXCEPT ![i] = TRUE]
            BY <1>2, <2>2 DEF GapEnds
        <3>2. SpeedTypeOK' /\ Others(i)
            BY <2>0, <3>1 DEF SpeedTypeOK, Others
        <3>3. (RunOf(i) /\ CancelOf(i))'
            BY <1>0, <2>0, <2>2, <3>1 DEF RunOf, CancelOf, Running, SpeedTypeOK
        <3> QED BY <2>0, <3>2, <3>3, OthersKeep
    <2>3. CASE ~(pings[i] > 0) /\ ~aborted[i]
        <3>1. /\ pings' = pings /\ streams' = [streams EXCEPT ![i] = chosen[i]]
              /\ doing' = [doing EXCEPT ![i] = "download"] /\ result' = result
            BY <1>2, <2>3 DEF GapEnds
        <3>2. chosen[i] \in 0..MaxStreams
            BY <1>0
        <3>3. SpeedTypeOK' /\ Others(i)
            BY <2>0, <3>1, <3>2 DEF SpeedTypeOK, Others
        <3>4. (RunOf(i) /\ CancelOf(i))'
            BY <1>0, <2>0, <2>3, <3>1 DEF RunOf, CancelOf, Running, SpeedTypeOK
        <3> QED BY <2>0, <3>3, <3>4, OthersKeep
    <2> QED BY <2>1, <2>2, <2>3
<1>3. CASE StreamEnds(i)
    <2>1. streams[i] - 1 \in 0..MaxStreams
        BY <1>0, <1>3 DEF StreamEnds
    <2>2. SpeedTypeOK' /\ Others(i) /\ mounts' = mounts
        BY <1>3, <2>1 DEF StreamEnds, SpeedTypeOK, Others
    <2>3. (RunOf(i) /\ CancelOf(i))'
        BY <1>0, <1>3 DEF StreamEnds, RunOf, CancelOf, Running
    <2> QED BY <2>2, <2>3, OthersKeep
<1>4. CASE DownloadEnds(i)
    <2>1. chosen[i] \in 0..MaxStreams
        BY <1>0
    <2>2. SpeedTypeOK' /\ Others(i) /\ mounts' = mounts
        BY <1>4, <2>1 DEF DownloadEnds, SpeedTypeOK, Others
    <2>3. (RunOf(i) /\ CancelOf(i))'
        BY <1>0, <1>4 DEF DownloadEnds, RunOf, CancelOf, Running, SpeedTypeOK
    <2> QED BY <2>2, <2>3, OthersKeep
<1>5. CASE UploadEnds(i)
    <2>1. 0 \in 0..MaxStreams
        BY <1>0
    <2>2. SpeedTypeOK' /\ Others(i) /\ mounts' = mounts
        BY <1>5, <2>1 DEF UploadEnds, SpeedTypeOK, Others
    <2>3. (RunOf(i) /\ CancelOf(i))'
        BY <1>0, <1>5 DEF UploadEnds, RunOf, CancelOf, Running, SpeedTypeOK
    <2> QED BY <2>2, <2>3, OthersKeep
<1>6. CASE ChunkArrives(i)
    <2>0. missing' = [missing EXCEPT ![i] = @ - 1] /\ test[i] = "file" /\ missing[i] > 0
          /\ UNCHANGED <<page, mounts, test, pings, chosen, streams, aborted, cancelled>>
          /\ doing[i] = "chunk"
        BY <1>0, <1>6 DEF ChunkArrives, RunOf
    <2>1. missing[i] - 1 \in 0..Chunks
        BY <1>0, <2>0
    <2>2. CASE missing[i] > 1
        <3>1. UNCHANGED <<doing, result>>
            BY <1>6, <2>2 DEF ChunkArrives
        <3>2. SpeedTypeOK' /\ Others(i)
            BY <2>0, <2>1, <3>1 DEF SpeedTypeOK, Others
        <3>3. missing'[i] > 0
            BY <1>0, <2>0, <2>2 DEF SpeedTypeOK
        <3>4. (RunOf(i) /\ CancelOf(i))'
            BY <1>0, <2>0, <3>1, <3>3 DEF RunOf, CancelOf, Running
        <3> QED BY <2>0, <3>2, <3>4, OthersKeep
    <2>3. CASE ~(missing[i] > 1)
        <3>1. doing' = [doing EXCEPT ![i] = "idle"] /\ result' = [result EXCEPT ![i] = TRUE]
            BY <1>6, <2>3 DEF ChunkArrives
        <3>2. SpeedTypeOK' /\ Others(i)
            BY <2>0, <2>1, <3>1 DEF SpeedTypeOK, Others
        <3>3. missing'[i] = 0
            BY <1>0, <2>0, <2>3 DEF SpeedTypeOK
        <3>4. (RunOf(i) /\ CancelOf(i))'
            BY <1>0, <2>0, <3>1, <3>3 DEF RunOf, CancelOf, Running, SpeedTypeOK
        <3> QED BY <2>0, <3>2, <3>4, OthersKeep
    <2> QED BY <2>2, <2>3
<1>7. CASE ChunkFails(i)
    <2>1. SpeedTypeOK' /\ Others(i) /\ mounts' = mounts
        BY <1>7 DEF ChunkFails, Fail, SpeedTypeOK, Others
    <2>2. (RunOf(i) /\ CancelOf(i))'
        BY <1>0, <1>7 DEF ChunkFails, Fail, RunOf, CancelOf, Running, SpeedTypeOK
    <2> QED BY <2>1, <2>2, OthersKeep
<1> QED BY <1>1, <1>2, <1>3, <1>4, <1>5, <1>6, <1>7 DEF SpeedNetwork

LEMMA ShowInv ==
    ASSUME SpeedInv, ShowTest("speed") \/ ShowTest("file") \/ ShowOther
    PROVE  SpeedInv'
<1> USE DEF SpeedInv
<1>1. ASSUME NEW what \in {"speed", "file"}, ShowTest(what) PROVE SpeedInv'
    <2>1. mounts + 1 \in Mounts /\ mounts \in Nat
        BY <1>1, SpeedAssumption DEF ShowTest, SpeedTypeOK, Mounts
    <2>2. SpeedTypeOK'
        <3>1. mounts + 1 \in 0..MaxMounts /\ mounts + 1 \in 0..(mounts + 1)
            BY <2>1, SpeedAssumption DEF Mounts
        <3>2. test' \in [Mounts -> {"speed", "file"}]
            BY <1>1, <2>1 DEF ShowTest, SpeedTypeOK
        <3> QED BY <1>1, <3>1, <3>2 DEF ShowTest, SpeedTypeOK
    <2>3. ASSUME NEW i \in Mounts PROVE (RunOf(i) /\ CancelOf(i))'
        <3>1. UNCHANGED <<doing, pings, missing, aborted, result, cancelled>>
              /\ mounts' = mounts + 1
            BY <1>1 DEF ShowTest
        <3>2. RunOf(i) /\ CancelOf(i)
            OBVIOUS
        <3>3. CASE i = mounts + 1
            BY <2>1, <3>1, <3>2, <3>3 DEF RunOf, CancelOf, Running
        <3>4. CASE i # mounts + 1
            <4>1. test'[i] = test[i]
                BY <1>1, <3>4 DEF ShowTest, SpeedTypeOK
            <4>2. i > mounts' => i > mounts
                BY <2>1, <3>1 DEF Mounts
            <4> QED BY <3>1, <3>2, <4>1, <4>2 DEF RunOf, CancelOf, Running
        <3> QED BY <3>3, <3>4
    <2> QED BY <2>2, <2>3
<1>2. CASE ShowOther
    <2>1. SpeedTypeOK'
        <3>1. 0 \in 0..mounts
            BY SpeedAssumption DEF SpeedTypeOK
        <3> QED BY <1>2, <3>1 DEF ShowOther, SpeedTypeOK
    <2> QED BY <1>2, <2>1 DEF ShowOther, RunOf, CancelOf, Running
<1> QED BY <1>1, <1>2

LEMMA SpeedStep == SpeedInv /\ [SpeedNext]_speedVars => SpeedInv'
<1> SUFFICES ASSUME SpeedInv, [SpeedNext]_speedVars PROVE SpeedInv'
    OBVIOUS
<1>1. CASE UNCHANGED speedVars
    BY <1>1 DEF speedVars, SpeedInv, SpeedTypeOK, RunOf, CancelOf, Running
<1> QED BY <1>1, SpeedUserInv, SpeedNetworkInv, ShowInv DEF SpeedNext

THEOREM SpeedCorrect == SpeedSpec => []SpeedInv
BY SpeedBegins, SpeedStep, PTL DEF SpeedSpec

(* The type invariant of SpeedSession.                                     *)
THEOREM SpeedTypes == SpeedSpec => []SpeedTypeOK
BY SpeedCorrect, PTL DEF SpeedInv

(* A cancelled test shows no result, whatever phase the cancel met: the    *)
(* abort and its handlers in SpeedTest.tsx and DownloadTest.tsx.           *)
THEOREM CancelledCorrect == SpeedSpec => []CancelledShowsNothing
<1>1. SpeedInv => CancelledShowsNothing
    BY DEF SpeedInv, CancelOf, CancelledShowsNothing
<1> QED BY <1>1, SpeedCorrect, PTL

(* A download that shows a result received the whole file: the loop over   *)
(* the parts in DownloadTest.tsx.                                          *)
THEOREM DownloadCorrect == SpeedSpec => []DownloadIsWhole
<1>1. SpeedInv => DownloadIsWhole
    BY DEF SpeedInv, RunOf, DownloadIsWhole
<1> QED BY <1>1, SpeedCorrect, PTL

-----------------------------------------------------------------------------
(* WebSession.  In a tab where Logout was not clicked twice at most one    *)
(* request is in flight, of the login that is signed in there, and what    *)
(* leaves the page is a logout of that login.                              *)
TabInv ==
    \A t \in WebTabs \ doubled :
        /\ \A c \in Clicks : InFlight(c) /\ logout[c].tab = t =>
              ~loading[t] /\ ~Busy(t) /\ session[t] # 0 /\ session[t] = logout[c].of
        /\ \A c, d \in Clicks :
              InFlight(c) /\ InFlight(d) /\ logout[c].tab = t /\ logout[d].tab = t => c = d
        /\ Busy(t) /\ task[t].then = "leave" /\ session[t] # 0 =>
              \E c \in Clicks : logout[c].tab = t /\ logout[c].of = session[t]

(* A login that nobody has asked to end, and that no other tab is at work  *)
(* in: no request is in flight at all, and both tokens are its own, or a   *)
(* later login's, or are still to be stored.                               *)
Safe(k) ==
    k \notin met /\ logins[k] \notin doubled /\ \A c \in Clicks : logout[c].of < k

KeptTokens(k) ==
    /\ \A c \in Clicks : ~InFlight(c)
    /\ \A t \in WebTabs : Busy(t) => task[t].value >= k
    /\ session[logins[k]] = 0 \/ session[logins[k]] >= k
    /\ access >= k \/ task[logins[k]].next = "access"
    /\ refresh >= k \/ Busy(logins[k])

TokenInv == \A k \in bears : Safe(k) => KeptTokens(k)

LoginInv ==
    /\ SessionTypeOK
    /\ \A t \in WebTabs : loading[t] => session[t] = 0
    /\ \A c \in Clicks : logout[c].at = "none" => logout[c].of = 0
    /\ TabInv /\ TokenInv

Logouts == [Clicks -> [at : {"none", "sent", "refreshing", "over"}, tab : WebTabs,
                       of : 0..Len(logins), by : {0} \cup bears]]
Tasks == [WebTabs -> [next : Items \cup {"none"}, value : {0} \cup bears,
                      then : {"stay", "leave", "load"}]]

LEMMA IdleTask == Idle.next = "none" /\ Idle \in [next : Items \cup {"none"},
                     value : {0} \cup bears, then : {"stay", "leave", "load"}]
BY DEF Idle

LEMMA LoginBegins == SessionInit => LoginInv
<1> SUFFICES ASSUME SessionInit PROVE LoginInv
    OBVIOUS
<1>1. logins = <<>> /\ Len(logins) = 0 /\ logins \in Seq(WebTabs) /\ MaxLogins \in Nat
    BY WebSessionAssumption DEF SessionInit
<1>2. (CHOOSE t \in WebTabs : TRUE) \in WebTabs
    BY WebSessionAssumption
<1>3. SessionTypeOK
    BY <1>1, <1>2, IdleTask DEF SessionInit, SessionTypeOK
<1>4. \A t \in WebTabs : ~Busy(t)
    BY IdleTask DEF SessionInit, Busy, Items
<1>5. \A c \in Clicks : logout[c].at = "none" /\ logout[c].of = 0
    BY DEF SessionInit
<1>6. TabInv /\ TokenInv
    BY <1>4, <1>5 DEF SessionInit, TabInv, TokenInv, InFlight
<1> QED BY <1>3, <1>5, <1>6 DEF SessionInit, LoginInv

(* What does not change with the page a tab shows.                         *)
LEMMA Bounds ==
    ASSUME SessionTypeOK
    PROVE  /\ Len(logins) \in Nat /\ access \in 0..Len(logins) /\ refresh \in 0..Len(logins)
           /\ \A k \in bears : k \in 1..Len(logins) /\ k \in Nat /\ logins[k] \in WebTabs
           /\ \A t \in WebTabs : session[t] \in Nat /\ task[t].value \in Nat
           /\ \A c \in Clicks : logout[c].of \in Nat /\ logout[c].tab \in WebTabs
<1>1. Len(logins) \in Nat /\ \A k \in 1..Len(logins) : logins[k] \in WebTabs
    <2>1. logins \in Seq(WebTabs)
        BY DEF SessionTypeOK
    <2> QED BY <2>1
<1>2. \A k \in bears : k \in 1..Len(logins) /\ k \in 0..Len(logins) /\ k \in Nat
    BY <1>1 DEF SessionTypeOK
<1>3. 0 \in 0..Len(logins) /\ 0 \in Nat
    BY <1>1
<1>4. access \in {0} \cup bears /\ refresh \in {0} \cup bears
    BY DEF SessionTypeOK
<1>5. \A t \in WebTabs : session[t] \in 0..Len(logins) /\ task[t].value \in {0} \cup bears
    BY DEF SessionTypeOK
<1>6. \A c \in Clicks : logout[c].of \in 0..Len(logins) /\ logout[c].tab \in WebTabs
    BY DEF SessionTypeOK
<1>7. \A k \in 0..Len(logins) : k \in Nat
    BY <1>1
<1> QED BY <1>1, <1>2, <1>3, <1>4, <1>5, <1>6, <1>7

(* Loading a tab ends its requests.                                        *)
LEMMA LoadEnds ==
    ASSUME SessionTypeOK, NEW t \in WebTabs, Load(t)
    PROVE  /\ loading' \in [WebTabs -> BOOLEAN] /\ authEnabled' \in [WebTabs -> BOOLEAN]
           /\ session' \in [WebTabs -> 0..Len(logins)] /\ logout' \in Logouts
           /\ loading'[t] /\ session'[t] = 0
           /\ \A u \in WebTabs \ {t} : loading'[u] = loading[u] /\ session'[u] = session[u]
           /\ \A c \in Clicks : /\ logout'[c].of = logout[c].of /\ logout'[c].tab = logout[c].tab
                                /\ InFlight(c)' => InFlight(c) /\ logout[c].tab # t
                                /\ logout'[c].at = "none" => logout[c].at = "none"
<1> USE DEF Logouts
<1>1. \A c \in Clicks : logout[c] \in [at : {"none", "sent", "refreshing", "over"},
             tab : WebTabs, of : 0..Len(logins), by : {0} \cup bears]
    BY DEF SessionTypeOK
<1>2. \A c \in Clicks : logout'[c] = IF InFlight(c) /\ logout[c].tab = t
                                       THEN Now(c, "over", 0) ELSE logout[c]
    BY DEF Load
<1>3. \A c \in Clicks : Now(c, "over", 0) =
            [at |-> "over", tab |-> logout[c].tab, of |-> logout[c].of, by |-> 0]
    BY DEF Now
<1>4. \A c \in Clicks : logout'[c] \in [at : {"none", "sent", "refreshing", "over"},
             tab : WebTabs, of : 0..Len(logins), by : {0} \cup bears]
    BY <1>1, <1>2, <1>3
<1>5. logout' \in Logouts
    BY <1>4 DEF Load
<1>6. ASSUME NEW c \in Clicks
      PROVE  /\ logout'[c].of = logout[c].of /\ logout'[c].tab = logout[c].tab
             /\ InFlight(c)' => InFlight(c) /\ logout[c].tab # t
             /\ logout'[c].at = "none" => logout[c].at = "none"
    <2>1. CASE InFlight(c) /\ logout[c].tab = t
        <3>1. logout'[c] = [at |-> "over", tab |-> logout[c].tab, of |-> logout[c].of, by |-> 0]
            BY <1>2, <1>3, <2>1
        <3> QED BY <3>1 DEF InFlight
    <2>2. CASE ~(InFlight(c) /\ logout[c].tab = t)
        BY <1>2, <2>2 DEF InFlight
    <2> QED BY <2>1, <2>2
<1>7. 0 \in 0..Len(logins)
    BY Bounds
<1> QED BY <1>5, <1>6, <1>7 DEF Load, SessionTypeOK

(* A step that moves one request on.                                       *)
LEMMA MoveOn ==
    ASSUME SessionTypeOK, NEW c \in Clicks, NEW to \in {"sent", "refreshing", "over"},
           NEW by \in {0} \cup bears,
           logout' = [logout EXCEPT ![c] = Now(c, to, by)]
    PROVE  /\ logout' \in Logouts
           /\ logout'[c].at = to
           /\ \A d \in Clicks : logout'[d].of = logout[d].of /\ logout'[d].tab = logout[d].tab
           /\ \A d \in Clicks \ {c} : logout'[d] = logout[d]
<1>1. logout[c] \in [at : {"none", "sent", "refreshing", "over"}, tab : WebTabs,
                     of : 0..Len(logins), by : {0} \cup bears]
    BY DEF SessionTypeOK
<1>2. logout \in Logouts /\ DOMAIN logout = Clicks
    BY DEF SessionTypeOK, Logouts
<1> DEFINE moved == Now(c, to, by)
<1>3. moved \in [at : {"none", "sent", "refreshing", "over"}, tab : WebTabs,
                of : 0..Len(logins), by : {0} \cup bears]
    BY <1>1 DEF Now
<1>4. logout' \in Logouts /\ logout'[c] = moved /\ \A d \in Clicks \ {c} : logout'[d] = logout[d]
    BY <1>2, <1>3 DEF Logouts
<1>5. moved.at = to /\ moved.tab = logout[c].tab /\ moved.of = logout[c].of
    BY DEF Now
<1> QED BY <1>4, <1>5

(* While a request is in flight no login is safe.                          *)
LEMMA NoneSafe ==
    ASSUME LoginInv, NEW c \in Clicks, InFlight(c),
           UNCHANGED <<logins, bears, doubled, met>>,
           \A d \in Clicks : logout'[d].of = logout[d].of
    PROVE  TokenInv'
BY DEF LoginInv, TokenInv, Safe, KeptTokens

LEMMA ClickInv ==
    ASSUME LoginInv, NEW t \in WebTabs, NEW c \in Clicks, ClickLogout(c, t)
    PROVE  LoginInv'
<1> USE DEF LoginInv
<1> DEFINE r == [at |-> "sent", tab |-> t, of |-> session[t], by |-> 0]
<1>1. /\ ~loading[t] /\ ~Busy(t) /\ session[t] # 0 /\ logout[c].at = "none"
      /\ logout' = [logout EXCEPT ![c] = r]
      /\ met' = met \cup {k \in 1..Len(logins) : logins[k] # t}
      /\ UNCHANGED <<loading, authEnabled, session, task, access, refresh, logins, bears>>
    BY DEF ClickLogout, Send, Page, app, storage
<1>2. /\ doubled' \subseteq WebTabs /\ doubled \subseteq doubled'
      /\ t \notin doubled' => \A d \in Clicks : ~(InFlight(d) /\ logout[d].tab = t)
    BY DEF ClickLogout, Send, SessionTypeOK
<1>3. logout' \in Logouts /\ logout'[c] = r /\ \A d \in Clicks \ {c} : logout'[d] = logout[d]
    <2>1. r \in [at : {"none", "sent", "refreshing", "over"}, tab : WebTabs,
                 of : 0..Len(logins), by : {0} \cup bears]
        BY DEF SessionTypeOK
    <2> QED BY <1>1, <2>1 DEF SessionTypeOK, Logouts
<1>4. SessionTypeOK'
    BY <1>1, <1>2, <1>3 DEF SessionTypeOK, Logouts
<1>5. r.tab = t /\ r.of = session[t] /\ r.at = "sent"
    OBVIOUS
<1>6. \A d \in Clicks \ {c} : InFlight(d)' = InFlight(d)
    BY <1>3 DEF InFlight
<1>7. TabInv'
    <2> SUFFICES ASSUME NEW u \in WebTabs \ doubled'
                 PROVE  /\ \A d \in Clicks : InFlight(d)' /\ logout'[d].tab = u =>
                              ~loading[u] /\ ~Busy(u) /\ session[u] # 0 /\ session[u] = logout'[d].of
                        /\ \A d, e \in Clicks : InFlight(d)' /\ InFlight(e)'
                              /\ logout'[d].tab = u /\ logout'[e].tab = u => d = e
                        /\ Busy(u) /\ task[u].then = "leave" /\ session[u] # 0 =>
                              \E d \in Clicks : logout'[d].tab = u /\ logout'[d].of = session[u]
        BY <1>1 DEF TabInv, Busy
    <2>1. u \in WebTabs \ doubled
        BY <1>2
    <2>2. \A d \in Clicks \ {c} : InFlight(d)' /\ logout'[d].tab = u =>
                InFlight(d) /\ logout[d].tab = u /\ u # t
        BY <1>2, <1>3, <1>6
    <2>3. ASSUME Busy(u), task[u].then = "leave", session[u] # 0
          PROVE  \E d \in Clicks : logout'[d].tab = u /\ logout'[d].of = session[u]
        <3>1. PICK d \in Clicks : logout[d].tab = u /\ logout[d].of = session[u]
            BY <2>1, <2>3 DEF TabInv
        <3>2. d # c
            BY <1>1, <2>3, <3>1
        <3> QED BY <1>3, <3>1, <3>2
    <2> QED BY <1>1, <1>3, <1>5, <2>1, <2>2, <2>3 DEF TabInv
<1>8. TokenInv'
    <2> SUFFICES ASSUME NEW k \in bears, Safe(k)' PROVE FALSE
        BY <1>1 DEF TokenInv
    <2>1. k \notin met /\ logins[k] = t /\ k \in 1..Len(logins) /\ k \in Nat
        BY <1>1, Bounds DEF Safe
    <2>2. session[t] < k /\ \A d \in Clicks \ {c} : logout[d].of < k
        BY <1>3, <1>5 DEF Safe
    <2>3. logout[c].of < k
        BY <1>1, <2>1
    <2>4. KeptTokens(k)
        <3>1. logins[k] \notin doubled
            BY <1>1, <1>2 DEF Safe
        <3> QED BY <2>1, <2>2, <2>3, <3>1 DEF TokenInv, Safe
    <2>5. session[t] \in Nat
        BY Bounds
    <2> QED BY <1>1, <2>1, <2>2, <2>4, <2>5 DEF KeptTokens
<1>9. \A d \in Clicks : logout'[d].at = "none" => logout'[d].of = 0
    BY <1>3, <1>5
<1> QED BY <1>1, <1>4, <1>7, <1>8, <1>9

(* A request that ends or waits for an answer, with its tab's page as it   *)
(* was or left, and nothing to be written or both tokens to be removed.    *)
LEMMA LogoutInv ==
    ASSUME LoginInv, NEW c \in Clicks,
           LogoutAnswered(c) \/ LogoutUnauthorised(c) \/ RefreshAnswered(c)
    PROVE  LoginInv'
<1> USE DEF LoginInv
<1> DEFINE t == logout[c].tab
           gone(how) == [next |-> "access", value |-> 0, then |-> how]
<1>1. /\ t \in WebTabs /\ InFlight(c) /\ ~Busy(t)
      /\ UNCHANGED <<loading, authEnabled, refresh, logins, bears, doubled, met>>
    BY DEF LogoutAnswered, LogoutUnauthorised, RefreshAnswered, RemoveBoth, InFlight,
           SessionTypeOK, app, storage
<1>2. \E to \in {"sent", "refreshing", "over"}, by \in {0} \cup bears :
          /\ logout' = [logout EXCEPT ![c] = Now(c, to, by)]
          /\ \/ to = "over" /\ \E how \in {"leave", "load"} :
                  task' = [task EXCEPT ![t] = gone(how)] /\ UNCHANGED <<session, access>>
             \/ to = "over" /\ session' = [session EXCEPT ![t] = 0] /\ UNCHANGED <<task, access>>
             \/ access' \in {0} \cup bears /\ UNCHANGED <<session, task>>
    <2>1. refresh \in {0} \cup bears /\ access \in {0} \cup bears
          /\ logout[c].by \in {0} \cup bears
        BY DEF SessionTypeOK
    <2> QED BY <2>1 DEF LogoutAnswered, LogoutUnauthorised, RefreshAnswered, RemoveBoth, Over,
                        app, storage
<1>3. PICK to \in {"sent", "refreshing", "over"}, by \in {0} \cup bears :
          /\ logout' = [logout EXCEPT ![c] = Now(c, to, by)]
          /\ \/ to = "over" /\ \E how \in {"leave", "load"} :
                  task' = [task EXCEPT ![t] = gone(how)] /\ UNCHANGED <<session, access>>
             \/ to = "over" /\ session' = [session EXCEPT ![t] = 0] /\ UNCHANGED <<task, access>>
             \/ access' \in {0} \cup bears /\ UNCHANGED <<session, task>>
    BY <1>2
<1>4. /\ logout' \in Logouts /\ logout'[c].at = to
      /\ \A d \in Clicks : logout'[d].of = logout[d].of /\ logout'[d].tab = logout[d].tab
      /\ \A d \in Clicks \ {c} : logout'[d] = logout[d]
    BY <1>3, MoveOn
<1>5. /\ access' \in {0} \cup bears
      /\ session' \in [WebTabs -> 0..Len(logins)]
      /\ \A u \in WebTabs : session'[u] # session[u] => session'[u] = 0 /\ u = t /\ to = "over"
    <2>1. 0 \in 0..Len(logins)
        BY Bounds
    <2> QED BY <1>1, <1>3, <2>1 DEF SessionTypeOK
<1>6. /\ task' \in Tasks
      /\ \A u \in WebTabs : task'[u] # task[u] => u = t /\ to = "over" /\ session' = session
    <2>1. \A how \in {"leave", "load"} : gone(how) \in [next : Items \cup {"none"},
             value : {0} \cup bears, then : {"stay", "leave", "load"}]
        BY DEF Items
    <2>2. task \in Tasks
        BY DEF SessionTypeOK, Tasks
    <2>3. CASE task' = task
        BY <2>2, <2>3
    <2>4. ASSUME NEW how \in {"leave", "load"}, task' = [task EXCEPT ![t] = gone(how)],
                 to = "over", session' = session
          PROVE  /\ task' \in Tasks
                 /\ \A u \in WebTabs : task'[u] # task[u] => u = t /\ to = "over" /\ session' = session
        <3>1. gone(how) \in [next : Items \cup {"none"}, value : {0} \cup bears,
                             then : {"stay", "leave", "load"}]
            BY <2>1
        <3> HIDE DEF gone
        <3> QED BY <1>1, <2>2, <2>4, <3>1 DEF Tasks
    <2> QED BY <1>3, <2>3, <2>4
<1>7. SessionTypeOK'
    BY <1>1, <1>4, <1>5, <1>6 DEF SessionTypeOK, Logouts, Tasks
<1>8. TokenInv'
    BY <1>1, <1>4, NoneSafe
<1>9. \A d \in Clicks : InFlight(d)' => InFlight(d) /\ (d = c => to # "over")
    BY <1>1, <1>4 DEF InFlight
<1>10. TabInv'
    <2> SUFFICES ASSUME NEW u \in WebTabs \ doubled
                 PROVE  /\ \A d \in Clicks : InFlight(d)' /\ logout[d].tab = u =>
                              ~loading[u] /\ ~Busy(u)' /\ session'[u] # 0 /\ session'[u] = logout[d].of
                        /\ \A d, e \in Clicks : InFlight(d)' /\ InFlight(e)'
                              /\ logout[d].tab = u /\ logout[e].tab = u => d = e
                        /\ Busy(u)' /\ task'[u].then = "leave" /\ session'[u] # 0 =>
                              \E d \in Clicks : logout[d].tab = u /\ logout[d].of = session'[u]
        BY <1>1, <1>4 DEF TabInv
    <2>1. ASSUME NEW d \in Clicks, InFlight(d)', logout[d].tab = u, u = t PROVE d = c /\ to # "over"
        BY <1>1, <1>9, <2>1 DEF TabInv
    <2>2. \A d \in Clicks : InFlight(d)' /\ logout[d].tab = u =>
             task'[u] = task[u] /\ session'[u] = session[u]
        BY <1>5, <1>6, <2>1
    <2>3. ASSUME Busy(u)', task'[u].then = "leave", session'[u] # 0
          PROVE  \E d \in Clicks : logout[d].tab = u /\ logout[d].of = session'[u]
        <3>1. session'[u] = session[u]
            BY <1>5, <2>3
        <3>2. CASE task'[u] = task[u]
            BY <2>3, <3>1, <3>2 DEF TabInv, Busy
        <3>3. CASE task'[u] # task[u]
            BY <1>1, <1>6, <3>1, <3>3 DEF TabInv
        <3> QED BY <3>2, <3>3
    <2> QED BY <1>9, <2>2, <2>3 DEF TabInv, Busy
<1>11. \A u \in WebTabs : loading'[u] => session'[u] = 0
    BY <1>1, <1>5
<1>12. \A d \in Clicks : logout'[d].at = "none" => logout'[d].of = 0
    BY <1>4
<1> QED BY <1>7, <1>8, <1>10, <1>11, <1>12

LEMMA CheckInv == ASSUME LoginInv, NEW t \in WebTabs, CheckAuth(t) PROVE LoginInv'
<1> USE DEF LoginInv
<1>1. /\ loading[t] /\ ~Busy(t)
      /\ loading' = [loading EXCEPT ![t] = FALSE]
      /\ UNCHANGED <<task, access, refresh, logins, bears, logout, doubled, met>>
    BY DEF CheckAuth, Page, storage
<1>2. /\ authEnabled' \in [WebTabs -> BOOLEAN]
      /\ session' \in [WebTabs -> 0..Len(logins)] /\ session'[t] \in {0, access}
      /\ \A u \in WebTabs \ {t} : session'[u] = session[u]
    <2>1. access \in 0..Len(logins) /\ 0 \in 0..Len(logins)
        BY Bounds
    <2>2. \E k \in {0, access} : session' = [session EXCEPT ![t] = k]
        BY DEF CheckAuth
    <2>3. \E b \in BOOLEAN : authEnabled' = [authEnabled EXCEPT ![t] = b]
        BY DEF CheckAuth
    <2> QED BY <2>1, <2>2, <2>3 DEF SessionTypeOK
<1>3. SessionTypeOK'
    BY <1>1, <1>2 DEF SessionTypeOK
<1>4. \A u \in WebTabs : loading'[u] => session'[u] = 0
    BY <1>1, <1>2 DEF SessionTypeOK
<1>5. \A u \in WebTabs \ {t} : loading'[u] = loading[u]
    BY <1>1 DEF SessionTypeOK
<1>6. TabInv'
    BY <1>1, <1>2, <1>5 DEF TabInv, InFlight, Busy
<1>7. TokenInv'
    <2> SUFFICES ASSUME NEW k \in bears, Safe(k) PROVE KeptTokens(k)'
        BY <1>1 DEF TokenInv, Safe
    <2>1. KeptTokens(k) /\ logins[k] \in WebTabs
        BY Bounds DEF TokenInv
    <2>2. session'[logins[k]] = 0 \/ session'[logins[k]] >= k
        BY <1>1, <1>2, <2>1 DEF KeptTokens, Busy, Items
    <2> QED BY <1>1, <2>1, <2>2 DEF KeptTokens, InFlight, Busy
<1> QED BY <1>1, <1>3, <1>4, <1>6, <1>7

LEMMA SignInInv == ASSUME LoginInv, NEW t \in WebTabs, Login(t) PROVE LoginInv'
<1> USE DEF LoginInv
<1> DEFINE n == Len(logins) + 1
           new == [next |-> "access", value |-> n, then |-> "stay"]
<1>1. /\ ~loading[t] /\ session[t] = 0 /\ ~Busy(t) /\ n <= MaxLogins
      /\ logins' = Append(logins, t)
      /\ session' \in {session, [session EXCEPT ![t] = n]}
      /\ \/ bears' = bears \cup {n} /\ task' = [task EXCEPT ![t] = new]
         \/ UNCHANGED <<bears, task>>
      /\ met' = IF OtherActs(t) THEN met \cup {n} ELSE met
      /\ UNCHANGED <<loading, authEnabled, access, refresh, logout, doubled>>
    BY DEF Login, Page, storage
<1>2. Len(logins) \in Nat /\ logins \in Seq(WebTabs) /\ n \in Nat /\ MaxLogins \in Nat
    BY Bounds, WebSessionAssumption DEF SessionTypeOK
<1>3. /\ logins' \in Seq(WebTabs) /\ Len(logins') = n /\ logins'[n] = t
      /\ \A k \in 1..Len(logins) : logins'[k] = logins[k]
    BY <1>1, <1>2
<1>4. /\ \A k \in 0..Len(logins) : k \in 0..n
      /\ \A k \in 1..Len(logins) : k \in 1..n /\ k < n
      /\ n \in 1..n /\ n \in 0..n
    BY <1>2
<1>5. session' \in [WebTabs -> 0..n] /\ session'[t] \in {0, n}
      /\ \A u \in WebTabs \ {t} : session'[u] = session[u]
    BY <1>1, <1>4 DEF SessionTypeOK
<1>6. bears \subseteq bears' /\ bears' \subseteq 1..n /\ met' \subseteq 1..n
    BY <1>1, <1>4 DEF SessionTypeOK
<1>7. /\ task' \in Tasks'
      /\ task'[t] = task[t] \/ task'[t] = new
      /\ \A u \in WebTabs \ {t} : task'[u] = task[u]
    <2>1. task \in [WebTabs -> [next : Items \cup {"none"}, value : {0} \cup bears',
                                then : {"stay", "leave", "load"}]]
        BY <1>6 DEF SessionTypeOK
    <2>2. n \in bears' => new \in [next : Items \cup {"none"}, value : {0} \cup bears',
                                then : {"stay", "leave", "load"}]
        BY DEF Items
    <2>3. CASE task' = task
        BY <2>1, <2>3 DEF Tasks
    <2>4. CASE n \in bears' /\ task' = [task EXCEPT ![t] = new]
        <3> HIDE DEF new
        <3> QED BY <2>1, <2>2, <2>4 DEF Tasks
    <2> QED BY <1>1, <2>3, <2>4
<1>8. logout' \in Logouts'
    BY <1>1, <1>3, <1>4, <1>6 DEF SessionTypeOK, Logouts
<1>9. SessionTypeOK'
    BY <1>1, <1>3, <1>5, <1>6, <1>7, <1>8 DEF SessionTypeOK, Tasks, Logouts
<1>10. t \notin doubled => \A c \in Clicks : ~(InFlight(c) /\ logout[c].tab = t)
    BY <1>1 DEF TabInv
<1>11. Busy(t)' => task'[t].value = n /\ task'[t].then = "stay" /\ task'[t].next = "access"
                  /\ bears' = bears \cup {n}
    BY <1>1, <1>7 DEF Busy, SessionTypeOK
<1>12. TabInv'
    BY <1>1, <1>5, <1>7, <1>10, <1>11 DEF TabInv, InFlight, Busy
<1>13. TokenInv'
    <2> SUFFICES ASSUME NEW k \in bears', Safe(k)' PROVE KeptTokens(k)'
        BY DEF TokenInv
    <2>1. CASE k \in bears
        <3>1. k \in 1..Len(logins) /\ k \in Nat /\ logins'[k] = logins[k] /\ logins[k] \in WebTabs
            BY <1>3, <2>1, Bounds
        <3>2. Safe(k)
            BY <1>1, <3>1 DEF Safe
        <3>3. KeptTokens(k)
            BY <2>1, <3>2 DEF TokenInv
        <3>4. \A u \in WebTabs : Busy(u)' => task'[u].value >= k
            BY <1>2, <1>4, <1>7, <1>11, <3>1, <3>3 DEF KeptTokens, Busy
        <3>5. session'[logins[k]] = 0 \/ session'[logins[k]] >= k
            BY <1>2, <1>4, <1>5, <3>1, <3>3 DEF KeptTokens
        <3>6. CASE logins[k] = t
            <4>1. access >= k /\ refresh >= k
                BY <1>1, <3>3, <3>6 DEF KeptTokens, Busy, Items
            <4> QED BY <1>1, <3>1, <3>3, <3>4, <3>5, <4>1 DEF KeptTokens, InFlight
        <3>7. CASE logins[k] # t
            BY <1>1, <1>7, <3>1, <3>3, <3>4, <3>5, <3>7 DEF KeptTokens, InFlight, Busy
        <3> QED BY <3>6, <3>7
    <2>2. CASE k \notin bears
        <3>1. k = n /\ bears' = bears \cup {n} /\ task' = [task EXCEPT ![t] = new] /\ n \notin bears
            BY <1>1, <2>2
        <3>2. ~OtherActs(t) /\ t \notin doubled
            BY <1>1, <1>3, <3>1 DEF Safe
        <3>3. \A c \in Clicks : ~InFlight(c)
            BY <1>10, <3>2 DEF OtherActs
        <3>4. task'[t] = new
            BY <3>1 DEF SessionTypeOK
        <3>5. \A u \in WebTabs : Busy(u)' => u = t
            BY <1>7, <3>2 DEF OtherActs, Busy
        <3>6. n >= n /\ logins'[k] = t
            BY <1>2, <1>3, <3>1
        <3> QED BY <1>1, <1>5, <3>1, <3>3, <3>4, <3>5, <3>6 DEF KeptTokens, InFlight, Busy, Items
    <2> QED BY <2>1, <2>2
<1>14. \A u \in WebTabs : loading'[u] => session'[u] = 0
    BY <1>1, <1>5
<1> QED BY <1>1, <1>9, <1>12, <1>13, <1>14

(* What a load of a tab leaves of the invariant.                           *)
LEMMA LoadInv ==
    ASSUME LoginInv, NEW t \in WebTabs, Load(t), ~Busy(t)' ,
           \A u \in WebTabs \ {t} : task'[u] = task[u],
           UNCHANGED <<logins, bears, doubled, met>>
    PROVE  /\ TabInv'
           /\ \A u \in WebTabs : loading'[u] => session'[u] = 0
           /\ \A c \in Clicks : logout'[c].at = "none" => logout'[c].of = 0
           /\ \A k \in bears : Safe(k)' => Safe(k) /\ \A c \in Clicks : ~InFlight(c)'
           /\ \A k \in bears : session'[logins[k]] \in {0, session[logins[k]]}
<1> USE DEF LoginInv
<1>1. /\ loading'[t] /\ session'[t] = 0
      /\ \A u \in WebTabs \ {t} : loading'[u] = loading[u] /\ session'[u] = session[u]
      /\ \A c \in Clicks : /\ logout'[c].of = logout[c].of /\ logout'[c].tab = logout[c].tab
                           /\ InFlight(c)' => InFlight(c) /\ logout[c].tab # t
                           /\ logout'[c].at = "none" => logout[c].at = "none"
    BY LoadEnds
<1>2. TabInv'
    BY <1>1 DEF TabInv, Busy
<1>3. \A k \in bears : Safe(k)' => Safe(k)
    BY <1>1 DEF Safe
<1>4. \A k \in bears : Safe(k) => \A c \in Clicks : ~InFlight(c)'
    BY <1>1 DEF TokenInv, KeptTokens
<1>5. \A k \in bears : logins[k] \in WebTabs
    BY Bounds
<1> QED BY <1>1, <1>2, <1>3, <1>4, <1>5

LEMMA ReloadInv == ASSUME LoginInv, NEW t \in WebTabs, Reload(t) PROVE LoginInv'
<1> USE DEF LoginInv
<1>1. ~Busy(t) /\ Load(t) /\ UNCHANGED <<task, access, refresh, logins, bears, doubled, met>>
    BY DEF Reload, storage
<1>2. ~Busy(t)'
    BY <1>1 DEF Busy
<1>3. SessionTypeOK'
    BY <1>1, LoadEnds DEF SessionTypeOK, Logouts
<1>4. /\ TabInv'
      /\ \A u \in WebTabs : loading'[u] => session'[u] = 0
      /\ \A c \in Clicks : logout'[c].at = "none" => logout'[c].of = 0
      /\ \A k \in bears : Safe(k)' => Safe(k) /\ \A c \in Clicks : ~InFlight(c)'
      /\ \A k \in bears : session'[logins[k]] \in {0, session[logins[k]]}
    BY <1>1, <1>2, LoadInv
<1>5. TokenInv'
    <2> SUFFICES ASSUME NEW k \in bears, Safe(k)' PROVE KeptTokens(k)'
        BY <1>1 DEF TokenInv
    <2>1. KeptTokens(k)
        BY <1>4 DEF TokenInv
    <2> QED BY <1>1, <1>4, <2>1 DEF KeptTokens, Busy
<1> QED BY <1>3, <1>4, <1>5

LEMMA WriteInv == ASSUME LoginInv, NEW t \in WebTabs, Write(t) PROVE LoginInv'
<1> USE DEF LoginInv
<1>0. /\ task[t] \in [next : Items \cup {"none"}, value : {0} \cup bears,
                      then : {"stay", "leave", "load"}]
      /\ task[t].value \in {0} \cup bears
      /\ UNCHANGED <<logins, bears, doubled, met>>
    BY DEF SessionTypeOK, Write
<1>1. CASE task[t].next = "access"
    <2>1. /\ access' = task[t].value /\ task' = [task EXCEPT ![t].next = "refresh"]
          /\ UNCHANGED <<loading, authEnabled, session, refresh, logout>>
        BY <1>1 DEF Write, app
    <2>2. task' = [task EXCEPT ![t] = [next |-> "refresh", value |-> task[t].value,
                                       then |-> task[t].then]]
        <3>1. [task[t] EXCEPT !.next = "refresh"] =
                  [next |-> "refresh", value |-> task[t].value, then |-> task[t].then]
            BY <1>0
        <3>2. task' = [task EXCEPT ![t] = [task[t] EXCEPT !.next = "refresh"]]
            BY <2>1 DEF SessionTypeOK
        <3> QED BY <3>1, <3>2
    <2>3. /\ task' \in Tasks /\ task'[t].next = "refresh" /\ task'[t].value = task[t].value
          /\ task'[t].then = task[t].then
          /\ \A u \in WebTabs \ {t} : task'[u] = task[u]
        BY <1>0, <2>2 DEF SessionTypeOK, Tasks, Items
    <2>4. SessionTypeOK'
        BY <1>0, <2>1, <2>3 DEF SessionTypeOK, Tasks
    <2>5. \A u \in WebTabs : Busy(u)' = Busy(u)
        BY <1>1, <2>3 DEF Busy, Items
    <2>6. TabInv'
        BY <1>0, <2>1, <2>3, <2>5 DEF TabInv, InFlight
    <2>7. TokenInv'
        <3> SUFFICES ASSUME NEW k \in bears, Safe(k) PROVE KeptTokens(k)'
            BY <1>0, <2>1 DEF TokenInv, Safe
        <3>1. KeptTokens(k)
            BY DEF TokenInv
        <3>2. access' >= k
            BY <1>1, <2>1, <3>1 DEF KeptTokens, Busy, Items
        <3>3. \A u \in WebTabs : Busy(u)' => task'[u].value >= k
            BY <2>3, <2>5, <3>1 DEF KeptTokens
        <3>4. logins[k] \in WebTabs
            BY Bounds
        <3> QED BY <1>0, <2>1, <2>5, <3>1, <3>2, <3>3, <3>4 DEF KeptTokens, InFlight
    <2> QED BY <2>1, <2>4, <2>6, <2>7
<1>2. CASE task[t].next = "refresh"
    <2>1. /\ refresh' = task[t].value /\ task' = [task EXCEPT ![t] = Idle]
          /\ UNCHANGED access
        BY <1>2 DEF Write
    <2>2. /\ task' \in Tasks /\ ~Busy(t)' /\ task'[t].next = "none"
          /\ \A u \in WebTabs \ {t} : task'[u] = task[u]
        BY <2>1, IdleTask DEF SessionTypeOK, Tasks, Busy, Items
    <2>3. Busy(t) /\ \A u \in WebTabs \ {t} : Busy(u)' = Busy(u)
        BY <1>2, <2>2 DEF Busy, Items
    <2>4. ASSUME NEW k \in bears, Safe(k), session'[logins[k]] \in {0, session[logins[k]]},
                 \A c \in Clicks : ~InFlight(c)'
          PROVE  KeptTokens(k)'
        <3>1. KeptTokens(k) /\ logins[k] \in WebTabs
            BY <2>4, Bounds DEF TokenInv
        <3>2. refresh' >= k
            BY <2>1, <2>3, <3>1 DEF KeptTokens
        <3>3. access' >= k \/ task'[logins[k]].next = "access"
            BY <1>2, <2>1, <2>2, <3>1 DEF KeptTokens
        <3>4. \A u \in WebTabs : Busy(u)' => task'[u].value >= k
            BY <2>2, <2>3, <3>1 DEF KeptTokens
        <3> QED BY <1>0, <2>4, <3>1, <3>2, <3>3, <3>4 DEF KeptTokens
    <2>5. CASE Load(t)
        <3>1. SessionTypeOK'
            BY <1>0, <2>1, <2>2, <2>5, LoadEnds DEF SessionTypeOK, Logouts, Tasks
        <3>2. /\ TabInv'
              /\ \A u \in WebTabs : loading'[u] => session'[u] = 0
              /\ \A c \in Clicks : logout'[c].at = "none" => logout'[c].of = 0
              /\ \A k \in bears : Safe(k)' => Safe(k) /\ \A c \in Clicks : ~InFlight(c)'
              /\ \A k \in bears : session'[logins[k]] \in {0, session[logins[k]]}
            BY <1>0, <2>2, <2>5, LoadInv
        <3>3. TokenInv'
            BY <1>0, <2>4, <3>2 DEF TokenInv
        <3> QED BY <3>1, <3>2, <3>3
    <2>6. CASE /\ UNCHANGED <<loading, authEnabled, logout>>
               /\ session' = session \/ session' = [session EXCEPT ![t] = 0]
        <3>1. /\ session' \in [WebTabs -> 0..Len(logins)] /\ session'[t] \in {0, session[t]}
              /\ \A u \in WebTabs \ {t} : session'[u] = session[u]
            <4>1. 0 \in 0..Len(logins)
                BY Bounds
            <4> QED BY <2>6, <4>1 DEF SessionTypeOK
        <3>2. SessionTypeOK'
            BY <1>0, <2>1, <2>2, <2>6, <3>1 DEF SessionTypeOK, Tasks
        <3>3. TabInv'
            BY <1>0, <2>2, <2>3, <2>6, <3>1 DEF TabInv, InFlight
        <3>4. TokenInv'
            <4> SUFFICES ASSUME NEW k \in bears, Safe(k)' PROVE KeptTokens(k)'
                BY <1>0 DEF TokenInv
            <4>1. Safe(k) /\ logins[k] \in WebTabs
                BY <1>0, <2>6, Bounds DEF Safe
            <4>2. \A c \in Clicks : ~InFlight(c)'
                BY <2>6, <4>1 DEF TokenInv, KeptTokens, InFlight
            <4>3. session'[logins[k]] \in {0, session[logins[k]]}
                BY <3>1, <4>1
            <4> QED BY <2>4, <4>1, <4>2, <4>3
        <3>5. \A u \in WebTabs : loading'[u] => session'[u] = 0
            BY <2>6, <3>1
        <3> QED BY <2>6, <3>2, <3>3, <3>4, <3>5
    <2> QED BY <1>2, <2>5, <2>6 DEF Write, app
<1> QED BY <1>1, <1>2 DEF Write

LEMMA LoginStep == LoginInv /\ [SessionNext]_sessionVars => LoginInv'
<1> SUFFICES ASSUME LoginInv, [SessionNext]_sessionVars PROVE LoginInv'
    OBVIOUS
<1>1. CASE UNCHANGED sessionVars
    BY <1>1 DEF sessionVars, app, storage, LoginInv, SessionTypeOK, TabInv, TokenInv, Safe,
                KeptTokens, InFlight, Busy
<1> QED BY <1>1, ClickInv, LogoutInv, CheckInv, SignInInv, ReloadInv, WriteInv DEF SessionNext

THEOREM LoginCorrect == SessionSpec => []LoginInv
BY LoginBegins, LoginStep, PTL DEF SessionSpec

(* The type invariant of WebSession.                                       *)
THEOREM LoginTypes == SessionSpec => []SessionTypeOK
BY LoginCorrect, PTL DEF LoginInv

(* A token that falls is of a login that is not safe: a request takes a    *)
(* token, or puts back an older one, only while it is in flight.           *)
LEMMA TokenStep ==
    ASSUME LoginInv, SessionNext, NEW k \in 1..Len(logins),
           (access = k /\ access' < k) \/ (refresh = k /\ refresh' < k)
    PROVE  \/ k \in met \/ logins[k] \in doubled
           \/ \E c \in Clicks : logout[c].of >= k
<1> USE DEF LoginInv
<1>1. k \in bears /\ k \in Nat
    BY DEF SessionTypeOK
<1>2. SUFFICES ASSUME KeptTokens(k) PROVE FALSE
    BY <1>1, Bounds DEF TokenInv, Safe
<1>3. \A c \in Clicks : ~InFlight(c)
    BY <1>2 DEF KeptTokens
<1>4. ASSUME NEW t \in WebTabs, CheckAuth(t) \/ Login(t) \/ Reload(t) PROVE FALSE
    <2>1. access' = access /\ refresh' = refresh
        BY <1>4 DEF CheckAuth, Login, Reload, storage
    <2> QED BY <1>1, <2>1
<1>5. ASSUME NEW t \in WebTabs, NEW c \in Clicks, ClickLogout(c, t) PROVE FALSE
    <2>1. access' = access /\ refresh' = refresh
        BY <1>5 DEF ClickLogout, storage
    <2> QED BY <1>1, <2>1
<1>6. ASSUME NEW c \in Clicks, LogoutAnswered(c) \/ LogoutUnauthorised(c) \/ RefreshAnswered(c)
      PROVE  FALSE
    BY <1>3, <1>6 DEF LogoutAnswered, LogoutUnauthorised, RefreshAnswered, InFlight
<1>7. PICK t \in WebTabs : Write(t)
    BY <1>4, <1>5, <1>6 DEF SessionNext
<1>8. Busy(t) /\ access' \in {access, task[t].value} /\ refresh' \in {refresh, task[t].value}
    BY <1>7 DEF Write, Busy, Items
<1>9. task[t].value >= k /\ task[t].value \in Nat
    BY <1>2, <1>8, Bounds DEF KeptTokens
<1> QED BY <1>1, <1>8, <1>9

(* What is signed in ends, but for a load, by a logout of its own tab.     *)
LEMMA EndStep ==
    ASSUME LoginInv, SessionNext, NEW t \in WebTabs,
           session[t] # 0, session'[t] = 0, ~loading'[t], t \notin doubled
    PROVE  \E c \in Clicks : logout[c].tab = t /\ logout[c].of = session[t]
<1> USE DEF LoginInv
<1>1. ASSUME NEW u \in WebTabs, CheckAuth(u) PROVE FALSE
    <2>1. loading[u] /\ \E k \in {0, access} : session' = [session EXCEPT ![u] = k]
        BY <1>1 DEF CheckAuth, Page
    <2>2. session[u] = 0
        BY <2>1
    <2> QED BY <2>1, <2>2 DEF SessionTypeOK
<1>2. ASSUME NEW u \in WebTabs, Login(u) PROVE FALSE
    <2>1. session' \in {session, [session EXCEPT ![u] = Len(logins) + 1]}
        BY <1>2 DEF Login
    <2>2. Len(logins) + 1 # 0
        BY Bounds
    <2> QED BY <2>1, <2>2 DEF SessionTypeOK
<1>3. ASSUME NEW u \in WebTabs, Load(u) PROVE FALSE
    BY <1>3, LoadEnds
<1>4. ASSUME NEW u \in WebTabs, Write(u)
      PROVE  \E c \in Clicks : logout[c].tab = t /\ logout[c].of = session[t]
    <2>1. Busy(u) /\ task[u].then = "leave" /\ session' = [session EXCEPT ![u] = 0]
        BY <1>3, <1>4 DEF Write, Busy, Items, app
    <2>2. u = t
        BY <2>1 DEF SessionTypeOK
    <2> QED BY <2>1, <2>2 DEF TabInv
<1>5. ASSUME NEW c \in Clicks, LogoutAnswered(c)
      PROVE  logout[c].tab = t /\ logout[c].of = session[t]
    <2>1. InFlight(c) /\ session' = [session EXCEPT ![logout[c].tab] = 0]
        BY <1>5 DEF LogoutAnswered, InFlight, RemoveBoth, app
    <2>2. logout[c].tab = t
        BY <2>1 DEF SessionTypeOK
    <2> QED BY <2>1, <2>2 DEF TabInv
<1>6. \A c \in Clicks, u \in WebTabs :
         ~ClickLogout(c, u) /\ ~LogoutUnauthorised(c) /\ ~RefreshAnswered(c)
    BY DEF ClickLogout, LogoutUnauthorised, RefreshAnswered, RemoveBoth, app
<1> QED BY <1>1, <1>2, <1>3, <1>4, <1>5, <1>6 DEF SessionNext, Reload

(* A login keeps its tokens until Logout is clicked in it or later, unless *)
(* another tab is at work in it or Logout was clicked twice in its tab,    *)
(* and is signed in in a tab until Logout is clicked there: App and the    *)
(* interceptor of services/api.ts.                                         *)
THEOREM LoginEnds == SessionSpec => LoginEndsByItsUser
<1>1. LoginInv /\ [SessionNext]_sessionVars =>
        [/\ \A k \in 1..Len(logins) :
               (access = k /\ access' < k) \/ (refresh = k /\ refresh' < k)
               => \/ k \in met \/ logins[k] \in doubled
                  \/ \E c \in Clicks : logout[c].of >= k
         /\ \A t \in WebTabs :
               session[t] # 0 /\ session'[t] = 0 /\ ~loading'[t]
               => \/ t \in doubled
                  \/ \E c \in Clicks : logout[c].tab = t /\ logout[c].of = session[t]]_sessionVars
    BY TokenStep, EndStep
<1> QED BY <1>1, LoginCorrect, PTL DEF SessionSpec, LoginEndsByItsUser

-----------------------------------------------------------------------------
(* WebTestSession.  An event on its way is of a test of its connection,    *)
(* which is not lost, and tells what became of the test; the start of a    *)
(* test that is over is followed by its end.                               *)
EventOf(s, i) ==
    LET e == inbox[s][i]
    IN  /\ sock[e.test] = s /\ e.test \notin cut
        /\ phase[e.test] \notin {"idle", "sent", "lost"}
        /\ e.event = "test_complete" => phase[e.test] = "complete"
        /\ e.event = "test_started" =>
              \/ phase[e.test] = "running"
              \/ \E j \in 1..Len(inbox[s]) : j > i /\ inbox[s][j].test = e.test

EventInv == \A s \in Sockets : \A i \in 1..Len(inbox[s]) : EventOf(s, i)

(* What is shown as running is a test whose outcome TestRunner will hear.  *)
Awaited(t) == Outstanding(t) /\ sock[t] \in listening

RunInv == isRunningTest /\ cut = {} => \E t \in Tests : Awaited(t)

(* Only authorised tests are accepted, and results are of tests that       *)
(* completed; without authentication no trace is asked for.                *)
ResultInv ==
    /\ \A t \in Tests : phase[t] \in {"running", "complete", "failed"} => Authorised(t)
    /\ testResult # NoTest => phase[testResult] = "complete"
    /\ traceResult # NoTest => phase[traceResult] = "complete" /\ config.authEnabled
    /\ armed # {} => config.authEnabled

TestInv == TypeOK /\ EventInv /\ RunInv /\ ResultInv

LEMMA TestBegins == Init => TestInv
<1> SUFFICES ASSUME Init PROVE TestInv
    OBVIOUS
<1>1. 1 \in Sockets /\ 0 \in 0..MaxDrops
    BY SessionAssumption DEF Sockets
<1>2. <<>> \in Seq(Events) /\ Len(<<>>) = 0
    OBVIOUS
<1>3. TypeOK
    BY <1>1, <1>2 DEF Init, TypeOK
<1>4. EventInv
    BY <1>2 DEF Init, EventInv
<1> QED BY <1>3, <1>4 DEF Init, TestInv, RunInv, ResultInv

(* Nothing that Underway speaks of changes with a test's own connection.   *)
LEMMA QuietInv ==
    ASSUME TestInv, TypeOK', UNCHANGED <<server, inbox>>, config' = config,
           listening \subseteq listening', isRunningTest' => isRunningTest,
           testResult' \in {NoTest, testResult}, traceResult' \in {NoTest, traceResult},
           armed' \subseteq armed
    PROVE  TestInv'
<1>1. UNCHANGED <<kind, phase, sock, cut>>
    BY DEF server
<1>2. EventInv'
    BY <1>1 DEF TestInv, EventInv, EventOf
<1>3. \A t \in Tests : Awaited(t) => Awaited(t)'
    BY <1>1 DEF Awaited, Outstanding, Underway
<1>4. RunInv'
    BY <1>1, <1>3 DEF TestInv, RunInv
<1>5. ResultInv'
    BY <1>1 DEF TestInv, ResultInv, Authorised
<1> QED BY <1>2, <1>4, <1>5 DEF TestInv

(* The page and its connection, as long as nothing is sent or lost.        *)
LEMMA PageSteps ==
    ASSUME TestInv, NEW s \in Sockets, NEW to \in {"tests", "trace", "other"},
           Connect(s) \/ ConnectError(s) \/ SelectTab(to) \/ Reinitialize
           \/ CloseResult \/ Mount
    PROVE  TestInv'
<1> USE DEF TestInv
<1>1. CASE Connect(s)
    <2>1. TypeOK'
        BY <1>1 DEF Connect, TypeOK, shown, server
    <2> QED BY <1>1, <2>1, QuietInv DEF Connect, shown
<1>2. CASE ConnectError(s)
    <2>1. TypeOK'
        BY <1>2 DEF ConnectError, TypeOK, shown, server
    <2> QED BY <1>2, <2>1, QuietInv DEF ConnectError, shown
<1>3. CASE SelectTab(to)
    <2>1. TypeOK'
        BY <1>3 DEF SelectTab, TypeOK, server
    <2> QED BY <1>3, <2>1, QuietInv DEF SelectTab
<1>4. CASE Reinitialize \/ Mount
    <2>1. current + 1 \in Sockets
        BY <1>4, SessionAssumption DEF Reinitialize, Mount, TypeOK, Sockets
    <2>2. TypeOK'
        BY <1>4, <2>1 DEF Reinitialize, Mount, TypeOK, shown, server
    <2> QED BY <1>4, <2>2, QuietInv DEF Reinitialize, Mount, shown
<1>5. CASE CloseResult
    <2>1. TypeOK'
        BY <1>5 DEF CloseResult, TypeOK, browser, server
    <2> QED BY <1>5, <2>1, QuietInv DEF CloseResult, browser
<1> QED BY <1>1, <1>2, <1>3, <1>4, <1>5

(* A test that was not asked for has no events, so sending it disturbs     *)
(* nothing that is said of the others.                                     *)
LEMMA StartKeeps ==
    ASSUME TestInv, NEW t \in Tests, NEW k \in {"form", "trace"}, StartTest(t, k),
           phase[t] = "idle", inbox' = inbox, listening' = listening, config' = config
    PROVE  /\ kind' \in [Tests -> {"none", "form", "trace"}]
           /\ phase' \in [Tests -> {"idle", "sent", "running", "refused",
                                    "unauthorised", "complete", "failed", "lost"}]
           /\ sock' \in [Tests -> Sockets] /\ cut' = cut
           /\ EventInv'
           /\ \A u \in Tests : Awaited(u) => Awaited(u)'
           /\ \A u \in Tests : phase[u] = "complete" => phase'[u] = "complete"
           /\ \A u \in Tests : phase'[u] \in {"running", "complete", "failed"} => Authorised(u)'
<1> USE DEF TestInv
<1>1. \/ UNCHANGED server
      \/ /\ kind' = [kind EXCEPT ![t] = k] /\ phase' = [phase EXCEPT ![t] = "sent"]
         /\ sock' = [sock EXCEPT ![t] = current] /\ cut' = cut
    BY DEF StartTest
<1>2. CASE UNCHANGED server
    BY <1>2 DEF server, TypeOK, EventInv, EventOf, Awaited, Outstanding, Underway,
       ResultInv, Authorised
<1>3. CASE /\ kind' = [kind EXCEPT ![t] = k] /\ phase' = [phase EXCEPT ![t] = "sent"]
           /\ sock' = [sock EXCEPT ![t] = current] /\ cut' = cut
    <2>1. /\ kind' \in [Tests -> {"none", "form", "trace"}]
          /\ phase' \in [Tests -> {"idle", "sent", "running", "refused",
                                   "unauthorised", "complete", "failed", "lost"}]
          /\ sock' \in [Tests -> Sockets]
        BY <1>3 DEF TypeOK
    <2>2. /\ phase'[t] = "sent"
          /\ \A u \in Tests \ {t} :
                phase'[u] = phase[u] /\ sock'[u] = sock[u] /\ kind'[u] = kind[u]
        BY <1>3 DEF TypeOK
    <2>3. \A s \in Sockets : \A i \in 1..Len(inbox[s]) :
             inbox[s][i].test \in Tests \ {t}
        <3>1. \A s \in Sockets : \A i \in 1..Len(inbox[s]) : inbox[s][i] \in Events
            BY DEF TypeOK
        <3> QED BY <3>1 DEF EventInv, EventOf, Events
    <2>4. EventInv'
        BY <1>3, <2>2, <2>3 DEF EventInv, EventOf
    <2>5. ASSUME NEW u \in Tests, Awaited(u) PROVE Awaited(u)'
        <3>1. u # t
            <4>1. sock[t] \in Sockets
                BY DEF TypeOK
            <4>2. ~Underway(t)
                BY <2>3, <4>1 DEF Underway
            <4> QED BY <2>5, <4>2 DEF Awaited, Outstanding
        <3> QED BY <1>3, <2>2, <2>5, <3>1 DEF Awaited, Outstanding, Underway
    <2>6. \A u \in Tests : phase'[u] \in {"running", "complete", "failed"} => Authorised(u)'
        BY <2>2 DEF ResultInv, Authorised
    <2> QED BY <1>3, <2>1, <2>2, <2>4, <2>5, <2>6
<1> QED BY <1>1, <1>2, <1>3

LEMMA SubmitSteps ==
    ASSUME TestInv, NEW t \in Tests, SubmitForm(t) \/ SubmitTrace(t)
    PROVE  TestInv'
<1> USE DEF TestInv
<1>1. CASE SubmitForm(t)
    <2>1. /\ StartTest(t, "form") /\ phase[t] = "idle"
          /\ UNCHANGED <<config, current, promise, isConnected, wsConnected, listening,
                         armed, tab, isRunningTest, testResult, traceRunning,
                         traceResult, link, inbox, drops>>
        BY <1>1 DEF SubmitForm, browser, shown
    <2>2. TypeOK' /\ EventInv'
        BY <2>1, StartKeeps DEF TypeOK
    <2>3. RunInv'
        BY <2>1, StartKeeps DEF RunInv
    <2>4. ResultInv'
        BY <2>1, StartKeeps DEF ResultInv, TypeOK
    <2> QED BY <2>2, <2>3, <2>4
<1>2. CASE SubmitTrace(t)
    <2>1. /\ StartTest(t, "trace") /\ phase[t] = "idle" /\ config.authEnabled
          /\ traceRunning' = TRUE /\ traceResult' = NoTest
          /\ armed' = armed \cup {current}
          /\ UNCHANGED <<config, current, promise, isConnected, wsConnected, listening,
                         tab, isRunningTest, testResult, link, inbox, drops>>
        BY <1>2 DEF SubmitTrace, TraceOffered
    <2>2. TypeOK' /\ EventInv'
        BY <2>1, StartKeeps DEF TypeOK
    <2>3. RunInv'
        BY <2>1, StartKeeps DEF RunInv
    <2>4. ResultInv'
        BY <2>1, StartKeeps DEF ResultInv, TypeOK
    <2> QED BY <2>2, <2>3, <2>4
<1> QED BY <1>1, <1>2

(* The end of a connection: what it had on its way is gone, its tests are  *)
(* cut, and the others are as before.                                      *)
LEMMA LoseKeeps ==
    ASSUME TestInv, NEW s \in Sockets, Lose(s), UNCHANGED <<kind, sock, config>>,
           \A u \in Tests : phase'[u] = phase[u] \/ (phase[u] = "sent" /\ phase'[u] = "lost")
    PROVE  /\ inbox' \in [Sockets -> Seq(Events)] /\ cut' \subseteq Tests
           /\ EventInv'
           /\ cut' = {} => cut = {} /\ \A u \in Tests : Outstanding(u) => Outstanding(u)'
           /\ \A u \in Tests : phase[u] = "complete" => phase'[u] = "complete"
           /\ \A u \in Tests : phase'[u] \in {"running", "complete", "failed"} => Authorised(u)'
<1> USE DEF TestInv
<1>1. /\ inbox' = [inbox EXCEPT ![s] = <<>>]
      /\ cut' = cut \cup {t \in Tests : sock[t] = s /\ (Unfinished(t) \/ Underway(t))}
    BY DEF Lose
<1>2. /\ inbox'[s] = <<>> /\ \A r \in Sockets \ {s} : inbox'[r] = inbox[r]
      /\ inbox' \in [Sockets -> Seq(Events)]
    BY <1>1 DEF TypeOK
<1>3. cut' \subseteq Tests
    BY <1>1 DEF TypeOK
<1>4. \A r \in Sockets : \A i \in 1..Len(inbox[r]) : inbox[r][i] \in Events
    BY DEF TypeOK
<1>5. EventInv'
    <2>1. SUFFICES ASSUME NEW r \in Sockets, NEW i \in 1..Len(inbox'[r])
                   PROVE  EventOf(r, i)'
        BY DEF EventInv
    <2>2. r # s /\ inbox'[r] = inbox[r]
        BY <1>2, <2>1
    <2>3. EventOf(r, i) /\ inbox[r][i].test \in Tests
        BY <1>4, <2>1, <2>2 DEF EventInv, Events
    <2>4. inbox[r][i].test \notin cut'
        BY <1>1, <2>2, <2>3 DEF EventOf
    <2>5. phase'[inbox[r][i].test] = phase[inbox[r][i].test]
        BY <2>3 DEF EventOf
    <2> QED BY <2>2, <2>3, <2>4, <2>5 DEF EventOf
<1>6. ASSUME cut' = {} PROVE cut = {} /\ \A u \in Tests : Outstanding(u) => Outstanding(u)'
    <2>1. cut = {}
        BY <1>1, <1>6
    <2>2. ASSUME NEW u \in Tests, Outstanding(u) PROVE Outstanding(u)'
        <3>1. sock[u] # s
            BY <1>1, <1>6, <2>2 DEF Outstanding, Unfinished
        <3>2. sock[u] \in Sockets
            BY DEF TypeOK
        <3>3. inbox'[sock'[u]] = inbox[sock[u]]
            BY <1>2, <3>1, <3>2
        <3>4. phase[u] = "running" => phase'[u] = "running"
            OBVIOUS
        <3> QED BY <1>6, <2>2, <3>3, <3>4 DEF Outstanding, Underway
    <2> QED BY <2>1, <2>2
<1>7. \A u \in Tests : phase'[u] \in {"running", "complete", "failed"} => Authorised(u)'
    BY DEF ResultInv, Authorised
<1> QED BY <1>2, <1>3, <1>5, <1>6, <1>7

LEMMA DropStep == ASSUME TestInv, NEW s \in Sockets, Drop(s) PROVE TestInv'
<1> USE DEF TestInv
<1>1. /\ drops < MaxDrops /\ drops' = drops + 1
      /\ link' = [link EXCEPT ![s] = "down"] /\ isConnected' = FALSE
      /\ Lose(s)
      /\ UNCHANGED <<config, current, promise, wsConnected, listening, armed, tab,
                     isRunningTest, testResult, traceRunning, traceResult, kind, sock>>
    BY DEF Drop, shown
<1>2. PICK gone \in SUBSET {t \in Tests : sock[t] = s /\ phase[t] = "sent"} :
         phase' = [t \in Tests |-> IF t \in gone THEN "lost" ELSE phase[t]]
    BY DEF Drop
<1>3. \A u \in Tests : phase'[u] = phase[u] \/ (phase[u] = "sent" /\ phase'[u] = "lost")
    BY <1>2
<1>4. phase' \in [Tests -> {"idle", "sent", "running", "refused",
                            "unauthorised", "complete", "failed", "lost"}]
    BY <1>2 DEF TypeOK
<1>5. /\ inbox' \in [Sockets -> Seq(Events)] /\ cut' \subseteq Tests /\ EventInv'
      /\ cut' = {} => cut = {} /\ \A u \in Tests : Outstanding(u) => Outstanding(u)'
      /\ \A u \in Tests : phase[u] = "complete" => phase'[u] = "complete"
      /\ \A u \in Tests : phase'[u] \in {"running", "complete", "failed"} => Authorised(u)'
    BY <1>1, <1>3, LoseKeeps
<1>6. drops' \in 0..MaxDrops
    BY <1>1, SessionAssumption DEF TypeOK
<1>7. TypeOK'
    BY <1>1, <1>4, <1>5, <1>6 DEF TypeOK
<1>8. RunInv'
    BY <1>1, <1>5 DEF RunInv, Awaited
<1>9. ResultInv'
    BY <1>1, <1>5 DEF ResultInv, TypeOK
<1> QED BY <1>5, <1>7, <1>8, <1>9

LEMMA LogoutStep == ASSUME TestInv, Logout PROVE TestInv'
<1> USE DEF TestInv
<1>1. /\ tab' = "none" /\ link' = [link EXCEPT ![current] = "closed"]
      /\ isConnected' = FALSE /\ wsConnected' = FALSE
      /\ promise' = [s \in Sockets |-> IF promise[s] = "pending" THEN "settled"
                                       ELSE promise[s]]
      /\ listening' = {} /\ armed' = {}
      /\ isRunningTest' = FALSE /\ testResult' = NoTest
      /\ traceRunning' = FALSE /\ traceResult' = NoTest
      /\ Lose(current)
      /\ UNCHANGED <<config, current, kind, sock, drops>>
    BY DEF Logout
<1>2. phase' = [t \in Tests |->
                  IF phase[t] = "sent" /\ sock[t] = current /\ t \notin cut
                     /\ link[current] # "up" THEN "lost" ELSE phase[t]]
    BY DEF Logout
<1>3. \A u \in Tests : phase'[u] = phase[u] \/ (phase[u] = "sent" /\ phase'[u] = "lost")
    BY <1>2
<1>4. phase' \in [Tests -> {"idle", "sent", "running", "refused",
                            "unauthorised", "complete", "failed", "lost"}]
    BY <1>2 DEF TypeOK
<1>5. current \in Sockets
    BY DEF TypeOK
<1>6. /\ inbox' \in [Sockets -> Seq(Events)] /\ cut' \subseteq Tests /\ EventInv'
      /\ \A u \in Tests : phase'[u] \in {"running", "complete", "failed"} => Authorised(u)'
    BY <1>1, <1>3, <1>5, LoseKeeps
<1>7. TypeOK'
    BY <1>1, <1>4, <1>6 DEF TypeOK
<1>8. RunInv' /\ ResultInv'
    BY <1>1, <1>6 DEF RunInv, ResultInv
<1> QED BY <1>6, <1>7, <1>8

(* The server: an event is sent that says what became of the test.         *)
LEMMA EmitKeeps ==
    ASSUME TestInv, NEW t \in Tests, NEW event \in {"test_started", "test_complete", "error"},
           Emit(t, event), UNCHANGED <<kind, sock, cut, config>>,
           NEW p \in {"running", "refused", "unauthorised", "complete", "failed"},
           phase' = [phase EXCEPT ![t] = p], phase[t] \in {"sent", "running"},
           p = "running" => phase[t] = "sent",
           event = "test_complete" => p = "complete",
           event = "test_started" => p = "running",
           p \in {"running", "complete", "failed"} => Authorised(t)
    PROVE  /\ inbox' \in [Sockets -> Seq(Events)]
           /\ phase' \in [Tests -> {"idle", "sent", "running", "refused",
                                    "unauthorised", "complete", "failed", "lost"}]
           /\ EventInv'
           /\ \A u \in Tests : Outstanding(u) => Outstanding(u)'
           /\ \A u \in Tests : phase[u] = "complete" => phase'[u] = "complete"
           /\ \A u \in Tests : phase'[u] \in {"running", "complete", "failed"} => Authorised(u)'
<1> USE DEF TestInv
<1> DEFINE e == [event |-> event, test |-> t]
<1>0. e \in Events /\ sock[t] \in Sockets
    BY DEF Events, TypeOK
<1>1. /\ phase'[t] = p /\ \A u \in Tests \ {t} : phase'[u] = phase[u]
      /\ phase' \in [Tests -> {"idle", "sent", "running", "refused",
                               "unauthorised", "complete", "failed", "lost"}]
    BY DEF TypeOK
<1>2. \/ t \in cut /\ inbox' = inbox
      \/ t \notin cut /\ inbox' = [inbox EXCEPT ![sock[t]] = Append(@, e)]
    BY DEF Emit
<1>e. e.event = event /\ e.test = t
    OBVIOUS
<1> HIDE DEF e
<1>3. \A s \in Sockets : inbox[s] \in Seq(Events)
    BY DEF TypeOK
<1>4. inbox' \in [Sockets -> Seq(Events)]
    <2>1. Append(inbox[sock[t]], e) \in Seq(Events) /\ inbox \in [Sockets -> Seq(Events)]
        BY <1>0, <1>3 DEF TypeOK
    <2> QED BY <1>0, <1>2, <2>1
<1>5. \A s \in Sockets :
         /\ Len(inbox[s]) \in Nat /\ Len(inbox'[s]) \in Nat
         /\ Len(inbox[s]) <= Len(inbox'[s])
         /\ \A i \in 1..Len(inbox[s]) : inbox'[s][i] = inbox[s][i]
         /\ \A i \in 1..Len(inbox'[s]) : i \notin 1..Len(inbox[s]) =>
               /\ s = sock[t] /\ t \notin cut /\ i = Len(inbox'[s])
               /\ inbox'[s][i] = e
    <2>1. SUFFICES ASSUME NEW s \in Sockets
                   PROVE  /\ Len(inbox[s]) \in Nat /\ Len(inbox'[s]) \in Nat
                          /\ Len(inbox[s]) <= Len(inbox'[s])
                          /\ \A i \in 1..Len(inbox[s]) : inbox'[s][i] = inbox[s][i]
                          /\ \A i \in 1..Len(inbox'[s]) : i \notin 1..Len(inbox[s]) =>
                                /\ s = sock[t] /\ t \notin cut /\ i = Len(inbox'[s])
                                /\ inbox'[s][i] = e
        OBVIOUS
    <2>2. inbox[s] \in Seq(Events)
        BY <1>3
    <2>3. CASE inbox'[s] = inbox[s]
        BY <2>2, <2>3
    <2>4. CASE inbox'[s] # inbox[s]
        <3>1. s = sock[t] /\ t \notin cut /\ inbox'[s] = Append(inbox[s], e)
            BY <1>2, <2>4 DEF TypeOK
        <3> QED BY <1>0, <2>2, <3>1
    <2> QED BY <2>3, <2>4
<1>6. t \notin cut => \E j \in 1..Len(inbox'[sock[t]]) :
         inbox'[sock[t]][j] = e /\ j \notin 1..Len(inbox[sock[t]])
    <2>1. SUFFICES ASSUME t \notin cut
                   PROVE  \E j \in 1..Len(inbox'[sock[t]]) :
                             inbox'[sock[t]][j] = e /\ j \notin 1..Len(inbox[sock[t]])
        OBVIOUS
    <2>2. inbox'[sock[t]] = Append(inbox[sock[t]], e) /\ inbox[sock[t]] \in Seq(Events)
        BY <1>0, <1>2, <1>3, <2>1 DEF TypeOK
    <2>3. /\ Len(inbox'[sock[t]]) = Len(inbox[sock[t]]) + 1
          /\ inbox'[sock[t]][Len(inbox[sock[t]]) + 1] = e
          /\ Len(inbox[sock[t]]) \in Nat
        BY <1>0, <2>2
    <2> QED BY <2>3
<1>7. \A s \in Sockets : \A i \in 1..Len(inbox[s]) : inbox[s][i].test \in Tests
    <2>1. \A s \in Sockets : \A i \in 1..Len(inbox[s]) : inbox[s][i] \in Events
        BY <1>3
    <2> QED BY <2>1 DEF Events
<1>8. EventInv'
    <2>1. SUFFICES ASSUME NEW s \in Sockets, NEW i \in 1..Len(inbox'[s])
                   PROVE  EventOf(s, i)'
        BY DEF EventInv
    <2>2. CASE i \in 1..Len(inbox[s])
        <3>1. EventOf(s, i) /\ inbox'[s][i] = inbox[s][i] /\ inbox[s][i].test \in Tests
            BY <1>5, <1>7, <2>2 DEF EventInv
        <3>2. CASE inbox[s][i].test = t
            <4>1. phase[t] = "running" /\ p # "running" /\ s = sock[t] /\ t \notin cut
                BY <3>1, <3>2 DEF EventOf
            <4>2. PICK j \in 1..Len(inbox'[s]) : inbox'[s][j] = e /\ j \notin 1..Len(inbox[s])
                BY <1>6, <4>1
            <4>3. j > i
                BY <1>5, <2>2, <4>2
            <4>4. inbox[s][i].event # "test_complete"
                BY <3>1, <3>2, <4>1 DEF EventOf
            <4> QED BY <1>1, <1>e, <3>1, <3>2, <4>1, <4>2, <4>3, <4>4 DEF EventOf
        <3>3. CASE inbox[s][i].test # t
            <4>1. phase'[inbox[s][i].test] = phase[inbox[s][i].test]
                BY <1>1, <3>1, <3>3
            <4>2. \A j \in 1..Len(inbox[s]) : j \in 1..Len(inbox'[s])
                BY <1>5
            <4> QED BY <1>5, <3>1, <4>1, <4>2 DEF EventOf
        <3> QED BY <3>2, <3>3
    <2>3. CASE i \notin 1..Len(inbox[s])
        <3>1. s = sock[t] /\ t \notin cut /\ inbox'[s][i] = e
            BY <1>5, <2>3
        <3> QED BY <1>1, <1>e, <3>1 DEF EventOf
    <2> QED BY <2>2, <2>3
<1>9. ASSUME NEW u \in Tests, Outstanding(u) PROVE Outstanding(u)'
    <2>1. sock[u] \in Sockets /\ sock'[u] = sock[u] /\ u \notin cut'
        BY <1>9 DEF Outstanding, TypeOK
    <2>2. Underway(u) => Underway(u)'
        <3>1. \A j \in 1..Len(inbox[sock[u]]) :
                 j \in 1..Len(inbox'[sock[u]]) /\ inbox'[sock[u]][j] = inbox[sock[u]][j]
            BY <1>5, <2>1
        <3> QED BY <2>1, <3>1 DEF Underway
    <2>3. CASE u = t
        <3>1. Underway(t)'
            BY <1>6, <1>e, <2>1, <2>3 DEF Underway
        <3> QED BY <2>1, <2>3, <3>1 DEF Outstanding
    <2>4. CASE u # t
        <3>1. phase'[u] = phase[u]
            BY <1>1, <2>4
        <3> QED BY <1>9, <2>1, <2>2, <3>1 DEF Outstanding
    <2> QED BY <2>3, <2>4
<1>10. \A u \in Tests : phase'[u] \in {"running", "complete", "failed"} => Authorised(u)'
    BY <1>1 DEF ResultInv, Authorised
<1> QED BY <1>1, <1>4, <1>8, <1>9, <1>10

LEMMA HandlerStep == ASSUME TestInv, NEW t \in Tests, Handler(t) PROVE TestInv'
<1> USE DEF TestInv
<1>1. /\ UNCHANGED <<config, current, promise, isConnected, wsConnected, listening,
                     armed, tab, isRunningTest, testResult, traceRunning, traceResult,
                     link, drops, kind, sock, cut>>
    BY DEF Handler, Accept, Refuse, Finish, browser, shown
<1>2. /\ inbox' \in [Sockets -> Seq(Events)]
      /\ phase' \in [Tests -> {"idle", "sent", "running", "refused",
                               "unauthorised", "complete", "failed", "lost"}]
      /\ EventInv'
      /\ \A u \in Tests : Outstanding(u) => Outstanding(u)'
      /\ \A u \in Tests : phase[u] = "complete" => phase'[u] = "complete"
      /\ \A u \in Tests : phase'[u] \in {"running", "complete", "failed"} => Authorised(u)'
    <2>1. CASE Accept(t)
        <3>1. /\ Emit(t, "test_started") /\ phase' = [phase EXCEPT ![t] = "running"]
              /\ phase[t] = "sent" /\ Authorised(t)
            BY <2>1 DEF Accept, Received
        <3> QED BY <1>1, <3>1, EmitKeeps
    <2>2. CASE Refuse(t)
        <3>1. PICK p \in {"refused", "unauthorised"} :
                 phase' = [phase EXCEPT ![t] = p] /\ Emit(t, "error") /\ phase[t] = "sent"
            BY <2>2 DEF Refuse, Received
        <3> QED BY <1>1, <3>1, EmitKeeps
    <2>3. ASSUME NEW outcome \in {"complete", "failed"}, Finish(t, outcome)
          PROVE  <1>2!1 /\ <1>2!2 /\ <1>2!3 /\ <1>2!4 /\ <1>2!5 /\ <1>2!6
        <3>1. phase' = [phase EXCEPT ![t] = outcome] /\ phase[t] = "running"
            BY <2>3 DEF Finish
        <3>2. Authorised(t)
            BY <3>1 DEF ResultInv
        <3>3. PICK event \in {"test_complete", "error"} :
                 Emit(t, event) /\ (event = "test_complete" => outcome = "complete")
            BY <2>3 DEF Finish
        <3> QED BY <1>1, <3>1, <3>2, <3>3, EmitKeeps
    <2> QED BY <2>1, <2>2, <2>3 DEF Handler
<1>3. TypeOK'
    BY <1>1, <1>2 DEF TypeOK
<1>4. RunInv'
    BY <1>1, <1>2 DEF RunInv, Awaited
<1>5. ResultInv'
    BY <1>1, <1>2 DEF ResultInv, TypeOK
<1> QED BY <1>2, <1>3, <1>4, <1>5

(* An event reaches the page.                                              *)
LEMMA DeliverStep == ASSUME TestInv, NEW s \in Sockets, Deliver(s) PROVE TestInv'
<1> USE DEF TestInv
<1> DEFINE e == Head(inbox[s])
<1>1. /\ inbox[s] # <<>> /\ inbox' = [inbox EXCEPT ![s] = Tail(@)]
      /\ UNCHANGED <<config, current, promise, isConnected, wsConnected, listening,
                     armed, tab, kind, phase, sock, cut, link, drops>>
    BY DEF Deliver, browser, server
<1>2. HandleInRunner(s, e) /\ HandleInTrace(s, e)
    BY DEF Deliver
<1>3. inbox[s] \in Seq(Events)
    BY DEF TypeOK
<1>4. /\ e = inbox[s][1] /\ e \in Events /\ 1 \in 1..Len(inbox[s])
      /\ Len(inbox[s]) \in Nat
      /\ Tail(inbox[s]) \in Seq(Events) /\ Len(Tail(inbox[s])) = Len(inbox[s]) - 1
      /\ \A i \in 1..Len(Tail(inbox[s])) : Tail(inbox[s])[i] = inbox[s][i + 1]
    BY <1>1, <1>3
<1>5. /\ inbox' \in [Sockets -> Seq(Events)] /\ inbox'[s] = Tail(inbox[s])
      /\ \A r \in Sockets \ {s} : inbox'[r] = inbox[r]
    BY <1>1, <1>4 DEF TypeOK
<1>6. EventOf(s, 1)
    BY <1>4 DEF EventInv
<1> HIDE DEF e
<1>7. e.test \in Tests /\ e.event \in {"test_started", "test_complete", "error"}
    BY <1>4 DEF Events
<1>8. /\ sock[e.test] = s /\ e.test \notin cut
      /\ e.event = "test_complete" => phase[e.test] = "complete"
      /\ e.event = "test_started" =>
            \/ phase[e.test] = "running"
            \/ \E j \in 1..Len(inbox[s]) : j > 1 /\ inbox[s][j].test = e.test
    BY <1>4, <1>6 DEF EventOf
<1>9. /\ s \notin listening => UNCHANGED <<isRunningTest, testResult>>
      /\ s \in listening /\ e.event = "test_started" => isRunningTest' = TRUE /\ testResult' = NoTest
      /\ s \in listening /\ e.event = "test_complete" => isRunningTest' = FALSE /\ testResult' = e.test
      /\ s \in listening /\ e.event = "error" => isRunningTest' = FALSE /\ testResult' = testResult
    BY <1>2 DEF HandleInRunner
<1>10. /\ s \notin armed \/ e.event = "test_started" => UNCHANGED <<traceRunning, traceResult>>
       /\ ~(s \notin armed \/ e.event = "test_started") =>
             /\ traceRunning' = FALSE
             /\ traceResult' = IF e.event = "test_complete" THEN e.test ELSE traceResult
    BY <1>2 DEF HandleInTrace
<1>11. TypeOK'
    <2>1. isRunningTest' \in BOOLEAN /\ testResult' \in Tests \cup {NoTest}
        BY <1>7, <1>9 DEF TypeOK
    <2>2. traceRunning' \in BOOLEAN /\ traceResult' \in Tests \cup {NoTest}
        BY <1>7, <1>10 DEF TypeOK
    <2> QED BY <1>1, <1>5, <2>1, <2>2 DEF TypeOK
<1>q. UNCHANGED <<phase, sock, cut, listening>>
    BY <1>1
<1>12. EventInv'
    <2>1. SUFFICES ASSUME NEW r \in Sockets, NEW i \in 1..Len(inbox'[r])
                   PROVE  EventOf(r, i)'
        BY DEF EventInv
    <2>2. CASE r # s
        <3>1. EventOf(r, i) /\ inbox'[r] = inbox[r]
            BY <1>5, <2>1, <2>2 DEF EventInv
        <3> QED BY <1>q, <3>1 DEF EventOf
    <2>3. CASE r = s
        <3>1. i + 1 \in 1..Len(inbox[s]) /\ inbox'[s][i] = inbox[s][i + 1]
            BY <1>4, <1>5, <2>1, <2>3
        <3>2. EventOf(s, i + 1)
            BY <3>1 DEF EventInv
        <3>3. ASSUME NEW j \in 1..Len(inbox[s]), j > i + 1
              PROVE  /\ j - 1 \in 1..Len(inbox'[s]) /\ j - 1 > i
                     /\ inbox'[s][j - 1] = inbox[s][j]
            BY <1>4, <1>5, <3>1, <3>3
        <3>4. ASSUME NEW j \in 1..Len(inbox[s]), j > i + 1,
                     inbox[s][j].test = inbox[s][i + 1].test
              PROVE  \E k \in 1..Len(inbox'[s]) :
                        k > i /\ inbox'[s][k].test = inbox'[s][i].test
            BY <3>1, <3>3, <3>4
        <3> HIDE DEF TestInv
        <3> QED BY <1>q, <2>3, <3>1, <3>2, <3>4 DEF EventOf
    <2> QED BY <2>2, <2>3
<1>13. RunInv'
    <2>1. SUFFICES ASSUME isRunningTest', cut' = {} PROVE \E t \in Tests : Awaited(t)'
        BY DEF RunInv
    <2>2. CASE s \in listening
        <3>1. e.event = "test_started"
            BY <1>7, <1>9, <2>1, <2>2
        <3>2. ASSUME NEW j \in 1..Len(inbox[s]), j > 1
              PROVE  j - 1 \in 1..Len(inbox'[s]) /\ inbox'[s][j - 1] = inbox[s][j]
            BY <1>4, <1>5, <3>2
        <3>3. PICK u \in Tests : u = e.test
            BY <1>7
        <3>4. sock'[u] = s /\ u \notin cut' /\ s \in listening'
            BY <1>q, <1>8, <2>2, <3>3
        <3>5. CASE phase[u] = "running"
            <4>1. phase'[u] = "running"
                BY <1>q, <3>5
            <4> QED BY <3>4, <4>1 DEF Awaited, Outstanding
        <3>6. CASE \E j \in 1..Len(inbox[s]) : j > 1 /\ inbox[s][j].test = u
            <4>1. \E k \in 1..Len(inbox'[s]) : inbox'[s][k].test = u
                BY <3>2, <3>6
            <4>2. Underway(u)'
                BY <3>4, <4>1 DEF Underway
            <4> QED BY <3>4, <4>2 DEF Awaited, Outstanding
        <3> QED BY <1>8, <3>1, <3>3, <3>5, <3>6
    <2>3. CASE s \notin listening
        <3>1. PICK t \in Tests : Awaited(t)
            BY <1>1, <1>9, <2>1, <2>3 DEF RunInv
        <3>2. sock[t] # s /\ sock[t] \in Sockets
            BY <2>3, <3>1 DEF Awaited, TypeOK
        <3>3. Awaited(t)'
            BY <1>1, <1>5, <3>1, <3>2 DEF Awaited, Outstanding, Underway
        <3> QED BY <3>3
    <2> QED BY <2>2, <2>3
<1>14. ResultInv'
    <2>1. testResult' # NoTest => phase'[testResult'] = "complete"
        BY <1>1, <1>7, <1>8, <1>9 DEF ResultInv
    <2>2. traceResult' # NoTest => phase'[traceResult'] = "complete" /\ config'.authEnabled
        BY <1>1, <1>7, <1>8, <1>10 DEF ResultInv
    <2> QED BY <1>1, <2>1, <2>2 DEF ResultInv, Authorised
<1> QED BY <1>11, <1>12, <1>13, <1>14

LEMMA TestStep == TestInv /\ [Next]_vars => TestInv'
<1> SUFFICES ASSUME TestInv, [Next]_vars PROVE TestInv'
    OBVIOUS
<1>1. CASE UNCHANGED vars
    <2>1. TypeOK'
        BY <1>1 DEF vars, browser, shown, server, TestInv, TypeOK
    <2> QED BY <1>1, <2>1, QuietInv DEF vars, browser, shown
<1>2. CASE Network
    BY <1>2, PageSteps, DropStep, DeliverStep DEF Network
<1>3. CASE User
    <2>1. 1 \in Sockets
        BY SessionAssumption DEF Sockets
    <2> QED BY <1>3, <2>1, PageSteps, SubmitSteps, LogoutStep DEF User
<1>4. ASSUME NEW t \in Tests, Handler(t) PROVE TestInv'
    BY <1>4, HandlerStep
<1> QED BY <1>1, <1>2, <1>3, <1>4 DEF Next

THEOREM TestCorrect == Spec => []TestInv
BY TestBegins, TestStep, PTL DEF Spec

(* The type invariant of WebTestSession.                                   *)
THEOREM TestTypes == Spec => []TypeOK
BY TestCorrect, PTL DEF TestInv

(* The page shows a running test only while an outcome is to come, unless  *)
(* a connection was lost: TestRunner's listeners and handle_start_test.    *)
THEOREM RunningCorrect == Spec => []RunningExplained
<1>1. TestInv => RunningExplained
    BY DEF TestInv, RunInv, Awaited, RunningExplained
<1> QED BY <1>1, TestCorrect, PTL

(* Results are of tests that completed, on the Trace tab of traces: Finish *)
(* of handle_start_test, the listeners of TestRunner and TraceTest, and    *)
(* who may start which test.                                               *)
THEOREM ResultCorrect == Spec => []ResultIsItsTests
<1>1. ASSUME TestInv, NEW t \in TraceReport PROVE kind[t] = "trace"
    <2>1. t = traceResult /\ t # NoTest /\ t \in Tests
        BY <1>1 DEF TraceReport, TestInv, TypeOK
    <2>2. Authorised(t) /\ config.authEnabled
        BY <1>1, <2>1 DEF TestInv, ResultInv
    <2> QED BY <2>2 DEF Authorised
<1>2. ASSUME TestInv PROVE ResultIsItsTests
    <2>1. /\ testResult # NoTest => phase[testResult] = "complete"
          /\ traceResult # NoTest => phase[traceResult] = "complete"
        BY <1>2 DEF TestInv, ResultInv
    <2> QED BY <1>1, <1>2, <2>1 DEF ResultIsItsTests
<1> QED BY <1>2, TestCorrect, PTL

-----------------------------------------------------------------------------
(* TestForm.  Whatever the order of edits and type changes, the fields fit *)
(* the type; a request that is not over passed the form's validators.      *)
FitsType(r) ==
    /\ r.type = "icmp" => r.port = {} /\ r.protocol = ""
    /\ r.type = "udp" => r.port = {53} /\ r.protocol = "DNS"
    /\ r.type \in {"http", "tcp"} => r.protocol \in protocolOptions[r.type] \cup {""}

PassedForm(r) ==
    /\ validateTarget(r.target) /\ validateProtocol(r)
    /\ \A p \in r.port : validatePort(p)
    /\ validateTimeout(r.timeout) /\ validateCount(r.count)

FormInv ==
    /\ FormTypeOK /\ FitsType(form)
    /\ stage # "form" => FitsType(request)
    /\ stage \in {"server", "testServer"} => PassedForm(request)
    /\ AcceptedDownstream

LEMMA ProtocolTables ==
    /\ DOMAIN protocolOptions = Types /\ DOMAIN validProtocols = Types
    /\ \A t \in {"http", "tcp"} : validProtocols[t] = protocolOptions[t]
    /\ protocolOptions["udp"] = {} /\ protocolOptions["icmp"] = {}
    /\ \A t \in Types : protocolOptions[t] \subseteq Protocols /\ validProtocols[t] \subseteq Protocols
    /\ "DNS" \in Protocols /\ "" \in Protocols
<1>o. /\ DOMAIN protocolOptions = Types
      /\ protocolOptions["udp"] = {} /\ protocolOptions["icmp"] = {}
    BY DEF protocolOptions, Types
<1>v. DOMAIN validProtocols = Types
    BY <1>o DEF validProtocols
<1>u. validProtocols["udp"] = {"DNS"}
    BY <1>o DEF validProtocols, Types
<1>i. validProtocols["icmp"] = {"ping"}
    BY <1>o DEF validProtocols, Types
<1>h. validProtocols["http"] = protocolOptions["http"]
    BY <1>o DEF validProtocols, Types
<1>t. validProtocols["tcp"] = protocolOptions["tcp"]
    BY <1>o DEF validProtocols, Types
<1>1. /\ DOMAIN protocolOptions = Types /\ DOMAIN validProtocols = Types
      /\ \A t \in {"http", "tcp"} : validProtocols[t] = protocolOptions[t]
      /\ protocolOptions["udp"] = {} /\ protocolOptions["icmp"] = {}
      /\ validProtocols["udp"] = {"DNS"} /\ validProtocols["icmp"] = {"ping"}
    BY <1>o, <1>v, <1>u, <1>i, <1>h, <1>t
<1>2. \A t \in Types : validProtocols[t] \subseteq Protocols
    BY DEF Protocols
<1>3. \A t \in Types : protocolOptions[t] \subseteq Protocols
    BY <1>1, <1>2 DEF Types
<1>4. "DNS" \in Protocols /\ "" \in Protocols
    BY <1>1, <1>2 DEF Types, Protocols
<1> QED BY <1>1, <1>2, <1>3, <1>4

LEMMA DefaultsFit == Defaults \in Fields /\ FitsType(Defaults)
<1>1. /\ Defaults.type = "http" /\ Defaults.protocol = "" /\ Defaults.port = {}
    BY DEF Defaults
<1>2. /\ "http" \in Types /\ "blank" \in Targets /\ {} \in SUBSET Ports
      /\ 30 \in Timeouts /\ 10 \in Counts /\ "google.com" \in Queries
    BY FormAssumption DEF Types, Targets, Queries
<1>3. Defaults \in Fields
    BY <1>2, ProtocolTables DEF Defaults, Fields
<1> QED BY <1>1, <1>3 DEF FitsType

LEMMA FormBegins == FormInit => FormInv
BY DefaultsFit DEF FormInit, FormInv, FormTypeOK, Stages, AcceptedDownstream

LEMMA FormChange ==
    ASSUME FormInv, NEW type \in Types, handleTestTypeChange(type) \/ Edit
    PROVE  FormInv'
<1> USE DEF FormInv
<1>0. /\ form \in Fields /\ stage = "form" /\ UNCHANGED <<stage, request>>
      /\ form.type \in Types
    BY DEF handleTestTypeChange, Edit, Offered, FormTypeOK, Fields
<1>1. ASSUME form' \in Fields, FitsType(form') PROVE FormInv'
    BY <1>0, <1>1 DEF FormTypeOK, AcceptedDownstream
<1>2. CASE handleTestTypeChange(type)
    <2>1. form' = [form EXCEPT !.type = type, !.port = defaultPorts[type],
                               !.protocol = IF type = "udp" THEN "DNS" ELSE ""]
        BY <1>2 DEF handleTestTypeChange
    <2>2. /\ defaultPorts[type] \subseteq Ports
          /\ type = "udp" => defaultPorts[type] = {53}
          /\ type = "icmp" => defaultPorts[type] = {}
        BY FormAssumption DEF defaultPorts, Types
    <2>3. form' \in Fields
        BY <1>0, <2>1, <2>2, ProtocolTables DEF Fields
    <2>4. /\ form'.type = type /\ form'.port = defaultPorts[type]
          /\ form'.protocol = IF type = "udp" THEN "DNS" ELSE ""
        BY <1>0, <2>1 DEF Fields
    <2> QED BY <1>1, <2>2, <2>3, <2>4 DEF FitsType
<1>3. ASSUME NEW v \in Targets, form' = [form EXCEPT !.target = v] PROVE FormInv'
    <2>1. form' \in Fields /\ form'.type = form.type /\ form'.port = form.port
          /\ form'.protocol = form.protocol
        BY <1>0, <1>3 DEF Fields
    <2> QED BY <1>1, <2>1 DEF FitsType
<1>4. ASSUME NEW v \in SUBSET Ports, Offered("port"), form' = [form EXCEPT !.port = v]
      PROVE  FormInv'
    <2>1. form' \in Fields /\ form'.type = form.type /\ form'.protocol = form.protocol
        BY <1>0, <1>4 DEF Fields
    <2>2. form.type \in {"http", "tcp"}
        BY <1>0, <1>4 DEF Offered, TypeFields, TargetFields, OtherFields, Types
    <2> QED BY <1>1, <2>1, <2>2 DEF FitsType
<1>5. ASSUME NEW v \in Timeouts, form' = [form EXCEPT !.timeout = v] PROVE FormInv'
    <2>1. form' \in Fields /\ form'.type = form.type /\ form'.port = form.port
          /\ form'.protocol = form.protocol
        BY <1>0, <1>5 DEF Fields
    <2> QED BY <1>1, <2>1 DEF FitsType
<1>6. ASSUME NEW v \in Counts, form' = [form EXCEPT !.count = v] PROVE FormInv'
    <2>1. form' \in Fields /\ form'.type = form.type /\ form'.port = form.port
          /\ form'.protocol = form.protocol
        BY <1>0, <1>6 DEF Fields
    <2> QED BY <1>1, <2>1 DEF FitsType
<1>7. ASSUME NEW v \in protocolOptions[form.type] \cup {""}, Offered("protocol"),
             form' = [form EXCEPT !.protocol = v]
      PROVE  FormInv'
    <2>1. protocolOptions[form.type] # {}
        BY <1>7 DEF Offered, TypeFields, TargetFields, OtherFields
    <2>2. form.type \in {"http", "tcp"}
        BY <1>0, <2>1, ProtocolTables DEF Types
    <2>3. v \in Protocols
        BY <1>0, ProtocolTables
    <2>4. form' \in Fields /\ form'.type = form.type /\ form'.protocol = v
        BY <1>0, <1>7, <2>3 DEF Fields
    <2> QED BY <1>1, <2>2, <2>4 DEF FitsType
<1>8. ASSUME NEW v \in Queries, form' = [form EXCEPT !.query = v] PROVE FormInv'
    <2>1. form' \in Fields /\ form'.type = form.type /\ form'.port = form.port
          /\ form'.protocol = form.protocol
        BY <1>0, <1>8 DEF Fields
    <2> QED BY <1>1, <2>1 DEF FitsType
<1>9. CASE Edit
    <2>1. {{}} \cup {{p} : p \in Ports} \subseteq SUBSET Ports
        OBVIOUS
    <2> QED BY <1>3, <1>4, <1>5, <1>6, <1>7, <1>8, <1>9, <2>1 DEF Edit
<1> QED BY <1>2, <1>9

(* The query, which no validator behind the form looks at, aside, what a   *)
(* request is asked to pass again is what it passed.                       *)
LEMMA QueryAside ==
    ASSUME NEW r \in Fields, NEW q \in Queries
    PROVE  /\ [r EXCEPT !.query = q] \in Fields
           /\ FitsType(r) => FitsType([r EXCEPT !.query = q])
           /\ PassedForm(r) => PassedForm([r EXCEPT !.query = q])
           /\ [r EXCEPT !.query = q].target = r.target
<1> DEFINE n == [r EXCEPT !.query = q]
<1>1. n \in Fields /\ n.type = r.type /\ n.port = r.port /\ n.protocol = r.protocol
      /\ n.target = r.target /\ n.timeout = r.timeout /\ n.count = r.count
    BY DEF Fields
<1> HIDE DEF n
<1>2. FitsType(r) => FitsType(n)
    BY <1>1 DEF FitsType
<1>3. PassedForm(r) => PassedForm(n)
    BY <1>1 DEF PassedForm, validateProtocol
<1> QED BY <1>1, <1>2, <1>3 DEF n

LEMMA PassedServer ==
    ASSUME NEW r \in Fields, PassedForm(r) PROVE validate_test_params(r)
BY DEF PassedForm, validate_test_params, validateTarget, validatePort, validateTimeout,
   validateCount

LEMMA PassedTestServer ==
    ASSUME NEW r \in Fields, PassedForm(r), r.target \notin OnlyBrowserTakes
    PROVE  Validated(r)
<1>1. ValidateTarget(r.target)
    BY DEF PassedForm, validateTarget, Fields, Targets, OnlyBrowserTakes, ValidateTarget
<1>2. r.timeout <= 300 /\ r.count <= 1000
      /\ \A p \in r.port : p >= 1 /\ p <= 65535
    BY DEF PassedForm, validateTimeout, validateCount, validatePort
<1>3. r.protocol = "" \/ r.protocol \in validProtocols[r.type]
    BY DEF PassedForm, validateProtocol
<1>4. PortValidated(r)
    BY <1>2 DEF PortValidated
<1>5. r.timeout <= 300 /\ r.count <= 1000
    BY <1>2
<1>6. (r.type = "icmp" /\ r.count > 0 => r.count <= 1000) /\ (r.timeout > 0 => r.timeout <= 300)
    BY ONLY <1>5
<1> QED BY ONLY <1>1, <1>3, <1>4, <1>6, Zenon DEF Validated

LEMMA FormStep == FormInv /\ [FormNext]_formVars => FormInv'
<1> SUFFICES ASSUME FormInv, [FormNext]_formVars PROVE FormInv'
    OBVIOUS
<1> USE DEF FormInv
<1>0. form \in Fields /\ request \in Fields /\ stage \in Stages
    BY DEF FormTypeOK
<1>q. "" \in Queries /\ "google.com" \in Queries
    BY FormAssumption DEF Queries
<1>1. CASE (\E type \in Types : handleTestTypeChange(type)) \/ Edit
    <2>1. "http" \in Types
        BY DEF Types
    <2> QED BY <1>1, <2>1, FormChange
<1>2. CASE handleSubmit
    <2>1. /\ PassedForm(form) /\ stage' = "server" /\ form' = form
          /\ request' = [form EXCEPT !.query = IF form.type = "udp" THEN @ ELSE ""]
        BY <1>2 DEF handleSubmit, PassedForm
    <2>2. PICK q \in Queries : request' = [form EXCEPT !.query = q]
        BY <1>0, <1>q, <2>1 DEF Fields
    <2>f. form \in Fields /\ FitsType(form) /\ PassedForm(form)
        BY <1>0, <2>1
    <2> DEFINE n == [form EXCEPT !.query = q]
    <2>n. n \in Fields /\ FitsType(n) /\ PassedForm(n)
        BY <2>f, QueryAside
    <2> HIDE DEF n
    <2>e. request' = n
        BY <2>2 DEF n
    <2>3. request' \in Fields /\ FitsType(request') /\ PassedForm(request')
        BY <2>e, <2>n
    <2>4. FormTypeOK'
        BY <1>0, <2>1, <2>3 DEF FormTypeOK, Stages
    <2> QED BY <2>1, <2>3, <2>4 DEF AcceptedDownstream
<1>3. CASE handle_start_test
    <2>1. stage = "server" /\ form' = form
        BY <1>3 DEF handle_start_test
    <2>2. stage' = "testServer" /\ request' = [request EXCEPT !.query = ""]
        BY <1>0, <1>3, <2>1, PassedServer DEF handle_start_test
    <2>3. request' \in Fields /\ FitsType(request') /\ PassedForm(request')
        BY <1>0, <1>q, <2>1, <2>2, QueryAside
    <2>4. FormTypeOK'
        BY <1>0, <2>1, <2>2, <2>3 DEF FormTypeOK, Stages
    <2> QED BY <2>1, <2>2, <2>3, <2>4 DEF AcceptedDownstream
<1>4. CASE RunTest
    <2>1. stage = "testServer" /\ form' = form /\ FitsType(request) /\ PassedForm(request)
        BY <1>4 DEF RunTest
    <2>2. CASE ~Validated(request)
        <3>1. stage' = "refused" /\ request' = request
            BY <1>4, <2>2 DEF RunTest
        <3>2. request.target \in OnlyBrowserTakes
            BY <1>0, <2>1, <2>2, PassedTestServer
        <3>3. FormTypeOK'
            BY <1>0, <2>1, <3>1 DEF FormTypeOK, Stages
        <3> QED BY <2>1, <3>1, <3>2, <3>3 DEF AcceptedDownstream
    <2>3. CASE Validated(request)
        <3>1. /\ stage' \in {"failed", "done"}
              /\ request' = [request EXCEPT !.query =
                   IF request.type = "udp" /\ @ = "" THEN "google.com" ELSE @]
            BY <1>4, <2>3 DEF RunTest
        <3>2. PICK q \in Queries : request' = [request EXCEPT !.query = q]
            BY <1>0, <1>q, <3>1 DEF Fields
        <3>3. request' \in Fields /\ FitsType(request')
            BY <1>0, <2>1, <3>2, QueryAside
        <3>4. FormTypeOK'
            BY <1>0, <2>1, <3>1, <3>3 DEF FormTypeOK, Stages
        <3>5. request'.target \notin OnlyBrowserTakes
            BY <1>0, <2>3, <3>2 DEF Fields, Validated, ValidateTarget, OnlyBrowserTakes
        <3> QED BY <2>1, <3>1, <3>3, <3>4, <3>5 DEF AcceptedDownstream
    <2> QED BY <2>2, <2>3
<1>5. CASE TestOver
    <2>1. stage' = "form" /\ request' = Defaults /\ form' = form
        BY <1>5 DEF TestOver
    <2>2. FormTypeOK'
        BY <1>0, <2>1, DefaultsFit DEF FormTypeOK, Stages
    <2> QED BY <2>1, <2>2 DEF AcceptedDownstream
<1>6. CASE UNCHANGED formVars
    BY <1>6 DEF formVars, FormTypeOK, AcceptedDownstream
<1> QED BY <1>1, <1>2, <1>3, <1>4, <1>5, <1>6 DEF FormNext

THEOREM FormCorrect == FormSpec => []FormInv
BY FormBegins, FormStep, PTL DEF FormSpec

(* What the form accepts neither server refuses, but for the targets that  *)
(* only the browser takes: validation.ts, validate_test_params and the     *)
(* testServer's validation.go.                                             *)
THEOREM AcceptedCorrect == FormSpec => []AcceptedDownstream
BY FormCorrect, PTL DEF FormInv

(* A request carries what its type needs and nothing of a type before it:  *)
(* handleTestTypeChange and the fields TestForm offers.                    *)
THEOREM FitsCorrect == FormSpec => []RequestFitsType
<1>1. FormInv => RequestFitsType
    BY DEF FormInv, FitsType, RequestFitsType
<1> QED BY <1>1, FormCorrect, PTL
=============================================================================
