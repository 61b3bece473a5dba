--------------------------- MODULE GoClientProofs ---------------------------
(***************************************************************************)
(* Proofs about the Go desktop client for any finite sets of runs and      *)
(* targets.  Of TestRuns: its type invariant, the exactness of the two     *)
(* counters, that no result is lost and none duplicated at the manager,    *)
(* that it implements RunLedger, and how many steps a round makes.  Of     *)
(* GoScheduler: that it implements TestRuns, its type invariant, that the  *)
(* menu agrees with the scheduler, that scheduled rounds do not overlap,   *)
(* and that until the first stop the loop it shows exists.                 *)
(***************************************************************************)
EXTENDS GoScheduler, FiniteSetTheorems, SequenceTheorems, TLAPS

(* The mutex belongs to the call that is incrementing a counter, and what  *)
(* it read is still the counter's value.                                   *)
MutexInv ==
    \A r \in Runs :
        /\ phase[r] = "incrementing" <=> mu = r
        /\ phase[r] = "incrementing" =>
              read[r] = IF verdict[r] THEN successCount ELSE failureCount

(* Targets are being tested or collected, never both, none twice.          *)
CollectOf(r) ==
    /\ phase[r] = "idle" => results[r] = <<>>
    /\ phase[r] # "testing" => testing[r] = {}
    /\ phase[r] # "idle" => \A t \in Targets \ testing[r] :
          \E i \in 1..Len(results[r]) : results[r][i] = t
    /\ \A i \in 1..Len(results[r]) : results[r][i] \notin testing[r]
    /\ \A i, j \in 1..Len(results[r]) :
          results[r][i] = results[r][j] => i = j

CollectInv == \A r \in Runs : CollectOf(r)

(* How far the upload loop is.                                             *)
ProgressInv ==
    \A r \in Runs :
        /\ phase[r] \in {"idle", "testing"} => next[r] = 1
        /\ next[r] <= Len(results[r]) + 1
        /\ phase[r] \in {"awaiting", "counting", "incrementing"} =>
              next[r] <= Len(results[r])
        /\ phase[r] = "returned" => next[r] = Len(results[r]) + 1

(* Exactly the results before next have been counted.                      *)
TallyOf(r) ==
    /\ \A i \in 1..Len(results[r]) :
          tally[r][results[r][i]] # "none" <=> i < next[r]
    /\ \A t \in Targets : tally[r][t] # "none" =>
          \E i \in 1..Len(results[r]) : results[r][i] = t

TallyInv == \A r \in Runs : TallyOf(r)

InUpload(r) == phase[r] \in {"awaiting", "counting", "incrementing"}

(* A result not yet sent is neither on the wire nor stored; one that was   *)
(* sent is in one of the two places at most.                               *)
StoreInv ==
    \A r \in Runs, t \in Targets :
        /\ stored[r][t] <= 1
        /\ <<r, t>> \in wire => stored[r][t] = 0
        /\ (<<r, t>> \in wire \/ stored[r][t] # 0) =>
              \/ tally[r][t] # "none"
              \/ InUpload(r) /\ Current(r) = t
        /\ tally[r][t] = "accepted" => stored[r][t] = 1

VerdictInv ==
    \A r \in Runs :
        phase[r] \in {"counting", "incrementing"} /\ verdict[r] =>
            stored[r][Current(r)] = 1

IInv ==
    /\ RunsTypeOK
    /\ MutexInv
    /\ CollectInv
    /\ ProgressInv
    /\ TallyInv
    /\ StoreInv
    /\ VerdictInv
    /\ CountersExact

-----------------------------------------------------------------------------
(* Type correctness.                                                       *)

LEMMA InitType == RunsInit => RunsTypeOK
BY DEF RunsInit, RunsTypeOK, Phases

LEMMA StepType == RunsTypeOK /\ [RunsNext]_runVars => RunsTypeOK'
<1> SUFFICES ASSUME RunsTypeOK, [RunsNext]_runVars PROVE RunsTypeOK'
  OBVIOUS
<1> USE DEF RunsTypeOK, Phases, Enter
<1>1. ASSUME NEW r \in Runs, Begin(r) PROVE RunsTypeOK'
  BY <1>1 DEF Begin
<1>2. ASSUME NEW r \in Runs, NEW t \in Targets, TestDone(r, t)
      PROVE RunsTypeOK'
  <2>1. Append(results[r], t) \in Seq(Targets)
    BY AppendProperties
  <2>2. results' \in [Runs -> Seq(Targets)]
    BY <1>2, <2>1 DEF TestDone
  <2> QED BY <1>2, <2>2 DEF TestDone
<1>3. ASSUME NEW r \in Runs, AllTested(r) PROVE RunsTypeOK'
  BY <1>3 DEF AllTested
<1>4. ASSUME NEW r \in Runs, Send(r) PROVE RunsTypeOK'
  <2>1. Current(r) \in Targets
    BY <1>4, ElementOfSeq DEF Send, Current
  <2> QED BY <1>4, <2>1 DEF Send
<1>5. ASSUME NEW r \in Runs, NEW ok \in BOOLEAN, UploadReturns(r, ok)
      PROVE RunsTypeOK'
  BY <1>5 DEF UploadReturns
<1>6. ASSUME NEW r \in Runs, LockCounter(r) PROVE RunsTypeOK'
  BY <1>6 DEF LockCounter
<1>7. ASSUME NEW r \in Runs, Increment(r) PROVE RunsTypeOK'
  <2>1. successCount' \in Nat /\ failureCount' \in Nat
    BY <1>7 DEF Increment, CountResult
  <2>2. tally' \in [Runs -> [Targets -> {"none", "accepted", "rejected"}]]
    <3> DEFINE c == Current(r)
    <3>1. PICK v \in {"accepted", "rejected"} :
            tally' = [tally EXCEPT ![r] = [tally[r] EXCEPT ![c] = v]]
      BY <1>7 DEF Increment, CountResult
    <3> HIDE DEF c
    <3>2. [tally[r] EXCEPT ![c] = v]
            \in [Targets -> {"none", "accepted", "rejected"}]
      OBVIOUS
    <3> QED BY <3>1, <3>2
  <2>3. next' \in [Runs -> Nat \ {0}]
    BY <1>7 DEF Increment
  <2>4. phase' \in [Runs -> Phases] /\ mu' \in Runs \cup {NoRun}
    BY <1>7 DEF Increment
  <2> QED BY <1>7, <2>1, <2>2, <2>3, <2>4 DEF Increment
<1>8. ASSUME NEW r \in Runs, Return(r) PROVE RunsTypeOK'
  BY <1>8 DEF Return
<1>9. ASSUME NEW r \in Runs, NEW t \in Targets, Record(r, t)
      PROVE RunsTypeOK'
  BY <1>9 DEF Record
<1>10. CASE UNCHANGED runVars
  BY <1>10 DEF runVars
<1> QED
  BY <1>1, <1>2, <1>3, <1>4, <1>5, <1>6, <1>7, <1>8, <1>9, <1>10
     DEF RunsNext, RunStep, ManagerStep

(* Every variable of the rounds of tests keeps its type.                   *)
THEOREM RunsTypeCorrect == RunsSpec => []RunsTypeOK
BY InitType, StepType, PTL DEF RunsSpec

-----------------------------------------------------------------------------
(* The mutex.                                                              *)

LEMMA StepMutex ==
    RunsTypeOK /\ MutexInv /\ [RunsNext]_runVars => MutexInv'
<1> SUFFICES ASSUME RunsTypeOK, MutexInv, [RunsNext]_runVars PROVE MutexInv'
  OBVIOUS
<1> USE RunsAssumption DEF RunsTypeOK, MutexInv, Phases, Enter
<1>1. ASSUME NEW r \in Runs, Begin(r) PROVE MutexInv'
  BY <1>1 DEF Begin
<1>2. ASSUME NEW r \in Runs, NEW t \in Targets, TestDone(r, t) PROVE MutexInv'
  BY <1>2 DEF TestDone
<1>3. ASSUME NEW r \in Runs, AllTested(r) PROVE MutexInv'
  BY <1>3 DEF AllTested
<1>4. ASSUME NEW r \in Runs, Send(r) PROVE MutexInv'
  BY <1>4 DEF Send
<1>5. ASSUME NEW r \in Runs, NEW ok \in BOOLEAN, UploadReturns(r, ok)
      PROVE MutexInv'
  BY <1>5 DEF UploadReturns
<1>6. ASSUME NEW r \in Runs, LockCounter(r) PROVE MutexInv'
  BY <1>6 DEF LockCounter
<1>7. ASSUME NEW r \in Runs, Increment(r) PROVE MutexInv'
  BY <1>7 DEF Increment
<1>8. ASSUME NEW r \in Runs, Return(r) PROVE MutexInv'
  BY <1>8 DEF Return
<1>9. ASSUME NEW r \in Runs, NEW t \in Targets, Record(r, t) PROVE MutexInv'
  BY <1>9 DEF Record
<1>10. CASE UNCHANGED runVars
  BY <1>10 DEF runVars
<1> QED
  BY <1>1, <1>2, <1>3, <1>4, <1>5, <1>6, <1>7, <1>8, <1>9, <1>10
     DEF RunsNext, RunStep, ManagerStep

-----------------------------------------------------------------------------
(* The slice of results and the wait for it.                               *)

LEMMA StepCollect ==
    RunsTypeOK /\ CollectInv /\ [RunsNext]_runVars => CollectInv'
<1> SUFFICES ASSUME RunsTypeOK, CollectInv, [RunsNext]_runVars
             PROVE CollectInv'
  OBVIOUS
<1> USE DEF RunsTypeOK, Phases, Enter
<1>1. ASSUME NEW r \in Runs, Begin(r) PROVE CollectInv'
  <2> SUFFICES ASSUME NEW q \in Runs PROVE CollectOf(q)'
    BY DEF CollectInv
  <2>1. CASE q # r
    BY <1>1, <2>1 DEF Begin, CollectInv, CollectOf
  <2>2. CASE q = r
    <3>1. results'[r] = <<>> /\ phase'[r] = "testing" /\ testing'[r] = Targets
      BY <1>1 DEF Begin, CollectInv, CollectOf
    <3>2. Len(results'[r]) = 0
      BY <3>1
    <3> QED BY <2>2, <3>1, <3>2 DEF CollectOf
  <2> QED BY <2>1, <2>2
<1>2. ASSUME NEW r \in Runs, NEW t \in Targets, TestDone(r, t)
      PROVE CollectInv'
  <2> SUFFICES ASSUME NEW q \in Runs PROVE CollectOf(q)'
    BY DEF CollectInv
  <2>1. CASE q # r
    BY <1>2, <2>1 DEF TestDone, CollectInv, CollectOf
  <2>2. CASE q = r
    <3>1. PICK n \in Nat : n = Len(results[r])
      BY LenProperties
    <3>2. /\ Len(results'[r]) = n + 1
          /\ results'[r][n + 1] = t
          /\ \A i \in 1..n : results'[r][i] = results[r][i]
      BY <1>2, <3>1, AppendProperties DEF TestDone
    <3>3. /\ phase[r] = "testing" /\ t \in testing[r] /\ phase' = phase
          /\ testing'[r] = testing[r] \ {t}
      BY <1>2 DEF TestDone
    <3>4. /\ \A u \in Targets \ testing[r] : \E i \in 1..n : results[r][i] = u
          /\ \A i \in 1..n : results[r][i] \notin testing[r]
          /\ \A i, j \in 1..n : results[r][i] = results[r][j] => i = j
      BY <3>1, <3>3 DEF CollectInv, CollectOf
    <3>5. ASSUME NEW u \in Targets \ testing'[r]
          PROVE  \E i \in 1..(n + 1) : results'[r][i] = u
      <4>1. CASE u = t
        BY <3>2, <4>1
      <4>2. CASE u # t
        <5>1. PICK i \in 1..n : results[r][i] = u
          BY <3>3, <3>4, <4>2
        <5>2. i \in 1..(n + 1)
          OBVIOUS
        <5>3. results'[r][i] = results[r][i]
          BY <3>2
        <5> QED BY <5>1, <5>2, <5>3
      <4> QED BY <4>1, <4>2
    <3>6. ASSUME NEW i \in 1..(n + 1) PROVE results'[r][i] \notin testing'[r]
      <4>1. CASE i = n + 1
        BY <3>2, <3>3, <4>1
      <4>2. CASE i \in 1..n
        <5>1. results'[r][i] = results[r][i]
          BY <3>2, <4>2
        <5> QED BY <3>3, <3>4, <4>2, <5>1
      <4> QED BY <4>1, <4>2
    <3>7. ASSUME NEW i \in 1..(n + 1), NEW j \in 1..(n + 1),
                 results'[r][i] = results'[r][j]
          PROVE  i = j
      <4>1. \A k \in 1..n : results'[r][k] # t
        BY <3>2, <3>3, <3>4
      <4>2. (i \in 1..n \/ i = n + 1) /\ (j \in 1..n \/ j = n + 1)
        OBVIOUS
      <4> QED BY <3>2, <3>4, <3>7, <4>1, <4>2
    <3> QED BY <2>2, <3>2, <3>3, <3>5, <3>6, <3>7 DEF CollectOf
  <2> QED BY <2>1, <2>2
<1>3. ASSUME NEW r \in Runs, AllTested(r) PROVE CollectInv'
  BY <1>3 DEF AllTested, CollectInv, CollectOf
<1>4. ASSUME NEW r \in Runs, Send(r) PROVE CollectInv'
  BY <1>4 DEF Send, CollectInv, CollectOf
<1>5. ASSUME NEW r \in Runs, NEW ok \in BOOLEAN, UploadReturns(r, ok)
      PROVE CollectInv'
  BY <1>5 DEF UploadReturns, CollectInv, CollectOf
<1>6. ASSUME NEW r \in Runs, LockCounter(r) PROVE CollectInv'
  BY <1>6 DEF LockCounter, CollectInv, CollectOf
<1>7. ASSUME NEW r \in Runs, Increment(r) PROVE CollectInv'
  BY <1>7 DEF Increment, CollectInv, CollectOf
<1>8. ASSUME NEW r \in Runs, Return(r) PROVE CollectInv'
  BY <1>8 DEF Return, CollectInv, CollectOf
<1>9. ASSUME NEW r \in Runs, NEW t \in Targets, Record(r, t) PROVE CollectInv'
  BY <1>9 DEF Record, CollectInv, CollectOf
<1>10. CASE UNCHANGED runVars
  BY <1>10 DEF runVars, CollectInv, CollectOf
<1> QED
  BY <1>1, <1>2, <1>3, <1>4, <1>5, <1>6, <1>7, <1>8, <1>9, <1>10
     DEF RunsNext, RunStep, ManagerStep

LEMMA StepProgress ==
    RunsTypeOK /\ ProgressInv /\ [RunsNext]_runVars => ProgressInv'
<1> SUFFICES ASSUME RunsTypeOK, ProgressInv, [RunsNext]_runVars
             PROVE ProgressInv'
  OBVIOUS
<1> USE DEF RunsTypeOK, Phases, Enter
<1>0. \A r \in Runs : Len(results[r]) \in Nat
  BY LenProperties
<1>1. ASSUME NEW r \in Runs, Begin(r) PROVE ProgressInv'
  BY <1>1 DEF Begin, ProgressInv
<1>2. ASSUME NEW r \in Runs, NEW t \in Targets, TestDone(r, t)
      PROVE ProgressInv'
  <2>1. Len(results'[r]) = Len(results[r]) + 1
    BY <1>2, AppendProperties DEF TestDone
  <2> QED BY <1>0, <1>2, <2>1 DEF TestDone, ProgressInv
<1>3. ASSUME NEW r \in Runs, AllTested(r) PROVE ProgressInv'
  BY <1>3 DEF AllTested, ProgressInv
<1>4. ASSUME NEW r \in Runs, Send(r) PROVE ProgressInv'
  BY <1>4 DEF Send, ProgressInv
<1>5. ASSUME NEW r \in Runs, NEW ok \in BOOLEAN, UploadReturns(r, ok)
      PROVE ProgressInv'
  BY <1>5 DEF UploadReturns, ProgressInv
<1>6. ASSUME NEW r \in Runs, LockCounter(r) PROVE ProgressInv'
  BY <1>6 DEF LockCounter, ProgressInv
<1>7. ASSUME NEW r \in Runs, Increment(r) PROVE ProgressInv'
  BY <1>0, <1>7 DEF Increment, ProgressInv
<1>8. ASSUME NEW r \in Runs, Return(r) PROVE ProgressInv'
  BY <1>0, <1>8 DEF Return, ProgressInv
<1>9. ASSUME NEW r \in Runs, NEW t \in Targets, Record(r, t) PROVE ProgressInv'
  BY <1>9 DEF Record, ProgressInv
<1>10. CASE UNCHANGED runVars
  BY <1>10 DEF runVars, ProgressInv
<1> QED
  BY <1>1, <1>2, <1>3, <1>4, <1>5, <1>6, <1>7, <1>8, <1>9, <1>10
     DEF RunsNext, RunStep, ManagerStep

-----------------------------------------------------------------------------
(* Which results have been counted.                                        *)

LEMMA CurrentTarget ==
    ASSUME RunsTypeOK, ProgressInv, NEW r \in Runs, InUpload(r)
    PROVE  /\ next[r] \in 1..Len(results[r])
           /\ Current(r) \in Targets
<1>1. next[r] \in 1..Len(results[r])
  BY LenProperties DEF RunsTypeOK, ProgressInv, InUpload
<1> QED BY <1>1, ElementOfSeq DEF RunsTypeOK, Current

(* Counting changes the tally of the current result and nothing else's.    *)
LEMMA CountingTally ==
    ASSUME RunsTypeOK, ProgressInv, NEW r \in Runs, Increment(r)
    PROVE  /\ tally'[r][Current(r)] = IF verdict[r] THEN "accepted" ELSE "rejected"
           /\ \A t \in Targets \ {Current(r)} : tally'[r][t] = tally[r][t]
           /\ \A q \in Runs \ {r} : tally'[q] = tally[q]
<1> DEFINE c == Current(r)
<1>1. c \in Targets
  BY CurrentTarget DEF Increment, InUpload
<1>2. PICK v \in {"accepted", "rejected"} :
        /\ tally' = [tally EXCEPT ![r] = [tally[r] EXCEPT ![c] = v]]
        /\ v = IF verdict[r] THEN "accepted" ELSE "rejected"
  BY DEF Increment, CountResult, RunsTypeOK
<1> HIDE DEF c
<1>3. tally \in [Runs -> [Targets -> {"none", "accepted", "rejected"}]]
  BY DEF RunsTypeOK
<1>4. /\ tally'[r] = [tally[r] EXCEPT ![c] = v]
      /\ \A q \in Runs \ {r} : tally'[q] = tally[q]
  BY <1>2, <1>3
<1>5. tally'[r][c] = v /\ \A t \in Targets \ {c} : tally'[r][t] = tally[r][t]
  BY <1>1, <1>3, <1>4
<1> QED BY <1>2, <1>4, <1>5 DEF c

LEMMA StepTally ==
    RunsTypeOK /\ CollectInv /\ ProgressInv /\ TallyInv /\ [RunsNext]_runVars
        => TallyInv'
<1> SUFFICES ASSUME RunsTypeOK, CollectInv, ProgressInv, TallyInv,
                    [RunsNext]_runVars
             PROVE  TallyInv'
  OBVIOUS
<1> USE DEF Enter, TallyInv, TallyOf
<1>1. ASSUME NEW r \in Runs, Begin(r) PROVE TallyInv'
  BY <1>1 DEF Begin
<1>2. ASSUME NEW r \in Runs, NEW t \in Targets, TestDone(r, t) PROVE TallyInv'
  <2> SUFFICES ASSUME NEW q \in Runs PROVE TallyOf(q)'
    OBVIOUS
  <2>1. CASE q # r
    BY <1>2, <2>1 DEF TestDone, RunsTypeOK
  <2>2. CASE q = r
    <3>1. PICK n \in Nat : n = Len(results[r])
      BY LenProperties DEF RunsTypeOK
    <3>2. /\ Len(results'[r]) = n + 1
          /\ results'[r][n + 1] = t
          /\ \A i \in 1..n : results'[r][i] = results[r][i]
      BY <1>2, <3>1, AppendProperties DEF TestDone, RunsTypeOK
    <3>3. /\ next[r] = 1 /\ next' = next /\ tally' = tally
      BY <1>2 DEF TestDone, ProgressInv
    <3>4. tally[r][t] = "none"
      BY <1>2, <3>1 DEF TestDone, CollectInv, CollectOf
    <3>5. ASSUME NEW i \in 1..(n + 1)
          PROVE  tally'[r][results'[r][i]] # "none" <=> i < next'[r]
      <4>1. CASE i = n + 1
        BY <3>2, <3>3, <3>4, <4>1
      <4>2. CASE i \in 1..n
        <5>1. results'[r][i] = results[r][i]
          BY <3>2, <4>2
        <5>2. tally[r][results[r][i]] # "none" <=> i < next[r]
          BY <3>1, <4>2
        <5> QED BY <3>3, <5>1, <5>2
      <4> QED BY <4>1, <4>2
    <3>6. ASSUME NEW u \in Targets, tally'[r][u] # "none"
          PROVE  \E i \in 1..(n + 1) : results'[r][i] = u
      <4>1. PICK i \in 1..n : results[r][i] = u
        BY <3>1, <3>3, <3>6
      <4>2. i \in 1..(n + 1)
        OBVIOUS
      <4>3. results'[r][i] = results[r][i]
        BY <3>2
      <4> QED BY <4>1, <4>2, <4>3
    <3> QED BY <2>2, <3>2, <3>5, <3>6
  <2> QED BY <2>1, <2>2
<1>3. ASSUME NEW r \in Runs, AllTested(r) PROVE TallyInv'
  BY <1>3 DEF AllTested
<1>4. ASSUME NEW r \in Runs, Send(r) PROVE TallyInv'
  BY <1>4 DEF Send
<1>5. ASSUME NEW r \in Runs, NEW ok \in BOOLEAN, UploadReturns(r, ok)
      PROVE TallyInv'
  BY <1>5 DEF UploadReturns
<1>6. ASSUME NEW r \in Runs, LockCounter(r) PROVE TallyInv'
  BY <1>6 DEF LockCounter
<1>7. ASSUME NEW r \in Runs, Increment(r) PROVE TallyInv'
  <2> SUFFICES ASSUME NEW q \in Runs PROVE TallyOf(q)'
    OBVIOUS
  <2>0. results' = results
    BY <1>7 DEF Increment
  <2>1. CASE q # r
    <3>1. next'[q] = next[q]
      BY <1>7, <2>1 DEF Increment, RunsTypeOK
    <3>2. tally'[q] = tally[q]
      BY <1>7, <2>1, CountingTally
    <3> QED BY <2>0, <3>1, <3>2
  <2>2. CASE q = r
    <3> DEFINE c == Current(r)
               n == next[r]
    <3>1. n \in 1..Len(results[r]) /\ c \in Targets /\ c = results[r][n]
      BY <1>7, CurrentTarget DEF Increment, InUpload, Current
    <3>2. next'[r] = n + 1
      BY <1>7 DEF Increment, RunsTypeOK
    <3>3. /\ tally'[r][c] # "none"
          /\ \A t \in Targets \ {c} : tally'[r][t] = tally[r][t]
      BY <1>7, CountingTally
    <3> HIDE DEF c, n
    <3>4. ASSUME NEW i \in 1..Len(results[r])
          PROVE  tally'[r][results[r][i]] # "none" <=> i < n + 1
      <4>0. results[r][i] \in Targets /\ i \in Int /\ n \in Int
        BY <3>1, ElementOfSeq DEF RunsTypeOK
      <4>1. CASE i = n
        BY <3>1, <3>3, <4>0, <4>1
      <4>2. CASE i # n
        <5>1. results[r][i] # c
          BY <3>1, <4>2 DEF CollectInv, CollectOf
        <5>2. tally'[r][results[r][i]] = tally[r][results[r][i]]
          BY <3>3, <4>0, <5>1
        <5>3. tally[r][results[r][i]] # "none" <=> i < n
          BY DEF n
        <5> QED BY <4>0, <4>2, <5>2, <5>3
      <4> QED BY <4>1, <4>2
    <3>5. ASSUME NEW t \in Targets, tally'[r][t] # "none"
          PROVE  \E i \in 1..Len(results[r]) : results[r][i] = t
      BY <3>1, <3>3, <3>5
    <3> QED BY <2>0, <2>2, <3>2, <3>4, <3>5
  <2> QED BY <2>1, <2>2
<1>8. ASSUME NEW r \in Runs, Return(r) PROVE TallyInv'
  BY <1>8 DEF Return
<1>9. ASSUME NEW r \in Runs, NEW t \in Targets, Record(r, t) PROVE TallyInv'
  BY <1>9 DEF Record
<1>10. CASE UNCHANGED runVars
  BY <1>10 DEF runVars
<1> QED
  BY <1>1, <1>2, <1>3, <1>4, <1>5, <1>6, <1>7, <1>8, <1>9, <1>10
     DEF RunsNext, RunStep, ManagerStep

-----------------------------------------------------------------------------
(* The manager's copies.                                                   *)

(* An upload request is only sent for a result that has not been counted.  *)
LEMMA SendsUncounted ==
    ASSUME RunsTypeOK, TallyInv, NEW r \in Runs, Send(r)
    PROVE  /\ Current(r) \in Targets
           /\ tally[r][Current(r)] = "none"
<1>1. next[r] \in 1..Len(results[r])
  BY LenProperties DEF RunsTypeOK, Send
<1>2. Current(r) \in Targets
  BY <1>1, ElementOfSeq DEF RunsTypeOK, Current
<1>3. ~(tally[r][results[r][next[r]]] # "none")
  BY <1>1 DEF TallyInv, TallyOf
<1> QED BY <1>2, <1>3 DEF Current

(* A step that neither sends, records nor counts keeps StoreInv if the     *)
(* upload in progress stays the same.                                      *)
LEMMA StoreKept ==
    ASSUME StoreInv, UNCHANGED <<wire, stored, tally>>,
           \A q \in Runs :
              InUpload(q) => InUpload(q)' /\ Current(q)' = Current(q)
    PROVE  StoreInv'
BY DEF StoreInv

LEMMA StepStore ==
    RunsTypeOK /\ ProgressInv /\ TallyInv /\ StoreInv /\ VerdictInv
        /\ [RunsNext]_runVars => StoreInv'
<1> SUFFICES ASSUME RunsTypeOK, ProgressInv, TallyInv, StoreInv, VerdictInv,
                    [RunsNext]_runVars
             PROVE  StoreInv'
  OBVIOUS
<1> USE DEF Enter, StoreInv, InUpload
<1>0. \A r \in Runs : InUpload(r) => next[r] \in 1..Len(results[r])
  BY CurrentTarget
<1>1. ASSUME NEW r \in Runs, Begin(r) PROVE StoreInv'
  <2>1. \A q \in Runs : InUpload(q) => InUpload(q)' /\ Current(q)' = Current(q)
    BY <1>1 DEF Begin, Current, RunsTypeOK
  <2> QED BY <1>1, <2>1, StoreKept DEF Begin
<1>2. ASSUME NEW r \in Runs, NEW t \in Targets, TestDone(r, t) PROVE StoreInv'
  <2>1. \A q \in Runs : InUpload(q) => InUpload(q)' /\ Current(q)' = Current(q)
    <3> SUFFICES ASSUME NEW q \in Runs, InUpload(q)
                 PROVE  InUpload(q)' /\ Current(q)' = Current(q)
      OBVIOUS
    <3>1. q # r /\ phase' = phase /\ next' = next
      BY <1>2 DEF TestDone
    <3>2. results'[q] = results[q]
      BY <1>2, <3>1 DEF TestDone, RunsTypeOK
    <3> QED BY <3>1, <3>2 DEF Current
  <2> QED BY <1>2, <2>1, StoreKept DEF TestDone
<1>3. ASSUME NEW r \in Runs, AllTested(r) PROVE StoreInv'
  <2>1. \A q \in Runs : InUpload(q) => InUpload(q)' /\ Current(q)' = Current(q)
    BY <1>3 DEF AllTested, Current, RunsTypeOK
  <2> QED BY <1>3, <2>1, StoreKept DEF AllTested
<1>4. ASSUME NEW r \in Runs, Send(r) PROVE StoreInv'
  <2> DEFINE c == Current(r)
  <2>1. c \in Targets /\ tally[r][c] = "none"
    BY <1>4, SendsUncounted
  <2>2. phase[r] = "uploading" /\ phase' = [phase EXCEPT ![r] = "awaiting"]
        /\ wire' = wire \cup {<<r, c>>}
        /\ UNCHANGED <<stored, tally, results, next>>
    BY <1>4 DEF Send
  <2>3. Current(r)' = c
    BY <2>2 DEF Current
  <2>4. stored[r][c] = 0
    BY <2>1, <2>2
  <2> SUFFICES ASSUME NEW q \in Runs, NEW t \in Targets
               PROVE  /\ stored[q][t] <= 1
                      /\ <<q, t>> \in wire' => stored[q][t] = 0
                      /\ (<<q, t>> \in wire' \/ stored[q][t] # 0) =>
                            \/ tally[q][t] # "none"
                            \/ InUpload(q)' /\ Current(q)' = t
                      /\ tally[q][t] = "accepted" => stored[q][t] = 1
    BY <2>2
  <2>5. CASE q = r /\ t = c
    BY <2>2, <2>3, <2>4, <2>5 DEF RunsTypeOK
  <2>6. CASE q = r /\ t # c
    BY <2>2, <2>6
  <2>7. CASE q # r
    BY <2>2, <2>7 DEF Current, RunsTypeOK
  <2> QED BY <2>5, <2>6, <2>7
<1>5. ASSUME NEW r \in Runs, NEW ok \in BOOLEAN, UploadReturns(r, ok)
      PROVE StoreInv'
  <2>1. \A q \in Runs : InUpload(q) => InUpload(q)' /\ Current(q)' = Current(q)
    BY <1>5 DEF UploadReturns, Current, RunsTypeOK
  <2> QED BY <1>5, <2>1, StoreKept DEF UploadReturns
<1>6. ASSUME NEW r \in Runs, LockCounter(r) PROVE StoreInv'
  <2>1. \A q \in Runs : InUpload(q) => InUpload(q)' /\ Current(q)' = Current(q)
    BY <1>6 DEF LockCounter, Current, RunsTypeOK
  <2> QED BY <1>6, <2>1, StoreKept DEF LockCounter
<1>7. ASSUME NEW r \in Runs, Increment(r) PROVE StoreInv'
  <2> DEFINE c == Current(r)
  <2>1. c \in Targets
    BY <1>7, CurrentTarget DEF Increment
  <2>2. /\ tally'[r][c] = IF verdict[r] THEN "accepted" ELSE "rejected"
        /\ \A t \in Targets \ {c} : tally'[r][t] = tally[r][t]
        /\ \A q \in Runs \ {r} : tally'[q] = tally[q]
    BY <1>7, CountingTally
  <2>3. /\ phase[r] = "incrementing" /\ UNCHANGED <<wire, stored, results>>
        /\ \A q \in Runs \ {r} : phase'[q] = phase[q] /\ next'[q] = next[q]
    BY <1>7 DEF Increment, RunsTypeOK
  <2>4. verdict[r] => stored[r][c] = 1
    BY <2>3 DEF VerdictInv
  <2> HIDE DEF c
  <2> SUFFICES ASSUME NEW q \in Runs, NEW t \in Targets
               PROVE  /\ stored[q][t] <= 1
                      /\ <<q, t>> \in wire => stored[q][t] = 0
                      /\ (<<q, t>> \in wire \/ stored[q][t] # 0) =>
                            \/ tally'[q][t] # "none"
                            \/ InUpload(q)' /\ Current(q)' = t
                      /\ tally'[q][t] = "accepted" => stored[q][t] = 1
    BY <2>3
  <2>5. CASE q = r /\ t = c
    BY <2>2, <2>4, <2>5
  <2>6. CASE q = r /\ t # c
    BY <2>2, <2>6 DEF c
  <2>7. CASE q # r
    BY <2>2, <2>3, <2>7 DEF Current
  <2> QED BY <2>5, <2>6, <2>7
<1>8. ASSUME NEW r \in Runs, Return(r) PROVE StoreInv'
  <2>1. \A q \in Runs : InUpload(q) => InUpload(q)' /\ Current(q)' = Current(q)
    BY <1>8 DEF Return, Current, RunsTypeOK
  <2> QED BY <1>8, <2>1, StoreKept DEF Return
<1>9. ASSUME NEW r \in Runs, NEW t \in Targets, Record(r, t) PROVE StoreInv'
  <2>1. /\ \A q \in Runs, u \in Targets : <<q, u>> # <<r, t>> => stored'[q][u] = stored[q][u]
        /\ stored'[r][t] = 1
    BY <1>9 DEF Record, RunsTypeOK
  <2>2. /\ wire' = wire \ {<<r, t>>} /\ <<r, t>> \in wire
        /\ UNCHANGED <<phase, results, next, tally>>
    BY <1>9 DEF Record
  <2> SUFFICES ASSUME NEW q \in Runs, NEW u \in Targets
               PROVE  /\ stored'[q][u] <= 1
                      /\ <<q, u>> \in wire' => stored'[q][u] = 0
                      /\ (<<q, u>> \in wire' \/ stored'[q][u] # 0) =>
                            \/ tally[q][u] # "none"
                            \/ InUpload(q)' /\ Current(q)' = u
                      /\ tally[q][u] = "accepted" => stored'[q][u] = 1
    BY <2>2
  <2>3. CASE q = r /\ u = t
    BY <2>1, <2>2, <2>3 DEF Current
  <2>4. CASE q # r \/ u # t
    <3>1. <<q, u>> # <<r, t>>
      BY <2>4
    <3> QED BY <2>1, <2>2, <3>1 DEF Current
  <2> QED BY <2>3, <2>4
<1>10. CASE UNCHANGED runVars
  BY <1>10 DEF runVars, Current
<1> QED
  BY <1>1, <1>2, <1>3, <1>4, <1>5, <1>6, <1>7, <1>8, <1>9, <1>10
     DEF RunsNext, RunStep, ManagerStep

LEMMA StepVerdict ==
    RunsTypeOK /\ ProgressInv /\ StoreInv /\ VerdictInv /\ [RunsNext]_runVars
        => VerdictInv'
<1> SUFFICES ASSUME RunsTypeOK, ProgressInv, StoreInv, VerdictInv,
                    [RunsNext]_runVars
             PROVE  VerdictInv'
  OBVIOUS
<1> USE DEF Enter, VerdictInv, Current
<1>1. ASSUME NEW r \in Runs, Begin(r) PROVE VerdictInv'
  BY <1>1 DEF Begin, RunsTypeOK
<1>2. ASSUME NEW r \in Runs, NEW t \in Targets, TestDone(r, t) PROVE VerdictInv'
  BY <1>2 DEF TestDone, RunsTypeOK
<1>3. ASSUME NEW r \in Runs, AllTested(r) PROVE VerdictInv'
  BY <1>3 DEF AllTested, RunsTypeOK
<1>4. ASSUME NEW r \in Runs, Send(r) PROVE VerdictInv'
  BY <1>4 DEF Send, RunsTypeOK
<1>5. ASSUME NEW r \in Runs, NEW ok \in BOOLEAN, UploadReturns(r, ok)
      PROVE VerdictInv'
  <2>1. Current(r) \in Targets
    BY <1>5, CurrentTarget DEF UploadReturns, InUpload
  <2>2. ok => stored[r][Current(r)] = 1
    <3>1. stored[r][Current(r)] \in Nat
      BY <2>1 DEF RunsTypeOK
    <3>2. stored[r][Current(r)] <= 1
      BY <2>1 DEF StoreInv
    <3>3. ok => stored[r][Current(r)] > 0
      BY <1>5 DEF UploadReturns
    <3> QED BY <3>1, <3>2, <3>3
  <2> QED BY <1>5, <2>2 DEF UploadReturns, RunsTypeOK
<1>6. ASSUME NEW r \in Runs, LockCounter(r) PROVE VerdictInv'
  BY <1>6 DEF LockCounter, RunsTypeOK
<1>7. ASSUME NEW r \in Runs, Increment(r) PROVE VerdictInv'
  BY <1>7 DEF Increment, RunsTypeOK
<1>8. ASSUME NEW r \in Runs, Return(r) PROVE VerdictInv'
  BY <1>8 DEF Return, RunsTypeOK
<1>9. ASSUME NEW r \in Runs, NEW t \in Targets, Record(r, t) PROVE VerdictInv'
  <2> SUFFICES ASSUME NEW q \in Runs,
                      phase[q] \in {"counting", "incrementing"}, verdict[q]
               PROVE  stored'[q][results[q][next[q]]] = 1
    BY <1>9 DEF Record
  <2>1. stored[q][results[q][next[q]]] = 1
    OBVIOUS
  <2>2. stored[r][t] = 0
    BY <1>9 DEF Record, StoreInv
  <2> QED BY <1>9, <2>1, <2>2 DEF Record, RunsTypeOK
<1>10. CASE UNCHANGED runVars
  BY <1>10 DEF runVars
<1> QED
  BY <1>1, <1>2, <1>3, <1>4, <1>5, <1>6, <1>7, <1>8, <1>9, <1>10
     DEF RunsNext, RunStep, ManagerStep

-----------------------------------------------------------------------------
(* The counters.                                                           *)

LEMMA TalliedFinite ==
    ASSUME NEW v PROVE IsFiniteSet(Tallied(v))
BY RunsAssumption, FS_Product, FS_Subset DEF Tallied

(* Counting moves exactly one pair into the set that its counter counts.   *)
LEMMA CountingCounts ==
    ASSUME RunsTypeOK, ProgressInv, TallyInv, NEW r \in Runs, Increment(r),
           NEW v \in {"accepted", "rejected"}
    PROVE  IF v = IF verdict[r] THEN "accepted" ELSE "rejected"
           THEN /\ Tallied(v)' = Tallied(v) \cup {<<r, Current(r)>>}
                /\ <<r, Current(r)>> \notin Tallied(v)
           ELSE Tallied(v)' = Tallied(v)
<1> DEFINE c == Current(r)
<1>1. c \in Targets /\ tally[r][c] = "none"
  <2>1. next[r] \in 1..Len(results[r]) /\ c \in Targets
    BY CurrentTarget DEF Increment, InUpload
  <2>2. ~(tally[r][results[r][next[r]]] # "none")
    BY <2>1 DEF TallyInv, TallyOf
  <2> QED BY <2>1, <2>2 DEF Current
<1>2. /\ tally'[r][c] = IF verdict[r] THEN "accepted" ELSE "rejected"
      /\ \A t \in Targets \ {c} : tally'[r][t] = tally[r][t]
      /\ \A q \in Runs \ {r} : tally'[q] = tally[q]
  BY CountingTally
<1> HIDE DEF c
<1>3. ASSUME NEW q \in Runs, NEW t \in Targets
      PROVE  tally'[q][t] = v <=>
                \/ tally[q][t] = v
                \/ /\ v = IF verdict[r] THEN "accepted" ELSE "rejected"
                   /\ q = r /\ t = c
  <2>1. CASE q = r /\ t = c
    BY <1>1, <1>2, <2>1
  <2>2. CASE q = r /\ t # c
    BY <1>2, <2>2
  <2>3. CASE q # r
    BY <1>2, <2>3
  <2> QED BY <2>1, <2>2, <2>3
<1>4. CASE v = IF verdict[r] THEN "accepted" ELSE "rejected"
  <2>1. Tallied(v)' = Tallied(v) \cup {<<r, c>>}
    BY <1>1, <1>3, <1>4 DEF Tallied
  <2>2. <<r, c>> \notin Tallied(v)
    BY <1>1 DEF Tallied
  <2> QED BY <1>4, <2>1, <2>2 DEF c
<1>5. CASE ~(v = IF verdict[r] THEN "accepted" ELSE "rejected")
  <2>1. Tallied(v)' = Tallied(v)
    BY <1>3, <1>5 DEF Tallied
  <2> QED BY <1>5, <2>1
<1> QED BY <1>4, <1>5

LEMMA StepCount ==
    RunsTypeOK /\ MutexInv /\ ProgressInv /\ TallyInv /\ CountersExact
        /\ [RunsNext]_runVars => CountersExact'
<1> SUFFICES ASSUME RunsTypeOK, MutexInv, ProgressInv, TallyInv,
                    CountersExact, [RunsNext]_runVars
             PROVE  CountersExact'
  OBVIOUS
<1>1. ASSUME UNCHANGED <<tally, successCount, failureCount>>
      PROVE  CountersExact'
  BY <1>1 DEF CountersExact, Tallied
<1>2. ASSUME NEW r \in Runs, Increment(r) PROVE CountersExact'
  <2>1. read[r] = IF verdict[r] THEN successCount ELSE failureCount
    BY <1>2 DEF MutexInv, Increment
  <2>2. CASE verdict[r]
    <3>1. successCount' = successCount + 1 /\ failureCount' = failureCount
      BY <1>2, <2>1, <2>2 DEF Increment, CountResult
    <3>2. /\ Tallied("accepted")' = Tallied("accepted") \cup {<<r, Current(r)>>}
          /\ <<r, Current(r)>> \notin Tallied("accepted")
          /\ Tallied("rejected")' = Tallied("rejected")
      BY <1>2, <2>2, CountingCounts
    <3> QED BY <3>1, <3>2, TalliedFinite, FS_AddElement DEF CountersExact
  <2>3. CASE ~verdict[r]
    <3>1. failureCount' = failureCount + 1 /\ successCount' = successCount
      BY <1>2, <2>1, <2>3 DEF Increment, CountResult
    <3>2. /\ Tallied("rejected")' = Tallied("rejected") \cup {<<r, Current(r)>>}
          /\ <<r, Current(r)>> \notin Tallied("rejected")
          /\ Tallied("accepted")' = Tallied("accepted")
      BY <1>2, <2>3, CountingCounts
    <3> QED BY <3>1, <3>2, TalliedFinite, FS_AddElement DEF CountersExact
  <2> QED BY <2>2, <2>3
<1> QED
  BY <1>1, <1>2
     DEF RunsNext, RunStep, ManagerStep, Begin, TestDone, AllTested, Send,
         UploadReturns, LockCounter, Return, Record, runVars

-----------------------------------------------------------------------------
(* The inductive invariant and what follows from it.                       *)

LEMMA InitInv == RunsInit => IInv
<1> SUFFICES ASSUME RunsInit PROVE IInv
  OBVIOUS
<1> USE DEF RunsInit
<1>1. RunsTypeOK
  BY InitType
<1>2. MutexInv
  BY RunsAssumption DEF MutexInv
<1>3. \A r \in Runs : results[r] = <<>> /\ Len(results[r]) = 0
  OBVIOUS
<1>4. CollectInv
  BY <1>3 DEF CollectInv, CollectOf
<1>5. ProgressInv
  BY <1>3 DEF ProgressInv
<1>6. TallyInv
  BY <1>3 DEF TallyInv, TallyOf
<1>7. StoreInv /\ VerdictInv
  BY DEF StoreInv, VerdictInv
<1>8. CountersExact
  <2>1. Tallied("accepted") = {} /\ Tallied("rejected") = {}
    BY DEF Tallied
  <2> QED BY <2>1, FS_EmptySet DEF CountersExact
<1> QED BY <1>1, <1>2, <1>4, <1>5, <1>6, <1>7, <1>8 DEF IInv

(* The inductive invariant holds throughout.                               *)
THEOREM Invariance == RunsSpec => []IInv
<1>1. IInv /\ [RunsNext]_runVars => IInv'
  BY StepType, StepMutex, StepCollect, StepProgress, StepTally, StepStore,
     StepVerdict, StepCount DEF IInv
<1> QED BY InitInv, <1>1, PTL DEF RunsSpec

(* The counters of GetStats are exact.                                     *)
THEOREM CountersCorrect == RunsSpec => []CountersExact
<1>1. IInv => CountersExact
  BY DEF IInv
<1> QED BY Invariance, <1>1, PTL

(* A result counted as a success is at the manager, none is there twice.   *)
THEOREM ManagerCorrect == RunsSpec => []ManagerAgrees
<1>1. IInv => ManagerAgrees
  BY DEF IInv, StoreInv, ManagerAgrees
<1> QED BY Invariance, <1>1, PTL

LEMMA CountedWhenDone ==
    ASSUME IInv, NEW r \in Runs, phase[r] \notin {"idle", "testing"},
           next[r] > Len(results[r]), NEW t \in Targets
    PROVE  tally[r][t] # "none"
<1>1. testing[r] = {}
  BY DEF IInv, CollectInv, CollectOf
<1>2. PICK i \in 1..Len(results[r]) : results[r][i] = t
  BY <1>1 DEF IInv, CollectInv, CollectOf
<1>3. i < next[r]
  <2>1. Len(results[r]) \in Nat /\ next[r] \in Nat
    BY LenProperties DEF IInv, RunsTypeOK
  <2> QED BY <2>1
<1> QED BY <1>2, <1>3 DEF IInv, TallyInv, TallyOf

(* When RunTests returns, every target's result has been counted.          *)
THEOREM CountedCorrect == RunsSpec => []EveryTargetCounted
<1>1. IInv => EveryTargetCounted
  <2> SUFFICES ASSUME IInv, NEW r \in Runs, phase[r] = "returned",
                      NEW t \in Targets
               PROVE  tally[r][t] # "none"
    BY DEF EveryTargetCounted
  <2>1. next[r] > Len(results[r])
    BY LenProperties DEF IInv, ProgressInv, RunsTypeOK
  <2> QED BY <2>1, CountedWhenDone
<1> QED BY Invariance, <1>1, PTL

-----------------------------------------------------------------------------
(* Refinement: every step of the rounds of tests is a step of RunLedger or *)
(* leaves its variables alone.                                             *)

LEMMA StutterStep ==
    ASSUME RunsTypeOK,
           UNCHANGED <<tally, successCount, failureCount, testing>>,
           NEW r \in Runs, NEW p \in Phases \ {"idle", "returned"},
           phase[r] \notin {"idle", "returned"},
           phase' = [phase EXCEPT ![r] = p]
    PROVE  UNCHANGED Ledger!ledgerVars
<1>1. ASSUME NEW q \in Runs
      PROVE  /\ phase'[q] = "idle" <=> phase[q] = "idle"
             /\ phase'[q] = "returned" <=> phase[q] = "returned"
  BY DEF RunsTypeOK, Phases
<1>2. LedgerState' = LedgerState
  BY <1>1 DEF LedgerState
<1>3. LedgerMeasured' = LedgerMeasured
  BY <1>1 DEF LedgerMeasured
<1> QED BY <1>2, <1>3 DEF Ledger!ledgerVars

LEMMA LedgerStep == IInv /\ [RunsNext]_runVars => [Ledger!Next]_Ledger!ledgerVars
<1> SUFFICES ASSUME IInv, [RunsNext]_runVars
             PROVE  [Ledger!Next]_Ledger!ledgerVars
  OBVIOUS
<1>0. RunsTypeOK
  BY DEF IInv
<1>1. ASSUME NEW r \in Runs, Begin(r) PROVE Ledger!Start(r)
  <2>1. /\ phase[r] = "idle" /\ phase' = [phase EXCEPT ![r] = "testing"]
        /\ testing' = [testing EXCEPT ![r] = Targets]
        /\ UNCHANGED <<tally, successCount, failureCount>>
    BY <1>1 DEF Begin, Enter
  <2>2. LedgerState[r] = "idle"
    BY <2>1 DEF LedgerState
  <2>3. LedgerState' = [LedgerState EXCEPT ![r] = "active"]
    BY <1>0, <2>1 DEF LedgerState, RunsTypeOK
  <2>4. LedgerMeasured' = LedgerMeasured
    BY <1>0, <2>1 DEF LedgerMeasured, RunsTypeOK
  <2> QED BY <2>1, <2>2, <2>3, <2>4 DEF Ledger!Start
<1>2. ASSUME NEW r \in Runs, NEW t \in Targets, TestDone(r, t)
      PROVE  Ledger!Measure(r, t)
  <2>1. /\ phase[r] = "testing" /\ t \in testing[r] /\ phase' = phase
        /\ testing' = [testing EXCEPT ![r] = testing[r] \ {t}]
        /\ UNCHANGED <<tally, successCount, failureCount>>
    BY <1>2 DEF TestDone
  <2>2. LedgerState[r] = "active" /\ LedgerState' = LedgerState
    BY <2>1 DEF LedgerState
  <2>3. LedgerMeasured[r] = Targets \ testing[r]
    BY <2>1 DEF LedgerMeasured
  <2>4. LedgerMeasured' =
          [LedgerMeasured EXCEPT ![r] = LedgerMeasured[r] \cup {t}]
    <3>1. Targets \ (testing[r] \ {t}) = (Targets \ testing[r]) \cup {t}
      BY <1>0 DEF RunsTypeOK
    <3> QED BY <1>0, <2>1, <2>3, <3>1 DEF LedgerMeasured, RunsTypeOK
  <2> QED BY <2>1, <2>2, <2>3, <2>4 DEF Ledger!Measure
<1>3. ASSUME NEW r \in Runs, Increment(r)
      PROVE  Ledger!Account(r, Current(r), verdict[r])
  <2>1. /\ phase[r] = "incrementing"
        /\ phase' = [phase EXCEPT ![r] = "uploading"]
        /\ testing' = testing
    BY <1>3 DEF Increment, Enter
  <2>2. UNCHANGED <<LedgerState, LedgerMeasured>>
    <3>1. UNCHANGED <<testing>> /\ \A q \in Runs :
            /\ phase'[q] = "idle" <=> phase[q] = "idle"
            /\ phase'[q] = "returned" <=> phase[q] = "returned"
      BY <1>0, <2>1 DEF RunsTypeOK
    <3> QED BY <3>1 DEF LedgerState, LedgerMeasured
  <2>3. LedgerState[r] = "active" /\ LedgerMeasured[r] = Targets
    <3>1. testing[r] = {}
      BY <2>1 DEF IInv, CollectInv, CollectOf
    <3> QED BY <2>1, <3>1 DEF LedgerState, LedgerMeasured
  <2>4. tally[r][Current(r)] = "none"
    <3>1. next[r] \in 1..Len(results[r])
      BY <1>0, <2>1, CurrentTarget DEF IInv, InUpload
    <3>2. ~(tally[r][results[r][next[r]]] # "none")
      BY <3>1 DEF IInv, TallyInv, TallyOf
    <3> QED BY <3>2 DEF Current
  <2>5. read[r] = IF verdict[r] THEN successCount ELSE failureCount
    BY <2>1 DEF IInv, MutexInv
  <2>6. verdict[r] \in BOOLEAN
    BY <1>0 DEF RunsTypeOK
  <2>7. CASE verdict[r]
    BY <1>3, <2>2, <2>3, <2>4, <2>5, <2>7
       DEF Increment, CountResult, Ledger!Account
  <2>8. CASE ~verdict[r]
    BY <1>3, <2>2, <2>3, <2>4, <2>5, <2>8
       DEF Increment, CountResult, Ledger!Account
  <2> QED BY <2>7, <2>8
<1>4. ASSUME NEW r \in Runs, Return(r) PROVE Ledger!Finish(r)
  <2>1. /\ phase[r] = "uploading" /\ next[r] > Len(results[r])
        /\ phase' = [phase EXCEPT ![r] = "returned"]
        /\ UNCHANGED <<testing, tally, successCount, failureCount>>
    BY <1>4 DEF Return, Enter
  <2>2. LedgerState[r] = "active"
    BY <2>1 DEF LedgerState
  <2>3. LedgerState' = [LedgerState EXCEPT ![r] = "finished"]
    BY <1>0, <2>1 DEF LedgerState, RunsTypeOK
  <2>4. LedgerMeasured' = LedgerMeasured
    BY <1>0, <2>1 DEF LedgerMeasured, RunsTypeOK
  <2>5. \A t \in Targets : tally[r][t] # "none"
    BY <2>1, CountedWhenDone
  <2> QED BY <2>1, <2>2, <2>3, <2>4, <2>5 DEF Ledger!Finish
<1>5. ASSUME NEW r \in Runs, AllTested(r) PROVE UNCHANGED Ledger!ledgerVars
  BY <1>0, <1>5, StutterStep DEF AllTested, Enter, Phases
<1>6. ASSUME NEW r \in Runs, Send(r) PROVE UNCHANGED Ledger!ledgerVars
  BY <1>0, <1>6, StutterStep DEF Send, Enter, Phases
<1>7. ASSUME NEW r \in Runs, NEW ok \in BOOLEAN, UploadReturns(r, ok)
      PROVE UNCHANGED Ledger!ledgerVars
  BY <1>0, <1>7, StutterStep DEF UploadReturns, Enter, Phases
<1>8. ASSUME NEW r \in Runs, LockCounter(r) PROVE UNCHANGED Ledger!ledgerVars
  BY <1>0, <1>8, StutterStep DEF LockCounter, Enter, Phases
<1>9. ASSUME UNCHANGED <<phase, testing, tally, successCount, failureCount>>
      PROVE UNCHANGED Ledger!ledgerVars
  BY <1>9 DEF Ledger!ledgerVars, LedgerState, LedgerMeasured
<1>10. ASSUME NEW r \in Runs, NEW t \in Targets, Record(r, t)
       PROVE UNCHANGED Ledger!ledgerVars
  BY <1>9, <1>10 DEF Record
<1>11. CASE UNCHANGED runVars
  BY <1>9, <1>11 DEF runVars
<1>12. ASSUME NEW r \in Runs, Increment(r) PROVE Ledger!Next
  <2>1. Current(r) \in Targets /\ verdict[r] \in BOOLEAN
    BY <1>0, <1>12, CurrentTarget DEF Increment, InUpload, IInv, RunsTypeOK
  <2> QED BY <1>3, <1>12, <2>1 DEF Ledger!Next
<1> QED
  BY <1>1, <1>2, <1>4, <1>5, <1>6, <1>7, <1>8, <1>10, <1>11, <1>12
     DEF RunsNext, RunStep, ManagerStep, Ledger!Next

(* The rounds of tests implement the ledger of RunLedger.                  *)
THEOREM Refinement == RunsSpec => LedgerSpec
<1>1. RunsInit => Ledger!Init
  BY DEF RunsInit, Ledger!Init, LedgerState, LedgerMeasured
<1> QED
  BY Invariance, <1>1, LedgerStep, PTL DEF RunsSpec, LedgerSpec, Ledger!Spec

-----------------------------------------------------------------------------
(* How far a call is from its end.                                         *)

LEMMA TestingSize ==
    ASSUME RunsTypeOK, NEW r \in Runs
    PROVE  /\ Cardinality(testing[r]) \in Nat
           /\ testing[r] = {} => Cardinality(testing[r]) = 0
           /\ \A t \in testing[r] :
                 Cardinality(testing[r] \ {t}) = Cardinality(testing[r]) - 1
<1>1. IsFiniteSet(testing[r])
  BY RunsAssumption, FS_Subset DEF RunsTypeOK
<1>2. ASSUME NEW t \in testing[r]
      PROVE  Cardinality(testing[r] \ {t}) = Cardinality(testing[r]) - 1
  BY <1>1, FS_RemoveElement
<1> QED BY <1>1, <1>2, FS_CardinalityType, FS_EmptySet

(* What the number of steps left depends on.                               *)
LEMMA StepsLeftKept ==
    ASSUME NEW q \in Runs,
           /\ phase'[q] = phase[q] /\ testing'[q] = testing[q]
           /\ results'[q] = results[q] /\ next'[q] = next[q]
    PROVE  StepsLeft(q)' = StepsLeft(q)
BY DEF StepsLeft

LEMMA CountedSteps == IInv => StepsCounted
<1> SUFFICES ASSUME IInv, NEW r \in Runs
             PROVE  /\ StepsLeft(r) \in Nat
                    /\ StepsLeft(r) = 0 <=> phase[r] = "returned"
  BY DEF StepsCounted
<1>1. phase[r] \in Phases /\ next[r] \in Nat /\ next[r] >= 1
  BY DEF IInv, RunsTypeOK
<1>2. Len(results[r]) \in Nat
  BY LenProperties DEF IInv, RunsTypeOK
<1>3. Cardinality(testing[r]) \in Nat /\ Cardinality(Targets) \in Nat
  BY TestingSize, RunsAssumption, FS_CardinalityType DEF IInv
<1>4. /\ phase[r] \in {"idle", "testing"} => next[r] = 1
      /\ next[r] <= Len(results[r]) + 1
      /\ phase[r] \in {"awaiting", "counting", "incrementing"} => next[r] <= Len(results[r])
      /\ phase[r] = "returned" => next[r] = Len(results[r]) + 1
  BY DEF IInv, ProgressInv
<1> DEFINE k == Len(results[r]) - next[r]
<1>5. k \in Int /\ k >= -1
  BY <1>1, <1>2, <1>4
<1>6. CASE phase[r] \in {"idle", "testing"}
  <2>1. PICK n \in Nat : StepsLeft(r) = 4 * k + (5 * n + 6) \/ StepsLeft(r) = 4 * k + (5 * n + 7)
    BY <1>3, <1>6 DEF StepsLeft
  <2> HIDE DEF k
  <2> QED BY <1>5, <1>6, <2>1
<1>7. CASE phase[r] = "uploading"
  <2>1. StepsLeft(r) = 4 * k + 5
    BY <1>7 DEF StepsLeft
  <2> HIDE DEF k
  <2> QED BY <1>5, <1>7, <2>1
<1>8. CASE phase[r] \in {"awaiting", "counting", "incrementing"}
  <2>1. k >= 0 /\ \E n \in {2, 3, 4} : StepsLeft(r) = 4 * k + n
    BY <1>1, <1>2, <1>4, <1>8 DEF StepsLeft
  <2> HIDE DEF k
  <2> QED BY <1>5, <1>8, <2>1
<1>9. CASE phase[r] = "returned"
  <2>1. k = -1 /\ StepsLeft(r) = 4 * k + 4
    BY <1>1, <1>2, <1>4, <1>9 DEF StepsLeft
  <2> HIDE DEF k
  <2> QED BY <1>9, <2>1
<1> QED BY <1>1, <1>6, <1>7, <1>8, <1>9 DEF Phases

LEMMA OwnStep ==
    ASSUME IInv, NEW r \in Runs, Begin(r) \/ RunStep(r)
    PROVE  /\ StepsLeft(r)' = StepsLeft(r) - 1
           /\ \A q \in Runs \ {r} : StepsLeft(q)' = StepsLeft(q)
<1>0. /\ RunsTypeOK /\ next[r] \in Nat /\ Len(results[r]) \in Nat
      /\ Cardinality(testing[r]) \in Nat /\ Cardinality(Targets) \in Nat
      /\ phase \in [Runs -> Phases] /\ testing \in [Runs -> SUBSET Targets]
      /\ results \in [Runs -> Seq(Targets)] /\ next \in [Runs -> Nat \ {0}]
  BY TestingSize, LenProperties, RunsAssumption, FS_CardinalityType DEF IInv, RunsTypeOK
<1>1. \A q \in Runs \ {r} :
         /\ phase'[q] = phase[q] /\ testing'[q] = testing[q]
         /\ results'[q] = results[q] /\ next'[q] = next[q]
  BY <1>0 DEF Begin, RunStep, TestDone, AllTested, Send, UploadReturns, LockCounter,
              Increment, Return, Enter
<1>2. ASSUME Begin(r) PROVE StepsLeft(r)' = StepsLeft(r) - 1
  <2>1. /\ phase[r] = "idle" /\ phase'[r] = "testing" /\ testing'[r] = Targets
        /\ UNCHANGED <<results, next>>
    BY <1>0, <1>2 DEF Begin, Enter
  <2> QED BY <1>0, <2>1 DEF StepsLeft
<1>3. ASSUME NEW t \in Targets, TestDone(r, t) PROVE StepsLeft(r)' = StepsLeft(r) - 1
  <2>1. /\ phase[r] = "testing" /\ phase'[r] = "testing" /\ t \in testing[r]
        /\ testing'[r] = testing[r] \ {t} /\ next' = next
    BY <1>0, <1>3 DEF TestDone
  <2>2. Len(results'[r]) = Len(results[r]) + 1
    BY <1>0, <1>3, AppendProperties DEF TestDone
  <2>3. Cardinality(testing'[r]) = Cardinality(testing[r]) - 1
    BY <1>0, <2>1, TestingSize
  <2> QED BY <1>0, <2>1, <2>2, <2>3 DEF StepsLeft
<1>4. ASSUME AllTested(r) PROVE StepsLeft(r)' = StepsLeft(r) - 1
  <2>1. /\ phase[r] = "testing" /\ phase'[r] = "uploading" /\ testing[r] = {}
        /\ UNCHANGED <<results, next>>
    BY <1>0, <1>4 DEF AllTested, Enter
  <2>2. Cardinality(testing[r]) = 0
    BY <1>0, <2>1, TestingSize
  <2> QED BY <1>0, <2>1, <2>2 DEF StepsLeft
<1>5. ASSUME NEW ok \in BOOLEAN, Send(r) \/ UploadReturns(r, ok) \/ LockCounter(r)
      PROVE  StepsLeft(r)' = StepsLeft(r) - 1
  <2>1. /\ UNCHANGED <<results, next>>
        /\ \/ phase[r] = "uploading" /\ phase'[r] = "awaiting"
           \/ phase[r] = "awaiting" /\ phase'[r] = "counting"
           \/ phase[r] = "counting" /\ phase'[r] = "incrementing"
    BY <1>0, <1>5 DEF Send, UploadReturns, LockCounter, Enter
  <2> QED BY <1>0, <2>1 DEF StepsLeft
<1>6. ASSUME Increment(r) PROVE StepsLeft(r)' = StepsLeft(r) - 1
  <2>1. /\ phase[r] = "incrementing" /\ phase'[r] = "uploading"
        /\ results' = results /\ next'[r] = next[r] + 1
    BY <1>0, <1>6 DEF Increment, Enter
  <2> QED BY <1>0, <2>1 DEF StepsLeft
<1>7. ASSUME Return(r) PROVE StepsLeft(r)' = StepsLeft(r) - 1
  <2>1. /\ phase[r] = "uploading" /\ phase'[r] = "returned"
        /\ UNCHANGED <<results, next>>
    BY <1>0, <1>7 DEF Return, Enter
  <2> QED BY <1>0, <2>1 DEF StepsLeft
<1>8. StepsLeft(r)' = StepsLeft(r) - 1
  BY <1>2, <1>3, <1>4, <1>5, <1>6, <1>7 DEF RunStep
<1> QED BY <1>1, <1>8, StepsLeftKept

(* A round makes a number of steps that is known when it begins, whatever  *)
(* overlaps with it: the argument why it returns, without its fairness.    *)
THEOREM CountDown == RunsSpec => []StepsCounted /\ RoundsCountDown
<1> DEFINE Down(r) == StepsLeft(r)' = IF Begin(r) \/ RunStep(r) THEN StepsLeft(r) - 1
                                                             ELSE StepsLeft(r)
<1>1. IInv /\ [RunsNext]_runVars => [\A r \in Runs : Down(r)]_runVars
  <2> SUFFICES ASSUME IInv, RunsNext, NEW r \in Runs PROVE Down(r)
    OBVIOUS
  <2>1. StepsLeft(r) \in Nat
    BY CountedSteps DEF StepsCounted
  <2>2. CASE Begin(r) \/ RunStep(r)
    BY <2>2, OwnStep
  <2>3. CASE ~(Begin(r) \/ RunStep(r))
    <3>1. ASSUME NEW q \in Runs, Begin(q) \/ RunStep(q) PROVE StepsLeft(r)' = StepsLeft(r)
      <4>1. q # r
        BY <2>3, <3>1
      <4> QED BY <3>1, <4>1, OwnStep
    <3>2. CASE ManagerStep
      <4>1. UNCHANGED <<phase, testing, results, next>>
        BY <3>2 DEF ManagerStep, Record
      <4>2. StepsLeft(r)' = StepsLeft(r)
        BY <4>1, StepsLeftKept
      <4> QED BY <2>3, <4>2
    <3> QED BY <2>3, <3>1, <3>2 DEF RunsNext
  <2> QED BY <2>2, <2>3
<1> QED BY Invariance, CountedSteps, <1>1, PTL DEF RunsSpec, RoundsCountDown

-----------------------------------------------------------------------------
(* GoScheduler.  How often Start armed a ticker follows from the menu's    *)
(* flag and the stop channel: each pause that does not panic closes the    *)
(* channel for the first time.                                             *)
Started(b) == IF b THEN 1 ELSE 0

MenuInv ==
    /\ app = "up" =>
          /\ isRunning <=> monitored \/ ui \in {"startupRun", "startupWait", "arm"}
          /\ starts = Started(monitored) + Started(stopClosed)
    /\ app \in {"quitting", "leaving", "exited"} => ui = "quit"
    /\ app = "panicked" => ui \in {"idle", "quit"}
    /\ ui = "quit" => app # "up"
    /\ monitored => ui \in {"idle", "quit"}
    /\ ~stopClosed => starts <= 1
    /\ title # "Error"

(* Whose round is in progress: the menu waits for the one at start-up and  *)
(* each loop for its own, so none of them has two.                         *)
CallInv ==
    /\ \A r \in Runs : owner[r] = Nobody <=> phase[r] = "idle"
    /\ \A r \in Runs : InProgress(r) /\ owner[r] = Startup => ui = "startupWait"
    /\ \A r \in Runs, i \in Loops :
          InProgress(r) /\ owner[r] = Loop(i) => loop[i] = "running"
    /\ \A i \in Loops : loop[i] # "none" => i <= starts
    /\ \A r, q \in Runs :
          InProgress(r) /\ InProgress(q) /\ owner[r] = owner[q] /\ owner[r] # Manual
          => r = q

ClientInv == TypeOK /\ MenuInv /\ CallInv

(* TypeOK in parts, which the provers take one at a time.                  *)
TrayTypeOK ==
    /\ schedule \in [enabled : BOOLEAN, runOnStartup : BOOLEAN]
    /\ app \in {"up", "quitting", "leaving", "exited", "panicked"}
    /\ ui \in {"boot", "idle", "start", "startupRun", "startupWait", "arm", "quit"}
    /\ title \in {"Initializing", "Monitoring", "Manual Mode", "Paused",
                  "Running Tests", "Error"}

FlagTypeOK ==
    /\ {monitored, isRunning, stopClosed, ctxDone} \subseteq BOOLEAN
    /\ starts \in 0..2

LoopTypeOK ==
    /\ ticker \in [Loops -> [on : BOOLEAN, pending : BOOLEAN]]
    /\ loop \in [Loops -> {"none", "entering", "waiting", "running", "done"}]
    /\ waitsOn \in [Loops -> Loops]

CallTypeOK ==
    /\ owner \in [Runs -> {Nobody, Startup, Manual} \cup {Loop(i) : i \in Loops}]
    /\ report \in [Runs -> {"none", "Monitoring", "Manual Mode", "shown"}]

LEMMA TypeParts ==
    TypeOK <=> RunsTypeOK /\ TrayTypeOK /\ FlagTypeOK /\ LoopTypeOK /\ CallTypeOK
<1>1. {monitored, isRunning, stopClosed, ctxDone} \subseteq BOOLEAN
        <=> /\ monitored \in BOOLEAN /\ isRunning \in BOOLEAN
            /\ stopClosed \in BOOLEAN /\ ctxDone \in BOOLEAN
  OBVIOUS
<1> QED BY <1>1, Zenon DEF TypeOK, TrayTypeOK, FlagTypeOK, LoopTypeOK, CallTypeOK

LEMMA ClientStart == Init => ClientInv
<1> SUFFICES ASSUME Init PROVE ClientInv
  OBVIOUS
<1>1. RunsTypeOK
  BY InitType DEF Init
<1>2. TrayTypeOK
  BY DEF Init, TrayTypeOK
<1>3. FlagTypeOK
  <2>1. {monitored, isRunning, stopClosed, ctxDone} \subseteq BOOLEAN
    BY Zenon DEF Init
  <2>2. starts \in 0..2
    BY DEF Init
  <2> QED BY <2>1, <2>2, Zenon DEF FlagTypeOK
<1>4. LoopTypeOK
  BY DEF Init, LoopTypeOK
<1>5. CallTypeOK
  BY DEF Init, CallTypeOK
<1>6. MenuInv
  BY DEF Init, MenuInv, Started
<1>7. CallInv
  BY DEF Init, RunsInit, CallInv, InProgress, Nobody
<1> QED BY <1>1, <1>2, <1>3, <1>4, <1>5, <1>6, <1>7, TypeParts DEF ClientInv

(* Every step of the client is a step of its rounds of tests, or leaves    *)
(* them alone.                                                             *)
LEMMA RunsOfClient == [Next]_vars => [RunsNext]_runVars
<1> SUFFICES ASSUME [Next]_vars PROVE [RunsNext]_runVars
  OBVIOUS
<1>1. CASE Boot \/ Starting
  BY <1>1 DEF Boot, Starting, StartLocked, StartupRun, StartupDone, Arm, Call, RunsNext
<1>2. CASE Click
  BY <1>2 DEF Click, RunNow, Pause, Resume, Quit, Call, RunsNext
<1>3. CASE OnExit \/ Exit
  BY <1>3 DEF OnExit, Exit
<1>4. CASE \E i \in Loops : Fire(i) \/ LoopStep(i)
  BY <1>4 DEF Fire, LoopStep, LoopEnter, LoopTick, LoopEnd, Call, RunsNext
<1>5. CASE \E r \in Runs : ManualRead(r) \/ ManualShow(r) \/ ClientRunStep(r)
  BY <1>5 DEF ManualRead, ManualShow, ClientRunStep, RunsNext
<1>6. CASE ManagerRecords
  BY <1>6 DEF ManagerRecords, RunsNext
<1>7. CASE UNCHANGED vars
  BY <1>7 DEF vars
<1> QED BY <1>1, <1>2, <1>3, <1>4, <1>5, <1>6, <1>7 DEF Next

(* A call of RunTests begins the round of the caller; whatever else        *)
(* happens in a round neither begins nor resumes one.                      *)
LEMMA CallPhase ==
    ASSUME RunsTypeOK, NEW r \in Runs, Begin(r)
    PROVE  /\ phase[r] = "idle" /\ phase'[r] = "testing"
           /\ \A q \in Runs \ {r} : phase'[q] = phase[q]
BY DEF Begin, Enter, RunsTypeOK

LEMMA StepPhase ==
    ASSUME RunsTypeOK, (\E r \in Runs : RunStep(r)) \/ ManagerStep
    PROVE  \A q \in Runs : /\ phase'[q] = "idle" <=> phase[q] = "idle"
                           /\ InProgress(q)' => InProgress(q)
<1> USE DEF InProgress
<1>1. ASSUME NEW r \in Runs, NEW p, Enter(r, p), p # "idle", phase[r] \notin {"idle", "returned"}
      PROVE \A q \in Runs : /\ phase'[q] = "idle" <=> phase[q] = "idle"
                            /\ InProgress(q)' => InProgress(q)
  BY <1>1 DEF Enter, RunsTypeOK
<1>2. ASSUME NEW r \in Runs, RunStep(r)
      PROVE \A q \in Runs : /\ phase'[q] = "idle" <=> phase[q] = "idle"
                            /\ InProgress(q)' => InProgress(q)
  <2>1. CASE \E t \in Targets : TestDone(r, t)
    BY <2>1 DEF TestDone
  <2>2. CASE AllTested(r) \/ Send(r) \/ (\E ok \in BOOLEAN : UploadReturns(r, ok))
    BY <2>2, <1>1 DEF AllTested, Send, UploadReturns
  <2>3. CASE LockCounter(r) \/ Increment(r) \/ Return(r)
    BY <2>3, <1>1 DEF LockCounter, Increment, Return
  <2> QED BY <1>2, <2>1, <2>2, <2>3 DEF RunStep
<1>3. CASE ManagerStep
  BY <1>3 DEF ManagerStep, Record
<1> QED BY <1>2, <1>3

LEMMA ClientTray == ClientInv /\ [Next]_vars => TrayTypeOK'
<1> SUFFICES ASSUME ClientInv, [Next]_vars PROVE TrayTypeOK'
  OBVIOUS
<1>0. TrayTypeOK /\ CallTypeOK
  BY TypeParts DEF ClientInv
<1> USE <1>0 DEF TrayTypeOK, trayVars, schedVars, callVars
<1>1. CASE Boot \/ StartLocked
  BY <1>1 DEF Boot, StartLocked
<1>2. ASSUME NEW r \in Runs, StartupRun(r) PROVE TrayTypeOK'
  BY <1>2 DEF StartupRun
<1>3. CASE StartupDone
  BY <1>3 DEF StartupDone
<1>4. CASE Arm
  BY <1>4 DEF Arm
<1>5. ASSUME NEW r \in Runs, RunNow(r) PROVE TrayTypeOK'
  BY <1>5 DEF RunNow
<1>6. CASE Pause
  BY <1>6 DEF Pause, Stop
<1>7. CASE Resume \/ Quit
  BY <1>7 DEF Resume, Quit
<1>8. CASE OnExit \/ Exit
  BY <1>8 DEF OnExit, Exit, Stop, StopPanics
<1>9. ASSUME NEW i \in Loops, Fire(i) \/ LoopStep(i) PROVE TrayTypeOK'
  BY <1>9 DEF Fire, LoopStep, LoopEnter, LoopTick, LoopEnd
<1>10. ASSUME NEW r \in Runs, ManualRead(r) PROVE TrayTypeOK'
  BY <1>10 DEF ManualRead
<1>11. ASSUME NEW r \in Runs, ManualShow(r) PROVE TrayTypeOK'
  BY <1>11 DEF ManualShow, CallTypeOK
<1>12. CASE UNCHANGED trayVars
  BY <1>12
<1> QED
  BY <1>1, <1>2, <1>3, <1>4, <1>5, <1>6, <1>7, <1>8, <1>9, <1>10, <1>11, <1>12
     DEF Next, Starting, Click, ClientRunStep, ManagerRecords, vars

LEMMA ClientFlags == ClientInv /\ [Next]_vars => FlagTypeOK'
<1> SUFFICES ASSUME ClientInv, [Next]_vars PROVE FlagTypeOK'
  OBVIOUS
<1>0. FlagTypeOK /\ MenuInv
  BY TypeParts DEF ClientInv
<1> USE <1>0 DEF FlagTypeOK, trayVars, schedVars
<1>1. CASE StartLocked
  BY <1>1 DEF StartLocked
<1>2. CASE Arm
  <2>1. app = "up" /\ ~monitored
    BY <1>2 DEF Arm, Alive, MenuInv
  <2> QED BY <1>2, <2>1 DEF Arm, MenuInv, Started
<1>3. CASE Pause \/ OnExit
  BY <1>3 DEF Pause, OnExit, Stop, StopPanics
<1>4. CASE UNCHANGED <<monitored, isRunning, stopClosed, ctxDone, starts>>
  BY <1>4
<1>5. CASE Boot \/ StartupDone \/ Resume \/ Quit \/ Exit \/ ManagerRecords \/ UNCHANGED vars
  BY <1>4, <1>5 DEF Boot, StartupDone, Resume, Quit, Exit, ManagerRecords, vars
<1>6. ASSUME NEW r \in Runs, StartupRun(r) \/ RunNow(r) PROVE FlagTypeOK'
  BY <1>4, <1>6 DEF StartupRun, RunNow
<1>7. ASSUME NEW r \in Runs, ManualRead(r) \/ ManualShow(r) \/ ClientRunStep(r)
      PROVE  FlagTypeOK'
  BY <1>4, <1>7 DEF ManualRead, ManualShow, ClientRunStep
<1>8. ASSUME NEW i \in Loops, Fire(i) \/ LoopStep(i) PROVE FlagTypeOK'
  BY <1>4, <1>8 DEF Fire, LoopStep, LoopEnter, LoopTick, LoopEnd
<1> QED
  BY <1>1, <1>2, <1>3, <1>5, <1>6, <1>7, <1>8 DEF Next, Starting, Click

LEMMA ClientLoops == ClientInv /\ [Next]_vars => LoopTypeOK'
<1> SUFFICES ASSUME ClientInv, [Next]_vars PROVE LoopTypeOK'
  OBVIOUS
<1>0. LoopTypeOK /\ FlagTypeOK /\ FlagTypeOK'
  BY ClientFlags, TypeParts DEF ClientInv
<1> USE <1>0 DEF LoopTypeOK, schedVars
<1>1. CASE Arm
  <2>1. starts' \in Loops
    BY <1>1 DEF Arm, FlagTypeOK, Loops
  <2> QED BY <1>1, <2>1 DEF Arm
<1>2. ASSUME NEW i \in Loops PROVE SeenTicker(i) \subseteq Loops
  BY <1>2 DEF SeenTicker, Loops, FlagTypeOK
<1>3. ASSUME NEW i \in Loops, Fire(i) PROVE LoopTypeOK'
  BY <1>3 DEF Fire
<1>4. ASSUME NEW i \in Loops, LoopEnter(i) PROVE LoopTypeOK'
  BY <1>2, <1>4 DEF LoopEnter
<1>5. ASSUME NEW i \in Loops, NEW r \in Runs, LoopTick(i, r) PROVE LoopTypeOK'
  BY <1>5 DEF LoopTick
<1>6. ASSUME NEW i \in Loops, LoopEnd(i) PROVE LoopTypeOK'
  <2>1. PICK k \in SeenTicker(i) : ticker' = [ticker EXCEPT ![k].on = FALSE]
    BY <1>6 DEF LoopEnd
  <2>2. ticker' \in [Loops -> [on : BOOLEAN, pending : BOOLEAN]]
    BY <1>2, <2>1
  <2> QED BY <1>6, <2>2 DEF LoopEnd
<1>7. CASE UNCHANGED <<ticker, loop, waitsOn>>
  BY <1>7
<1>8. CASE Boot \/ StartLocked \/ StartupDone \/ Click \/ OnExit \/ Exit
  BY <1>7, <1>8 DEF Boot, StartLocked, StartupDone, Click, RunNow, Pause, Resume, Quit,
                    OnExit, Exit
<1>9. ASSUME NEW r \in Runs,
             StartupRun(r) \/ ManualRead(r) \/ ManualShow(r) \/ ClientRunStep(r)
      PROVE  LoopTypeOK'
  BY <1>7, <1>9 DEF StartupRun, ManualRead, ManualShow, ClientRunStep
<1>10. CASE ManagerRecords \/ UNCHANGED vars
  BY <1>7, <1>10 DEF ManagerRecords, vars
<1> QED
  BY <1>1, <1>3, <1>4, <1>5, <1>6, <1>8, <1>9, <1>10 DEF Next, Starting, LoopStep

LEMMA ClientCallers == ClientInv /\ [Next]_vars => CallTypeOK'
<1> SUFFICES ASSUME ClientInv, [Next]_vars PROVE CallTypeOK'
  OBVIOUS
<1>0. CallTypeOK
  BY TypeParts DEF ClientInv
<1> USE <1>0 DEF CallTypeOK, callVars
<1>1. ASSUME NEW r \in Runs, NEW who \in {Startup, Manual} \cup {Loop(i) : i \in Loops},
             Call(r, who), UNCHANGED report
      PROVE  CallTypeOK'
  BY <1>1 DEF Call
<1>2. ASSUME NEW r \in Runs, StartupRun(r) \/ RunNow(r) PROVE CallTypeOK'
  BY <1>1, <1>2 DEF StartupRun, RunNow
<1>3. ASSUME NEW i \in Loops, NEW r \in Runs, LoopTick(i, r) PROVE CallTypeOK'
  BY <1>1, <1>3 DEF LoopTick
<1>4. ASSUME NEW r \in Runs, ManualRead(r) PROVE CallTypeOK'
  BY <1>4 DEF ManualRead
<1>5. ASSUME NEW r \in Runs, ManualShow(r) PROVE CallTypeOK'
  BY <1>5 DEF ManualShow
<1>6. CASE UNCHANGED callVars
  BY <1>6
<1>7. CASE \/ Boot \/ StartLocked \/ StartupDone \/ Arm \/ Pause \/ Resume \/ Quit
           \/ OnExit \/ Exit
  BY <1>6, <1>7 DEF Boot, StartLocked, StartupDone, Arm, Pause, Resume, Quit, OnExit, Exit
<1>8. ASSUME NEW i \in Loops, Fire(i) \/ LoopEnter(i) \/ LoopEnd(i) PROVE CallTypeOK'
  BY <1>6, <1>8 DEF Fire, LoopEnter, LoopEnd
<1>9. CASE (\E r \in Runs : ClientRunStep(r)) \/ ManagerRecords \/ UNCHANGED vars
  BY <1>6, <1>9 DEF ClientRunStep, ManagerRecords, vars
<1> QED
  BY <1>2, <1>3, <1>4, <1>5, <1>7, <1>8, <1>9 DEF Next, Starting, Click, LoopStep

LEMMA ClientType == ClientInv /\ [Next]_vars => TypeOK'
<1>1. ClientInv /\ [Next]_vars => RunsTypeOK'
  BY RunsOfClient, StepType, TypeParts DEF ClientInv
<1>2. (TypeOK <=> RunsTypeOK /\ TrayTypeOK /\ FlagTypeOK /\ LoopTypeOK /\ CallTypeOK)'
  BY TypeParts, PTL
<1> QED BY <1>1, <1>2, ClientTray, ClientFlags, ClientLoops, ClientCallers

LEMMA ClientMenu == ClientInv /\ [Next]_vars => MenuInv'
<1> SUFFICES ASSUME ClientInv, [Next]_vars PROVE MenuInv'
  OBVIOUS
<1>0. FlagTypeOK /\ CallTypeOK /\ MenuInv
  BY TypeParts DEF ClientInv
<1> USE <1>0 DEF FlagTypeOK, MenuInv, trayVars, schedVars, callVars, Alive, Started
<1>1. CASE Boot
  BY <1>1 DEF Boot
<1>2. CASE StartLocked
  BY <1>2 DEF StartLocked
<1>3. ASSUME NEW r \in Runs, StartupRun(r) PROVE MenuInv'
  BY <1>3 DEF StartupRun
<1>4. CASE StartupDone
  BY <1>4 DEF StartupDone
<1>5. CASE Arm
  BY <1>5 DEF Arm
<1>6. ASSUME NEW r \in Runs, RunNow(r) PROVE MenuInv'
  BY <1>6 DEF RunNow
<1>7. CASE Pause
  <2>1. app = "up" /\ isRunning /\ UNCHANGED <<ui, starts>>
    BY <1>7 DEF Pause
  <2>2. CASE stopClosed
    BY <1>7, <2>1, <2>2 DEF Pause, Stop, StopPanics
  <2>3. CASE ~stopClosed
    <3>1. starts = 1 /\ ui = "idle"
      BY <1>7, <2>1, <2>3 DEF Pause
    <3>2. /\ isRunning' = FALSE /\ monitored' = FALSE /\ stopClosed' = TRUE
          /\ title' = "Paused" /\ app' = "up"
      BY <1>7, <2>1, <2>3 DEF Pause, Stop, StopPanics
    <3> QED BY <2>1, <3>1, <3>2
  <2> QED BY <2>2, <2>3
<1>8. CASE Resume \/ Quit
  BY <1>8 DEF Resume, Quit
<1>9. CASE OnExit \/ Exit
  BY <1>9 DEF OnExit, Exit, Stop, StopPanics
<1>10. ASSUME NEW i \in Loops, Fire(i) PROVE MenuInv'
  BY <1>10 DEF Fire
<1>11. ASSUME NEW i \in Loops, LoopStep(i) PROVE MenuInv'
  BY <1>11 DEF LoopStep, LoopEnter, LoopTick, LoopEnd
<1>12. ASSUME NEW r \in Runs, ManualRead(r) PROVE MenuInv'
  BY <1>12 DEF ManualRead
<1>13. ASSUME NEW r \in Runs, ManualShow(r) PROVE MenuInv'
  BY <1>13 DEF ManualShow, CallTypeOK
<1>14. CASE UNCHANGED <<trayVars, schedVars>>
  BY <1>14
<1> QED
  BY <1>1, <1>2, <1>3, <1>4, <1>5, <1>6, <1>7, <1>8, <1>9, <1>10, <1>11, <1>12,
     <1>13, <1>14
     DEF Next, Starting, Click, ClientRunStep, ManagerRecords, vars

(* The menu and the loops stay where they are, or leave a place where they *)
(* had no round in progress.                                               *)
LEMMA CallKept ==
    ASSUME ClientInv, UNCHANGED <<phase, owner>>, starts' >= starts, starts' \in Nat,
           ui = "startupWait" =>
              \/ ui' = ui
              \/ \A r \in Runs : owner[r] = Startup => phase[r] = "returned",
           \A i \in Loops :
              /\ loop[i] = "running" => loop'[i] = "running" \/ LoopRunOver(i)
              /\ loop'[i] # "none" => loop[i] # "none" \/ i <= starts'
    PROVE  CallInv'
<1>1. /\ CallInv /\ starts \in Nat
      /\ \A i \in Loops : i \in Nat
  BY TypeParts DEF ClientInv, FlagTypeOK, Loops
<1>2. \A i \in Loops : loop'[i] # "none" => i <= starts'
  BY <1>1 DEF CallInv
<1>3. \A r \in Runs : InProgress(r)' <=> InProgress(r)
  BY DEF InProgress
<1>4. \A r \in Runs : InProgress(r) => phase[r] # "returned"
  BY DEF InProgress
<1>5. \A r \in Runs : InProgress(r)' /\ owner'[r] = Startup => ui' = "startupWait"
  BY <1>1, <1>3, <1>4 DEF CallInv
<1>6. \A r \in Runs, i \in Loops :
         InProgress(r)' /\ owner'[r] = Loop(i) => loop'[i] = "running"
  BY <1>1, <1>3, <1>4 DEF CallInv, LoopRunOver
<1> QED BY <1>1, <1>2, <1>3, <1>5, <1>6 DEF CallInv

(* A caller that has no round in progress begins one.                      *)
LEMMA CallBegins ==
    ASSUME ClientInv, NEW r \in Runs, NEW who, Call(r, who), who # Nobody,
           \A q \in Runs : InProgress(q) => owner[q] # who \/ who = Manual,
           who = Startup => ui' = "startupWait",
           who # Startup => ui' = ui,
           ui = "startupWait" => ui' = ui,
           UNCHANGED starts,
           \A i \in Loops :
              \/ who # Loop(i) /\ loop'[i] = loop[i]
              \/ who = Loop(i) /\ loop[i] # "none" /\ loop'[i] = "running"
    PROVE  CallInv'
<1>1. /\ phase[r] = "idle" /\ phase'[r] = "testing"
      /\ \A q \in Runs \ {r} : phase'[q] = phase[q]
  BY CallPhase, TypeParts DEF Call, ClientInv
<1>2. owner'[r] = who /\ \A q \in Runs \ {r} : owner'[q] = owner[q]
  BY TypeParts DEF Call, ClientInv, CallTypeOK
<1>3. \A q \in Runs : owner'[q] = Nobody <=> phase'[q] = "idle"
  BY <1>1, <1>2 DEF ClientInv, CallInv
<1>4. \A q \in Runs : InProgress(q)' /\ owner'[q] = Startup => ui' = "startupWait"
  BY <1>1, <1>2 DEF ClientInv, CallInv, InProgress
<1>5. \A q \in Runs, i \in Loops : InProgress(q)' /\ owner'[q] = Loop(i) => loop'[i] = "running"
  BY <1>1, <1>2 DEF ClientInv, CallInv, InProgress
<1>6. \A i \in Loops : loop'[i] # "none" => i <= starts'
  BY DEF ClientInv, CallInv
<1>7. \A q, p \in Runs :
          InProgress(q)' /\ InProgress(p)' /\ owner'[q] = owner'[p] /\ owner'[q] # Manual
          => q = p
  BY <1>1, <1>2 DEF ClientInv, CallInv, InProgress
<1> QED BY <1>3, <1>4, <1>5, <1>6, <1>7 DEF CallInv, InProgress, Loop, Nobody, Startup, Manual

LEMMA ClientCall == ClientInv /\ [Next]_vars => CallInv'
<1> SUFFICES ASSUME ClientInv, [Next]_vars PROVE CallInv'
  OBVIOUS
<1>0. /\ RunsTypeOK /\ FlagTypeOK /\ LoopTypeOK /\ CallTypeOK /\ MenuInv /\ CallInv
      /\ starts \in Nat /\ starts >= starts
  BY TypeParts DEF ClientInv, FlagTypeOK
<1> USE DEF trayVars, schedVars, callVars
<1>1. CASE Boot \/ StartLocked \/ StartupDone \/ Pause \/ Resume \/ Quit \/ OnExit \/ Exit
  <2>1. /\ UNCHANGED <<phase, owner, starts, loop>>
        /\ ui = "startupWait" =>
              \/ ui' = ui
              \/ \A r \in Runs : owner[r] = Startup => phase[r] = "returned"
    BY <1>0, <1>1
       DEF Boot, StartLocked, StartupDone, Pause, Resume, Quit, OnExit, Exit, runVars, MenuInv
  <2> QED BY <1>0, <2>1, CallKept
<1>2. CASE Arm
  <2>1. /\ UNCHANGED <<phase, owner>> /\ ui # "startupWait"
        /\ starts' \in Nat /\ starts' >= starts
        /\ \A i \in Loops : loop'[i] = loop[i] \/ i <= starts'
    BY <1>0, <1>2 DEF Arm, runVars, callVars, FlagTypeOK, LoopTypeOK, Loops
  <2>2. \A i \in Loops : loop[i] = "running" => loop'[i] = "running" \/ LoopRunOver(i)
    BY <1>0, <1>2 DEF Arm, LoopTypeOK, FlagTypeOK, CallInv, Loops
  <2> QED BY <2>1, <2>2, CallKept
<1>3. ASSUME NEW i \in Loops, Fire(i) \/ LoopEnter(i) \/ LoopEnd(i) PROVE CallInv'
  <2>1. UNCHANGED <<phase, owner, starts, ui>>
    BY <1>3 DEF Fire, LoopEnter, LoopEnd, runVars
  <2>2. \A k \in Loops :
           /\ loop[k] = "running" => loop'[k] = "running" \/ LoopRunOver(k)
           /\ loop'[k] # "none" => loop[k] # "none" \/ k <= starts'
    BY <1>0, <1>3 DEF Fire, LoopEnter, LoopEnd, LoopTypeOK
  <2> QED BY <1>0, <2>1, <2>2, CallKept
<1>4. ASSUME NEW r \in Runs, StartupRun(r) PROVE CallInv'
  <2>1. \A q \in Runs : InProgress(q) => owner[q] # Startup
    BY <1>0, <1>4 DEF StartupRun, CallInv
  <2> QED BY <1>4, <2>1, CallBegins DEF StartupRun, Startup, Nobody, Loop
<1>5. ASSUME NEW r \in Runs, RunNow(r) PROVE CallInv'
  <2>1. Manual # Nobody /\ Manual # Startup /\ \A i \in Loops : Manual # Loop(i)
    BY DEF Manual, Nobody, Startup, Loop
  <2>2. Call(r, Manual) /\ UNCHANGED <<ui, starts, loop>>
    BY <1>5 DEF RunNow
  <2> QED BY <2>1, <2>2, CallBegins
<1>6. ASSUME NEW i \in Loops, NEW r \in Runs, LoopTick(i, r) PROVE CallInv'
  <2>1. \A q \in Runs : InProgress(q) => owner[q] # Loop(i)
    BY <1>0, <1>6 DEF LoopTick, CallInv
  <2>2. \A k \in Loops :
           \/ Loop(i) # Loop(k) /\ loop'[k] = loop[k]
           \/ Loop(i) = Loop(k) /\ loop[k] # "none" /\ loop'[k] = "running"
    BY <1>0, <1>6 DEF LoopTick, LoopTypeOK, Loop
  <2>3. Loop(i) # Nobody /\ Loop(i) # Startup
    BY DEF Loop, Nobody, Startup
  <2> QED BY <1>6, <2>1, <2>2, <2>3, CallBegins DEF LoopTick
<1>7. ASSUME NEW r \in Runs, ManualRead(r) \/ ManualShow(r) PROVE CallInv'
  BY <1>0, <1>7, CallKept DEF ManualRead, ManualShow, runVars
<1>8. CASE ManagerRecords \/ \E r \in Runs : ClientRunStep(r)
  <2>1. \A q \in Runs : /\ phase'[q] = "idle" <=> phase[q] = "idle"
                        /\ InProgress(q)' => InProgress(q)
    BY <1>0, <1>8, StepPhase DEF ManagerRecords, ClientRunStep
  <2>2. UNCHANGED <<ui, owner, loop, starts>>
    BY <1>8 DEF ManagerRecords, ClientRunStep
  <2> QED BY <1>0, <2>1, <2>2 DEF CallInv
<1>9. CASE UNCHANGED vars
  BY <1>0, <1>9, CallKept DEF vars, runVars
<1> QED
  BY <1>1, <1>2, <1>3, <1>4, <1>5, <1>6, <1>7, <1>8, <1>9
     DEF Next, Starting, Click, LoopStep

THEOREM ClientCorrect == Spec => []ClientInv
<1>1. ClientInv /\ [Next]_vars => ClientInv'
  BY ClientType, ClientMenu, ClientCall DEF ClientInv
<1> QED BY ClientStart, <1>1, PTL DEF Spec

(* Type correctness of the whole client: a third ticker is never made.     *)
THEOREM ClientTypes == Spec => []TypeOK
<1>1. ClientInv => TypeOK
  BY DEF ClientInv
<1> QED BY ClientCorrect, <1>1, PTL

(* The menu and the scheduler never disagree about whether it runs.        *)
THEOREM MenuCorrect == Spec => []MenuAgreesWithScheduler
<1>1. ClientInv => MenuAgreesWithScheduler
  BY TypeParts DEF ClientInv, FlagTypeOK, MenuInv, MenuAgreesWithScheduler
<1> QED BY ClientCorrect, <1>1, PTL

(* Scheduled rounds do not overlap before the first pause: until then      *)
(* there is one ticker, so one loop, and the round at start-up is over     *)
(* when the loop begins.                                                   *)
THEOREM SerialCorrect == Spec => []ScheduledRunsSerial
<1>1. ClientInv => ScheduledRunsSerial
  <2> SUFFICES ASSUME ClientInv, ~stopClosed, NEW r \in Runs, NEW q \in Runs,
                      InProgress(r), owner[r] # Manual,
                      InProgress(q), owner[q] # Manual
               PROVE  r = q
    BY DEF ScheduledRunsSerial
  <2>1. \A p \in Runs : InProgress(p) /\ owner[p] # Manual =>
           owner[p] = Startup \/ \E i \in Loops : owner[p] = Loop(i)
    <3>1. CallTypeOK /\ CallInv
      BY TypeParts DEF ClientInv
    <3>2. \A p \in Runs : owner[p] \in {Nobody, Startup, Manual} \cup {Loop(i) : i \in Loops}
      BY <3>1 DEF CallTypeOK
    <3>3. \A p \in Runs : InProgress(p) => owner[p] # Nobody
      BY <3>1 DEF CallInv, InProgress
    <3> QED BY <3>2, <3>3
  <2>2. \A p \in Runs, i \in Loops : InProgress(p) /\ owner[p] = Loop(i) =>
           i = 1 /\ starts = 1
    BY TypeParts DEF ClientInv, FlagTypeOK, CallInv, MenuInv, Loops
  <2>3. \A p \in Runs : InProgress(p) /\ owner[p] = Startup => starts = 0
    <3>1. TrayTypeOK /\ MenuInv /\ CallInv
      BY TypeParts DEF ClientInv
    <3>2. \A p \in Runs : InProgress(p) /\ owner[p] = Startup => ui = "startupWait"
      BY <3>1 DEF CallInv
    <3>3. ui = "startupWait" => app = "up" /\ ~monitored
      BY <3>1 DEF TrayTypeOK, MenuInv
    <3>4. app = "up" /\ ~monitored => starts = 0
      BY <3>1 DEF MenuInv, Started
    <3> QED BY <3>2, <3>3, <3>4
  <2>4. owner[r] = owner[q]
    BY <2>1, <2>2, <2>3
  <2> QED BY <2>4 DEF ClientInv, CallInv
<1> QED BY ClientCorrect, <1>1, PTL

(* A loop ends through the stop channel or the context only, and the       *)
(* context is cancelled by the exit of the process.                        *)
LoopInv ==
    /\ ctxDone => app \in {"leaving", "exited"}
    /\ ~stopClosed /\ ~ctxDone => \A i \in Loops : i <= starts => Live(i)

LEMMA ClientLoopsLive == ClientInv /\ LoopInv /\ [Next]_vars => LoopInv'
<1> SUFFICES ASSUME ClientInv, LoopInv, [Next]_vars PROVE LoopInv'
  OBVIOUS
<1>0. TrayTypeOK /\ FlagTypeOK /\ LoopTypeOK /\ MenuInv
  BY TypeParts DEF ClientInv
<1> USE DEF LoopInv, Live, Alive, trayVars, schedVars
<1>1. CASE Arm
  <2>1. app = "up" /\ ~monitored /\ starts' = starts + 1
    BY <1>0, <1>1 DEF Arm, MenuInv
  <2>2. loop' = [loop EXCEPT ![starts'] = "entering"]
    BY <1>1 DEF Arm
  <2>3. /\ ~ctxDone' /\ stopClosed' = stopClosed
        /\ ~stopClosed => \A i \in Loops : i <= starts' => Live(i)'
    BY <1>0, <1>1, <2>1, <2>2 DEF Arm, FlagTypeOK, LoopTypeOK, Loops
  <2> QED BY <2>3
<1>2. CASE Pause \/ OnExit \/ Exit
  <2>1. UNCHANGED <<loop, starts>> /\ (stopClosed => stopClosed')
    BY <1>0, <1>2 DEF Pause, OnExit, Exit, Stop, FlagTypeOK
  <2>2. CASE Pause
    <3>1. app = "up" /\ UNCHANGED ctxDone
      BY <1>0, <2>2 DEF Pause, MenuInv
    <3> QED BY <2>1, <3>1
  <2>3. CASE OnExit
    <3>1. ~ctxDone /\ (ctxDone' => app' = "leaving")
      BY <2>3 DEF OnExit
    <3> QED BY <2>1, <3>1
  <2>4. CASE Exit
    BY <2>1, <2>4 DEF Exit
  <2> QED BY <1>2, <2>2, <2>3, <2>4
<1>3. ASSUME NEW i \in Loops, LoopEnter(i) PROVE LoopInv'
  BY <1>0, <1>3 DEF LoopEnter, LoopTypeOK
<1>4. ASSUME NEW i \in Loops, NEW r \in Runs, LoopTick(i, r) PROVE LoopInv'
  BY <1>0, <1>4 DEF LoopTick, LoopTypeOK
<1>5. ASSUME NEW i \in Loops, LoopEnd(i) PROVE LoopInv'
  BY <1>5 DEF LoopEnd
<1>6. CASE UNCHANGED <<app, ctxDone, stopClosed, starts, loop>>
  BY <1>6
<1>7. CASE Boot \/ StartLocked \/ StartupDone \/ Resume
  BY <1>6, <1>7 DEF Boot, StartLocked, StartupDone, Resume
<1>8. CASE Quit
  BY <1>0, <1>8 DEF Quit, MenuInv
<1>9. ASSUME NEW r \in Runs,
             \/ StartupRun(r) \/ RunNow(r)
             \/ ManualRead(r) \/ ManualShow(r) \/ ClientRunStep(r)
      PROVE  LoopInv'
  BY <1>6, <1>9 DEF StartupRun, RunNow, ManualRead, ManualShow, ClientRunStep
<1>10. ASSUME NEW i \in Loops, Fire(i) PROVE LoopInv'
  BY <1>6, <1>10 DEF Fire
<1>11. CASE ManagerRecords \/ UNCHANGED vars
  BY <1>6, <1>11 DEF ManagerRecords, vars
<1> QED
  BY <1>1, <1>2, <1>3, <1>4, <1>5, <1>7, <1>8, <1>9, <1>10, <1>11
     DEF Next, Starting, Click, LoopStep

(* Monitoring means that a loop waits or works, up to the first stop: the  *)
(* fault after a resume is the closed channel's alone.                     *)
THEOREM MonitoredCorrect == Spec => []MonitoredUntilStopped
<1>1. Init => LoopInv
  BY DEF Init, LoopInv, Loops
<1>2. ClientInv /\ LoopInv => MonitoredUntilStopped
  <2> SUFFICES ASSUME ClientInv, LoopInv, ~stopClosed,
                      app = "up", ui = "idle", monitored
               PROVE  \E i \in Loops : Live(i)
    BY DEF MonitoredUntilStopped, MonitoringHasLoop
  <2>1. starts = 1 /\ ~ctxDone
    BY DEF ClientInv, MenuInv, LoopInv, Started
  <2> QED BY <2>1 DEF LoopInv, Loops
<1> QED BY ClientCorrect, ClientLoopsLive, <1>1, <1>2, PTL DEF Spec

(* The whole client behaves towards the manager and its counters as its    *)
(* rounds do: what is proved of them above holds of it, whatever is        *)
(* clicked, and so does the ledger.                                        *)
THEOREM ClientRounds == Spec => RunsSpec
<1>1. Init => RunsInit
  BY DEF Init
<1> QED BY <1>1, RunsOfClient, PTL DEF Spec, RunsSpec

COROLLARY ClientLedger == Spec => LedgerSpec
BY ClientRounds, Refinement
=============================================================================
