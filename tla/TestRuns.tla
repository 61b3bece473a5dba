------------------------------ MODULE TestRuns ------------------------------
(***************************************************************************)
(* Scheduler.RunTests of the Go desktop client (goClient), together with   *)
(* Uploader.UploadResult and the manager that receives the results.        *)
(*                                                                         *)
(* RunTests may be executing several times at once: the scheduler loop,    *)
(* the "Run Tests Now" menu item and the run on startup all call it.  A    *)
(* call is a member of Runs.  It starts one goroutine per enabled target,  *)
(* collects one result from each, waits for all of them, and then uploads  *)
(* the results one after the other, counting successes and failures under  *)
(* the scheduler's mutex.                                                  *)
(*                                                                         *)
(* A measurement (internal/protocols) that ends yields a result: an error  *)
(* becomes a result with success = false.  The result is thus named by the *)
(* target it belongs to.  All measurements but one are bounded by a        *)
(* timeout: ssh.Dial applies its Timeout to the TCP connection only, so a  *)
(* peer that accepts the connection and then says nothing keeps a test of  *)
(* protocol "ssh" waiting for ever.                                        *)
(***************************************************************************)
EXTENDS Naturals, Sequences, FiniteSets

CONSTANTS
    Runs,      \* the calls of RunTests (bounds how many are made)
    Targets,   \* the enabled (protocol, target) pairs of the configuration
    Unbounded, \* those whose protocol is ssh: their test may never end
    NoRun      \* nobody: the mutex is free, no run has started yet

ASSUME RunsAssumption ==
    /\ IsFiniteSet(Runs)
    /\ IsFiniteSet(Targets)
    /\ Unbounded \subseteq Targets
    /\ NoRun \notin Runs

VARIABLES
    phase,         \* where each call of RunTests is
    testing,       \* test goroutines of the call that have not called wg.Done
    results,       \* the slice of collected results, in completion order
    next,          \* index of the result the upload loop is at
    verdict,       \* UploadResult returned nil for that result
    read,          \* the counter's value as read inside the critical section
    mu,            \* holder of Scheduler.mu
    successCount,
    failureCount,
    lastRun,       \* the call whose start lastRunTime records
    wire,          \* upload requests on their way to the manager
    stored,        \* copies of each result the manager has recorded
    tally          \* history: how each result was counted

runVars == <<phase, testing, results, next, verdict, read, mu, successCount,
             failureCount, lastRun, wire, stored, tally>>

Phases == {"idle", "testing", "uploading", "awaiting", "counting",
           "incrementing", "returned"}

RunsTypeOK ==
    /\ phase \in [Runs -> Phases]
    /\ testing \in [Runs -> SUBSET Targets]
    /\ results \in [Runs -> Seq(Targets)]
    /\ next \in [Runs -> Nat \ {0}]
    /\ verdict \in [Runs -> BOOLEAN]
    /\ read \in [Runs -> Nat]
    /\ mu \in Runs \cup {NoRun}
    /\ successCount \in Nat
    /\ failureCount \in Nat
    /\ lastRun \in Runs \cup {NoRun}
    /\ wire \subseteq Runs \X Targets
    /\ stored \in [Runs -> [Targets -> Nat]]
    /\ tally \in [Runs -> [Targets -> {"none", "accepted", "rejected"}]]

RunsInit ==
    /\ phase = [r \in Runs |-> "idle"]
    /\ testing = [r \in Runs |-> {}]
    /\ results = [r \in Runs |-> <<>>]
    /\ next = [r \in Runs |-> 1]
    /\ verdict = [r \in Runs |-> FALSE]
    /\ read = [r \in Runs |-> 0]
    /\ mu = NoRun
    /\ successCount = 0
    /\ failureCount = 0
    /\ lastRun = NoRun
    /\ wire = {}
    /\ stored = [r \in Runs |-> [t \in Targets |-> 0]]
    /\ tally = [r \in Runs |-> [t \in Targets |-> "none"]]

-----------------------------------------------------------------------------
(* The result that the upload loop of call r is at.                        *)
Current(r) == results[r][next[r]]

Enter(r, p) == phase' = [phase EXCEPT ![r] = p]

(* RunTests is called: the start time is recorded under the mutex and one  *)
(* goroutine per enabled target is started.                                *)
Begin(r) ==
    /\ phase[r] = "idle"
    /\ mu = NoRun
    /\ lastRun' = r
    /\ testing' = [testing EXCEPT ![r] = Targets]
    /\ Enter(r, "testing")
    /\ UNCHANGED <<results, next, verdict, read, mu, successCount,
                   failureCount, wire, stored, tally>>

(* A test goroutine finishes: it appends its result under resultsMu and    *)
(* its deferred wg.Done runs.                                              *)
TestDone(r, t) ==
    /\ phase[r] = "testing"
    /\ t \in testing[r]
    /\ results' = [results EXCEPT ![r] = Append(@, t)]
    /\ testing' = [testing EXCEPT ![r] = @ \ {t}]
    /\ UNCHANGED <<phase, next, verdict, read, mu, successCount,
                   failureCount, lastRun, wire, stored, tally>>

(* Mutant: the uploads start without waiting for the tests.                *)
AllTestedNoWait(r) ==
    /\ phase[r] = "testing"
    /\ Enter(r, "uploading")
    /\ UNCHANGED <<testing, results, next, verdict, read, mu, successCount,
                   failureCount, lastRun, wire, stored, tally>>

(* wg.Wait returns.                                                        *)
AllTested(r) ==
    /\ phase[r] = "testing"
    /\ testing[r] = {}
    /\ Enter(r, "uploading")
    /\ UNCHANGED <<testing, results, next, verdict, read, mu, successCount,
                   failureCount, lastRun, wire, stored, tally>>

(* UploadResult sends the POST request for the next result.                *)
Send(r) ==
    /\ phase[r] = "uploading"
    /\ next[r] <= Len(results[r])
    /\ wire' = wire \cup {<<r, Current(r)>>}
    /\ Enter(r, "awaiting")
    /\ UNCHANGED <<testing, results, next, verdict, read, mu, successCount,
                   failureCount, lastRun, stored, tally>>

(* The manager records a result.  A request that is refused or lost simply *)
(* stays on the wire; one that is slow may be recorded after the client's  *)
(* 30 second timeout.                                                      *)
Record(r, t) ==
    /\ <<r, t>> \in wire
    /\ wire' = wire \ {<<r, t>>}
    /\ stored' = [stored EXCEPT ![r][t] = @ + 1]
    /\ UNCHANGED <<phase, testing, results, next, verdict, read, mu,
                   successCount, failureCount, lastRun, tally>>

(* UploadResult returns: nil only for a 2xx answer, which the manager      *)
(* gives after recording the result; an error for any other answer, a lost *)
(* request, a lost answer or a timeout.                                    *)
UploadReturns(r, ok) ==
    /\ phase[r] = "awaiting"
    /\ ok => stored[r][Current(r)] > 0
    /\ verdict' = [verdict EXCEPT ![r] = ok]
    /\ Enter(r, "counting")
    /\ UNCHANGED <<testing, results, next, read, mu, successCount,
                   failureCount, lastRun, wire, stored, tally>>

(* Mutant: the counters are incremented without the mutex.                 *)
LockCounterUnlocked(r) ==
    /\ phase[r] = "counting"
    /\ read' = [read EXCEPT ![r] = IF verdict[r] THEN successCount
                                                 ELSE failureCount]
    /\ Enter(r, "incrementing")
    /\ UNCHANGED <<testing, results, next, verdict, mu, successCount,
                   failureCount, lastRun, wire, stored, tally>>

(* s.mu.Lock, and the load half of successCount++ or failureCount++.       *)
LockCounter(r) ==
    /\ phase[r] = "counting"
    /\ mu = NoRun
    /\ mu' = r
    /\ read' = [read EXCEPT ![r] = IF verdict[r] THEN successCount
                                                 ELSE failureCount]
    /\ Enter(r, "incrementing")
    /\ UNCHANGED <<testing, results, next, verdict, successCount,
                   failureCount, lastRun, wire, stored, tally>>

(* The store half of the increment of the counter for the current result.  *)
CountResult(r) ==
    \/ /\ verdict[r]
       /\ successCount' = read[r] + 1
       /\ tally' = [tally EXCEPT ![r][Current(r)] = "accepted"]
       /\ UNCHANGED failureCount
    \/ /\ ~verdict[r]
       /\ failureCount' = read[r] + 1
       /\ tally' = [tally EXCEPT ![r][Current(r)] = "rejected"]
       /\ UNCHANGED successCount

(* Mutant: an early return between Lock and Unlock.                        *)
IncrementKeepsLock(r) ==
    /\ phase[r] = "incrementing"
    /\ CountResult(r)
    /\ next' = [next EXCEPT ![r] = @ + 1]
    /\ Enter(r, "uploading")
    /\ UNCHANGED <<testing, results, verdict, read, mu, lastRun, wire, stored>>

(* Mutant: a failed upload is tried again.                                 *)
IncrementRetries(r) ==
    /\ phase[r] = "incrementing"
    /\ CountResult(r)
    /\ mu' = NoRun
    /\ next' = [next EXCEPT ![r] = IF verdict[r] THEN @ + 1 ELSE @]
    /\ Enter(r, "uploading")
    /\ UNCHANGED <<testing, results, verdict, read, lastRun, wire, stored>>

(* The store half, s.mu.Unlock, and on to the next result.                 *)
Increment(r) ==
    /\ phase[r] = "incrementing"
    /\ CountResult(r)
    /\ mu' = NoRun
    /\ next' = [next EXCEPT ![r] = @ + 1]
    /\ Enter(r, "uploading")
    /\ UNCHANGED <<testing, results, verdict, read, lastRun, wire, stored>>

(* RunTests returns.                                                       *)
Return(r) ==
    /\ phase[r] = "uploading"
    /\ next[r] > Len(results[r])
    /\ Enter(r, "returned")
    /\ UNCHANGED <<testing, results, next, verdict, read, mu, successCount,
                   failureCount, lastRun, wire, stored, tally>>

-----------------------------------------------------------------------------
(* What a call does on its own once it has begun.                          *)
RunStep(r) ==
    \/ \E t \in Targets : TestDone(r, t)
    \/ AllTested(r)
    \/ Send(r)
    \/ \E ok \in BOOLEAN : UploadReturns(r, ok)
    \/ LockCounter(r)
    \/ Increment(r)
    \/ Return(r)

ManagerStep == \E r \in Runs, t \in Targets : Record(r, t)

RunsNext ==
    \/ \E r \in Runs : Begin(r) \/ RunStep(r)
    \/ ManagerStep

RunsSpec == RunsInit /\ [][RunsNext]_runVars

(* What a call is bound to do some day: the measurements that have a       *)
(* timeout end, the upload has one (30 s), and the mutex is never held     *)
(* across a blocking call.  The tests in Unbounded may end or hang, and    *)
(* nothing is assumed of the manager.                                      *)
BoundedStep(r) == RunStep(r) /\ ~\E t \in Unbounded : TestDone(r, t)

FairRunsSpec == RunsSpec /\ \A r \in Runs : WF_runVars(BoundedStep(r))

-----------------------------------------------------------------------------
Tallied(v) ==
    {p \in Runs \X Targets : tally[p[1]][p[2]] = v}

(* The two counters GetStats reports are exact, however the uploads of     *)
(* overlapping runs interleave: no increment is lost or made twice.        *)
CountersExact ==
    /\ successCount = Cardinality(Tallied("accepted"))
    /\ failureCount = Cardinality(Tallied("rejected"))

(* When RunTests returns, every enabled target has been measured and its   *)
(* result has been uploaded and counted: the appends of concurrent test    *)
(* goroutines and the wait for them lose nothing.                          *)
EveryTargetCounted ==
    \A r \in Runs : phase[r] = "returned" =>
        \A t \in Targets : tally[r][t] # "none"

(* A result that was counted as a success is at the manager, and no result *)
(* is there twice: the client never repeats an upload whose answer it      *)
(* missed.                                                                 *)
ManagerAgrees ==
    \A r \in Runs, t \in Targets :
        /\ stored[r][t] <= 1
        /\ tally[r][t] = "accepted" => stored[r][t] = 1

(* wg.Wait waits for nothing but tests that no timeout bounds.             *)
HeldUp(r) ==
    /\ phase[r] = "testing"
    /\ testing[r] # {} /\ testing[r] \subseteq Unbounded

(* Every run that has begun returns, whatever the manager does and however *)
(* runs overlap, unless the peer of an ssh test keeps silent for ever; the *)
(* run has by then collected every other result, but uploads none.         *)
EveryRunReturns ==
    \A r \in Runs :
        phase[r] = "testing" ~> (phase[r] = "returned" \/ []HeldUp(r))

(* How many steps of its own a call still makes: each target takes one to  *)
(* be measured and four to be uploaded and counted, and the call itself    *)
(* begins, stops waiting for its tests, and returns.                       *)
StepsLeft(r) ==
    4 * (Len(results[r]) - next[r]) +
    CASE phase[r] = "idle" -> 5 * Cardinality(Targets) + 7
      [] phase[r] = "testing" -> 5 * Cardinality(testing[r]) + 6
      [] phase[r] = "uploading" -> 5
      [] phase[r] = "counting" -> 3
      [] phase[r] = "incrementing" -> 2
      [] OTHER -> 4

StepsCounted ==
    \A r \in Runs : /\ StepsLeft(r) \in Nat
                    /\ StepsLeft(r) = 0 <=> phase[r] = "returned"

(* Every step of a call brings it nearer to its end, and nothing that      *)
(* other calls or the manager do brings it further away: an upload is      *)
(* never repeated, a test never waited for again.                          *)
RoundsCountDown ==
    [][\A r \in Runs :
          StepsLeft(r)' = IF Begin(r) \/ RunStep(r) THEN StepsLeft(r) - 1
                                                   ELSE StepsLeft(r)]_runVars

-----------------------------------------------------------------------------
(* What RunTests promises, without slices, requests and mutex: RunLedger.  *)
LedgerState == [r \in Runs |->
    IF phase[r] = "idle" THEN "idle"
    ELSE IF phase[r] = "returned" THEN "finished" ELSE "active"]

LedgerMeasured == [r \in Runs |->
    IF phase[r] = "idle" THEN {} ELSE Targets \ testing[r]]

Ledger == INSTANCE RunLedger
            WITH state <- LedgerState, measured <- LedgerMeasured

LedgerSpec == Ledger!Spec
=============================================================================
