------------------------------ MODULE RunLedger -----------------------------
(***************************************************************************)
(* The abstract specification of a round of tests of the Go client: every  *)
(* run measures each target once; when all of its targets are measured it  *)
(* enters each result in the ledger once, as accepted or rejected, and the *)
(* two counters move in step with the ledger; it finishes when all of its  *)
(* results are entered.  TestRuns implements it.                           *)
(***************************************************************************)
EXTENDS Naturals, FiniteSets

CONSTANTS Runs, Targets

VARIABLES
    state,          \* idle, active or finished
    measured,       \* targets of each run that have been measured
    tally,          \* the ledger
    successCount,
    failureCount

ledgerVars == <<state, measured, tally, successCount, failureCount>>

Init ==
    /\ state = [r \in Runs |-> "idle"]
    /\ measured = [r \in Runs |-> {}]
    /\ tally = [r \in Runs |-> [t \in Targets |-> "none"]]
    /\ successCount = 0
    /\ failureCount = 0

Start(r) ==
    /\ state[r] = "idle"
    /\ state' = [state EXCEPT ![r] = "active"]
    /\ UNCHANGED <<measured, tally, successCount, failureCount>>

Measure(r, t) ==
    /\ state[r] = "active"
    /\ t \notin measured[r]
    /\ measured' = [measured EXCEPT ![r] = @ \cup {t}]
    /\ UNCHANGED <<state, tally, successCount, failureCount>>

Account(r, t, ok) ==
    /\ state[r] = "active"
    /\ measured[r] = Targets
    /\ tally[r][t] = "none"
    /\ tally' = [tally EXCEPT ![r][t] = IF ok THEN "accepted" ELSE "rejected"]
    /\ successCount' = IF ok THEN successCount + 1 ELSE successCount
    /\ failureCount' = IF ok THEN failureCount ELSE failureCount + 1
    /\ UNCHANGED <<state, measured>>

Finish(r) ==
    /\ state[r] = "active"
    /\ \A t \in Targets : tally[r][t] # "none"
    /\ state' = [state EXCEPT ![r] = "finished"]
    /\ UNCHANGED <<measured, tally, successCount, failureCount>>

Next ==
    \E r \in Runs :
        \/ Start(r)
        \/ Finish(r)
        \/ \E t \in Targets :
              Measure(r, t) \/ \E ok \in BOOLEAN : Account(r, t, ok)

Spec == Init /\ [][Next]_ledgerVars
=============================================================================
