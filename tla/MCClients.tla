------------------------------ MODULE MCClients ------------------------------
(* A small instance of the rounds of tests of the Go client, and of the    *)
(* probes and the loops of the container client.  They share no state and  *)
(* are explored side by side: a behaviour is one of one part, and the      *)
(* others stay in one of their initial states.                             *)
EXTENDS TestRuns, Probes, ContainerClient

(* One target for a test that may never end, two for the others.           *)
TargetsOfLoops == [l \in Loops |-> IF l \in Endless THEN 1 ELSE 2]

VARIABLE part    \* the part whose behaviour this is

all == <<part, runVars, vars, containerVars>>

InRuns(A) == part = "runs" /\ A /\ UNCHANGED <<part, vars, containerVars>>
InProbes(A) == part = "probes" /\ A /\ UNCHANGED <<part, runVars, containerVars>>
InContainer(A) == part = "container" /\ A /\ UNCHANGED <<part, runVars, vars>>

ClientsInit ==
    /\ part \in {"runs", "probes", "container"}
    /\ RunsInit /\ Init /\ ContainerInit
    /\ part # "probes" => kind = "icmp" /\ noisy
    /\ part # "container" => hasPassword /\ access = 0 /\ refresh = 0

ClientsNext == InRuns(RunsNext) \/ InProbes(Next) \/ InContainer(ContainerNext)

ClientsFairness ==
    /\ \A r \in Runs : WF_all(InRuns(BoundedStep(r)))
    /\ WF_all(InProbes(TestStep))
    /\ \A l \in Loops : WF_all(InContainer(LoopStep(l)))
    /\ \A l \in Loops \ Endless : WF_all(InContainer(LoopTestDone(l)))

ClientsSpec == ClientsInit /\ [][ClientsNext]_all /\ ClientsFairness
=============================================================================
