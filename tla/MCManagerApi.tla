---------------------------- MODULE MCManagerApi ----------------------------
(* A small instance of two parts of the manager's API, which share no row, *)
(* and of the logins of its pages.  They are explored side by side: a      *)
(* behaviour is one of one part, and the others stay in one of their       *)
(* initial states.                                                         *)
EXTENDS ManagerEnrollment, ManagerConfig, ManagerSession, TLC

VARIABLE part    \* the part whose behaviour this is

all == <<part, vars, configVars, managerVars>>

InEnrollment(A) == part = "enrollment" /\ A /\ UNCHANGED <<part, configVars, managerVars>>
InConfig(A) == part = "config" /\ A /\ UNCHANGED <<part, vars, managerVars>>
InSession(A) == part = "session" /\ A /\ UNCHANGED <<part, vars, configVars>>

ApiInit ==
    /\ part \in {"enrollment", "config", "session"}
    /\ Init /\ ConfigInit /\ ManagerInit
    /\ part # "enrollment" => \E s \in Secrets, d \in Serials, o \in OUs :
          /\ names = [q \in Requests |-> s] /\ serial = [q \in Requests |-> d]
          /\ \A r \in Secrets : secret[r].ou = o
          /\ device[d].ou = o /\ device[d].secret = s
    /\ part # "config" => \E v \in Users :
          /\ target = [u \in Updates |-> Default]
          /\ author = [u \in Updates |-> v]

ApiNext == InEnrollment(Next) \/ InConfig(ConfigNext) \/ InSession(ManagerNext)

ApiSpec == ApiInit /\ [][ApiNext]_all

Symmetry ==
    Permutations(Requests) \cup Permutations(Secrets) \cup Permutations(Serials)
        \cup Permutations(OUs) \cup Permutations(Users) \cup Permutations(Tabs)
=============================================================================
