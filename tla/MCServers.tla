------------------------------ MODULE MCServers ------------------------------
(* A small instance of the parts of the servers that share no row: the     *)
(* enrolment and the users of the unified API, the accounts of the manager *)
(* and the testServer.  They are explored side by side: a behaviour is one *)
(* of one part, and the others stay in one of their initial states.        *)
EXTENDS UnifiedEnrollment, TestServer, UserRoles, ManagerAccounts, TLC

VARIABLE part    \* the part whose behaviour this is

all == <<part, vars, serverVars, roleVars, accountVars>>

InEnrollment(A) ==
    part = "enrollment" /\ A /\ UNCHANGED <<part, serverVars, roleVars, accountVars>>
InTestServer(A) ==
    part = "testServer" /\ A /\ UNCHANGED <<part, vars, roleVars, accountVars>>
InRoles(A) ==
    part = "roles" /\ A /\ UNCHANGED <<part, vars, serverVars, accountVars>>
InAccounts(A) ==
    part = "accounts" /\ A /\ UNCHANGED <<part, vars, serverVars, roleVars>>

ServersInit ==
    /\ part \in {"enrollment", "testServer", "roles", "accounts"}
    /\ Init /\ ServerInit /\ RolesInit /\ AccountsInit
    /\ part # "enrollment" => \E s \in Secrets :
          /\ uses = [q \in Requests |-> s] /\ id = [q \in Requests |-> q]
    /\ part # "testServer" => \A c \in Calls : kind[c] = "trace"

ServersNext ==
    \/ InEnrollment(Next) \/ InTestServer(ServerNext)
    \/ InRoles(RolesNext) \/ InAccounts(AccountsNext)

ServersSpec == ServersInit /\ [][ServersNext]_all

Symmetry == Permutations(Requests) \cup Permutations(Secrets)
=============================================================================
