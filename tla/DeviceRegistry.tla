--------------------------- MODULE DeviceRegistry ---------------------------
(***************************************************************************)
(* What the enrolment of devices promises: an atomic registry.  A request  *)
(* is admitted while the secret it presents is in force, and a secret that *)
(* is revoked is so for good.  The unit of a device is set once, by an     *)
(* admitted request, to the unit of its secret; whoever is told a unit is  *)
(* told that one.  ManagerEnrollment implements it.                        *)
(***************************************************************************)
CONSTANTS Requests, Secrets, Serials, OUs, NoOU

VARIABLES
    offer,       \* what each request presents; it never changes
    force,       \* of each secret: unissued, valid or revoked
    admitted,    \* the requests that were admitted
    unit,        \* the unit of each device, NoOU before its enrolment
    told         \* the unit each request was answered with

registryVars == <<offer, force, admitted, unit, told>>

Offers == [serial : Serials, secret : Secrets, unit : OUs]

Init ==
    /\ offer \in [Requests -> Offers]
    /\ force = [s \in Secrets |-> "unissued"]
    /\ admitted = {}
    /\ unit = [d \in Serials |-> NoOU]
    /\ told = [q \in Requests |-> NoOU]

Issue(s) ==
    /\ force[s] = "unissued"
    /\ force' = [force EXCEPT ![s] = "valid"]
    /\ UNCHANGED <<offer, admitted, unit, told>>

Revoke(s) ==
    /\ force[s] = "valid"
    /\ force' = [force EXCEPT ![s] = "revoked"]
    /\ UNCHANGED <<offer, admitted, unit, told>>

Admit(q) ==
    /\ q \notin admitted
    /\ force[offer[q].secret] = "valid"
    /\ admitted' = admitted \cup {q}
    /\ UNCHANGED <<offer, force, unit, told>>

Enrol(q) ==
    /\ q \in admitted
    /\ unit[offer[q].serial] = NoOU
    /\ unit' = [unit EXCEPT ![offer[q].serial] = offer[q].unit]
    /\ UNCHANGED <<offer, force, admitted, told>>

Tell(q) ==
    /\ q \in admitted
    /\ told[q] = NoOU
    /\ unit[offer[q].serial] # NoOU
    /\ told' = [told EXCEPT ![q] = unit[offer[q].serial]]
    /\ UNCHANGED <<offer, force, admitted, unit>>

Next ==
    \/ \E s \in Secrets : Issue(s) \/ Revoke(s)
    \/ \E q \in Requests : Admit(q) \/ Enrol(q) \/ Tell(q)

Spec == Init /\ [][Next]_registryVars

-----------------------------------------------------------------------------
(* What this means for a device: its unit is one an admitted request       *)
(* offered for it, and whoever was told a unit was told the device's.      *)
UnitsWereOffered ==
    /\ \A d \in Serials : unit[d] # NoOU =>
          \E q \in admitted : offer[q].serial = d /\ offer[q].unit = unit[d]
    /\ \A q \in Requests : told[q] # NoOU => told[q] = unit[offer[q].serial]
=============================================================================
