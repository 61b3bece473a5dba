------------------------- MODULE UnifiedEnrollment -------------------------
(***************************************************************************)
(* Device enrolment in the unified API (services/unified-api):             *)
(* DeviceService.enroll_device and the enrollment secrets it consumes.     *)
(*                                                                         *)
(* A member of Requests is one POST /api/v1/devices/enroll.  Its coroutine *)
(* gives way at every await, that is at every statement sent to the        *)
(* database, so the statements of concurrent requests interleave; each     *)
(* statement is atomic and committed on its own.  A statement may also     *)
(* raise, or the worker be restarted, between any two of them.             *)
(*                                                                         *)
(* The tables are those the queries name; that device_id is unique is      *)
(* taken from models/device.py, the only schema in the service.            *)
(***************************************************************************)
EXTENDS Integers, FiniteSets

CONSTANTS
    Requests,     \* the enrolment requests (bounds how many are made)
    Secrets,      \* the enrollment secrets
    DeviceIds,    \* device ids that clients choose themselves
    MaxLimit      \* bound on the max_uses given to a secret

ASSUME EnrollmentAssumption ==
    /\ IsFiniteSet(Requests)
    /\ MaxLimit \in Nat

VARIABLES
    secret,       \* the rows of enrollment_secrets
    devices,      \* the rows of devices, each named by the request that
                  \* inserted it: its primary key
    phase,        \* where each request is
    uses,         \* the secret each request named
    id,           \* the device_id each request is about
    seen,         \* current_uses as the request's SELECT returned it
    enrolled,     \* history: requests whose INSERT succeeded
    undisturbed   \* history: secrets whose enrolments never overlapped and
                  \* never stopped between the INSERT and the UPDATE

vars == <<secret, devices, phase, uses, id, seen, enrolled, undisturbed>>

(* A request that brings no device_id is given a random one, named by the  *)
(* request.                                                                *)
Ids == DeviceIds \cup Requests

Phases == {"new", "admitted", "inserted", "counted",
           "enrolled", "refused", "failed"}

SecretRows == [known : BOOLEAN, active : BOOLEAN, expired : BOOLEAN,
               max_uses : Nat, current_uses : Nat]

TypeOK ==
    /\ secret \in [Secrets -> SecretRows]
    /\ devices \subseteq Requests
    /\ phase \in [Requests -> Phases]
    /\ uses \in [Requests -> Secrets]
    /\ id \in [Requests -> Ids]
    /\ seen \in [Requests -> Nat]
    /\ enrolled \subseteq Requests
    /\ undisturbed \subseteq Secrets

Init ==
    /\ secret = [s \in Secrets |->
          [known |-> FALSE, active |-> FALSE, expired |-> FALSE,
           max_uses |-> 0, current_uses |-> 0]]
    /\ devices = {}
    /\ phase = [q \in Requests |-> "new"]
    /\ uses \in [Requests -> Secrets]
    /\ id \in {f \in [Requests -> Ids] :
                  \A q \in Requests : f[q] \in DeviceIds \cup {q}}
    /\ seen = [q \in Requests |-> 0]
    /\ enrolled = {}
    /\ undisturbed = Secrets

-----------------------------------------------------------------------------
(* create_enrollment_secret; max_uses = 0 stands for "no limit", as None   *)
(* and 0 do in the code.                                                   *)
CreateSecret(s, limit, active) ==
    /\ ~secret[s].known
    /\ secret' = [secret EXCEPT ![s].known = TRUE, ![s].active = active,
                                ![s].max_uses = limit]
    /\ UNCHANGED <<devices, phase, uses, id, seen, enrolled, undisturbed>>

(* expires_at passes.                                                      *)
Expire(s) ==
    /\ secret[s].known /\ ~secret[s].expired
    /\ secret' = [secret EXCEPT ![s].expired = TRUE]
    /\ UNCHANGED <<devices, phase, uses, id, seen, enrolled, undisturbed>>

(* Mutant: the limit is checked with > instead of >=.                      *)
ValidOffByOne(s) ==
    /\ secret[s].known /\ secret[s].active /\ ~secret[s].expired
    /\ \/ secret[s].max_uses = 0
       \/ secret[s].current_uses <= secret[s].max_uses

Valid(s) ==
    /\ secret[s].known /\ secret[s].active /\ ~secret[s].expired
    /\ \/ secret[s].max_uses = 0
       \/ secret[s].current_uses < secret[s].max_uses

Pending(s) == {q \in Requests : uses[q] = s /\ phase[q] \in {"admitted", "inserted"}}

(* The SELECT of the secret and the checks on the row it returned.         *)
Lookup(q) ==
    /\ phase[q] = "new"
    /\ IF Valid(uses[q])
         THEN /\ phase' = [phase EXCEPT ![q] = "admitted"]
              /\ seen' = [seen EXCEPT ![q] = secret[uses[q]].current_uses]
              /\ undisturbed' = IF Pending(uses[q]) = {} THEN undisturbed
                                ELSE undisturbed \ {uses[q]}
         ELSE /\ phase' = [phase EXCEPT ![q] = "refused"]
              /\ UNCHANGED <<seen, undisturbed>>
    /\ UNCHANGED <<secret, devices, uses, id, enrolled>>

(* device_id is a unique key of devices, whichever secret was used.        *)
Taken(d) == \E r \in devices : id[r] = d

(* Mutant: device_id is not a unique key.                                  *)
InsertUnchecked(q) ==
    /\ phase[q] = "admitted"
    /\ devices' = devices \cup {q}
    /\ enrolled' = enrolled \cup {q}
    /\ phase' = [phase EXCEPT ![q] = "inserted"]
    /\ UNCHANGED <<secret, uses, id, seen, undisturbed>>

(* Mutant: the duplicate key error is swallowed.                           *)
InsertIgnore(q) ==
    /\ phase[q] = "admitted"
    /\ phase' = [phase EXCEPT ![q] = "inserted"]
    /\ IF Taken(id[q])
         THEN UNCHANGED <<devices, enrolled>>
         ELSE /\ devices' = devices \cup {q}
              /\ enrolled' = enrolled \cup {q}
    /\ UNCHANGED <<secret, uses, id, seen, undisturbed>>

(* The INSERT of the device; a duplicate device_id raises.                 *)
Insert(q) ==
    /\ phase[q] = "admitted"
    /\ IF Taken(id[q])
         THEN /\ phase' = [phase EXCEPT ![q] = "failed"]
              /\ UNCHANGED <<devices, enrolled>>
         ELSE /\ devices' = devices \cup {q}
              /\ enrolled' = enrolled \cup {q}
              /\ phase' = [phase EXCEPT ![q] = "inserted"]
    /\ UNCHANGED <<secret, uses, id, seen, undisturbed>>

(* The UPDATE of current_uses to the value read before, plus one.          *)
Count(q) ==
    /\ phase[q] = "inserted"
    /\ secret' = [secret EXCEPT ![uses[q]].current_uses = seen[q] + 1]
    /\ phase' = [phase EXCEPT ![q] = "counted"]
    /\ UNCHANGED <<devices, uses, id, seen, enrolled, undisturbed>>

(* The SELECT of the new row and the answer: a device that was deleted     *)
(* meanwhile is answered as if the secret had been refused.                *)
Answer(q) ==
    /\ phase[q] = "counted"
    /\ phase' = [phase EXCEPT ![q] =
                   IF q \in devices THEN "enrolled" ELSE "refused"]
    /\ UNCHANGED <<secret, devices, uses, id, seen, enrolled, undisturbed>>

(* A statement raises or the worker goes away: the answer is a 500.        *)
Abort(q) ==
    /\ phase[q] \in {"admitted", "inserted", "counted"}
    /\ phase' = [phase EXCEPT ![q] = "failed"]
    /\ undisturbed' = IF phase[q] = "inserted" THEN undisturbed \ {uses[q]}
                      ELSE undisturbed
    /\ UNCHANGED <<secret, devices, uses, id, seen, enrolled>>

(* delete_device.                                                          *)
Delete(d) ==
    /\ d \in devices
    /\ devices' = devices \ {d}
    /\ UNCHANGED <<secret, phase, uses, id, seen, enrolled, undisturbed>>

Enroll(q) == Lookup(q) \/ Insert(q) \/ Count(q) \/ Answer(q)

Next ==
    \/ \E s \in Secrets, limit \in 0..MaxLimit, active \in BOOLEAN :
          CreateSecret(s, limit, active)
    \/ \E s \in Secrets : Expire(s)
    \/ \E q \in Requests : Enroll(q) \/ Abort(q)
    \/ \E d \in Requests : Delete(d)

Spec == Init /\ [][Next]_vars

-----------------------------------------------------------------------------
EnrolledWith(s) == {q \in enrolled : uses[q] = s}

(* current_uses never runs ahead of the devices enrolled with the secret,  *)
(* whatever is lost or written twice by overlapping enrolments: a secret   *)
(* is not used up early.                                                   *)
UsesNotAhead ==
    \A s \in Secrets :
        secret[s].current_uses <= Cardinality(EnrolledWith(s))

(* As long as the enrolments with a secret neither overlap nor stop half   *)
(* way, current_uses is exact whenever none is pending and the limit is    *)
(* respected: deletions and failed INSERTs do not disturb it.              *)
ExactIfUndisturbed ==
    \A s \in undisturbed :
        /\ Pending(s) = {} =>
              secret[s].current_uses = Cardinality(EnrolledWith(s))
        /\ secret[s].max_uses > 0 =>
              Cardinality(EnrolledWith(s)) <= secret[s].max_uses

(* A client that repeats its enrolment, because the first answer was lost  *)
(* or was a 500, does not use the secret up: until a device is deleted,    *)
(* current_uses is at most the number of different devices enrolled.       *)
RetriesCountedOnce ==
    \A s \in Secrets :
        EnrolledWith(s) \subseteq devices =>
            secret[s].current_uses <= Cardinality({id[q] : q \in EnrolledWith(s)})

(* routes/devices.py:155 documents max_uses as "Maximum number of uses":   *)
(* no secret enrols more devices.  Overlapping requests all pass the       *)
(* check, and the counter they write back forgets the others.              *)
MaxUsesRespected ==
    \A s \in Secrets :
        secret[s].max_uses > 0 =>
            Cardinality(EnrolledWith(s)) <= secret[s].max_uses
=============================================================================
