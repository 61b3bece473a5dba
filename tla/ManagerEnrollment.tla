-------------------------- MODULE ManagerEnrollment --------------------------
(***************************************************************************)
(* Device enrolment at the manager (managerServer/api): enroll_device with *)
(* the enrollment secrets of organization units in routes/enrollment.py,   *)
(* and the deactivation of devices in routes/devices.py.                   *)
(*                                                                         *)
(* Four gunicorn workers serve requests concurrently: each statement sent  *)
(* to the database is atomic, and anything may happen between two.  The    *)
(* serial is unique (database/03_add_config_and_tokens.sql:53).  No route  *)
(* deletes a device, a secret or an organization unit.  Heartbeats and the *)
(* rest of a device's metadata are left out.                               *)
(***************************************************************************)
EXTENDS Naturals

CONSTANTS
    Requests,   \* the calls of POST /enroll (bounds how many are made)
    Secrets,    \* the enrollment secrets
    Serials,    \* device serials
    OUs,        \* organization units
    NoOU        \* no unit: an answer not yet given

ASSUME ManagerAssumption == NoOU \notin OUs

VARIABLES
    secret,    \* ou_enrollment_secrets
    device,    \* device_enrollments, by device_serial
    phase,     \* where each request is
    names,     \* the secret each request presents
    serial,    \* the serial it presents
    found,     \* the ou_id of the row its SELECT by serial returned
    answer     \* the ou_id it was answered with

vars == <<secret, device, phase, names, serial, found, answer>>

Phases == {"new", "admitted", "existing", "fresh", "inserted",
           "answered", "refused", "failed"}

TypeOK ==
    /\ secret \in [Secrets -> [known : BOOLEAN, active : BOOLEAN, ou : OUs]]
    /\ device \in [Serials -> [enrolled : BOOLEAN, active : BOOLEAN,
                               ou : OUs, secret : Secrets]]
    /\ phase \in [Requests -> Phases]
    /\ names \in [Requests -> Secrets]
    /\ serial \in [Requests -> Serials]
    /\ found \in [Requests -> OUs \cup {NoOU}]
    /\ answer \in [Requests -> OUs \cup {NoOU}]

(* What the columns of rows that do not exist hold does not matter.        *)
Init ==
    /\ secret \in [Secrets -> [known : {FALSE}, active : {FALSE}, ou : OUs]]
    /\ \E o \in OUs, s \in Secrets :
          device = [d \in Serials |-> [enrolled |-> FALSE, active |-> FALSE,
                                       ou |-> o, secret |-> s]]
    /\ phase = [q \in Requests |-> "new"]
    /\ names \in [Requests -> Secrets]
    /\ serial \in [Requests -> Serials]
    /\ found = [q \in Requests |-> NoOU]
    /\ answer = [q \in Requests |-> NoOU]

-----------------------------------------------------------------------------
(* The administrators.                                                     *)

CreateSecret(s) ==
    /\ ~secret[s].known
    /\ secret' = [secret EXCEPT ![s].known = TRUE, ![s].active = TRUE]
    /\ UNCHANGED <<device, phase, names, serial, found, answer>>

(* delete_secret only deactivates.                                         *)
DeleteSecret(s) ==
    /\ secret[s].known /\ secret[s].active
    /\ secret' = [secret EXCEPT ![s].active = FALSE]
    /\ UNCHANGED <<device, phase, names, serial, found, answer>>

SetActive(d, active) ==
    /\ device[d].enrolled /\ device[d].active # active
    /\ device' = [device EXCEPT ![d].active = active]
    /\ UNCHANGED <<secret, phase, names, serial, found, answer>>

DeactivateDevice(d) == SetActive(d, FALSE)
ReactivateDevice(d) == SetActive(d, TRUE)

-----------------------------------------------------------------------------
(* enroll_device, statement by statement.                                  *)

(* SELECT the active secret.                                               *)
FindSecret(q) ==
    /\ phase[q] = "new"
    /\ phase' = [phase EXCEPT ![q] =
                   IF secret[names[q]].known /\ secret[names[q]].active
                   THEN "admitted" ELSE "refused"]
    /\ UNCHANGED <<secret, device, names, serial, found, answer>>

(* SELECT the device by its serial, active or not.                         *)
FindDevice(q) ==
    /\ phase[q] = "admitted"
    /\ IF device[serial[q]].enrolled
         THEN /\ phase' = [phase EXCEPT ![q] = "existing"]
              /\ found' = [found EXCEPT ![q] = device[serial[q]].ou]
         ELSE /\ phase' = [phase EXCEPT ![q] = "fresh"]
              /\ UNCHANGED found
    /\ UNCHANGED <<secret, device, names, serial, answer>>

(* UPDATE an existing device, and answer from the row read before.         *)
Touch(q) ==
    /\ phase[q] = "existing"
    /\ device' = [device EXCEPT ![serial[q]].active = TRUE]
    /\ answer' = [answer EXCEPT ![q] = found[q]]
    /\ phase' = [phase EXCEPT ![q] = "answered"]
    /\ UNCHANGED <<secret, names, serial, found>>

(* Mutant: INSERT ... ON DUPLICATE KEY UPDATE.                             *)
InsertReplaces(q) ==
    /\ phase[q] = "fresh"
    /\ device' = [device EXCEPT ![serial[q]] =
                    [enrolled |-> TRUE, active |-> TRUE,
                     ou |-> secret[names[q]].ou, secret |-> names[q]]]
    /\ phase' = [phase EXCEPT ![q] = "inserted"]
    /\ UNCHANGED <<secret, names, serial, found, answer>>

(* INSERT a new one: another request may have enrolled the serial since.   *)
Insert(q) ==
    /\ phase[q] = "fresh"
    /\ IF device[serial[q]].enrolled
         THEN /\ phase' = [phase EXCEPT ![q] = "failed"]
              /\ UNCHANGED device
         ELSE /\ device' = [device EXCEPT ![serial[q]] =
                              [enrolled |-> TRUE, active |-> TRUE,
                               ou |-> secret[names[q]].ou, secret |-> names[q]]]
              /\ phase' = [phase EXCEPT ![q] = "inserted"]
    /\ UNCHANGED <<secret, names, serial, found, answer>>

(* SELECT the new row and answer from it.                                  *)
Answer(q) ==
    /\ phase[q] = "inserted"
    /\ answer' = [answer EXCEPT ![q] = device[serial[q]].ou]
    /\ phase' = [phase EXCEPT ![q] = "answered"]
    /\ UNCHANGED <<secret, device, names, serial, found>>

(* A statement raises, or the worker is killed: the client may try again   *)
(* with a request of its own.                                              *)
Abort(q) ==
    /\ phase[q] \in {"admitted", "existing", "fresh", "inserted"}
    /\ phase' = [phase EXCEPT ![q] = "failed"]
    /\ UNCHANGED <<secret, device, names, serial, found, answer>>

Enroll(q) ==
    FindSecret(q) \/ FindDevice(q) \/ Touch(q) \/ Insert(q) \/ Answer(q)

Next ==
    \/ \E s \in Secrets : CreateSecret(s) \/ DeleteSecret(s)
    \/ \E d \in Serials : DeactivateDevice(d) \/ ReactivateDevice(d)
    \/ \E q \in Requests : Enroll(q) \/ Abort(q)

Spec == Init /\ [][Next]_vars

-----------------------------------------------------------------------------
(* The unit a client was told it belongs to is the unit of its device for  *)
(* good ("once enrolled to an OU, device stays in that OU"), whatever      *)
(* secrets of whatever units concurrent and later requests present.        *)
AnswersStayTrue ==
    \A q \in Requests : answer[q] # NoOU =>
        /\ device[serial[q]].enrolled
        /\ device[serial[q]].ou = answer[q]

(* The enrollment secret recorded for a device is one of its own unit.     *)
SecretOfUnit ==
    \A d \in Serials : device[d].enrolled =>
        /\ secret[device[d].secret].known
        /\ secret[device[d].secret].ou = device[d].ou

-----------------------------------------------------------------------------
(* What enroll_device promises, without statements that others come        *)
(* between: DeviceRegistry.                                                *)
Offered == [q \in Requests |->
    [serial |-> serial[q], secret |-> names[q], unit |-> secret[names[q]].ou]]

InForce == [s \in Secrets |->
    IF ~secret[s].known THEN "unissued"
    ELSE IF secret[s].active THEN "valid" ELSE "revoked"]

AdmittedRequests == {q \in Requests : phase[q] \notin {"new", "refused"}}

UnitOf == [d \in Serials |-> IF device[d].enrolled THEN device[d].ou ELSE NoOU]

Registry == INSTANCE DeviceRegistry
              WITH offer <- Offered, force <- InForce, admitted <- AdmittedRequests,
                   unit <- UnitOf, told <- answer

(* Overlapping requests enrol and are answered as if served one at a time. *)
RegistrySpec == Registry!Spec
=============================================================================
