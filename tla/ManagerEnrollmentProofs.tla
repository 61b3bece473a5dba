---------------------- MODULE ManagerEnrollmentProofs ----------------------
(***************************************************************************)
(* Proofs about ManagerEnrollment for any sets of requests, secrets,       *)
(* serials and organization units: its type invariant, that what a client  *)
(* was told of its unit stays true, that a device's secret is of its unit, *)
(* and that it implements the atomic DeviceRegistry.                       *)
(***************************************************************************)
EXTENDS ManagerEnrollment, TLAPS

(* What a request has read of the tables is still so.                      *)
ReadInv ==
    \A q \in Requests :
        /\ phase[q] \in {"admitted", "fresh"} => secret[names[q]].known
        /\ phase[q] = "existing" =>
              device[serial[q]].enrolled /\ device[serial[q]].ou = found[q]
        /\ phase[q] = "inserted" => device[serial[q]].enrolled

IInv == TypeOK /\ ReadInv /\ SecretOfUnit /\ AnswersStayTrue

-----------------------------------------------------------------------------
LEMMA TypeInit == Init => TypeOK
<1> SUFFICES ASSUME Init PROVE TypeOK
    OBVIOUS
<1>1. secret \in [Secrets -> [known : BOOLEAN, active : BOOLEAN, ou : OUs]]
    BY DEF Init
<1>2. device \in [Serials -> [enrolled : BOOLEAN, active : BOOLEAN,
                              ou : OUs, secret : Secrets]]
    BY DEF Init
<1> QED BY <1>1, <1>2 DEF Init, TypeOK, Phases

LEMMA TypeNext == TypeOK /\ [Next]_vars => TypeOK'
<1> SUFFICES ASSUME TypeOK, [Next]_vars PROVE TypeOK'
    OBVIOUS
<1> USE DEF TypeOK
<1>1. ASSUME NEW s \in Secrets, CreateSecret(s)
      PROVE  TypeOK'
    BY <1>1 DEF CreateSecret
<1>2. ASSUME NEW s \in Secrets, DeleteSecret(s)
      PROVE  TypeOK'
    BY <1>2 DEF DeleteSecret
<1>3. ASSUME NEW d \in Serials, NEW active \in BOOLEAN, SetActive(d, active)
      PROVE  TypeOK'
    BY <1>3 DEF SetActive
<1>4. ASSUME NEW q \in Requests, FindSecret(q)
      PROVE  TypeOK'
    BY <1>4 DEF FindSecret, Phases
<1>5. ASSUME NEW q \in Requests, FindDevice(q)
      PROVE  TypeOK'
    BY <1>5 DEF FindDevice, Phases
<1>6. ASSUME NEW q \in Requests, Touch(q)
      PROVE  TypeOK'
    BY <1>6 DEF Touch, Phases
<1>7. ASSUME NEW q \in Requests, Insert(q)
      PROVE  TypeOK'
    <2>1. secret[names[q]].ou \in OUs /\ names[q] \in Secrets /\ serial[q] \in Serials
        OBVIOUS
    <2>2. device' \in [Serials -> [enrolled : BOOLEAN, active : BOOLEAN,
                                   ou : OUs, secret : Secrets]]
        <3>. DEFINE Row == [enrolled : BOOLEAN, active : BOOLEAN,
                            ou : OUs, secret : Secrets]
                    new == [enrolled |-> TRUE, active |-> TRUE,
                            ou |-> secret[names[q]].ou, secret |-> names[q]]
        <3>1. new \in Row
            BY <2>1
        <3>2. device \in [Serials -> Row]
            OBVIOUS
        <3>3. device' = device \/ device' = [device EXCEPT ![serial[q]] = new]
            BY <1>7 DEF Insert
        <3>. HIDE DEF Row, new
        <3>4. device' \in [Serials -> Row]
            BY <2>1, <3>1, <3>2, <3>3
        <3> QED BY <3>4 DEF Row
    <2> QED BY <1>7, <2>2 DEF Insert, Phases
<1>8. ASSUME NEW q \in Requests, Answer(q)
      PROVE  TypeOK'
    BY <1>8 DEF Answer, Phases
<1>9. ASSUME NEW q \in Requests, Abort(q)
      PROVE  TypeOK'
    BY <1>9 DEF Abort, Phases
<1>10. CASE UNCHANGED vars
    BY <1>10 DEF vars
<1> QED BY <1>1, <1>2, <1>3, <1>4, <1>5, <1>6, <1>7, <1>8, <1>9, <1>10
        DEF Next, Enroll, DeactivateDevice, ReactivateDevice

(* Type correctness of the tables and the requests.                        *)
THEOREM TypeCorrect == Spec => []TypeOK
BY TypeInit, TypeNext, PTL DEF Spec

-----------------------------------------------------------------------------
(* Every statement leaves the units and secrets of enrolled devices, and   *)
(* the units of secrets, as they are.                                      *)
Permanent ==
    /\ \A d \in Serials : device[d].enrolled =>
          /\ device'[d].enrolled
          /\ device'[d].ou = device[d].ou
          /\ device'[d].secret = device[d].secret
    /\ \A s \in Secrets :
          /\ secret[s].known => secret'[s].known
          /\ secret'[s].ou = secret[s].ou

LEMMA Permanence == TypeOK /\ [Next]_vars => Permanent
<1> SUFFICES ASSUME TypeOK, [Next]_vars PROVE Permanent
    OBVIOUS
<1> USE DEF TypeOK, Permanent
<1>1. ASSUME NEW s \in Secrets, CreateSecret(s) \/ DeleteSecret(s)
      PROVE  Permanent
    <2>1. device' = device
        BY <1>1 DEF CreateSecret, DeleteSecret
    <2>2. CASE CreateSecret(s)
        <3>1. \A t \in Secrets : /\ secret[t].known => secret'[t].known
                                 /\ secret'[t].ou = secret[t].ou
            BY <2>2 DEF CreateSecret
        <3> QED BY <2>1, <3>1
    <2>3. CASE DeleteSecret(s)
        <3>1. \A t \in Secrets : /\ secret[t].known => secret'[t].known
                                 /\ secret'[t].ou = secret[t].ou
            BY <2>3 DEF DeleteSecret
        <3> QED BY <2>1, <3>1
    <2> QED BY <1>1, <2>2, <2>3
<1>2. ASSUME NEW d \in Serials, NEW active \in BOOLEAN, SetActive(d, active)
      PROVE  Permanent
    BY <1>2 DEF SetActive
<1>3. ASSUME NEW q \in Requests, Touch(q)
      PROVE  Permanent
    BY <1>3 DEF Touch
<1>4. ASSUME NEW q \in Requests, Insert(q)
      PROVE  Permanent
    BY <1>4 DEF Insert
<1>5. ASSUME NEW q \in Requests,
             FindSecret(q) \/ FindDevice(q) \/ Answer(q) \/ Abort(q)
      PROVE  Permanent
    BY <1>5 DEF FindSecret, FindDevice, Answer, Abort
<1>6. CASE UNCHANGED vars
    BY <1>6 DEF vars
<1> QED BY <1>1, <1>2, <1>3, <1>4, <1>5, <1>6
        DEF Next, Enroll, DeactivateDevice, ReactivateDevice

LEMMA InvInit == Init => IInv
<1> SUFFICES ASSUME Init PROVE IInv
    OBVIOUS
<1>1. TypeOK
    BY TypeInit
<1>2. ReadInv /\ SecretOfUnit /\ AnswersStayTrue
    BY DEF Init, ReadInv, SecretOfUnit, AnswersStayTrue
<1> QED BY <1>1, <1>2 DEF IInv

(* A step of the database that is no step of a request preserves the       *)
(* invariant if it enrols nothing.                                         *)
LEMMA Elsewhere ==
    ASSUME IInv, TypeOK', Permanent, UNCHANGED <<phase, names, serial, found, answer>>,
           \A d \in Serials : device'[d].enrolled = device[d].enrolled
    PROVE  IInv'
BY DEF IInv, TypeOK, Permanent, ReadInv, SecretOfUnit, AnswersStayTrue

LEMMA InvNext == IInv /\ [Next]_vars => IInv'
<1> SUFFICES ASSUME IInv, [Next]_vars PROVE IInv'
    OBVIOUS
<1>0. TypeOK /\ TypeOK' /\ Permanent
    BY TypeNext, Permanence DEF IInv
<1>1. ASSUME NEW s \in Secrets, CreateSecret(s) \/ DeleteSecret(s)
      PROVE  IInv'
    BY <1>0, <1>1, Elsewhere DEF CreateSecret, DeleteSecret
<1>2. ASSUME NEW d \in Serials, NEW active \in BOOLEAN, SetActive(d, active)
      PROVE  IInv'
    <2>1. \A e \in Serials : device'[e].enrolled = device[e].enrolled
        BY <1>0, <1>2 DEF SetActive, TypeOK
    <2> QED BY <1>0, <1>2, <2>1, Elsewhere DEF SetActive
<1>3. ASSUME NEW q \in Requests, FindSecret(q)
      PROVE  IInv'
    BY <1>0, <1>3 DEF FindSecret, IInv, TypeOK, ReadInv, SecretOfUnit, AnswersStayTrue
<1>4. ASSUME NEW q \in Requests, FindDevice(q)
      PROVE  IInv'
    BY <1>0, <1>4 DEF FindDevice, IInv, TypeOK, ReadInv, SecretOfUnit, AnswersStayTrue
<1>5. ASSUME NEW q \in Requests, Touch(q)
      PROVE  IInv'
    <2>1. \A d \in Serials : device'[d].enrolled = device[d].enrolled
        BY <1>0, <1>5 DEF Touch, TypeOK
    <2>2. ReadInv'
        BY <1>0, <1>5, <2>1 DEF Touch, IInv, TypeOK, ReadInv, Permanent
    <2>3. SecretOfUnit'
        BY <1>0, <1>5, <2>1 DEF IInv, TypeOK, SecretOfUnit, Permanent
    <2>4. AnswersStayTrue'
        BY <1>0, <1>5 DEF Touch, IInv, TypeOK, ReadInv, AnswersStayTrue, Permanent
    <2> QED BY <1>0, <2>2, <2>3, <2>4 DEF IInv
<1>6. ASSUME NEW q \in Requests, Insert(q)
      PROVE  IInv'
    <2>1. ReadInv'
        BY <1>0, <1>6 DEF Insert, IInv, TypeOK, ReadInv, Permanent
    <2>2. SecretOfUnit'
        BY <1>0, <1>6 DEF Insert, IInv, TypeOK, ReadInv, SecretOfUnit
    <2>3. AnswersStayTrue'
        BY <1>0, <1>6 DEF Insert, IInv, TypeOK, AnswersStayTrue, Permanent
    <2> QED BY <1>0, <2>1, <2>2, <2>3 DEF IInv
<1>7. ASSUME NEW q \in Requests, Answer(q)
      PROVE  IInv'
    BY <1>0, <1>7 DEF Answer, IInv, TypeOK, ReadInv, SecretOfUnit, AnswersStayTrue
<1>8. ASSUME NEW q \in Requests, Abort(q)
      PROVE  IInv'
    BY <1>0, <1>8 DEF Abort, IInv, TypeOK, ReadInv, SecretOfUnit, AnswersStayTrue
<1>9. CASE UNCHANGED vars
    BY <1>0, <1>9, Elsewhere DEF vars
<1> QED BY <1>1, <1>2, <1>3, <1>4, <1>5, <1>6, <1>7, <1>8, <1>9
        DEF Next, Enroll, DeactivateDevice, ReactivateDevice

LEMMA Invariance == Spec => []IInv
BY InvInit, InvNext, PTL DEF Spec

(* A client that was told its unit can rely on it, whatever is enrolled,   *)
(* deactivated or rotated afterwards.                                      *)
THEOREM StayTrue == Spec => []AnswersStayTrue
<1>1. IInv => AnswersStayTrue
    BY DEF IInv
<1> QED BY <1>1, Invariance, PTL

(* The recorded secret belongs to the device's unit.                       *)
THEOREM UnitOfSecret == Spec => []SecretOfUnit
<1>1. IInv => SecretOfUnit
    BY DEF IInv
<1> QED BY <1>1, Invariance, PTL

-----------------------------------------------------------------------------
(* Refinement: every statement is an operation of the registry or leaves   *)
(* it alone.  An enrolment takes effect at its INSERT, an answer when it   *)
(* is given: what it was read from is still so (ReadInv).                  *)

LEMMA OfferNeverChanges ==
    ASSUME IInv, [Next]_vars PROVE Offered' = Offered
<1>1. UNCHANGED <<names, serial>>
    <2>1. ASSUME NEW s \in Secrets, CreateSecret(s) \/ DeleteSecret(s)
          PROVE  UNCHANGED <<names, serial>>
        BY <2>1 DEF CreateSecret, DeleteSecret
    <2>2. ASSUME NEW d \in Serials, NEW active \in BOOLEAN, SetActive(d, active)
          PROVE  UNCHANGED <<names, serial>>
        BY <2>2 DEF SetActive
    <2>3. ASSUME NEW q \in Requests, Enroll(q) \/ Abort(q)
          PROVE  UNCHANGED <<names, serial>>
        BY <2>3 DEF Enroll, FindSecret, FindDevice, Touch, Insert, Answer, Abort
    <2> QED BY <2>1, <2>2, <2>3 DEF Next, vars, DeactivateDevice, ReactivateDevice
<1>2. \A s \in Secrets : secret'[s].ou = secret[s].ou
    BY Permanence DEF IInv, Permanent
<1>3. \A q \in Requests : names[q] \in Secrets
    BY DEF IInv, TypeOK
<1> QED BY <1>1, <1>2, <1>3 DEF Offered

LEMMA RegistryStart == Init => Registry!Init
<1> SUFFICES ASSUME Init PROVE Registry!Init
    OBVIOUS
<1>1. TypeOK
    BY TypeInit
<1>2. Offered \in [Requests -> Registry!Offers]
    BY <1>1 DEF TypeOK, Offered, Registry!Offers
<1>3. \A s \in Secrets : secret[s].known = FALSE
    BY DEF Init
<1>4. InForce = [s \in Secrets |-> "unissued"]
    BY <1>3 DEF InForce
<1>5. \A d \in Serials : device[d].enrolled = FALSE
    BY DEF Init
<1>6. UnitOf = [d \in Serials |-> NoOU]
    BY <1>5 DEF UnitOf
<1>7. AdmittedRequests = {} /\ answer = [q \in Requests |-> NoOU]
    BY DEF Init, AdmittedRequests
<1> QED BY <1>2, <1>4, <1>6, <1>7 DEF Registry!Init

(* Whoever is past the check of his secret is admitted.                    *)
LEMMA StillAdmitted ==
    ASSUME TypeOK, NEW q \in Requests, NEW p \in Phases \ {"new", "refused"},
           phase[q] \notin {"new", "refused"}, phase' = [phase EXCEPT ![q] = p]
    PROVE  AdmittedRequests' = AdmittedRequests /\ q \in AdmittedRequests
BY DEF TypeOK, AdmittedRequests

LEMMA RegistryStep == IInv /\ [Next]_vars => [Registry!Next]_Registry!registryVars
<1> SUFFICES ASSUME IInv, [Next]_vars PROVE [Registry!Next]_Registry!registryVars
    OBVIOUS
<1>0. TypeOK /\ Offered' = Offered
      /\ \A q \in Requests : /\ Offered[q].serial = serial[q]
                             /\ Offered[q].secret = names[q]
                             /\ Offered[q].unit = secret[names[q]].ou
                             /\ serial[q] \in Serials /\ names[q] \in Secrets
    BY OfferNeverChanges DEF IInv, TypeOK, Offered
<1>1. ASSUME NEW s \in Secrets, CreateSecret(s) PROVE Registry!Issue(s)
    <2>1. ~secret[s].known /\ UNCHANGED <<device, phase, answer>>
          /\ secret' = [secret EXCEPT ![s].known = TRUE, ![s].active = TRUE]
        BY <1>1 DEF CreateSecret
    <2>2. InForce[s] = "unissued" /\ InForce' = [InForce EXCEPT ![s] = "valid"]
        BY <1>0, <2>1 DEF InForce, TypeOK
    <2>3. UNCHANGED <<AdmittedRequests, UnitOf>>
        BY <2>1 DEF AdmittedRequests, UnitOf
    <2> QED BY <1>0, <2>1, <2>2, <2>3 DEF Registry!Issue
<1>2. ASSUME NEW s \in Secrets, DeleteSecret(s) PROVE Registry!Revoke(s)
    <2>1. secret[s].known /\ secret[s].active /\ UNCHANGED <<device, phase, answer>>
          /\ secret' = [secret EXCEPT ![s].active = FALSE]
        BY <1>2 DEF DeleteSecret
    <2>2. InForce[s] = "valid" /\ InForce' = [InForce EXCEPT ![s] = "revoked"]
        BY <1>0, <2>1 DEF InForce, TypeOK
    <2>3. UNCHANGED <<AdmittedRequests, UnitOf>>
        BY <2>1 DEF AdmittedRequests, UnitOf
    <2> QED BY <1>0, <2>1, <2>2, <2>3 DEF Registry!Revoke
<1>3. ASSUME NEW d \in Serials, NEW active \in BOOLEAN, SetActive(d, active)
      PROVE  UNCHANGED Registry!registryVars
    <2>1. UNCHANGED <<secret, phase, answer>>
          /\ device' = [device EXCEPT ![d].active = active]
        BY <1>3 DEF SetActive
    <2>2. UnitOf' = UnitOf
        BY <1>0, <2>1 DEF UnitOf, TypeOK
    <2> QED BY <1>0, <2>1, <2>2 DEF Registry!registryVars, InForce, AdmittedRequests
<1>4. ASSUME NEW q \in Requests, FindSecret(q)
      PROVE  Registry!Admit(q) \/ UNCHANGED Registry!registryVars
    <2>1. phase[q] = "new" /\ UNCHANGED <<secret, device, answer>>
        BY <1>4 DEF FindSecret
    <2>2. UNCHANGED <<InForce, UnitOf>> /\ q \notin AdmittedRequests
        BY <2>1 DEF InForce, UnitOf, AdmittedRequests
    <2>3. CASE secret[names[q]].known /\ secret[names[q]].active
        <3>1. phase' = [phase EXCEPT ![q] = "admitted"]
            BY <1>4, <2>3 DEF FindSecret
        <3>2. AdmittedRequests' = AdmittedRequests \cup {q}
            BY <1>0, <3>1 DEF AdmittedRequests, TypeOK
        <3>3. InForce[names[q]] = "valid"
            BY <1>0, <2>3 DEF InForce
        <3> QED BY <1>0, <2>1, <2>2, <3>2, <3>3 DEF Registry!Admit
    <2>4. CASE ~(secret[names[q]].known /\ secret[names[q]].active)
        <3>1. phase' = [phase EXCEPT ![q] = "refused"]
            BY <1>4, <2>4 DEF FindSecret
        <3>2. AdmittedRequests' = AdmittedRequests
            BY <1>0, <2>1, <3>1 DEF AdmittedRequests, TypeOK
        <3> QED BY <1>0, <2>1, <2>2, <3>2 DEF Registry!registryVars
    <2> QED BY <2>3, <2>4
<1>5. ASSUME NEW q \in Requests, FindDevice(q) \/ Abort(q)
      PROVE  UNCHANGED Registry!registryVars
    <2>1. UNCHANGED <<secret, device, answer>> /\ phase[q] \notin {"new", "refused"}
        BY <1>5 DEF FindDevice, Abort
    <2>2. \E p \in Phases \ {"new", "refused"} : phase' = [phase EXCEPT ![q] = p]
        BY <1>5 DEF FindDevice, Abort, Phases
    <2>3. AdmittedRequests' = AdmittedRequests
        BY <1>0, <2>1, <2>2, StillAdmitted
    <2> QED BY <1>0, <2>1, <2>3 DEF Registry!registryVars, InForce, UnitOf
<1>6. ASSUME NEW q \in Requests, Touch(q) \/ Answer(q)
      PROVE  Registry!Tell(q) \/ UNCHANGED Registry!registryVars
    <2>1. /\ phase[q] \in {"existing", "inserted"} /\ phase' = [phase EXCEPT ![q] = "answered"]
          /\ secret' = secret
        BY <1>6 DEF Touch, Answer
    <2>2. AdmittedRequests' = AdmittedRequests /\ q \in AdmittedRequests
        BY <1>0, <2>1, StillAdmitted DEF Phases
    <2>3. device[serial[q]].enrolled /\ device[serial[q]].ou \in OUs
        BY <1>0, <2>1 DEF IInv, ReadInv, TypeOK
    <2>4. UnitOf[serial[q]] = device[serial[q]].ou /\ UnitOf[serial[q]] # NoOU
        BY <1>0, <2>3, ManagerAssumption DEF UnitOf
    <2>5. answer' = [answer EXCEPT ![q] = UnitOf[serial[q]]]
        BY <1>6, <2>4 DEF Touch, Answer, IInv, ReadInv
    <2>6. UnitOf' = UnitOf
        <3>1. \A d \in Serials : /\ device'[d].enrolled = device[d].enrolled
                                 /\ device'[d].ou = device[d].ou
            BY <1>0, <1>6 DEF Touch, Answer, TypeOK
        <3> QED BY <3>1 DEF UnitOf
    <2>7. InForce' = InForce
        BY <2>1 DEF InForce
    <2>8. CASE answer[q] = NoOU
        BY <1>0, <2>2, <2>4, <2>5, <2>6, <2>7, <2>8 DEF Registry!Tell
    <2>9. CASE answer[q] # NoOU
        <3>1. answer[q] = UnitOf[serial[q]]
            BY <2>4, <2>9 DEF IInv, AnswersStayTrue
        <3>2. answer' = answer
            BY <1>0, <2>5, <3>1 DEF TypeOK
        <3> QED BY <1>0, <2>2, <2>6, <2>7, <3>2 DEF Registry!registryVars
    <2> QED BY <2>8, <2>9
<1>7. ASSUME NEW q \in Requests, Insert(q)
      PROVE  Registry!Enrol(q) \/ UNCHANGED Registry!registryVars
    <2>1. phase[q] = "fresh" /\ UNCHANGED <<secret, answer>>
        BY <1>7 DEF Insert
    <2>2. \E p \in {"failed", "inserted"} : phase' = [phase EXCEPT ![q] = p]
        BY <1>7 DEF Insert
    <2>3. AdmittedRequests' = AdmittedRequests /\ q \in AdmittedRequests
        BY <1>0, <2>1, <2>2, StillAdmitted DEF Phases
    <2>4. InForce' = InForce
        BY <2>1 DEF InForce
    <2>5. CASE device[serial[q]].enrolled
        <3>1. UnitOf' = UnitOf
            BY <1>7, <2>5 DEF Insert, UnitOf
        <3> QED BY <1>0, <2>1, <2>3, <2>4, <3>1 DEF Registry!registryVars
    <2>6. CASE ~device[serial[q]].enrolled
        <3>1. device' = [device EXCEPT ![serial[q]] =
                            [enrolled |-> TRUE, active |-> TRUE,
                             ou |-> secret[names[q]].ou, secret |-> names[q]]]
            BY <1>7, <2>6 DEF Insert
        <3>2. UnitOf[serial[q]] = NoOU
              /\ UnitOf' = [UnitOf EXCEPT ![serial[q]] = Offered[q].unit]
            BY <1>0, <2>6, <3>1 DEF UnitOf, TypeOK
        <3> QED BY <1>0, <2>1, <2>3, <2>4, <3>2 DEF Registry!Enrol
    <2> QED BY <2>5, <2>6
<1>8. CASE UNCHANGED vars
    BY <1>0, <1>8 DEF vars, Registry!registryVars, InForce, AdmittedRequests, UnitOf
<1> QED BY <1>1, <1>2, <1>3, <1>4, <1>5, <1>6, <1>7, <1>8
        DEF Next, Enroll, DeactivateDevice, ReactivateDevice, Registry!Next

(* enroll_device implements the atomic registry: requests of any number    *)
(* that overlap in any way enrol devices and are answered as if they were  *)
(* served one at a time.                                                   *)
THEOREM RegistryRefined == Spec => RegistrySpec
BY RegistryStart, RegistryStep, Invariance, PTL DEF Spec, RegistrySpec, Registry!Spec

-----------------------------------------------------------------------------
(* The types of the registry, in the terms of its implementation.          *)
RegistryTypeOK ==
    /\ Offered \in [Requests -> Registry!Offers]
    /\ AdmittedRequests \subseteq Requests
    /\ UnitOf \in [Serials -> OUs \cup {NoOU}]
    /\ answer \in [Requests -> OUs \cup {NoOU}]

LEMMA RegistryTypes == TypeOK => RegistryTypeOK
BY DEF TypeOK, RegistryTypeOK, Registry!Offers, Offered, AdmittedRequests, UnitOf

LEMMA OffersKept ==
    ASSUME RegistryTypeOK, Registry!UnitsWereOffered, [Registry!Next]_Registry!registryVars
    PROVE  Registry!UnitsWereOffered'
<1> USE DEF RegistryTypeOK, Registry!Offers, Registry!UnitsWereOffered
<1>1. ASSUME NEW s \in Secrets, Registry!Issue(s) \/ Registry!Revoke(s)
      PROVE  Registry!UnitsWereOffered'
    BY <1>1 DEF Registry!Issue, Registry!Revoke
<1>2. ASSUME NEW q \in Requests, Registry!Admit(q) PROVE Registry!UnitsWereOffered'
    BY <1>2 DEF Registry!Admit
<1>3. ASSUME NEW q \in Requests, Registry!Enrol(q) PROVE Registry!UnitsWereOffered'
    <2>1. UnitOf' = [UnitOf EXCEPT ![Offered[q].serial] = Offered[q].unit]
          /\ UnitOf[Offered[q].serial] = NoOU /\ q \in AdmittedRequests
          /\ UNCHANGED <<Offered, AdmittedRequests, answer>>
        BY <1>3 DEF Registry!Enrol
    <2>2. ASSUME NEW d \in Serials, UnitOf'[d] # NoOU
          PROVE  \E p \in AdmittedRequests : Offered[p].serial = d /\ Offered[p].unit = UnitOf'[d]
        BY <2>1, <2>2
    <2>3. ASSUME NEW p \in Requests, answer[p] # NoOU
          PROVE  answer[p] = UnitOf'[Offered[p].serial]
        BY <2>1, <2>3
    <2> QED BY <2>1, <2>2, <2>3
<1>4. ASSUME NEW q \in Requests, Registry!Tell(q) PROVE Registry!UnitsWereOffered'
    BY <1>4 DEF Registry!Tell
<1>5. CASE UNCHANGED Registry!registryVars
    BY <1>5 DEF Registry!registryVars
<1> QED BY <1>1, <1>2, <1>3, <1>4, <1>5 DEF Registry!Next

(* So the registry's promise is kept by the statements of enroll_device: a *)
(* device's unit was offered for it with a secret that was in force.       *)
THEOREM UnitsOffered == Spec => []Registry!UnitsWereOffered
<1>1. Registry!Init => Registry!UnitsWereOffered
    BY DEF Registry!Init, Registry!UnitsWereOffered, Registry!Offers
<1>2. /\ RegistryTypeOK /\ Registry!UnitsWereOffered
      /\ [Registry!Next]_Registry!registryVars
      => Registry!UnitsWereOffered'
    BY OffersKept
<1>3. IInv => RegistryTypeOK
    BY RegistryTypes DEF IInv
<1> QED BY RegistryRefined, Invariance, <1>1, <1>2, <1>3, PTL DEF RegistrySpec, Registry!Spec
=============================================================================
