---------------------------- MODULE ServersProofs ----------------------------
(***************************************************************************)
(* Proofs about the servers.  Of UnifiedEnrollment, for any finite set of  *)
(* requests: the use counter of a secret is never ahead of the devices     *)
(* enrolled with it, agrees with them while the secret is undisturbed, and *)
(* retries are counted once.  Of TestServer, for any calls and attempts: a *)
(* graceful stop loses nothing, and the rows saved are honest.  Of         *)
(* UserRoles, for any requests, users and roles: an answered request       *)
(* decides the roles of its user.  Of ManagerAccounts, for any accounts    *)
(* and requests: what a second factor and a sign-out promise.              *)
(***************************************************************************)
EXTENDS UnifiedEnrollment, TestServer, UserRoles, ManagerAccounts,
        FiniteSetTheorems, TLAPS

(* Only a secret that exists admits requests.                              *)
KnownInv ==
    \A q \in Requests :
        q \in enrolled \/ phase[q] = "admitted" => secret[uses[q]].known

(* What a request has read is no more than what has been enrolled; a       *)
(* request that has inserted its device can count one more than it read.   *)
SeenInv ==
    \A q \in Requests :
        /\ phase[q] \in {"new", "admitted"} => q \notin enrolled
        /\ phase[q] = "admitted" =>
              seen[q] <= Cardinality(EnrolledWith(uses[q]))
        /\ phase[q] = "inserted" =>
              seen[q] + 1 <= Cardinality(EnrolledWith(uses[q]))

(* device_id is unique among the rows.                                     *)
DistinctInv == \A q, r \in devices : id[q] = id[r] => q = r

(* The one pending request of an undisturbed secret knows the counter.     *)
ExactOf(s) ==
    /\ \A q, r \in Pending(s) : q = r
    /\ Pending(s) = {} => secret[s].current_uses = Cardinality(EnrolledWith(s))
    /\ \A q \in Pending(s) :
          /\ seen[q] = secret[s].current_uses
          /\ phase[q] = "admitted" =>
                /\ Cardinality(EnrolledWith(s)) = seen[q]
                /\ secret[s].max_uses > 0 => seen[q] < secret[s].max_uses
          /\ phase[q] = "inserted" => Cardinality(EnrolledWith(s)) = seen[q] + 1
    /\ secret[s].max_uses > 0 => Cardinality(EnrolledWith(s)) <= secret[s].max_uses

ExactInv == \A s \in Secrets : s \in undisturbed => ExactOf(s)

IInv == TypeOK /\ KnownInv /\ SeenInv /\ DistinctInv /\ ExactInv /\ UsesNotAhead

-----------------------------------------------------------------------------
(* The devices enrolled with a secret can be counted.                      *)
LEMMA EnrolledFinite ==
    ASSUME TypeOK, NEW s
    PROVE  IsFiniteSet(EnrolledWith(s)) /\ Cardinality(EnrolledWith(s)) \in Nat
<1>1. EnrolledWith(s) \subseteq Requests
    BY DEF EnrolledWith, TypeOK
<1> QED BY <1>1, FS_Subset, FS_CardinalityType, EnrollmentAssumption

(* They stay the same while nothing is enrolled.                           *)
LEMMA EnrolledKept ==
    ASSUME UNCHANGED <<uses, enrolled>>, NEW s
    PROVE  EnrolledWith(s)' = EnrolledWith(s)
BY DEF EnrolledWith

(* An enrolment adds one device to those of its secret, none to others.    *)
LEMMA EnrolledGrows ==
    ASSUME TypeOK, NEW q \in Requests, q \notin enrolled,
           enrolled' = enrolled \cup {q}, uses' = uses, NEW s
    PROVE  Cardinality(EnrolledWith(s))' =
               IF uses[q] = s THEN Cardinality(EnrolledWith(s)) + 1
               ELSE Cardinality(EnrolledWith(s))
<1>1. CASE uses[q] = s
    <2>1. EnrolledWith(s)' = EnrolledWith(s) \cup {q} /\ q \notin EnrolledWith(s)
        BY <1>1 DEF EnrolledWith
    <2> QED BY <1>1, <2>1, EnrolledFinite, FS_AddElement
<1>2. CASE uses[q] # s
    <2>1. EnrolledWith(s)' = EnrolledWith(s)
        BY <1>2 DEF EnrolledWith
    <2> QED BY <1>2, <2>1
<1> QED BY <1>1, <1>2

-----------------------------------------------------------------------------
(* Type correctness of the rows, the requests and the histories.           *)
LEMMA TypeInit == Init => TypeOK
<1> SUFFICES ASSUME Init PROVE TypeOK
    OBVIOUS
<1>1. id \in [Requests -> Ids]
    BY DEF Init
<1> QED BY <1>1 DEF Init, TypeOK, SecretRows, Phases

LEMMA TypeNext == TypeOK /\ [Next]_vars => TypeOK'
<1> SUFFICES ASSUME TypeOK, [Next]_vars PROVE TypeOK'
    OBVIOUS
<1> USE DEF TypeOK
<1>1. ASSUME NEW s \in Secrets, NEW limit \in 0..MaxLimit,
             NEW active \in BOOLEAN, CreateSecret(s, limit, active)
      PROVE TypeOK'
    <2>1. limit \in Nat
        BY EnrollmentAssumption
    <2> QED BY <1>1, <2>1 DEF CreateSecret, SecretRows
<1>2. ASSUME NEW s \in Secrets, Expire(s)
      PROVE TypeOK'
    BY <1>2 DEF Expire, SecretRows
<1>3. ASSUME NEW q \in Requests, Lookup(q)
      PROVE TypeOK'
    <2>1. secret[uses[q]].current_uses \in Nat
        BY DEF SecretRows
    <2> QED BY <1>3, <2>1 DEF Lookup, Phases
<1>4. ASSUME NEW q \in Requests, Insert(q)
      PROVE TypeOK'
    BY <1>4 DEF Insert, Phases
<1>5. ASSUME NEW q \in Requests, Count(q)
      PROVE TypeOK'
    BY <1>5 DEF Count, Phases, SecretRows
<1>6. ASSUME NEW q \in Requests, Answer(q)
      PROVE TypeOK'
    BY <1>6 DEF Answer, Phases
<1>7. ASSUME NEW q \in Requests, Abort(q)
      PROVE TypeOK'
    BY <1>7 DEF Abort, Phases
<1>8. ASSUME NEW d \in Requests, Delete(d)
      PROVE TypeOK'
    BY <1>8 DEF Delete
<1>9. CASE UNCHANGED vars
    BY <1>9 DEF vars
<1> QED BY <1>1, <1>2, <1>3, <1>4, <1>5, <1>6, <1>7, <1>8, <1>9
        DEF Next, Enroll

THEOREM TypeCorrect == Spec => []TypeOK
BY TypeInit, TypeNext, PTL DEF Spec

-----------------------------------------------------------------------------
LEMMA InvInit == Init => IInv
<1> SUFFICES ASSUME Init PROVE IInv
    OBVIOUS
<1>1. TypeOK
    BY TypeInit
<1>2. \A s : EnrolledWith(s) = {} /\ Cardinality(EnrolledWith(s)) = 0
    BY FS_EmptySet DEF Init, EnrolledWith
<1>3. KnownInv /\ SeenInv /\ DistinctInv
    BY DEF Init, KnownInv, SeenInv, DistinctInv
<1>4. ExactInv /\ UsesNotAhead
    BY <1>2 DEF Init, ExactInv, ExactOf, UsesNotAhead, Pending
<1> QED BY <1>1, <1>3, <1>4 DEF IInv

(* A step that enrols nothing, counts nothing and admits nobody, and moves *)
(* no request but out of its enrolment, preserves the invariant.           *)
LEMMA Lesser ==
    ASSUME IInv, TypeOK', UNCHANGED <<uses, id, seen, enrolled>>,
           devices' \subseteq devices,
           undisturbed' \subseteq undisturbed,
           \A s \in Secrets :
               /\ secret'[s].current_uses = secret[s].current_uses
               /\ secret[s].known => /\ secret'[s].known
                                     /\ secret'[s].max_uses = secret[s].max_uses,
           \A r \in Requests : phase'[r] # phase[r] =>
               /\ phase'[r] \notin {"new", "admitted", "inserted"}
               /\ phase[r] = "inserted" => uses[r] \notin undisturbed'
    PROVE  IInv'
<1>1. \A s : EnrolledWith(s)' = EnrolledWith(s)
    BY EnrolledKept
<1>2. \A s : Cardinality(EnrolledWith(s))' = Cardinality(EnrolledWith(s))
    BY <1>1
<1>3. KnownInv'
    BY DEF IInv, KnownInv, TypeOK
<1>4. SeenInv'
    BY <1>2 DEF IInv, SeenInv, TypeOK
<1>5. DistinctInv'
    BY DEF IInv, DistinctInv
<1>6. UsesNotAhead'
    BY <1>2 DEF IInv, UsesNotAhead
<1>7. ExactInv'
    <2> SUFFICES ASSUME NEW s \in Secrets, s \in undisturbed'
                 PROVE  ExactOf(s)'
        BY DEF ExactInv
    <2>1. ExactOf(s)
        BY DEF IInv, ExactInv
    <2>2. \A q \in Pending(s)' : q \in Pending(s) /\ phase'[q] = phase[q]
        BY DEF Pending
    <2>3. secret'[s].max_uses > 0 => Cardinality(EnrolledWith(s)) <= secret'[s].max_uses
        <3>1. CASE secret[s].known
            BY <2>1, <3>1 DEF ExactOf
        <3>2. CASE ~secret[s].known
            <4>1. EnrolledWith(s) = {}
                BY <3>2 DEF IInv, KnownInv, EnrolledWith, TypeOK
            <4> QED BY <4>1, FS_EmptySet DEF TypeOK, SecretRows
        <3> QED BY <3>1, <3>2
    <2>4. ASSUME Pending(s)' = {}
          PROVE  secret[s].current_uses = Cardinality(EnrolledWith(s))
        <3>1. CASE Pending(s) = {}
            BY <2>1, <3>1 DEF ExactOf
        <3>2. CASE Pending(s) # {}
            <4>1. PICK q \in Pending(s) : phase'[q] # phase[q]
                BY <2>4, <3>2 DEF Pending
            <4>2. phase[q] = "admitted"
                BY <4>1 DEF Pending
            <4> QED BY <2>1, <4>1, <4>2 DEF ExactOf
        <3> QED BY <3>1, <3>2
    <2>5. \A q \in Pending(s)' :
              /\ phase'[q] = "admitted" => secret[s].known
              /\ seen'[q] = seen[q]
        BY <2>2 DEF IInv, KnownInv, Pending
    <2>6. \A q \in Pending(s)' :
              /\ seen'[q] = secret'[s].current_uses
              /\ phase'[q] = "admitted" =>
                    /\ Cardinality(EnrolledWith(s))' = seen'[q]
                    /\ secret'[s].max_uses > 0 => seen'[q] < secret'[s].max_uses
              /\ phase'[q] = "inserted" => Cardinality(EnrolledWith(s))' = seen'[q] + 1
        BY <1>2, <2>1, <2>2, <2>5 DEF ExactOf
    <2>7. \A q, r \in Pending(s)' : q = r
        BY <2>1, <2>2 DEF ExactOf
    <2> QED BY <1>2, <2>3, <2>4, <2>6, <2>7 DEF ExactOf
<1> QED BY <1>3, <1>4, <1>5, <1>6, <1>7 DEF IInv

(* An admission: the request has read the counter as it is.                *)
LEMMA LookupKeeps ==
    ASSUME IInv, TypeOK', NEW q \in Requests, Lookup(q), Valid(uses[q])
    PROVE  IInv'
<1>. DEFINE s0 == uses[q]
<1>0. /\ s0 \in Secrets /\ phase[q] = "new" /\ q \notin enrolled
      /\ phase' = [phase EXCEPT ![q] = "admitted"]
      /\ seen' = [seen EXCEPT ![q] = secret[s0].current_uses]
      /\ undisturbed' = IF Pending(s0) = {} THEN undisturbed
                        ELSE undisturbed \ {s0}
      /\ UNCHANGED <<secret, devices, uses, id, enrolled>>
    BY DEF Lookup, IInv, SeenInv, TypeOK
<1>1. \A s : Cardinality(EnrolledWith(s))' = Cardinality(EnrolledWith(s))
    BY <1>0, EnrolledKept
<1>2. \A s : Pending(s)' = IF s = s0 THEN Pending(s) \cup {q} ELSE Pending(s)
    BY <1>0 DEF Pending, IInv, TypeOK
<1>3. KnownInv'
    BY <1>0 DEF IInv, KnownInv, TypeOK, Valid
<1>4. SeenInv'
    BY <1>0, <1>1 DEF IInv, SeenInv, UsesNotAhead, TypeOK
<1>5. DistinctInv' /\ UsesNotAhead'
    BY <1>0, <1>1 DEF IInv, DistinctInv, UsesNotAhead
<1>6. ExactInv'
    <2> SUFFICES ASSUME NEW s \in Secrets, s \in undisturbed'
                 PROVE  ExactOf(s)'
        BY DEF ExactInv
    <2>1. ExactOf(s) /\ s \in undisturbed
        BY <1>0 DEF IInv, ExactInv
    <2>2. CASE s = s0
        <3>1. Pending(s) = {} /\ Pending(s)' = {q}
            BY <1>0, <1>2, <2>2
        <3>2. seen'[q] = secret[s].current_uses /\ phase'[q] = "admitted"
            BY <1>0, <2>2 DEF IInv, TypeOK
        <3>3. secret[s].current_uses = Cardinality(EnrolledWith(s))
            BY <2>1, <3>1 DEF ExactOf
        <3>4. secret[s].max_uses > 0 => secret[s].current_uses < secret[s].max_uses
            BY <2>2 DEF Valid, IInv, TypeOK, SecretRows
        <3>5. secret[s].max_uses > 0 =>
                  Cardinality(EnrolledWith(s)) <= secret[s].max_uses
            BY <2>1 DEF ExactOf
        <3> QED BY <1>0, <1>1, <3>1, <3>2, <3>3, <3>4, <3>5 DEF ExactOf
    <2>3. CASE s # s0
        <3>1. Pending(s)' = Pending(s)
            BY <1>2, <2>3
        <3>2. \A r \in Pending(s) : phase'[r] = phase[r] /\ seen'[r] = seen[r]
            BY <1>0, <2>3 DEF Pending, IInv, TypeOK
        <3> QED BY <1>0, <1>1, <2>1, <3>1, <3>2 DEF ExactOf
    <2> QED BY <2>2, <2>3
<1> QED BY <1>3, <1>4, <1>5, <1>6 DEF IInv

(* An enrolment: one more device than the request has read.                *)
LEMMA InsertKeeps ==
    ASSUME IInv, TypeOK', NEW q \in Requests, Insert(q), ~Taken(id[q])
    PROVE  IInv'
<1>. DEFINE s0 == uses[q]
<1>0. /\ s0 \in Secrets /\ phase[q] = "admitted" /\ q \notin enrolled
      /\ phase' = [phase EXCEPT ![q] = "inserted"]
      /\ devices' = devices \cup {q} /\ enrolled' = enrolled \cup {q}
      /\ UNCHANGED <<secret, uses, id, seen, undisturbed>>
    BY DEF Insert, IInv, SeenInv, TypeOK
<1>1. \A s : Cardinality(EnrolledWith(s))' =
                 IF s = s0 THEN Cardinality(EnrolledWith(s)) + 1
                 ELSE Cardinality(EnrolledWith(s))
    BY <1>0, EnrolledGrows DEF IInv
<1>2. \A s : Cardinality(EnrolledWith(s)) \in Nat
    BY EnrolledFinite DEF IInv
<1>3. \A s : Pending(s)' = Pending(s)
    BY <1>0 DEF Pending, IInv, TypeOK
<1>4. KnownInv'
    BY <1>0 DEF IInv, KnownInv, TypeOK
<1>5. SeenInv'
    <2> SUFFICES ASSUME NEW r \in Requests
                 PROVE  /\ phase'[r] \in {"new", "admitted"} => r \notin enrolled'
                        /\ phase'[r] = "admitted" =>
                              seen'[r] <= Cardinality(EnrolledWith(uses[r]))'
                        /\ phase'[r] = "inserted" =>
                              seen'[r] + 1 <= Cardinality(EnrolledWith(uses[r]))'
        BY <1>0 DEF SeenInv
    <2>1. seen[r] \in Nat /\ uses[r] \in Secrets
        BY DEF IInv, TypeOK
    <2>2. CASE r = q
        BY <1>0, <1>1, <1>2, <2>1, <2>2 DEF IInv, SeenInv, TypeOK
    <2>3. CASE r # q
        <3>1. phase'[r] = phase[r]
            BY <1>0, <2>3 DEF IInv, TypeOK
        <3> QED BY <1>0, <1>1, <1>2, <2>1, <2>3, <3>1 DEF IInv, SeenInv
    <2> QED BY <2>2, <2>3
<1>6. DistinctInv'
    BY <1>0 DEF IInv, DistinctInv, Taken
<1>7. UsesNotAhead'
    <2> SUFFICES ASSUME NEW s \in Secrets
                 PROVE  secret[s].current_uses <= Cardinality(EnrolledWith(s))'
        BY <1>0 DEF UsesNotAhead
    <2>1. secret[s].current_uses <= Cardinality(EnrolledWith(s))
        BY DEF IInv, UsesNotAhead
    <2>2. secret[s].current_uses \in Nat
        BY DEF IInv, TypeOK, SecretRows
    <2> QED BY <1>1, <1>2, <2>1, <2>2
<1>8. ExactInv'
    <2> SUFFICES ASSUME NEW s \in Secrets, s \in undisturbed'
                 PROVE  ExactOf(s)'
        BY DEF ExactInv
    <2>1. ExactOf(s)
        BY <1>0 DEF IInv, ExactInv
    <2>2. CASE s = s0
        <3>1. q \in Pending(s) /\ \A r \in Pending(s) : r = q
            BY <1>0, <2>1, <2>2 DEF ExactOf, Pending
        <3>2. /\ seen[q] = secret[s].current_uses
              /\ Cardinality(EnrolledWith(s)) = seen[q]
              /\ secret[s].max_uses > 0 => seen[q] < secret[s].max_uses
            BY <1>0, <2>1, <3>1 DEF ExactOf
        <3>3. phase'[q] = "inserted"
            BY <1>0 DEF IInv, TypeOK
        <3>4. secret[s].max_uses \in Nat /\ seen[q] \in Nat
            BY DEF IInv, TypeOK, SecretRows
        <3>5. Cardinality(EnrolledWith(s))' = seen[q] + 1
            BY <1>1, <2>2, <3>2
        <3> QED BY <1>0, <1>3, <3>1, <3>2, <3>3, <3>4, <3>5 DEF ExactOf
    <2>3. CASE s # s0
        <3>1. \A r \in Pending(s) : phase'[r] = phase[r]
            BY <1>0, <2>3 DEF Pending, IInv, TypeOK
        <3> QED BY <1>0, <1>1, <1>3, <2>1, <2>3, <3>1 DEF ExactOf
    <2> QED BY <2>2, <2>3
<1> QED BY <1>4, <1>5, <1>6, <1>7, <1>8 DEF IInv

(* A count: the counter becomes what was read, plus one.                   *)
LEMMA CountKeeps ==
    ASSUME IInv, TypeOK', NEW q \in Requests, Count(q)
    PROVE  IInv'
<1>. DEFINE s0 == uses[q]
<1>0. /\ s0 \in Secrets /\ phase[q] = "inserted"
      /\ phase' = [phase EXCEPT ![q] = "counted"]
      /\ secret' = [secret EXCEPT ![s0].current_uses = seen[q] + 1]
      /\ UNCHANGED <<devices, uses, id, seen, enrolled, undisturbed>>
    BY DEF Count, IInv, TypeOK
<1>1. \A s : Cardinality(EnrolledWith(s))' = Cardinality(EnrolledWith(s))
    BY <1>0, EnrolledKept
<1>2. \A s \in Secrets : /\ secret'[s].known = secret[s].known
                         /\ secret'[s].max_uses = secret[s].max_uses
                         /\ secret'[s].current_uses =
                               IF s = s0 THEN seen[q] + 1 ELSE secret[s].current_uses
    BY <1>0 DEF IInv, TypeOK, SecretRows
<1>3. KnownInv'
    BY <1>0, <1>2 DEF IInv, KnownInv, TypeOK
<1>4. SeenInv'
    BY <1>0, <1>1 DEF IInv, SeenInv, TypeOK
<1>5. DistinctInv'
    BY <1>0 DEF IInv, DistinctInv
<1>6. UsesNotAhead'
    BY <1>0, <1>1, <1>2 DEF IInv, UsesNotAhead, SeenInv
<1>7. ExactInv'
    <2> SUFFICES ASSUME NEW s \in Secrets, s \in undisturbed'
                 PROVE  ExactOf(s)'
        BY DEF ExactInv
    <2>1. ExactOf(s)
        BY <1>0 DEF IInv, ExactInv
    <2>2. CASE s = s0
        <3>1. q \in Pending(s) /\ \A r \in Pending(s) : r = q
            BY <1>0, <2>1, <2>2 DEF ExactOf, Pending
        <3>2. Pending(s)' = {}
            BY <1>0, <2>2, <3>1 DEF Pending, IInv, TypeOK
        <3>3. Cardinality(EnrolledWith(s)) = seen[q] + 1
            BY <1>0, <2>1, <3>1 DEF ExactOf
        <3>4. secret[s].max_uses > 0 =>
                  Cardinality(EnrolledWith(s)) <= secret[s].max_uses
            BY <2>1 DEF ExactOf
        <3> QED BY <1>1, <1>2, <2>2, <3>2, <3>3, <3>4 DEF ExactOf
    <2>3. CASE s # s0
        <3>1. Pending(s)' = Pending(s)
            BY <1>0, <2>3 DEF Pending, IInv, TypeOK
        <3>2. \A r \in Pending(s) : phase'[r] = phase[r]
            BY <1>0, <2>3 DEF Pending, IInv, TypeOK
        <3> QED BY <1>0, <1>1, <1>2, <2>1, <2>3, <3>1, <3>2 DEF ExactOf
    <2> QED BY <2>2, <2>3
<1> QED BY <1>3, <1>4, <1>5, <1>6, <1>7 DEF IInv

-----------------------------------------------------------------------------
LEMMA InvNext == IInv /\ [Next]_vars => IInv'
<1> SUFFICES ASSUME IInv, [Next]_vars PROVE IInv'
    OBVIOUS
<1>0. TypeOK /\ TypeOK'
    BY TypeNext DEF IInv
<1>1. ASSUME NEW s \in Secrets, NEW limit \in 0..MaxLimit,
             NEW active \in BOOLEAN, CreateSecret(s, limit, active)
      PROVE  IInv'
    <2>1. \A t \in Secrets : /\ secret'[t].current_uses = secret[t].current_uses
                             /\ secret[t].known => secret'[t] = secret[t]
        BY <1>0, <1>1 DEF CreateSecret, TypeOK, SecretRows
    <2> QED BY <1>0, <1>1, <2>1, Lesser DEF CreateSecret
<1>2. ASSUME NEW s \in Secrets, Expire(s)
      PROVE  IInv'
    <2>1. \A t \in Secrets : /\ secret'[t].current_uses = secret[t].current_uses
                             /\ secret'[t].known = secret[t].known
                             /\ secret'[t].max_uses = secret[t].max_uses
        BY <1>0, <1>2 DEF Expire, TypeOK, SecretRows
    <2> QED BY <1>0, <1>2, <2>1, Lesser DEF Expire
<1>3. ASSUME NEW q \in Requests, Lookup(q)
      PROVE  IInv'
    <2>1. CASE Valid(uses[q])
        BY <1>0, <1>3, <2>1, LookupKeeps
    <2>2. CASE ~Valid(uses[q])
        <3>1. /\ phase[q] = "new" /\ phase' = [phase EXCEPT ![q] = "refused"]
              /\ UNCHANGED <<secret, devices, uses, id, seen, enrolled, undisturbed>>
            BY <1>3, <2>2 DEF Lookup
        <3>2. \A r \in Requests : phase'[r] # phase[r] =>
                  phase'[r] = "refused" /\ phase[r] = "new"
            BY <1>0, <3>1 DEF TypeOK
        <3> QED BY <1>0, <3>1, <3>2, Lesser
    <2> QED BY <2>1, <2>2
<1>4. ASSUME NEW q \in Requests, Insert(q)
      PROVE  IInv'
    <2>1. CASE ~Taken(id[q])
        BY <1>0, <1>4, <2>1, InsertKeeps
    <2>2. CASE Taken(id[q])
        <3>1. /\ phase[q] = "admitted" /\ phase' = [phase EXCEPT ![q] = "failed"]
              /\ UNCHANGED <<secret, devices, uses, id, seen, enrolled, undisturbed>>
            BY <1>4, <2>2 DEF Insert, Taken
        <3>2. \A r \in Requests : phase'[r] # phase[r] =>
                  phase'[r] = "failed" /\ phase[r] = "admitted"
            BY <1>0, <3>1 DEF TypeOK
        <3> QED BY <1>0, <3>1, <3>2, Lesser
    <2> QED BY <2>1, <2>2
<1>5. ASSUME NEW q \in Requests, Count(q)
      PROVE  IInv'
    BY <1>0, <1>5, CountKeeps
<1>6. ASSUME NEW q \in Requests, Answer(q)
      PROVE  IInv'
    <2>1. \A r \in Requests : phase'[r] # phase[r] =>
              phase'[r] \in {"enrolled", "refused"} /\ phase[r] = "counted"
        BY <1>0, <1>6 DEF Answer, TypeOK
    <2> QED BY <1>0, <1>6, <2>1, Lesser DEF Answer
<1>7. ASSUME NEW q \in Requests, Abort(q)
      PROVE  IInv'
    <2>1. \A r \in Requests : phase'[r] # phase[r] =>
              phase'[r] = "failed" /\ (phase[r] = "inserted" => uses[r] \notin undisturbed')
        BY <1>0, <1>7 DEF Abort, TypeOK
    <2>2. undisturbed' \subseteq undisturbed
        BY <1>7 DEF Abort
    <2> QED BY <1>0, <1>7, <2>1, <2>2, Lesser DEF Abort
<1>8. ASSUME NEW d \in Requests, Delete(d)
      PROVE  IInv'
    BY <1>0, <1>8, Lesser DEF Delete
<1>9. CASE UNCHANGED vars
    BY <1>0, <1>9, Lesser DEF vars
<1> QED BY <1>1, <1>2, <1>3, <1>4, <1>5, <1>6, <1>7, <1>8, <1>9
        DEF Next, Enroll

LEMMA Invariance == Spec => []IInv
BY InvInit, InvNext, PTL DEF Spec

(* current_uses never exceeds the number of devices enrolled with the      *)
(* secret, whatever enrolments overlap, fail or stop half way.             *)
THEOREM NotAhead == Spec => []UsesNotAhead
<1>1. IInv => UsesNotAhead
    BY DEF IInv
<1> QED BY <1>1, Invariance, PTL

(* Without overlap and interruption the counter is exact, and max_uses a   *)
(* bound on the devices a secret enrols.                                   *)
THEOREM Exact == Spec => []ExactIfUndisturbed
<1>1. IInv => ExactIfUndisturbed
    <2> SUFFICES ASSUME IInv, NEW s \in undisturbed
                 PROVE  ExactOf(s)
        BY DEF ExactIfUndisturbed, ExactOf
    <2> QED BY DEF IInv, ExactInv, TypeOK
<1> QED BY <1>1, Invariance, PTL

(* However often a client repeats an enrolment, a device that is not       *)
(* deleted uses the secret once.                                           *)
THEOREM CountedOnce == Spec => []RetriesCountedOnce
<1>1. IInv => RetriesCountedOnce
    <2> SUFFICES ASSUME IInv, NEW s \in Secrets, EnrolledWith(s) \subseteq devices
                 PROVE  secret[s].current_uses
                            <= Cardinality({id[q] : q \in EnrolledWith(s)})
        BY DEF RetriesCountedOnce
    <2>. DEFINE E == EnrolledWith(s)
                D == {id[q] : q \in E}
                f == [q \in E |-> id[q]]
    <2>1. IsFiniteSet(E) /\ Cardinality(E) \in Nat
        BY EnrolledFinite DEF IInv
    <2>2. f \in Bijection(E, D)
        <3>1. \A q, r \in E : f[q] = f[r] => q = r
            BY DEF IInv, DistinctInv
        <3>2. f \in Surjection(E, D)
            BY DEF Surjection
        <3> QED BY <3>1, <3>2 DEF Bijection, Injection, IsInjective, Surjection
    <2>3. Cardinality(D) = Cardinality(E)
        BY <2>1, <2>2, FS_Bijection DEF ExistsBijection
    <2> QED BY <2>3 DEF IInv, UsesNotAhead
<1> QED BY <1>1, Invariance, PTL

-----------------------------------------------------------------------------
(* The testServer.                                                         *)

(* What the position of a call's handler says of its report: there is none *)
(* before the test returns, and afterwards it is saved or the log says     *)
(* why not.                                                                *)
ProgressOf(c) ==
    /\ handling[c] \in {"new", "authorising", "testing", "streaming", "refused"} =>
          report[c] = NoReport
    /\ handling[c] = "saving" => report[c] # NoReport
    /\ handling[c] \in {"answering"} \cup Over =>
          (report[c] # NoReport => Saved(c) \/ c \in saveErrors)

(* A report is what the tester makes of all attempts when it does not      *)
(* return an error instead, and there was an attempt.                      *)
ReportOf(c) ==
    kind[c] \in Tests /\ report[c] # NoReport =>
        /\ tried[c] # <<>>
        /\ report[c] = [success |-> Success(kind[c], tried[c]),
                        status |-> StatusOf(kind[c], tried[c]),
                        timed |-> Timed(kind[c], tried[c])]
        /\ ~Fails(kind[c], tried[c])

(* A row is made from the report of its call, which is past the INSERT.    *)
RowFits(row) == row = RowOf(row.call) /\ report[row.call] # NoReport

(* Handlers are cut off by nothing but a forced end.                       *)
StopInv ==
    /\ server \in {"serving", "draining"} => \A c \in Calls : handling[c] # "cut"
    /\ server = "stopped" => \A c \in Calls : handling[c] \in {"new"} \cup Over

CallsInv == \A c \in Calls : ProgressOf(c) /\ ReportOf(c)
RowsInv == \A row \in savedRows : RowFits(row)

ServerInv == ServerTypeOK /\ CallsInv /\ RowsInv /\ StopInv

LEMMA ServerTypeInit == ServerInit => ServerTypeOK
BY DEF ServerInit, ServerTypeOK, Running, Over, Kinds, Tests, Reports

LEMMA ServerTypeNext ==
    ServerTypeOK /\ CallsInv /\ [ServerNext]_serverVars => ServerTypeOK'
<1> SUFFICES ASSUME ServerTypeOK, CallsInv, [ServerNext]_serverVars PROVE ServerTypeOK'
  OBVIOUS
<1> USE DEF ServerTypeOK
<1>1. CASE UNCHANGED serverVars
  BY <1>1 DEF serverVars
<1>2. ASSUME NEW c \in Calls, Receive(c) PROVE ServerTypeOK'
  <2>1. [success |-> TRUE, status |-> "none", timed |-> {}] \in Reports
    BY DEF Reports, Outcomes
  <2> QED
    BY <1>2, <2>1 DEF Receive, Running, Over
<1>3. ASSUME NEW c \in Calls, Admit(c) \/ Refuse(c) \/ Fail(c) \/ Respond(c)
      PROVE ServerTypeOK'
  BY <1>3 DEF Admit, Refuse, Fail, Respond, Running, Over
<1>4. ASSUME NEW c \in Calls, NEW o \in Outcomes, Attempt(c, o) PROVE ServerTypeOK'
  <2>1. tried' \in [Calls -> Seq(Outcomes)]
    BY <1>4 DEF Attempt
  <2> QED
    BY <1>4, <2>1 DEF Attempt
<1>5. ASSUME NEW c \in Calls, Conclude(c) PROVE ServerTypeOK'
  <2>1. tried[c] \in Seq(Outcomes) /\ Len(tried[c]) \in 1..MaxCount
    BY <1>5 DEF Conclude
  <2>2. DOMAIN tried[c] \subseteq 1..MaxCount
    BY <2>1, ServerAssumption
  <2>3. Timed(kind[c], tried[c]) \in SUBSET (1..MaxCount)
    BY <2>2 DEF Timed
  <2>4. Success(kind[c], tried[c]) \in BOOLEAN
    BY DEF Success, HttpSuccess, HttpStatus, LastAnswer, StatusOf,
       TcpSuccess, UdpSuccess, PingSuccess, TraceSuccess
  <2>5. [success |-> Success(kind[c], tried[c]), status |-> StatusOf(kind[c], tried[c]),
         timed |-> Timed(kind[c], tried[c])] \in Reports
    BY <2>3, <2>4 DEF Reports, StatusOf, HttpStatus, Outcomes
  <2>6. report' \in [Calls -> Reports \cup {NoReport}]
    BY <1>5, <2>5 DEF Conclude
  <2>7. handling' \in [Calls -> {"new", "cut"} \cup Running \cup Over]
    BY <1>5 DEF Conclude, Running, Over
  <2> QED
    BY <1>5, <2>6, <2>7 DEF Conclude
<1>6. ASSUME NEW c \in Calls, SaveFails(c) \/ HangUp(c) PROVE ServerTypeOK'
  BY <1>6 DEF SaveFails, HangUp, Running, Over
<1>7. ASSUME NEW c \in Calls, Save(c) PROVE ServerTypeOK'
  <2>1. report[c] \in Reports
    BY <1>7 DEF Save, CallsInv, ProgressOf
  <2>2. RowOf(c) \in Rows
    BY <2>1 DEF RowOf, Rows, Reports
  <2> QED
    BY <1>7, <2>2 DEF Save, Running, Over
<1>8. ASSUME Signal \/ StopGracefully \/ ForcedEnd PROVE ServerTypeOK'
  BY <1>8 DEF Signal, StopGracefully, ForcedEnd, Exit, Running, Over
<1> QED
  BY <1>1, <1>2, <1>3, <1>4, <1>5, <1>6, <1>7, <1>8 DEF ServerNext, Handle

LEMMA ServerInit0 == ServerInit => ServerInv
<1> SUFFICES ASSUME ServerInit PROVE ServerInv
  OBVIOUS
<1>1. CallsInv /\ RowsInv /\ StopInv
  BY DEF ServerInit, CallsInv, RowsInv, StopInv, ProgressOf, ReportOf, Over
<1> QED
  BY <1>1, ServerTypeInit DEF ServerInv

(* A call whose handler, attempts and report stay as they are keeps its    *)
(* part of the invariant, since rows and the log only grow.                *)
LEMMA CallElsewhere ==
    ASSUME NEW c \in Calls, ProgressOf(c), ReportOf(c),
           handling'[c] = handling[c], tried'[c] = tried[c],
           report'[c] = report[c], kind' = kind,
           savedRows \subseteq savedRows', saveErrors \subseteq saveErrors'
    PROVE  ProgressOf(c)' /\ ReportOf(c)'
BY DEF ProgressOf, ReportOf, Saved, Success, HttpSuccess, HttpStatus, LastAnswer, StatusOf,
       TcpSuccess, UdpSuccess,
       PingSuccess, TraceSuccess, Timed, Fails

LEMMA CallsNext == ServerInv /\ [ServerNext]_serverVars => CallsInv'
<1> SUFFICES ASSUME ServerInv, [ServerNext]_serverVars, NEW d \in Calls
             PROVE  ProgressOf(d)' /\ ReportOf(d)'
  BY DEF CallsInv
<1>0. ServerTypeOK /\ ProgressOf(d) /\ ReportOf(d)
  BY DEF ServerInv, CallsInv
<1> USE <1>0
<1>1. CASE UNCHANGED serverVars
  BY <1>1, CallElsewhere DEF serverVars
<1>2. ASSUME NEW c \in Calls, Handle(c) \/ HangUp(c), c # d
      PROVE  ProgressOf(d)' /\ ReportOf(d)'
  BY <1>2, CallElsewhere DEF Handle, HangUp, Receive, Admit, Refuse, Fail, Conclude,
     Save, SaveFails, Respond, Attempt, ServerTypeOK
<1>3. CASE Receive(d)
  <2>1. [success |-> TRUE, status |-> "none", timed |-> {}] # NoReport
    <3>1. [success |-> TRUE, status |-> "none", timed |-> {}] \in Reports
      BY DEF Reports, Outcomes
    <3> QED
      BY <3>1, ServerAssumption
  <2> QED
    BY <1>3, <2>1 DEF Receive, ProgressOf, ReportOf, Over, Tests, ServerTypeOK, Saved
<1>4. CASE Admit(d) \/ Refuse(d) \/ Fail(d)
  BY <1>4 DEF Admit, Refuse, Fail, ProgressOf, ReportOf, ServerTypeOK, Over
<1>5. ASSUME NEW o \in Outcomes, Attempt(d, o) PROVE ProgressOf(d)' /\ ReportOf(d)'
  BY <1>5 DEF Attempt, ProgressOf, ReportOf, ServerTypeOK, Over
<1>6. CASE Conclude(d) /\ Fails(kind[d], tried[d])
  BY <1>6 DEF Conclude, ProgressOf, ReportOf, ServerTypeOK, Over
<1>7. CASE Conclude(d) /\ ~Fails(kind[d], tried[d])
  <2> DEFINE new == [success |-> Success(kind[d], tried[d]),
                     status |-> StatusOf(kind[d], tried[d]),
                     timed |-> Timed(kind[d], tried[d])]
  <2>1. /\ handling'[d] = "saving" /\ report'[d] = new
        /\ kind' = kind /\ tried' = tried
    BY <1>7 DEF Conclude, ServerTypeOK
  <2>2. tried[d] # <<>>
    BY <1>7 DEF Conclude, ServerTypeOK
  <2>3. new \in Reports
    <3>1. Success(kind[d], tried[d]) \in BOOLEAN
      BY DEF Success, HttpSuccess, HttpStatus, LastAnswer, StatusOf,
       TcpSuccess, UdpSuccess, PingSuccess, TraceSuccess
    <3>2. tried[d] \in Seq(Outcomes) /\ Len(tried[d]) \in 1..MaxCount
      BY <1>7 DEF Conclude, ServerTypeOK
    <3>3. DOMAIN tried[d] \subseteq 1..MaxCount
      BY <3>2, ServerAssumption
    <3> QED
      BY <3>1, <3>3 DEF Reports, Timed, StatusOf, HttpStatus, Outcomes
  <2>4. ReportOf(d)'
    BY <1>7, <2>1, <2>2 DEF ReportOf, Success, HttpSuccess, HttpStatus, LastAnswer, StatusOf,
       TcpSuccess, UdpSuccess,
       PingSuccess, TraceSuccess, Timed, Fails
  <2>5. ProgressOf(d)'
    BY <2>1, <2>3, ServerAssumption DEF ProgressOf, Over
  <2> QED
    BY <2>4, <2>5
<1>8. CASE Save(d)
  <2>1. Saved(d)'
    <3>1. RowOf(d) \in savedRows'
      BY <1>8 DEF Save
    <3>2. RowOf(d).call = d
      BY DEF RowOf
    <3> QED
      BY <3>1, <3>2 DEF Saved
  <2>2. handling'[d] = "answering" /\ report' = report /\ tried' = tried /\ kind' = kind
    BY <1>8 DEF Save, ServerTypeOK
  <2> QED
    BY <2>1, <2>2 DEF ProgressOf, ReportOf, Success, HttpSuccess, HttpStatus, LastAnswer, StatusOf,
       TcpSuccess, UdpSuccess,
       PingSuccess, TraceSuccess, Timed, Fails
<1>9. CASE SaveFails(d)
  <2>1. d \in saveErrors' /\ handling'[d] \in {"failed", "answering"}
        /\ report' = report /\ tried' = tried /\ kind' = kind
    BY <1>9 DEF SaveFails, ServerTypeOK
  <2> QED
    BY <2>1 DEF ProgressOf, ReportOf, Success, HttpSuccess, HttpStatus, LastAnswer, StatusOf,
       TcpSuccess, UdpSuccess,
       PingSuccess, TraceSuccess, Timed, Fails
<1>10. CASE Respond(d)
  <2>1. handling'[d] \in {"unheard", "answered"} /\ UNCHANGED <<kind, tried, report, savedRows, saveErrors>>
    BY <1>10 DEF Respond, ServerTypeOK
  <2>2. report[d] # NoReport => Saved(d) \/ d \in saveErrors
    BY <1>10 DEF Respond, ProgressOf
  <2> QED
    BY <2>1, <2>2 DEF ProgressOf, ReportOf, Saved, Success, HttpSuccess, HttpStatus, LastAnswer, StatusOf,
       TcpSuccess,
       UdpSuccess, PingSuccess, TraceSuccess, Timed, Fails
<1>11. CASE HangUp(d)
  BY <1>11, CallElsewhere DEF HangUp
<1>12. CASE Signal
  BY <1>12, CallElsewhere DEF Signal
<1>13. ASSUME NEW how, Exit(how) PROVE ProgressOf(d)' /\ ReportOf(d)'
  <2>1. CASE handling[d] \in Running
    <3>1. handling'[d] = "cut" /\ UNCHANGED <<kind, tried, report>>
      BY <1>13, <2>1 DEF Exit
    <3> QED
      BY <3>1 DEF ProgressOf, ReportOf, Over, Success, HttpSuccess, HttpStatus, LastAnswer, StatusOf,
       TcpSuccess,
         UdpSuccess, PingSuccess, TraceSuccess, Timed, Fails
  <2>2. CASE handling[d] \notin Running
    BY <1>13, <2>2, CallElsewhere DEF Exit
  <2> QED
    BY <2>1, <2>2
<1> QED
  <2>1. (\E c \in Calls : Handle(c) \/ HangUp(c)) \/ Signal \/ StopGracefully \/ ForcedEnd
        \/ UNCHANGED serverVars
    BY DEF ServerNext
  <2>2. CASE Handle(d) \/ HangUp(d)
    BY <2>2, <1>3, <1>4, <1>5, <1>6, <1>7, <1>8, <1>9, <1>10, <1>11 DEF Handle
  <2>3. CASE StopGracefully \/ ForcedEnd
    BY <2>3, <1>13 DEF StopGracefully, ForcedEnd
  <2> QED
    BY <2>1, <2>2, <2>3, <1>1, <1>2, <1>12

LEMMA RowsNext == ServerInv /\ [ServerNext]_serverVars => RowsInv'
<1> SUFFICES ASSUME ServerInv, [ServerNext]_serverVars, NEW row \in savedRows'
             PROVE  RowFits(row)'
  BY DEF RowsInv
<1>0. ServerTypeOK /\ CallsInv /\ RowsInv
  BY DEF ServerInv
<1>1. ASSUME NEW c \in Calls, Save(c), row = RowOf(c)
      PROVE RowFits(row)'
  BY <1>0, <1>1 DEF Save, RowFits, RowOf, CallsInv, ProgressOf
<1>2. CASE row \in savedRows
  <2>1. RowFits(row) /\ row.call \in Calls
    BY <1>0, <1>2 DEF RowsInv, ServerTypeOK, Rows
  <2>2. report'[row.call] = report[row.call]
    <3>1. ASSUME NEW c \in Calls, Receive(c) \/ Conclude(c)
          PROVE  report'[row.call] = report[row.call]
      <4>1. report[c] = NoReport
        BY <3>1, <1>0 DEF Receive, Conclude, CallsInv, ProgressOf
      <4>2. row.call # c
        BY <4>1, <2>1 DEF RowFits
      <4> QED
        BY <3>1, <4>2, <1>0, <2>1 DEF Receive, Conclude, ServerTypeOK
    <3>2. report' = report \/ \E c \in Calls : Receive(c) \/ Conclude(c)
      BY DEF ServerNext, serverVars, Handle, Admit, Refuse, Fail, Save, SaveFails,
         Respond, Attempt, HangUp, Signal, StopGracefully, ForcedEnd, Exit
    <3> QED
      BY <3>1, <3>2
  <2> QED
    BY <2>1, <2>2 DEF RowFits, RowOf
<1>3. row \notin savedRows => \E c \in Calls :
         Save(c) /\ row = RowOf(c)
  <2>1. savedRows' = savedRows \/ \E c \in Calls : Save(c)
    BY DEF ServerNext, serverVars, Handle, Receive, Admit, Refuse, Fail, Conclude,
       SaveFails, Respond, Attempt, HangUp, Signal, StopGracefully, ForcedEnd, Exit
  <2> QED
    BY <2>1 DEF Save
<1> QED
  BY <1>1, <1>2, <1>3

LEMMA StopNext == ServerInv /\ [ServerNext]_serverVars => StopInv'
<1> SUFFICES ASSUME ServerInv, [ServerNext]_serverVars PROVE StopInv'
  OBVIOUS
<1>0. ServerTypeOK /\ StopInv
  BY DEF ServerInv
<1>1. CASE UNCHANGED serverVars
  BY <1>0, <1>1 DEF StopInv, serverVars
<1>2. ASSUME NEW c \in Calls, Handle(c) PROVE StopInv'
  <2>1. handling[c] \in Running \cup {"new"} /\ server' = server
        /\ (handling[c] = "new" => server = "serving")
    BY <1>2 DEF Handle, Receive, Admit, Refuse, Fail, Conclude, Save, SaveFails,
       Respond, Attempt, Running
  <2>2. server # "stopped"
    BY <2>1, <1>0 DEF StopInv, Running, Over
  <2>3. handling'[c] # "cut" /\ \A d \in Calls : d # c => handling'[d] = handling[d]
    BY <1>0, <1>2, <2>1 DEF Handle, Receive, Admit, Refuse, Fail, Conclude, Save,
       SaveFails, Respond, Attempt, ServerTypeOK, Running
  <2> QED
    BY <1>0, <2>1, <2>2, <2>3 DEF StopInv
<1>3. ASSUME NEW c \in Calls, HangUp(c) PROVE StopInv'
  BY <1>0, <1>3 DEF StopInv, HangUp
<1>4. CASE Signal
  BY <1>0, <1>4 DEF StopInv, Signal
<1>5. CASE StopGracefully
  BY <1>0, <1>5 DEF StopInv, StopGracefully, Exit, ServerTypeOK, Over
<1>6. CASE ForcedEnd
  BY <1>0, <1>6 DEF StopInv, ForcedEnd, Exit
<1> QED
  BY <1>1, <1>2, <1>3, <1>4, <1>5, <1>6 DEF ServerNext

LEMMA ServerInvariance == ServerSpec => []ServerInv
<1>1. ServerInv /\ [ServerNext]_serverVars => ServerInv'
  BY ServerTypeNext, CallsNext, RowsNext, StopNext DEF ServerInv
<1> QED
  BY <1>1, ServerInit0, PTL DEF ServerSpec

(* The variables of the testServer have their types.                       *)
THEOREM ServerTypes == ServerSpec => []ServerTypeOK
<1>1. ServerInv => ServerTypeOK
  BY DEF ServerInv
<1> QED
  BY <1>1, ServerInvariance, PTL

(* A graceful stop cuts no call off and loses no result, for any number of *)
(* calls.                                                                  *)
THEOREM StopCorrect == ServerSpec => []GracefulStopLosesNothing
<1>1. ServerInv => GracefulStopLosesNothing
  BY DEF ServerInv, CallsInv, ProgressOf, StopInv, GracefulStopLosesNothing, Over
<1> QED
  BY <1>1, ServerInvariance, PTL

(* What the client is told and what is saved say no more than the attempts *)
(* do and agree with each other, for any number of attempts.               *)
THEOREM ResultsCorrect == ServerSpec => []ResultsAreHonest
<1>1. ASSUME ServerInv PROVE ResultsAreHonest
  <2>0. ServerTypeOK /\ CallsInv /\ RowsInv
    BY <1>1 DEF ServerInv
  <2>1. ASSUME NEW c \in Calls, kind[c] \in Tests, report[c] # NoReport
        PROVE  /\ report[c].success = Success(kind[c], tried[c])
               /\ report[c].status = StatusOf(kind[c], tried[c])
               /\ report[c].timed = Timed(kind[c], tried[c])
               /\ Success(kind[c], tried[c]) => SomeOk(c)
               /\ AllOk(c) => Success(kind[c], tried[c])
               /\ ~Fails(kind[c], tried[c])
    <3> DEFINE as == tried[c]
               k == kind[c]
    <3>1. /\ as \in Seq(Outcomes) /\ as # <<>>
          /\ report[c].success = Success(k, as) /\ report[c].timed = Timed(k, as)
          /\ report[c].status = StatusOf(k, as) /\ ~Fails(k, as)
      BY <2>0, <2>1 DEF CallsInv, ReportOf, ServerTypeOK
    <3>2. 1 \in DOMAIN as /\ Len(as) \in DOMAIN as
          /\ \A j \in DOMAIN as : ~(j > Len(as))
      BY <3>1
    <3>3. HttpSuccess(as) <=> LastAnswer(as, "ok")
      BY DEF HttpSuccess, HttpStatus
    <3>4. Success(k, as) => \E i \in DOMAIN as : as[i] = "ok"
      BY <3>2, <3>3 DEF Success, LastAnswer, TcpSuccess, UdpSuccess, PingSuccess, TraceSuccess
    <3>5. ASSUME \A i \in DOMAIN as : as[i] = "ok" PROVE Success(k, as)
      <4>1. HttpSuccess(as) /\ TcpSuccess(as) /\ UdpSuccess(as)
              /\ PingSuccess(as) /\ TraceSuccess(as) /\ as[1] = "ok"
        BY <3>2, <3>3, <3>5 DEF LastAnswer, TcpSuccess, UdpSuccess, PingSuccess, TraceSuccess
      <4> QED
        BY <4>1, <2>1 DEF Success, Tests
    <3> QED
      BY <3>1, <3>4, <3>5 DEF SomeOk, AllOk
  <2>2. ASSUME NEW c \in Calls, ToldResult(c)
        PROVE  (report[c].success => SomeOk(c)) /\ (AllOk(c) => report[c].success)
    BY <2>1, <2>2 DEF ToldResult
  <2>3. \A r1, r2 \in savedRows : r1.call = r2.call => r1 = r2
    BY <2>0 DEF RowsInv, RowFits
  <2>4. ASSUME NEW row \in savedRows
        PROVE  LET c == row.call IN
               /\ kind[c] = "http" =>
                     /\ row.status = "ok" => SomeOk(c)
                     /\ ToldResult(c) => (report[c].success <=> row.status = "ok")
               /\ kind[c] \in {"udp", "ping", "trace"} => SomeOk(c)
               /\ kind[c] \in {"udp", "ping"} =>
                     row.timed # {} /\ \A i \in row.timed : tried[c][i] = "ok"
    <3> DEFINE c == row.call
    <3>1. /\ c \in Calls /\ report[c] # NoReport
          /\ row.status = report[c].status /\ row.timed = report[c].timed
      BY <2>0 DEF RowsInv, RowFits, RowOf, ServerTypeOK, Rows
    <3>2. CASE kind[c] = "http"
      <4>1. /\ report[c].success = Success(kind[c], tried[c])
            /\ row.status = StatusOf(kind[c], tried[c])
        BY <2>1, <3>1, <3>2 DEF Tests
      <4>2. Success(kind[c], tried[c]) <=> StatusOf(kind[c], tried[c]) = "ok"
        BY <3>2 DEF Success, StatusOf, HttpSuccess
      <4> QED
        BY <2>1, <3>1, <3>2, <4>1, <4>2 DEF Tests
    <3>3. CASE kind[c] \in {"udp", "ping", "trace"}
      <4>1. Success(kind[c], tried[c])
        <5>1. ~Fails(kind[c], tried[c])
          BY <2>1, <3>1, <3>3 DEF Tests
        <5> QED
          BY <3>3, <5>1 DEF Fails
      <4>2. SomeOk(c)
        BY <2>1, <3>1, <3>3, <4>1 DEF Tests
      <4>3. row.timed = Timed(kind[c], tried[c])
        BY <2>1, <3>1, <3>3 DEF Tests
      <4> QED
        BY <3>3, <4>2, <4>3 DEF Timed, SomeOk
    <3> QED
      BY <3>2, <3>3
  <2> QED
    BY <2>2, <2>3, <2>4 DEF ResultsAreHonest
<1> QED
  BY <1>1, ServerInvariance, PTL

-----------------------------------------------------------------------------
(* UserRoles.                                                              *)

(* Where a handler stands that has replaced the roles of its user, or has  *)
(* created the user with none.                                             *)
PastClear(q) ==
    /\ method[q] = "create" \/ Replaces(q)
    /\ serving[q] \in {"assigning", "reading", "answered"}

Early == {"new", "checking", "writing"}

(* A row has its user, and was inserted by a request about this user that  *)
(* has come to the INSERTs.                                                *)
RowInv ==
    \A row \in roleRows :
        /\ row.user \in userRows /\ userOf[row.by] = row.user
        /\ serving[row.by] \notin Early \cup {"clearing"}

(* What the position of a request says of its role_ids and its user.       *)
PlaceOf(q) ==
    /\ q \notin withRoles => roleIds[q] = {}
    /\ serving[q] = "clearing" => Replaces(q) /\ remaining[q] = roleIds[q]
    /\ serving[q] \in Early \cup {"reading", "answered"} => remaining[q] = {}
    /\ method[q] = "create" => userOf[q] = q
    /\ serving[q] # "new" /\ method[q] # "create" /\ userOf[q] \in UserRequests =>
          serving[userOf[q]] \notin Early
    /\ q \in userRows => serving[q] \notin Early

(* The history: what was over is over.                                     *)
BeforeOf(q) ==
    \A p \in servedBefore[q] : serving[p] \in Served /\ p # q /\ serving[q] # "new"

(* No earlier request's row is left once the roles have been cleared.      *)
ClearedOf(q) ==
    PastClear(q) =>
        \A row \in roleRows : row.user = userOf[q] => row.by \notin servedBefore[q]

Rival(q) == \E p \in UserRequests \ (servedBefore[q] \cup {q}) :
                Replaces(p) /\ userOf[p] = userOf[q] /\ serving[p] # "new"

(* What was inserted is there, unless a replacement it overlapped, or a    *)
(* later one, or the deletion of the user took it.                         *)
InsertedOf(q) ==
    PastClear(q) /\ userOf[q] \in userRows =>
        \A r \in roleIds[q] \ remaining[q] :
            [by |-> q, user |-> userOf[q], role |-> r] \in roleRows \/ Rival(q)

RolesInv ==
    /\ RolesTypeOK /\ RowInv
    /\ \A q \in UserRequests :
          PlaceOf(q) /\ BeforeOf(q) /\ ClearedOf(q) /\ InsertedOf(q)

LEMMA RolesTypeNext == RolesTypeOK /\ [RolesNext]_roleVars => RolesTypeOK'
<1> SUFFICES ASSUME RolesTypeOK, [RolesNext]_roleVars PROVE RolesTypeOK'
  OBVIOUS
<1> USE DEF RolesTypeOK, Served, SameRequest, Move
<1>1. CASE UNCHANGED roleVars
  BY <1>1 DEF roleVars
<1>2. ASSUME NEW q \in UserRequests, NEW m \in {"create", "update", "delete"}, NEW u \in UserIds,
             NEW with \in BOOLEAN, NEW ids \in SUBSET Roles, Send(q, m, u, with, ids)
      PROVE  RolesTypeOK'
  BY <1>2 DEF Send
<1>3. ASSUME NEW q \in UserRequests, InsertUser(q) \/ UpdateUser(q) PROVE RolesTypeOK'
  BY <1>3 DEF InsertUser, UpdateUser, AfterWrite, UserIds
<1>4. ASSUME NEW q \in UserRequests,
             Check(q) \/ Assigned(q) \/ ReadBack(q) \/ Decline(q) \/ Raise(q)
                 \/ ClearRoles(q) \/ EraseUser(q)
      PROVE RolesTypeOK'
  BY <1>4 DEF Check, Assigned, ReadBack, Decline, Raise, ClearRoles, EraseUser
<1>5. ASSUME NEW q \in UserRequests, NEW r \in Roles, AssignRole(q, r) PROVE RolesTypeOK'
  <2>1. [by |-> q, user |-> userOf[q], role |-> r] \in RoleRow
    BY DEF RoleRow
  <2> QED
    BY <1>5, <2>1 DEF AssignRole
<1> QED
  BY <1>1, <1>2, <1>3, <1>4, <1>5 DEF RolesNext, UserStep

(* A step of a request about which nothing else changes: every other one   *)
(* keeps its place, and the history stays.                                 *)
LEMMA PlacesNext ==
    RolesInv /\ [RolesNext]_roleVars =>
        \A q \in UserRequests : PlaceOf(q)' /\ BeforeOf(q)'
<1> SUFFICES ASSUME RolesInv, [RolesNext]_roleVars, NEW d \in UserRequests
             PROVE  PlaceOf(d)' /\ BeforeOf(d)'
  OBVIOUS
<1>0. /\ RolesTypeOK /\ PlaceOf(d) /\ BeforeOf(d)
      /\ \A q \in UserRequests : PlaceOf(q) /\ BeforeOf(q)
  BY DEF RolesInv
<1> USE <1>0 DEF RolesTypeOK, Served, SameRequest, Move, Early, PlaceOf, BeforeOf, Replaces
<1>1. CASE UNCHANGED roleVars
  BY <1>1 DEF roleVars
<1>2. ASSUME NEW q \in UserRequests, NEW m \in {"create", "update", "delete"}, NEW u \in UserIds,
             NEW with \in BOOLEAN, NEW ids \in SUBSET Roles, Send(q, m, u, with, ids)
      PROVE  PlaceOf(d)' /\ BeforeOf(d)'
  <2>1. CASE d # q
    BY <1>2, <2>1 DEF Send
  <2>2. CASE d = q
    <3>1. PlaceOf(q)'
      <4>1. m # "create" => u \in userRows
        BY <1>2 DEF Send
      <4>2. u \in UserRequests /\ u \in userRows => u # q /\ serving[u] \notin Early
        BY <1>2 DEF Send
      <4> QED
        BY <1>2, <4>1, <4>2 DEF Send
    <3>2. BeforeOf(q)'
      BY <1>2 DEF Send
    <3> QED
      BY <2>2, <3>1, <3>2
  <2> QED
    BY <2>1, <2>2
<1>3. ASSUME NEW q \in UserRequests, InsertUser(q) PROVE PlaceOf(d)' /\ BeforeOf(d)'
  BY <1>3 DEF InsertUser, AfterWrite
<1>4. ASSUME NEW q \in UserRequests, UpdateUser(q) PROVE PlaceOf(d)' /\ BeforeOf(d)'
  BY <1>4 DEF UpdateUser, AfterWrite
<1>5. ASSUME NEW q \in UserRequests, Check(q) PROVE PlaceOf(d)' /\ BeforeOf(d)'
  BY <1>5 DEF Check
<1>6. ASSUME NEW q \in UserRequests, Assigned(q) \/ ReadBack(q) PROVE PlaceOf(d)' /\ BeforeOf(d)'
  BY <1>6 DEF Assigned, ReadBack
<1>7. ASSUME NEW q \in UserRequests, Decline(q) \/ Raise(q) PROVE PlaceOf(d)' /\ BeforeOf(d)'
  BY <1>7 DEF Decline, Raise
<1>8. ASSUME NEW q \in UserRequests, ClearRoles(q) PROVE PlaceOf(d)' /\ BeforeOf(d)'
  BY <1>8 DEF ClearRoles
<1>9. ASSUME NEW q \in UserRequests, EraseUser(q) PROVE PlaceOf(d)' /\ BeforeOf(d)'
  BY <1>9 DEF EraseUser
<1>10. ASSUME NEW q \in UserRequests, NEW r \in Roles, AssignRole(q, r)
       PROVE  PlaceOf(d)' /\ BeforeOf(d)'
  BY <1>10 DEF AssignRole
<1> QED
  BY <1>1, <1>2, <1>3, <1>4, <1>5, <1>6, <1>7, <1>8, <1>9, <1>10 DEF RolesNext, UserStep

LEMMA RowNext == RolesInv /\ [RolesNext]_roleVars => RowInv'
<1> SUFFICES ASSUME RolesInv, [RolesNext]_roleVars, NEW row \in roleRows'
             PROVE  /\ row.user \in userRows' /\ userOf'[row.by] = row.user
                    /\ serving'[row.by] \notin Early \cup {"clearing"}
  BY DEF RowInv
<1>0. RolesTypeOK /\ RowInv /\ \A q \in UserRequests : PlaceOf(q)
  BY DEF RolesInv
<1>1. CASE row \notin roleRows
  <2>1. PICK q \in UserRequests, r \in Roles : AssignRole(q, r)
    BY <1>1 DEF RolesNext, UserStep, roleVars, Send, Check, InsertUser, UpdateUser, ClearRoles,
       Assigned, ReadBack, EraseUser, Decline, Raise, SameRequest
  <2>2. row = [by |-> q, user |-> userOf[q], role |-> r]
    BY <1>1, <2>1 DEF AssignRole
  <2> QED
    BY <2>1, <2>2 DEF AssignRole, SameRequest, Early
<1>2. CASE row \in roleRows
  <2>0. /\ row.by \in UserRequests /\ row.user \in UserIds
        /\ row.user \in userRows /\ userOf[row.by] = row.user
        /\ serving[row.by] \notin Early \cup {"clearing"}
    BY <1>0, <1>2 DEF RowInv, RolesTypeOK, RoleRow
  <2> USE <1>0, <2>0 DEF RolesTypeOK, SameRequest, Move, Early
  <2>1. CASE UNCHANGED roleVars
    BY <2>1 DEF roleVars
  <2>2. ASSUME NEW q \in UserRequests, NEW m \in {"create", "update", "delete"}, NEW u \in UserIds,
               NEW with \in BOOLEAN, NEW ids \in SUBSET Roles, Send(q, m, u, with, ids)
        PROVE  /\ row.user \in userRows' /\ userOf'[row.by] = row.user
               /\ serving'[row.by] \notin Early \cup {"clearing"}
    BY <2>2 DEF Send
  <2>3. ASSUME NEW q \in UserRequests, UserStep(q)
        PROVE  /\ row.user \in userRows' /\ userOf'[row.by] = row.user
               /\ serving'[row.by] \notin Early \cup {"clearing"}
    <3>1. CASE InsertUser(q) \/ UpdateUser(q)
      BY <3>1 DEF InsertUser, UpdateUser, AfterWrite
    <3>2. CASE Check(q) \/ Assigned(q) \/ ReadBack(q) \/ Decline(q) \/ Raise(q) \/ ClearRoles(q)
      BY <3>2 DEF Check, Assigned, ReadBack, Decline, Raise, ClearRoles
    <3>3. CASE EraseUser(q)
      BY <3>3 DEF EraseUser
    <3>4. CASE \E r \in Roles : AssignRole(q, r)
      BY <3>4 DEF AssignRole
    <3> QED
      BY <2>3, <3>1, <3>2, <3>3, <3>4 DEF UserStep
  <2> QED
    BY <2>1, <2>2, <2>3 DEF RolesNext
<1> QED
  BY <1>1, <1>2

LEMMA ClearedNext ==
    ASSUME RolesInv, [RolesNext]_roleVars, NEW d \in UserRequests
    PROVE  ClearedOf(d)'
<1> SUFFICES ASSUME PastClear(d)', NEW row \in roleRows', row.user = userOf'[d]
             PROVE  row.by \notin servedBefore'[d]
  BY DEF ClearedOf
<1>0. /\ RolesTypeOK /\ RowInv /\ ClearedOf(d)
      /\ \A q \in UserRequests : PlaceOf(q) /\ BeforeOf(q)
  BY DEF RolesInv
<1>1. /\ UNCHANGED <<servedBefore[d], userOf[d], method[d]>> /\ Replaces(d)' = Replaces(d)
      /\ serving[d] # "new"
  BY <1>0 DEF RolesTypeOK, PastClear, Replaces, Send, UserStep, RolesNext, roleVars, Check,
     InsertUser, UpdateUser, ClearRoles, AssignRole, Assigned, ReadBack, EraseUser, Decline,
     Raise, SameRequest, Move
<1>2. CASE row \notin roleRows
  <2>1. PICK q \in UserRequests, r \in Roles : AssignRole(q, r)
    BY <1>2 DEF RolesNext, UserStep, roleVars, Send, Check, InsertUser, UpdateUser, ClearRoles,
       Assigned, ReadBack, EraseUser, Decline, Raise, SameRequest
  <2>2. row.by = q /\ serving[q] = "assigning"
    BY <1>2, <2>1 DEF AssignRole
  <2> QED
    BY <2>2, <1>0, <1>1 DEF BeforeOf, Served
<1>3. CASE row \in roleRows /\ PastClear(d)
  BY <1>0, <1>1, <1>3 DEF ClearedOf
<1>4. CASE row \in roleRows /\ ~PastClear(d)
  <2>1. ClearRoles(d) \/ (InsertUser(d) /\ method[d] = "create")
    BY <1>0, <1>1, <1>4 DEF RolesTypeOK, PastClear, Replaces, Send, UserStep, RolesNext, roleVars,
       Check, InsertUser, UpdateUser, AfterWrite, ClearRoles, AssignRole, Assigned, ReadBack,
       EraseUser, Decline, Raise, SameRequest, Move, PlaceOf
  <2>2. CASE ClearRoles(d)
    BY <2>2, <1>1 DEF ClearRoles
  <2>3. CASE InsertUser(d) /\ method[d] = "create"
    BY <2>3, <1>0, <1>1, <1>4 DEF InsertUser, PlaceOf, RowInv, Early
  <2> QED
    BY <2>1, <2>2, <2>3
<1> QED
  BY <1>2, <1>3, <1>4

LEMMA InsertedNext ==
    ASSUME RolesInv, [RolesNext]_roleVars, NEW d \in UserRequests
    PROVE  InsertedOf(d)'
<1> DEFINE mine(r) == [by |-> d, user |-> userOf[d], role |-> r]
<1> SUFFICES ASSUME PastClear(d)', userOf'[d] \in userRows', NEW r \in roleIds'[d] \ remaining'[d],
                    mine(r)' \notin roleRows'
             PROVE  Rival(d)'
  BY DEF InsertedOf
<1>0. /\ RolesTypeOK /\ RowInv /\ InsertedOf(d)
      /\ \A q \in UserRequests : PlaceOf(q) /\ BeforeOf(q)
  BY DEF RolesInv
<1>1. /\ UNCHANGED <<servedBefore[d], userOf[d], method[d], roleIds[d]>> /\ Replaces(d)' = Replaces(d)
      /\ serving[d] # "new" /\ mine(r)' = mine(r)
  BY <1>0 DEF RolesTypeOK, PastClear, Replaces, Send, UserStep, RolesNext, roleVars, Check,
     InsertUser, UpdateUser, ClearRoles, AssignRole, Assigned, ReadBack, EraseUser, Decline,
     Raise, SameRequest, Move
<1>2. \A p \in UserRequests : serving[p] # "new" =>
        /\ serving'[p] # "new" /\ Replaces(p)' = Replaces(p) /\ userOf'[p] = userOf[p]
  BY <1>0 DEF RolesTypeOK, Replaces, Send, UserStep, RolesNext, roleVars, Check,
     InsertUser, UpdateUser, AfterWrite, ClearRoles, AssignRole, Assigned, ReadBack, EraseUser,
     Decline, Raise, SameRequest, Move
<1>3. Rival(d) => Rival(d)'
  BY <1>1, <1>2 DEF Rival
<1>4. PastClear(d) /\ r \in roleIds[d] \ remaining[d]
  <2>1. CASE PastClear(d) /\ r \in remaining[d]
    <3>1. AssignRole(d, r)
      BY <1>0, <1>1, <2>1 DEF RolesTypeOK, PastClear, Send, UserStep, RolesNext, roleVars, Check,
         InsertUser, UpdateUser, ClearRoles, AssignRole, Assigned, ReadBack, EraseUser, Decline,
         Raise, SameRequest, Move
    <3> QED
      BY <3>1, <1>1 DEF AssignRole
  <2>2. CASE ~PastClear(d)
    <3>1. ClearRoles(d) \/ (InsertUser(d) /\ method[d] = "create")
      BY <1>0, <1>1, <2>2 DEF RolesTypeOK, PastClear, Replaces, Send, UserStep, RolesNext, roleVars,
         Check, InsertUser, UpdateUser, AfterWrite, ClearRoles, AssignRole, Assigned, ReadBack,
         EraseUser, Decline, Raise, SameRequest, Move, PlaceOf
    <3>2. remaining'[d] = roleIds'[d]
      BY <3>1, <1>0, <1>1 DEF ClearRoles, InsertUser, PlaceOf, RolesTypeOK
    <3> QED
      BY <3>2
  <2> QED
    BY <2>1, <2>2, <1>1
<1>5. userOf[d] \in userRows
  <2>1. CASE userOf[d] \notin userRows
    <3>1. PICK q \in UserRequests : InsertUser(q) /\ q = userOf[d]
      BY <1>1, <2>1 DEF RolesNext, UserStep, roleVars, Send, Check, InsertUser, UpdateUser,
         ClearRoles, AssignRole, Assigned, ReadBack, EraseUser, Decline, Raise, SameRequest
    <3>2. serving[q] = "writing" /\ method[q] = "create"
      BY <3>1 DEF InsertUser
    <3>3. CASE method[d] = "create"
      BY <3>1, <3>2, <3>3, <1>0, <1>4 DEF PlaceOf, PastClear
    <3>4. CASE method[d] # "create"
      BY <3>1, <3>2, <3>4, <1>0, <1>1 DEF PlaceOf, Early
    <3> QED
      BY <3>3, <3>4
  <2> QED
    BY <2>1
<1>6. CASE Rival(d)
  BY <1>3, <1>6
<1>7. CASE mine(r) \in roleRows
  <2>1. (\E q \in UserRequests : ClearRoles(q) /\ userOf[q] = userOf[d])
        \/ (\E q \in UserRequests : EraseUser(q) /\ userOf[q] = userOf[d])
    <3>1. mine(r).user = userOf[d]
      OBVIOUS
    <3> QED
      BY <1>7, <1>1, <3>1 DEF RolesNext, UserStep, roleVars, Send, Check, InsertUser, UpdateUser,
         ClearRoles, AssignRole, Assigned, ReadBack, EraseUser, Decline, Raise, SameRequest
  <2>2. ASSUME NEW q \in UserRequests, EraseUser(q), userOf[q] = userOf[d] PROVE FALSE
    BY <2>2, <1>1 DEF EraseUser
  <2>3. ASSUME NEW q \in UserRequests, ClearRoles(q), userOf[q] = userOf[d] PROVE Rival(d)
    <3>1. serving[q] = "clearing" /\ Replaces(q)
      BY <2>3, <1>0 DEF ClearRoles, PlaceOf
    <3>2. q # d
      BY <3>1, <1>4 DEF PastClear
    <3>3. q \notin servedBefore[d]
      BY <3>1, <1>0 DEF BeforeOf, Served
    <3> QED
      BY <3>1, <3>2, <3>3, <2>3 DEF Rival
  <2> QED
    BY <2>1, <2>2, <2>3, <1>3
<1> QED
  BY <1>0, <1>4, <1>5, <1>6, <1>7 DEF InsertedOf

LEMMA RolesStep == RolesInv /\ [RolesNext]_roleVars => RolesInv'
<1> SUFFICES ASSUME RolesInv, [RolesNext]_roleVars PROVE RolesInv'
  OBVIOUS
<1>1. RolesTypeOK'
  BY RolesTypeNext DEF RolesInv
<1> QED
  BY <1>1, RowNext, PlacesNext, ClearedNext, InsertedNext DEF RolesInv

LEMMA RolesBegin == RolesInit => RolesInv
<1> SUFFICES ASSUME RolesInit PROVE RolesInv
  OBVIOUS
<1>1. RolesTypeOK /\ RowInv
  BY DEF RolesInit, RolesTypeOK, RowInv, UserIds, RoleRow
<1>2. ASSUME NEW q \in UserRequests
      PROVE  PlaceOf(q) /\ BeforeOf(q) /\ ClearedOf(q) /\ InsertedOf(q)
  BY RolesAssumption DEF RolesInit, PlaceOf, BeforeOf, ClearedOf, InsertedOf, PastClear
<1> QED
  BY <1>1, <1>2 DEF RolesInv

LEMMA RolesInvariant == RolesSpec => []RolesInv
BY RolesBegin, RolesStep, PTL DEF RolesSpec

(* The type invariant of UserRoles.                                        *)
THEOREM RolesTypes == RolesSpec => []RolesTypeOK
BY RolesInvariant, PTL DEF RolesInv

(* An answered request decides what roles its user has, but for requests   *)
(* it overlapped and later ones: create_user and update_user.              *)
THEOREM RolesCorrect == RolesSpec => []RolesAsAsked
<1>1. ASSUME RolesInv, NEW q \in UserRequests, serving[q] = "answered", userOf[q] \in userRows,
             method[q] = "create" \/ Replaces(q)
      PROVE  /\ \A row \in roleRows : row.user = userOf[q] => row.by \notin servedBefore[q]
             /\ \A r \in roleIds[q] :
                   [by |-> q, user |-> userOf[q], role |-> r] \in roleRows \/ Rival(q)
  <2>1. PastClear(q) /\ remaining[q] = {}
    BY <1>1 DEF RolesInv, PlaceOf, PastClear
  <2> QED
    BY <1>1, <2>1 DEF RolesInv, ClearedOf, InsertedOf
<1>2. RolesInv => RolesAsAsked
  BY <1>1 DEF RolesAsAsked, Rival
<1> QED
  BY <1>2, RolesInvariant, PTL

-----------------------------------------------------------------------------
(* ManagerAccounts.                                                        *)

(* The history: what was over is over.                                     *)
OverOf(q) ==
    \A p \in overBefore[q] : stands[p] \in Ended /\ p # q /\ stands[q] # "new"

(* login and logout do not ask for a user from the token.                  *)
RouteOf(q) == stands[q] = "authorised" => does[q] \notin {"login", "logout"}

(* A secret was drawn by a setup of its account, and a code that is        *)
(* verified was computed from such a secret.                               *)
SecretOf(a) ==
    mfaSecret[a] # NoSecret =>
        /\ does[mfaSecret[a]] = "setup" /\ account[mfaSecret[a]] = a
        /\ stands[mfaSecret[a]] = "answered"

(* mfa_verify has compared the code with the secret of its account, unless *)
(* a setup it overlaps has replaced this since.                            *)
ComparedOf(v) ==
    does[v] = "verify" /\ stands[v] = "checked" =>
        /\ mfaSecret[account[v]] # NoSecret
        /\ code[v] = mfaSecret[account[v]] \/ Overlap(v, mfaSecret[account[v]])

ShownOf(a) ==
    mfaEnabled[a] =>
        /\ mfaSecret[a] # NoSecret
        /\ \E v \in AccountRequests :
              /\ does[v] = "verify" /\ account[v] = a /\ stands[v] = "answered"
              /\ code[v] = mfaSecret[a] \/ Overlap(v, mfaSecret[a])

(* No setup of the account of a verify has begun since it began.           *)
Held(v) ==
    \A s \in AccountRequests : does[s] = "setup" /\ account[s] = account[v]
        => stands[s] = "new" \/ s \in overBefore[v]

HeldOf(v) ==
    does[v] = "verify" /\ stands[v] \in {"checked", "answered"} /\ Held(v) =>
        \/ account[v] \in removed
        \/ /\ mfaSecret[account[v]] = code[v]
           /\ stands[v] = "answered" => mfaEnabled[account[v]]

CodeOf(l, v) ==
    /\ does[l] = "login" /\ stands[l] \in {"checked", "answered"}
    /\ does[v] = "verify" /\ stands[v] = "answered" /\ v \in overBefore[l]
    /\ account[v] = account[l] /\ Held(v)
    => code[l] = code[v]

(* A token that is stored was answered by its login, and goes with the     *)
(* user; what a request carries is such a token.                           *)
Granted(t) == t \in Accounts \/ (does[t] = "login" /\ stands[t] = "answered")
TokenOf(t) ==
    /\ jwt[t] # "none" => Granted(t)
    /\ Owner(t) \in removed => jwt[t] = "none"
BearerOf(q) == stands[q] # "new" /\ does[q] # "login" => Granted(bearer[q])

SignedOutOf(e) ==
    stands[e] = "answered" =>
        /\ does[e] = "logout" => jwt[bearer[e]] # "live"
        /\ does[e] = "delete" => account[e] \in removed

Carried(q, e) ==
    /\ does[q] \notin {"login", "logout"} /\ stands[q] \in {"authorised", "checked", "answered"}
    /\ stands[e] = "answered" /\ e \in overBefore[q]
    => /\ does[e] = "logout" => bearer[e] # bearer[q]
       /\ does[e] = "delete" => account[e] # Owner(bearer[q])

FactorInv ==
    /\ \A a \in Accounts : SecretOf(a) /\ ShownOf(a)
    /\ \A v \in AccountRequests : ComparedOf(v) /\ HeldOf(v)
    /\ \A l, v \in AccountRequests : CodeOf(l, v)

TokenInv ==
    /\ \A t \in Tokens : TokenOf(t)
    /\ \A q \in AccountRequests : BearerOf(q) /\ SignedOutOf(q)
    /\ \A q, e \in AccountRequests : Carried(q, e)

AccountsInv ==
    /\ AccountsTypeOK
    /\ \A q \in AccountRequests : OverOf(q) /\ RouteOf(q)
    /\ FactorInv /\ TokenInv

LEMMA AccountsTypeNext == AccountsTypeOK /\ [AccountsNext]_accountVars => AccountsTypeOK'
<1> SUFFICES ASSUME AccountsTypeOK, [AccountsNext]_accountVars PROVE AccountsTypeOK'
  OBVIOUS
<1> USE DEF AccountsTypeOK, Ended, To, Unchanged, Tokens, Secret
<1>1. CASE UNCHANGED accountVars
  BY <1>1 DEF accountVars
<1>2. ASSUME NEW q \in AccountRequests, NEW op \in Ops, NEW a \in Accounts, NEW t \in Tokens,
             NEW s \in Secret, Ask(q, op, a, t, s)
      PROVE  AccountsTypeOK'
  BY <1>2 DEF Ask
<1>3. ASSUME NEW q \in AccountRequests,
             CheckCredentials(q) \/ Authorise(q) \/ FindUser(q) \/ TurnDown(q) \/ SetPassword(q)
      PROVE  AccountsTypeOK'
  BY <1>3 DEF CheckCredentials, Authorise, FindUser, TurnDown, SetPassword, Writes
<1>4. ASSUME NEW q \in AccountRequests, StoreToken(q) \/ RevokeToken(q) PROVE AccountsTypeOK'
  BY <1>4 DEF StoreToken, RevokeToken
<1>5. ASSUME NEW q \in AccountRequests, SetUp(q) PROVE AccountsTypeOK'
  BY <1>5 DEF SetUp, Writes, Here
<1>7. ASSUME NEW q \in AccountRequests, Enable(q) PROVE AccountsTypeOK'
  BY <1>7 DEF Enable, Writes, Here
<1>6. ASSUME NEW q \in AccountRequests, SetActive(q) \/ RemoveUser(q) PROVE AccountsTypeOK'
  BY <1>6 DEF SetActive, RemoveUser, Writes
<1> QED
  BY <1>1, <1>2, <1>3, <1>4, <1>5, <1>6, <1>7 DEF AccountsNext, AccountStep

(* What a request is about is settled when it is sent, what is over stays  *)
(* over, and what was over is noted when a request is sent.                *)
Settled(p) ==
    /\ stands[p] # "new" =>
          /\ stands'[p] # "new" /\ does'[p] = does[p] /\ account'[p] = account[p]
          /\ bearer'[p] = bearer[p] /\ code'[p] = code[p] /\ overBefore'[p] = overBefore[p]
    /\ stands[p] \in Ended => stands'[p] = stands[p]
    /\ stands[p] = "new" =>
          \/ stands'[p] = "new" /\ overBefore'[p] = overBefore[p]
          \/ /\ stands'[p] = "asked"
             /\ overBefore'[p] = {o \in AccountRequests : stands[o] \in Ended}

LEMMA RequestsSettle ==
    ASSUME AccountsTypeOK, [AccountsNext]_accountVars, NEW p \in AccountRequests
    PROVE  Settled(p)
<1> USE DEF Settled, AccountsTypeOK, Ended, To, Unchanged
<1>1. CASE UNCHANGED accountVars
  BY <1>1 DEF accountVars
<1>2. ASSUME NEW q \in AccountRequests, NEW op \in Ops, NEW a \in Accounts, NEW t \in Tokens,
             NEW s \in Secret, Ask(q, op, a, t, s)
      PROVE  Settled(p)
  BY <1>2 DEF Ask
<1>3. ASSUME NEW q \in AccountRequests, AccountStep(q) PROVE Settled(p)
  BY <1>3 DEF AccountStep, CheckCredentials, StoreToken, RevokeToken, Authorise, FindUser, SetUp,
     Enable, SetActive, SetPassword, RemoveUser, TurnDown, Writes
<1> QED
  BY <1>1, <1>2, <1>3 DEF AccountsNext

(* A request that was sent is moved by its own handler alone.              *)
LEMMA OwnStep ==
    ASSUME AccountsTypeOK, [AccountsNext]_accountVars, NEW v \in AccountRequests,
           stands[v] # "new", stands'[v] # stands[v]
    PROVE  AccountStep(v)
<1>1. PICK q \in AccountRequests : AccountStep(q)
  BY DEF AccountsTypeOK, AccountsNext, accountVars, Ask, To
<1>2. \E place \in {"authorised", "checked"} \cup Ended : To(q, place)
  BY <1>1 DEF Ended, AccountStep, CheckCredentials, StoreToken, RevokeToken, Authorise, FindUser,
     SetUp, Enable, SetActive, SetPassword, RemoveUser, TurnDown, Writes
<1>3. q = v
  BY <1>2 DEF AccountsTypeOK, To
<1> QED
  BY <1>1, <1>3

LEMMA OverNext ==
    ASSUME AccountsInv, [AccountsNext]_accountVars, NEW q \in AccountRequests
    PROVE  OverOf(q)' /\ RouteOf(q)'
<1>0. AccountsTypeOK /\ OverOf(q) /\ RouteOf(q)
  BY DEF AccountsInv
<1>1. \A p \in AccountRequests : Settled(p)
  BY <1>0, RequestsSettle
<1>2. ASSUME NEW p \in overBefore'[q]
      PROVE  stands'[p] \in Ended /\ p # q /\ stands'[q] # "new"
  <2>1. p \in AccountRequests /\ stands[p] \in Ended /\ p # q /\ stands'[q] # "new"
    BY <1>0, <1>1, <1>2 DEF OverOf, AccountsTypeOK, Settled, Ended
  <2> QED
    BY <1>1, <2>1 DEF Settled
<1>3. RouteOf(q)'
  <2>1. SUFFICES ASSUME stands'[q] = "authorised" PROVE does'[q] \notin {"login", "logout"}
    BY DEF RouteOf
  <2>2. stands[q] # "new" /\ does'[q] = does[q]
    BY <1>1, <2>1 DEF Settled
  <2>3. CASE stands[q] # "authorised"
    <3>1. AccountStep(q)
      BY <1>0, <2>1, <2>2, <2>3, OwnStep
    <3> QED
      BY <1>0, <2>1, <2>2, <3>1 DEF AccountsTypeOK, To, AccountStep, CheckCredentials, StoreToken,
         RevokeToken, Authorise, FindUser, SetUp, Enable, SetActive, SetPassword, RemoveUser,
         TurnDown, Writes
  <2> QED
    BY <1>0, <2>2, <2>3 DEF RouteOf
<1> QED
  BY <1>2, <1>3 DEF OverOf

(* The second factor of an account is changed by mfa_setup and mfa_verify  *)
(* alone.                                                                  *)
SetsUp(q, a) ==
    /\ does[q] = "setup" /\ account[q] = a /\ stands[q] = "checked" /\ stands'[q] = "answered"
    /\ mfaSecret'[a] = q /\ mfaEnabled'[a] = FALSE
Enables(q, a) ==
    /\ does[q] = "verify" /\ account[q] = a /\ stands[q] = "checked" /\ stands'[q] = "answered"
    /\ mfaSecret'[a] = mfaSecret[a] /\ mfaEnabled'[a] = TRUE

LEMMA FactorMoves ==
    ASSUME AccountsTypeOK, [AccountsNext]_accountVars, NEW a \in Accounts
    PROVE  /\ removed \subseteq removed'
           /\ \/ mfaSecret'[a] = mfaSecret[a] /\ mfaEnabled'[a] = mfaEnabled[a]
              \/ \E q \in AccountRequests : SetsUp(q, a) \/ Enables(q, a)
<1> USE DEF AccountsTypeOK, To
<1>1. CASE UNCHANGED accountVars
  BY <1>1 DEF accountVars
<1>2. ASSUME NEW q \in AccountRequests, NEW op \in Ops, NEW b \in Accounts, NEW t \in Tokens,
             NEW s \in Secret, Ask(q, op, b, t, s)
      PROVE  removed' = removed /\ mfaSecret' = mfaSecret /\ mfaEnabled' = mfaEnabled
  BY <1>2 DEF Ask
<1>3. ASSUME NEW q \in AccountRequests, SetUp(q)
      PROVE  /\ removed' = removed
             /\ (mfaSecret'[a] = mfaSecret[a] /\ mfaEnabled'[a] = mfaEnabled[a]) \/ SetsUp(q, a)
  BY <1>3 DEF SetUp, Writes, Here, SetsUp
<1>4. ASSUME NEW q \in AccountRequests, Enable(q)
      PROVE  /\ removed' = removed
             /\ (mfaSecret'[a] = mfaSecret[a] /\ mfaEnabled'[a] = mfaEnabled[a]) \/ Enables(q, a)
  BY <1>4 DEF Enable, Writes, Here, Enables
<1>5. ASSUME NEW q \in AccountRequests, AccountStep(q), ~SetUp(q), ~Enable(q)
      PROVE  removed \subseteq removed' /\ mfaSecret' = mfaSecret /\ mfaEnabled' = mfaEnabled
  BY <1>5 DEF AccountStep, CheckCredentials, StoreToken, RevokeToken, Authorise, FindUser,
     SetActive, SetPassword, RemoveUser, TurnDown
<1> QED
  BY <1>1, <1>2, <1>3, <1>4, <1>5 DEF AccountsNext

(* A comparison is made against the row as it is.                          *)
LEMMA ComparesNow ==
    ASSUME AccountsTypeOK, [AccountsNext]_accountVars, NEW v \in AccountRequests, RouteOf(v),
           stands[v] \notin {"new", "checked"}, stands'[v] = "checked"
    PROVE  /\ account[v] \notin removed /\ UNCHANGED <<removed, mfaSecret, mfaEnabled>>
           /\ does[v] = "verify" => /\ mfaSecret[account[v]] # NoSecret
                                    /\ code[v] = mfaSecret[account[v]]
           /\ does[v] = "login" /\ mfaEnabled[account[v]] => code[v] = mfaSecret[account[v]]
<1>1. AccountStep(v)
  BY OwnStep
<1>2. CheckCredentials(v) \/ FindUser(v)
  BY <1>1 DEF AccountsTypeOK, AccountStep, To, StoreToken, RevokeToken, Authorise, SetUp, Enable,
     SetActive, SetPassword, RemoveUser, TurnDown, Writes
<1> QED
  BY <1>2 DEF CheckCredentials, FindUser, RouteOf

(* How a login or a verify comes to its comparison and past it.            *)
LEMMA ComesBy ==
    ASSUME AccountsTypeOK, [AccountsNext]_accountVars, NEW v \in AccountRequests, RouteOf(v),
           does[v] \in {"login", "verify"}, stands[v] # "new",
           stands'[v] \in {"checked", "answered"}, stands'[v] # stands[v]
    PROVE  \/ stands'[v] = "checked"
           \/ stands[v] = "checked" /\ (does[v] = "verify" => Enable(v))
<1>1. AccountStep(v)
  BY OwnStep
<1> QED
  BY <1>1 DEF AccountsTypeOK, AccountStep, To, StoreToken, RevokeToken, Authorise, SetUp, Enable,
     SetActive, SetPassword, RemoveUser, TurnDown, Writes, CheckCredentials, FindUser

LEMMA FactorNext == AccountsInv /\ [AccountsNext]_accountVars => FactorInv'
<1> SUFFICES ASSUME AccountsInv, [AccountsNext]_accountVars PROVE FactorInv'
  OBVIOUS
<1>0. /\ AccountsTypeOK /\ FactorInv /\ AccountsTypeOK'
      /\ \A q \in AccountRequests : OverOf(q) /\ RouteOf(q)
  BY AccountsTypeNext DEF AccountsInv
<1>1. \A p \in AccountRequests : Settled(p)
  BY <1>0, RequestsSettle
<1>3. ASSUME NEW v \in AccountRequests, stands[v] # "new", Held(v)'
      PROVE  Held(v)
  BY <1>1, <1>3 DEF Held, Settled
<1>4. ASSUME NEW a \in Accounts PROVE SecretOf(a)'
  <2>1. CASE mfaSecret'[a] = mfaSecret[a]
    BY <1>0, <1>1, <2>1 DEF FactorInv, SecretOf, Settled, AccountsTypeOK, Secret, Ended
  <2>2. ASSUME NEW q \in AccountRequests, SetsUp(q, a) PROVE SecretOf(a)'
    BY <1>1, <2>2 DEF SetsUp, SecretOf, Settled
  <2> QED
    BY <1>0, <2>1, <2>2, FactorMoves DEF Enables
<1>5. ASSUME NEW a \in Accounts PROVE ShownOf(a)'
  <2>1. CASE mfaSecret'[a] = mfaSecret[a] /\ mfaEnabled'[a] = mfaEnabled[a]
    <3>1. SUFFICES ASSUME mfaEnabled[a] PROVE ShownOf(a)'
      BY <2>1 DEF ShownOf
    <3>2. PICK v \in AccountRequests :
             /\ does[v] = "verify" /\ account[v] = a /\ stands[v] = "answered"
             /\ code[v] = mfaSecret[a] \/ Overlap(v, mfaSecret[a])
      BY <1>0, <3>1 DEF FactorInv, ShownOf
    <3>3. /\ mfaSecret[a] \in AccountRequests /\ stands[mfaSecret[a]] = "answered"
          /\ mfaSecret[a] # NoSecret
      BY <1>0, <3>1 DEF FactorInv, ShownOf, SecretOf, AccountsTypeOK, Secret
    <3>4. code'[v] = mfaSecret'[a] \/ Overlap(v, mfaSecret[a])'
      BY <1>1, <2>1, <3>2, <3>3 DEF Settled, Overlap
    <3> QED
      BY <1>1, <2>1, <3>2, <3>3, <3>4 DEF ShownOf, Overlap, Settled, Ended
  <2>2. ASSUME NEW q \in AccountRequests, SetsUp(q, a) PROVE ShownOf(a)'
    BY <2>2 DEF SetsUp, ShownOf
  <2>3. ASSUME NEW q \in AccountRequests, Enables(q, a) PROVE ShownOf(a)'
    <3>1. /\ mfaSecret[a] # NoSecret /\ mfaSecret'[a] = mfaSecret[a]
          /\ code[q] = mfaSecret[a] \/ Overlap(q, mfaSecret[a])
      BY <1>0, <2>3 DEF FactorInv, ComparedOf, Enables
    <3>2. mfaSecret[a] \in AccountRequests /\ stands[mfaSecret[a]] = "answered"
      BY <1>0, <3>1 DEF FactorInv, SecretOf, AccountsTypeOK, Secret
    <3>3. code'[q] = mfaSecret'[a] \/ Overlap(q, mfaSecret[a])'
      BY <1>1, <2>3, <3>1, <3>2 DEF Settled, Enables, Overlap
    <3>4. does'[q] = "verify" /\ account'[q] = a /\ stands'[q] = "answered"
      BY <1>1, <2>3 DEF Settled, Enables
    <3> QED
      BY <3>1, <3>3, <3>4 DEF ShownOf, Overlap
  <2> QED
    BY <1>0, <2>1, <2>2, <2>3, FactorMoves
<1>6. ASSUME NEW v \in AccountRequests PROVE ComparedOf(v)'
  <2>1. SUFFICES ASSUME does'[v] = "verify", stands'[v] = "checked" PROVE ComparedOf(v)'
    BY DEF ComparedOf
  <2>2. stands[v] # "new"
    BY <1>1, <2>1 DEF Settled
  <2>3. /\ does[v] = "verify" /\ account'[v] = account[v] /\ account[v] \in Accounts
        /\ code'[v] = code[v] /\ overBefore'[v] = overBefore[v]
    BY <1>0, <1>1, <2>1, <2>2 DEF Settled, AccountsTypeOK
  <2>4. CASE stands[v] # "checked"
    BY <1>0, <2>1, <2>2, <2>3, <2>4, ComparesNow DEF ComparedOf
  <2>5. CASE stands[v] = "checked" /\ mfaSecret'[account[v]] = mfaSecret[account[v]]
    <3>1. /\ mfaSecret[account[v]] # NoSecret
          /\ code[v] = mfaSecret[account[v]] \/ Overlap(v, mfaSecret[account[v]])
      BY <1>0, <2>3, <2>5 DEF FactorInv, ComparedOf
    <3>2. mfaSecret[account[v]] \in AccountRequests /\ stands[mfaSecret[account[v]]] = "answered"
      BY <1>0, <2>3, <3>1 DEF FactorInv, SecretOf, AccountsTypeOK, Secret
    <3> QED
      BY <1>1, <2>3, <2>5, <3>1, <3>2 DEF ComparedOf, Overlap, Settled
  <2>6. ASSUME stands[v] = "checked", NEW q \in AccountRequests, SetsUp(q, account[v])
        PROVE  ComparedOf(v)'
    <3>1. Overlap(v, q) /\ q # NoSecret
      BY <1>0, <2>6, AccountsAssumption DEF Overlap, OverOf, SetsUp, Ended
    <3> QED
      BY <1>1, <2>3, <2>6, <3>1 DEF ComparedOf, SetsUp, Overlap, Settled
  <2> QED
    BY <1>0, <2>3, <2>4, <2>5, <2>6, FactorMoves DEF Enables
<1>7. ASSUME NEW v \in AccountRequests PROVE HeldOf(v)'
  <2>1. SUFFICES ASSUME does'[v] = "verify", stands'[v] \in {"checked", "answered"}, Held(v)',
                        account'[v] \notin removed'
                 PROVE  /\ mfaSecret'[account'[v]] = code'[v]
                        /\ stands'[v] = "answered" => mfaEnabled'[account'[v]]
    BY DEF HeldOf
  <2>2. stands[v] # "new"
    BY <1>1, <2>1 DEF Settled
  <2>3. /\ does[v] = "verify" /\ account'[v] = account[v] /\ account[v] \in Accounts
        /\ code'[v] = code[v] /\ Held(v)
    BY <1>0, <1>1, <1>3, <2>1, <2>2 DEF Settled, AccountsTypeOK
  <2>4. account[v] \notin removed
    BY <1>0, <2>1, <2>3, FactorMoves
  <2>5. CASE stands[v] \notin {"checked", "answered"}
    <3>1. stands'[v] = "checked"
      BY <1>0, <2>1, <2>2, <2>3, <2>5, ComesBy
    <3> QED
      BY <1>0, <2>2, <2>3, <2>5, <3>1, ComparesNow
  <2>6. CASE stands[v] \in {"checked", "answered"}
    <3>1. /\ mfaSecret[account[v]] = code[v]
          /\ stands[v] = "answered" => mfaEnabled[account[v]]
      BY <1>0, <2>3, <2>4, <2>6 DEF FactorInv, HeldOf
    <3>2. ASSUME NEW q \in AccountRequests, SetsUp(q, account[v]) PROVE FALSE
      BY <1>0, <2>3, <3>2 DEF SetsUp, Held, OverOf, Ended
    <3>3. CASE stands[v] = "checked" /\ stands'[v] = "answered"
      <4>1. Enable(v)
        BY <1>0, <2>3, <3>3, ComesBy
      <4> QED
        BY <1>0, <2>3, <2>4, <3>1, <4>1 DEF Enable, Here, AccountsTypeOK
    <3>4. CASE stands'[v] = stands[v]
      BY <1>0, <2>3, <3>1, <3>2, <3>4, FactorMoves DEF Enables
    <3> QED
      BY <1>1, <2>1, <2>6, <3>3, <3>4 DEF Settled, Ended
  <2> QED
    BY <2>5, <2>6
<1>8. ASSUME NEW l \in AccountRequests, NEW v \in AccountRequests PROVE CodeOf(l, v)'
  <2>1. SUFFICES ASSUME does'[l] = "login", stands'[l] \in {"checked", "answered"},
                        does'[v] = "verify", stands'[v] = "answered", v \in overBefore'[l],
                        account'[v] = account'[l], Held(v)'
                 PROVE  code'[l] = code'[v]
    BY DEF CodeOf
  <2>2. stands[l] # "new"
    BY <1>1, <2>1 DEF Settled
  <2>3. does[l] = "login" /\ v \in overBefore[l] /\ stands[v] \in Ended
    BY <1>0, <1>1, <2>1, <2>2 DEF Settled, OverOf
  <2>4. /\ does[v] = "verify" /\ stands[v] = "answered" /\ account[v] = account[l] /\ Held(v)
        /\ code'[l] = code[l] /\ code'[v] = code[v]
    BY <1>1, <1>3, <2>1, <2>2, <2>3 DEF Settled, Ended
  <2>5. CASE stands[l] \in {"checked", "answered"}
    BY <1>0, <2>3, <2>4, <2>5 DEF FactorInv, CodeOf
  <2>6. CASE stands[l] \notin {"checked", "answered"}
    <3>1. stands'[l] = "checked"
      BY <1>0, <2>1, <2>2, <2>3, <2>6, ComesBy
    <3>2. /\ account[l] \notin removed
          /\ mfaEnabled[account[l]] => code[l] = mfaSecret[account[l]]
      BY <1>0, <2>2, <2>3, <2>6, <3>1, ComparesNow
    <3> QED
      BY <1>0, <2>4, <3>2 DEF FactorInv, HeldOf
  <2> QED
    BY <2>5, <2>6
<1> QED
  BY <1>4, <1>5, <1>6, <1>7, <1>8 DEF FactorInv

(* A token becomes live when its login stores it, and no other way; those  *)
(* of a user who is deleted go.                                            *)
LEMMA TokenMoves ==
    ASSUME AccountsTypeOK, [AccountsNext]_accountVars, NEW t \in Tokens
    PROVE  /\ \/ jwt'[t] = jwt[t] \/ jwt'[t] = "none" \/ (jwt[t] = "live" /\ jwt'[t] = "revoked")
              \/ (t \in AccountRequests /\ StoreToken(t))
           /\ Owner(t) \in removed' \ removed => jwt'[t] = "none"
<1> USE DEF AccountsTypeOK
<1>1. CASE UNCHANGED accountVars
  BY <1>1 DEF accountVars
<1>2. ASSUME NEW q \in AccountRequests, NEW op \in Ops, NEW a \in Accounts, NEW u \in Tokens,
             NEW s \in Secret, Ask(q, op, a, u, s)
      PROVE  removed' = removed /\ jwt' = jwt
  BY <1>2 DEF Ask
<1>3. ASSUME NEW q \in AccountRequests, StoreToken(q)
      PROVE  removed' = removed /\ (jwt'[t] = jwt[t] \/ t = q)
  BY <1>3 DEF StoreToken
<1>4. ASSUME NEW q \in AccountRequests, RevokeToken(q)
      PROVE  /\ removed' = removed
             /\ jwt'[t] = jwt[t] \/ (jwt[t] = "live" /\ jwt'[t] = "revoked")
  BY <1>4 DEF RevokeToken
<1>5. ASSUME NEW q \in AccountRequests, RemoveUser(q)
      PROVE  /\ jwt'[t] = jwt[t] \/ jwt'[t] = "none"
             /\ Owner(t) \in removed' \ removed => jwt'[t] = "none"
  BY <1>5 DEF RemoveUser
<1>6. ASSUME NEW q \in AccountRequests, AccountStep(q), ~StoreToken(q), ~RevokeToken(q),
             ~RemoveUser(q)
      PROVE  removed' = removed /\ jwt' = jwt
  BY <1>6 DEF AccountStep, CheckCredentials, Authorise, FindUser, SetUp, Enable, SetActive,
     SetPassword, TurnDown
<1> QED
  BY <1>1, <1>2, <1>3, <1>4, <1>5, <1>6 DEF AccountsNext

LEMMA TokenNext == AccountsInv /\ [AccountsNext]_accountVars => TokenInv'
<1> SUFFICES ASSUME AccountsInv, [AccountsNext]_accountVars PROVE TokenInv'
  OBVIOUS
<1>0. /\ AccountsTypeOK /\ TokenInv /\ AccountsTypeOK'
      /\ \A q \in AccountRequests : OverOf(q) /\ RouteOf(q)
  BY AccountsTypeNext DEF AccountsInv
<1>1. \A p \in AccountRequests : Settled(p)
  BY <1>0, RequestsSettle
<1>2. removed \subseteq removed'
  BY <1>0, FactorMoves DEF AccountsTypeOK
<1>3. ASSUME NEW t \in Tokens, Granted(t)
      PROVE  Granted(t)' /\ Owner(t)' = Owner(t) /\ ~(t \in AccountRequests /\ StoreToken(t))
  BY <1>1, <1>3, AccountsAssumption DEF Granted, Owner, Settled, Ended, Tokens, StoreToken
<1>4. ASSUME NEW t \in Tokens PROVE TokenOf(t)'
  <2>1. CASE Granted(t)
    BY <1>0, <1>2, <1>3, <2>1, TokenMoves DEF TokenInv, TokenOf
  <2>2. CASE ~Granted(t) /\ ~(t \in AccountRequests /\ StoreToken(t))
    <3>1. jwt[t] = "none"
      BY <1>0, <2>2 DEF TokenInv, TokenOf
    <3> QED
      BY <1>0, <2>2, <3>1, TokenMoves DEF TokenOf
  <2>3. CASE t \in AccountRequests /\ StoreToken(t)
    <3>1. t \notin Accounts
      BY <2>3, AccountsAssumption
    <3> QED
      BY <1>0, <2>3, <3>1 DEF TokenOf, Granted, Owner, StoreToken, Unchanged, To, AccountsTypeOK
  <2> QED
    BY <2>1, <2>2, <2>3
<1>5. ASSUME NEW q \in AccountRequests PROVE BearerOf(q)'
  <2>1. SUFFICES ASSUME stands'[q] # "new", does'[q] # "login"
                 PROVE  \E t \in Tokens : bearer'[q] = t /\ Granted(t)'
    BY DEF BearerOf, Granted
  <2>2. CASE stands[q] # "new"
    <3>1. Granted(bearer[q]) /\ bearer'[q] = bearer[q] /\ bearer[q] \in Tokens
      BY <1>0, <1>1, <2>1, <2>2 DEF TokenInv, BearerOf, Settled, AccountsTypeOK
    <3> QED
      BY <1>3, <3>1
  <2>3. CASE stands[q] = "new"
    <3>1. PICK op \in Ops, a \in Accounts, t \in Tokens, s \in Secret : Ask(q, op, a, t, s)
      <4>1. ~ \E p \in AccountRequests : AccountStep(p) /\ p = q
        BY <2>3 DEF AccountStep, CheckCredentials, StoreToken, RevokeToken, Authorise, FindUser,
           SetUp, Enable, SetActive, SetPassword, RemoveUser, TurnDown, Writes
      <4>2. ASSUME NEW p \in AccountRequests, AccountStep(p), p # q PROVE FALSE
        BY <1>0, <2>1, <2>3, <4>2 DEF AccountsTypeOK, AccountStep, CheckCredentials, StoreToken,
           RevokeToken, Authorise, FindUser, SetUp, Enable, SetActive, SetPassword, RemoveUser,
           TurnDown, Writes, To
      <4> QED
        BY <1>0, <2>1, <2>3, <4>1, <4>2 DEF AccountsTypeOK, AccountsNext, accountVars, Ask, To
    <3>2. bearer'[q] = t /\ jwt[t] # "none"
      BY <1>0, <2>1, <3>1 DEF Ask, AccountsTypeOK
    <3> QED
      BY <1>0, <1>3, <3>2 DEF TokenInv, TokenOf
  <2> QED
    BY <2>2, <2>3
<1>6. ASSUME NEW e \in AccountRequests PROVE SignedOutOf(e)'
  <2>1. SUFFICES ASSUME stands'[e] = "answered"
                 PROVE  /\ does'[e] = "logout" => jwt'[bearer'[e]] # "live"
                        /\ does'[e] = "delete" => account'[e] \in removed'
    BY DEF SignedOutOf
  <2>2. /\ stands[e] # "new" /\ does'[e] = does[e] /\ bearer'[e] = bearer[e]
        /\ account'[e] = account[e] /\ bearer[e] \in Tokens
    BY <1>0, <1>1, <2>1 DEF Settled, AccountsTypeOK
  <2>3. CASE stands[e] = "answered"
    <3>1. ASSUME does[e] = "logout" PROVE jwt'[bearer[e]] # "live"
      <4>1. Granted(bearer[e]) /\ jwt[bearer[e]] # "live"
        BY <1>0, <2>2, <2>3, <3>1 DEF TokenInv, BearerOf, SignedOutOf
      <4> QED
        BY <1>0, <1>3, <2>2, <4>1, TokenMoves
    <3> QED
      BY <1>0, <1>2, <2>2, <2>3, <3>1 DEF TokenInv, SignedOutOf
  <2>4. CASE stands[e] # "answered"
    <3>1. AccountStep(e)
      BY <1>0, <2>1, <2>2, <2>4, OwnStep
    <3>2. /\ does[e] = "logout" => RevokeToken(e)
          /\ does[e] = "delete" => RemoveUser(e)
      BY <1>0, <2>1, <2>2, <3>1 DEF RouteOf, AccountsTypeOK, AccountStep, CheckCredentials,
         StoreToken, RevokeToken, Authorise, FindUser, SetUp, Enable, SetActive, SetPassword,
         RemoveUser, TurnDown, Writes, To, Ended
    <3> QED
      BY <1>0, <2>2, <3>2 DEF RevokeToken, RemoveUser, AccountsTypeOK
  <2> QED
    BY <2>3, <2>4
<1>7. ASSUME NEW q \in AccountRequests, NEW e \in AccountRequests PROVE Carried(q, e)'
  <2>1. SUFFICES ASSUME does'[q] \notin {"login", "logout"}, stands'[e] = "answered",
                        stands'[q] \in {"authorised", "checked", "answered"},
                        e \in overBefore'[q]
                 PROVE  /\ does'[e] = "logout" => bearer'[e] # bearer'[q]
                        /\ does'[e] = "delete" => account'[e] # Owner(bearer[q])'
    <3>1. stands'[q] # "new" /\ stands[q] # "new" => bearer'[q] = bearer[q]
      BY <1>1 DEF Settled
    <3>2. stands'[q] \in {"authorised", "checked", "answered"} => stands[q] # "new"
      BY <1>1 DEF Settled
    <3> QED
      BY <2>1, <3>1, <3>2 DEF Carried, Owner
  <2>2. /\ stands[q] # "new" /\ does'[q] = does[q] /\ bearer'[q] = bearer[q]
        /\ overBefore'[q] = overBefore[q] /\ bearer[q] \in Tokens
    BY <1>0, <1>1, <2>1 DEF Settled, AccountsTypeOK
  <2>3. /\ stands[e] = "answered" /\ does'[e] = does[e] /\ bearer'[e] = bearer[e]
        /\ account'[e] = account[e] /\ e \in overBefore[q]
    BY <1>0, <1>1, <2>1, <2>2 DEF OverOf, Settled, Ended
  <2>4. Owner(bearer[q])' = Owner(bearer[q])
    <3>1. Granted(bearer[q])
      BY <1>0, <2>1, <2>2 DEF TokenInv, BearerOf
    <3> QED
      BY <1>3, <2>2, <3>1 DEF Owner
  <2>5. CASE stands[q] \in {"authorised", "checked", "answered"}
    BY <1>0, <2>1, <2>2, <2>3, <2>4, <2>5 DEF TokenInv, Carried
  <2>6. CASE stands[q] \notin {"authorised", "checked", "answered"}
    <3>1. AccountStep(q)
      BY <1>0, <2>1, <2>2, <2>6, OwnStep
    <3>2. Authorise(q)
      BY <1>0, <2>1, <2>2, <2>6, <3>1 DEF AccountsTypeOK, AccountStep, CheckCredentials,
         StoreToken, RevokeToken, FindUser, SetUp, Enable, SetActive, SetPassword, RemoveUser,
         TurnDown, Writes, To, Ended
    <3>3. jwt[bearer[q]] = "live"
      BY <3>2 DEF Authorise
    <3> QED
      BY <1>0, <2>2, <2>3, <2>4, <3>3 DEF TokenInv, SignedOutOf, TokenOf
  <2> QED
    BY <2>5, <2>6
<1> QED
  BY <1>4, <1>5, <1>6, <1>7 DEF TokenInv

LEMMA AccountsBegin == AccountsInit => AccountsInv
<1> SUFFICES ASSUME AccountsInit PROVE AccountsInv
  OBVIOUS
<1>1. AccountsTypeOK
  BY DEF AccountsInit, AccountsTypeOK, Tokens, Secret, Ops, Ended
<1>2. \A q \in AccountRequests : OverOf(q) /\ RouteOf(q)
  BY DEF AccountsInit, OverOf, RouteOf
<1>3. FactorInv
  BY DEF AccountsInit, FactorInv, SecretOf, ShownOf, ComparedOf, HeldOf, CodeOf
<1>4. TokenInv
  BY DEF AccountsInit, TokenInv, TokenOf, BearerOf, SignedOutOf, Carried, Granted, Tokens, Owner
<1> QED
  BY <1>1, <1>2, <1>3, <1>4 DEF AccountsInv

LEMMA AccountsInvariant == AccountsSpec => []AccountsInv
<1>1. AccountsInv /\ [AccountsNext]_accountVars => AccountsInv'
  BY AccountsTypeNext, OverNext, FactorNext, TokenNext DEF AccountsInv
<1> QED
  BY <1>1, AccountsBegin, PTL DEF AccountsSpec

(* The type invariant of ManagerAccounts.                                  *)
THEOREM AccountsTypes == AccountsSpec => []AccountsTypeOK
BY AccountsInvariant, PTL DEF AccountsInv

(* A second factor that login asks for is one mfa_verify has compared a    *)
(* code with, but for a verify and a setup under way at the same time.     *)
THEOREM FactorWasShown == AccountsSpec => []EnabledWasVerified
<1>1. AccountsInv => EnabledWasVerified
  BY DEF AccountsInv, FactorInv, ShownOf, EnabledWasVerified
<1> QED
  BY <1>1, AccountsInvariant, PTL

(* After mfa_verify every login brings a code of the factor it verified,   *)
(* until the factor is set up again.                                       *)
THEOREM LoginBringsCode == AccountsSpec => []LoginNeedsCode
<1>1. AccountsInv => LoginNeedsCode
  BY DEF AccountsInv, FactorInv, CodeOf, Held, LoginNeedsCode
<1> QED
  BY <1>1, AccountsInvariant, PTL

(* logout and delete_user end what their tokens open, whatever logins are  *)
(* under way.                                                              *)
THEOREM SignOutLasts == AccountsSpec => []SignedOutStaysOut
<1>1. AccountsInv => SignedOutStaysOut
  BY DEF AccountsInv, TokenInv, Carried, SignedOutStaysOut
<1> QED
  BY <1>1, AccountsInvariant, PTL
=============================================================================
