------------------------- MODULE ManagerConfigProofs -------------------------
(***************************************************************************)
(* Proofs about ManagerConfig for any sets of PUTs, users and units: its   *)
(* type invariant, that serial PUTs leave one row which holds the last     *)
(* one, and that a configuration is lost only with its last author.        *)
(***************************************************************************)
EXTENDS ManagerConfig, TLAPS

(* While PUTs about o never overlap one at most is under way, and a row is *)
(* only created where there is none.                                       *)
SerialOf(o) ==
    /\ \A u, v \in Pending(o) : u = v
    /\ \A u \in Pending(o) : putPhase[u] = "creating" => rows[o] = {}
    /\ \A r1, r2 \in rows[o] : r1 = r2
    /\ \A row \in rows[o] : row.data = last[o]

SerialInv == \A o \in Targets : o \notin raced => SerialOf(o)

(* The last author of a configuration is gone, or has a row.               *)
AuthorOf(o) ==
    /\ last[o] # NoUpdate =>
          \/ author[last[o]] \in deleted
          \/ \E row \in rows[o] : row.author = author[last[o]]
    /\ o = Default /\ last[o] = NoUpdate =>
          \E row \in rows[o] : row.author = NoUser

AuthorInv == \A o \in Targets : AuthorOf(o)

IInv == ConfigTypeOK /\ SerialInv /\ AuthorInv

-----------------------------------------------------------------------------
LEMMA TypeInit == ConfigInit => ConfigTypeOK
<1> SUFFICES ASSUME ConfigInit PROVE ConfigTypeOK
    OBVIOUS
<1>1. rows \in [Targets -> SUBSET Row]
    BY DEF ConfigInit, Row
<1>2. target \in [Updates -> Targets] /\ author \in [Updates -> Users]
    BY DEF ConfigInit
<1> QED BY <1>1, <1>2 DEF ConfigInit, ConfigTypeOK

LEMMA TypeNext == ConfigTypeOK /\ [ConfigNext]_configVars => ConfigTypeOK'
<1> SUFFICES ASSUME ConfigTypeOK, [ConfigNext]_configVars PROVE ConfigTypeOK'
    OBVIOUS
<1>1. ASSUME NEW u \in Updates, Find(u)
      PROVE  ConfigTypeOK'
    BY <1>1 DEF Find, ConfigTypeOK
<1>2. ASSUME NEW u \in Updates, Create(u)
      PROVE  ConfigTypeOK'
    <2>. DEFINE row == [id |-> u, data |-> u, author |-> author[u]]
    <2>1. row \in Row
        BY DEF ConfigTypeOK, Row
    <2>2. target[u] \in Targets /\ rows' = [rows EXCEPT ![target[u]] = @ \cup {row}]
        BY <1>2 DEF Create, ConfigTypeOK
    <2>. HIDE DEF row
    <2>3. rows' \in [Targets -> SUBSET Row]
        BY <2>1, <2>2 DEF ConfigTypeOK
    <2> QED BY <1>2, <2>3 DEF Create, ConfigTypeOK
<1>3. ASSUME NEW u \in Updates, Update(u)
      PROVE  ConfigTypeOK'
    <2>1. \A row \in Row : [row EXCEPT !.data = u, !.author = author[u]] \in Row
        BY DEF ConfigTypeOK, Row
    <2>2. rows' \in [Targets -> SUBSET Row]
        BY <1>3, <2>1 DEF Update, ConfigTypeOK
    <2> QED BY <1>3, <2>2 DEF Update, ConfigTypeOK
<1>4. ASSUME NEW u \in Updates, Acknowledge(u) \/ AbortPut(u)
      PROVE  ConfigTypeOK'
    BY <1>4 DEF Acknowledge, AbortPut, ConfigTypeOK
<1>5. ASSUME NEW v \in Users, DeleteUser(v)
      PROVE  ConfigTypeOK'
    BY <1>5 DEF DeleteUser, ConfigTypeOK
<1>6. CASE UNCHANGED configVars
    BY <1>6 DEF configVars, ConfigTypeOK
<1> QED BY <1>1, <1>2, <1>3, <1>4, <1>5, <1>6 DEF ConfigNext, Put

(* Type correctness of the table and the requests.                         *)
THEOREM TypeCorrect == ConfigSpec => []ConfigTypeOK
BY TypeInit, TypeNext, PTL DEF ConfigSpec

-----------------------------------------------------------------------------
LEMMA InvInit == ConfigInit => IInv
<1> SUFFICES ASSUME ConfigInit PROVE IInv
    OBVIOUS
<1>1. ConfigTypeOK
    BY TypeInit
<1>2. SerialInv
    BY DEF ConfigInit, SerialInv, SerialOf, Pending, Targets
<1>3. AuthorInv
    BY DEF ConfigInit, AuthorInv, AuthorOf, Targets
<1> QED BY <1>1, <1>2, <1>3 DEF IInv

(* PUTs that only leave, and rows that only disappear, keep what serial    *)
(* PUTs leave behind.                                                      *)
LEMMA SerialShrinks ==
    ASSUME ConfigTypeOK, SerialInv, UNCHANGED <<target, last>>, raced \subseteq raced',
           \A o \in Targets : rows'[o] \subseteq rows[o],
           \A u \in Updates : putPhase'[u] # putPhase[u] =>
               putPhase'[u] \notin {"creating", "updating"}
    PROVE  SerialInv'
<1> SUFFICES ASSUME NEW o \in Targets, o \notin raced'
             PROVE  SerialOf(o)'
    BY DEF SerialInv
<1>1. SerialOf(o)
    BY DEF SerialInv
<1>2. \A u \in Pending(o)' : u \in Pending(o) /\ putPhase'[u] = putPhase[u]
    BY DEF Pending
<1> QED BY <1>1, <1>2 DEF SerialOf

LEMMA InvNext == IInv /\ [ConfigNext]_configVars => IInv'
<1> SUFFICES ASSUME IInv, [ConfigNext]_configVars PROVE IInv'
    OBVIOUS
<1>0. ConfigTypeOK /\ SerialInv /\ AuthorInv /\ ConfigTypeOK'
    BY TypeNext DEF IInv
<1>1. ASSUME NEW u \in Updates, Find(u)
      PROVE  IInv'
    <2>1. AuthorInv'
        BY <1>0, <1>1 DEF Find, AuthorInv, AuthorOf
    <2>2. SerialInv'
        <3> SUFFICES ASSUME NEW o \in Targets, o \notin raced'
                     PROVE  SerialOf(o)'
            BY DEF SerialInv
        <3>1. SerialOf(o)
            BY <1>0, <1>1 DEF Find, SerialInv
        <3>2. CASE o = target[u]
            <4>1. Pending(o) = {}
                BY <1>1, <3>2 DEF Find
            <4>2. \A v \in Pending(o)' : v = u
                BY <1>0, <1>1, <4>1 DEF Find, Pending, ConfigTypeOK
            <4>3. putPhase'[u] = "creating" => rows[o] = {}
                BY <1>0, <1>1, <3>2 DEF Find, ConfigTypeOK
            <4> QED BY <1>1, <3>1, <4>2, <4>3 DEF Find, SerialOf
        <3>3. CASE o # target[u]
            <4>1. \A v \in Pending(o)' : v \in Pending(o) /\ putPhase'[v] = putPhase[v]
                BY <1>0, <1>1, <3>3 DEF Find, Pending, ConfigTypeOK
            <4> QED BY <1>1, <3>1, <4>1 DEF Find, SerialOf
        <3> QED BY <3>2, <3>3
    <2> QED BY <1>0, <2>1, <2>2 DEF IInv
<1>2. ASSUME NEW u \in Updates, Create(u)
      PROVE  IInv'
    <2>. DEFINE t == target[u]
                new == [id |-> u, data |-> u, author |-> author[u]]
    <2>1. /\ t \in Targets /\ putPhase[u] = "creating"
          /\ rows' = [rows EXCEPT ![t] = @ \cup {new}]
          /\ last' = [last EXCEPT ![t] = u]
          /\ putPhase' = [putPhase EXCEPT ![u] = "created"]
          /\ UNCHANGED <<deleted, target, author, raced>>
        BY <1>0, <1>2 DEF Create, ConfigTypeOK
    <2>2. new.author = author[u] /\ new.data = u
        OBVIOUS
    <2>. HIDE DEF new
    <2>3. rows'[t] = rows[t] \cup {new} /\ last'[t] = u
        BY <1>0, <2>1 DEF ConfigTypeOK
    <2>4. \A o \in Targets : o # t => rows'[o] = rows[o] /\ last'[o] = last[o]
        BY <1>0, <2>1 DEF ConfigTypeOK
    <2>5. AuthorInv'
        <3> SUFFICES ASSUME NEW o \in Targets PROVE AuthorOf(o)'
            BY DEF AuthorInv
        <3>1. CASE o = t
            BY <2>1, <2>2, <2>3, <3>1, ConfigAssumption DEF AuthorOf
        <3>2. CASE o # t
            BY <1>0, <2>1, <2>4, <3>2 DEF AuthorInv, AuthorOf
        <3> QED BY <3>1, <3>2
    <2>6. SerialInv'
        <3> SUFFICES ASSUME NEW o \in Targets, o \notin raced'
                     PROVE  SerialOf(o)'
            BY DEF SerialInv
        <3>1. SerialOf(o)
            BY <1>0, <2>1 DEF SerialInv
        <3>2. CASE o = t
            <4>1. u \in Pending(o) /\ \A v \in Pending(o) : v = u
                BY <2>1, <3>1, <3>2 DEF SerialOf, Pending
            <4>2. rows[o] = {}
                BY <2>1, <3>1, <4>1 DEF SerialOf
            <4>3. Pending(o)' = {}
                BY <1>0, <2>1, <4>1 DEF Pending, ConfigTypeOK
            <4> QED BY <2>2, <2>3, <3>2, <4>2, <4>3 DEF SerialOf
        <3>3. CASE o # t
            <4>1. \A v \in Pending(o)' : v \in Pending(o) /\ putPhase'[v] = putPhase[v]
                BY <1>0, <2>1, <3>3 DEF Pending, ConfigTypeOK
            <4> QED BY <2>1, <2>4, <3>1, <3>3, <4>1 DEF SerialOf
        <3> QED BY <3>2, <3>3
    <2> QED BY <1>0, <2>5, <2>6 DEF IInv
<1>3. ASSUME NEW u \in Updates, Update(u)
      PROVE  IInv'
    <2>. DEFINE t == target[u]
                Set(row) == [row EXCEPT !.data = u, !.author = author[u]]
    <2>1. /\ t \in Targets /\ putPhase[u] = "updating"
          /\ rows' = [rows EXCEPT ![t] = {Set(row) : row \in @}]
          /\ last' = [last EXCEPT ![t] = IF rows[t] = {} THEN @ ELSE u]
          /\ putPhase' = [putPhase EXCEPT ![u] = "updated"]
          /\ UNCHANGED <<deleted, target, author, raced>>
        BY <1>0, <1>3 DEF Update, ConfigTypeOK
    <2>2. \A row \in rows[t] : Set(row).author = author[u] /\ Set(row).data = u
        <3> SUFFICES ASSUME NEW row \in rows[t]
                     PROVE  Set(row).author = author[u] /\ Set(row).data = u
            OBVIOUS
        <3>1. row \in Row
            BY <1>0, <2>1 DEF ConfigTypeOK
        <3> QED BY <3>1 DEF Row
    <2>3. rows'[t] = {Set(row) : row \in rows[t]}
        BY <1>0, <2>1 DEF ConfigTypeOK
    <2>4. last'[t] = IF rows[t] = {} THEN last[t] ELSE u
        BY <1>0, <2>1 DEF ConfigTypeOK
    <2>5. \A o \in Targets : o # t => rows'[o] = rows[o] /\ last'[o] = last[o]
        BY <1>0, <2>1 DEF ConfigTypeOK
    <2>. HIDE DEF Set
    <2>6. AuthorInv'
        <3> SUFFICES ASSUME NEW o \in Targets PROVE AuthorOf(o)'
            BY DEF AuthorInv
        <3>1. CASE o = t /\ rows[t] # {}
            <4>1. \E row \in rows'[t] : row.author = author[u]
                BY <2>2, <2>3, <3>1
            <4> QED BY <2>1, <2>4, <3>1, <4>1, ConfigAssumption DEF AuthorOf
        <3>2. CASE o = t /\ rows[t] = {}
            <4>1. rows'[t] = {} /\ last'[t] = last[t]
                BY <2>3, <2>4, <3>2
            <4> QED BY <1>0, <2>1, <3>2, <4>1 DEF AuthorInv, AuthorOf
        <3>3. CASE o # t
            BY <1>0, <2>1, <2>5, <3>3 DEF AuthorInv, AuthorOf
        <3> QED BY <3>1, <3>2, <3>3
    <2>7. SerialInv'
        <3> SUFFICES ASSUME NEW o \in Targets, o \notin raced'
                     PROVE  SerialOf(o)'
            BY DEF SerialInv
        <3>1. SerialOf(o)
            BY <1>0, <2>1 DEF SerialInv
        <3>2. \A v \in Pending(o)' : v \in Pending(o) /\ putPhase'[v] = putPhase[v]
            BY <1>0, <2>1 DEF Pending, ConfigTypeOK
        <3>3. CASE o = t
            <4>1. \A v \in Pending(o)' : FALSE
                BY <1>0, <2>1, <3>1, <3>2, <3>3 DEF SerialOf, Pending, ConfigTypeOK
            <4>2. \A r1, r2 \in rows'[o] : r1 = r2
                BY <2>3, <3>1, <3>3 DEF SerialOf
            <4>3. \A row \in rows'[o] : row.data = last'[o]
                BY <2>2, <2>3, <2>4, <3>3
            <4> QED BY <4>1, <4>2, <4>3 DEF SerialOf
        <3>4. CASE o # t
            BY <2>1, <2>5, <3>1, <3>2, <3>4 DEF SerialOf
        <3> QED BY <3>3, <3>4
    <2> QED BY <1>0, <2>6, <2>7 DEF IInv
<1>4. ASSUME NEW u \in Updates, Acknowledge(u) \/ AbortPut(u)
      PROVE  IInv'
    <2>1. UNCHANGED <<rows, deleted, target, author, last, raced>>
        BY <1>4 DEF Acknowledge, AbortPut
    <2>2. \A v \in Updates : putPhase'[v] # putPhase[v] =>
              putPhase'[v] \notin {"creating", "updating"}
        BY <1>0, <1>4 DEF Acknowledge, AbortPut, ConfigTypeOK
    <2>3. SerialInv'
        BY <1>0, <2>1, <2>2, SerialShrinks
    <2>4. AuthorInv'
        BY <1>0, <2>1 DEF AuthorInv, AuthorOf
    <2> QED BY <1>0, <2>3, <2>4 DEF IInv
<1>5. ASSUME NEW v \in Users, DeleteUser(v)
      PROVE  IInv'
    <2>1. \A o \in Targets : rows'[o] = {row \in rows[o] : row.author # v}
        BY <1>5 DEF DeleteUser
    <2>2. deleted' = deleted \cup {v} /\ UNCHANGED <<target, author, putPhase, last, raced>>
        BY <1>5 DEF DeleteUser
    <2>3. SerialInv'
        BY <1>0, <2>1, <2>2, SerialShrinks
    <2>4. AuthorInv'
        BY <1>0, <2>1, <2>2, ConfigAssumption DEF AuthorInv, AuthorOf
    <2> QED BY <1>0, <2>3, <2>4 DEF IInv
<1>6. CASE UNCHANGED configVars
    <2>1. SerialInv'
        BY <1>0, <1>6, SerialShrinks DEF configVars
    <2> QED BY <1>0, <1>6, <2>1 DEF configVars, IInv, AuthorInv, AuthorOf
<1> QED BY <1>1, <1>2, <1>3, <1>4, <1>5, <1>6 DEF ConfigNext, Put

LEMMA Invariance == ConfigSpec => []IInv
BY InvInit, InvNext, PTL DEF ConfigSpec

(* PUTs that do not overlap leave one row, which holds the last one.       *)
THEOREM SerialServed == ConfigSpec => []SerialUpdatesServed
<1>1. ASSUME IInv PROVE SerialUpdatesServed
    <2> SUFFICES ASSUME NEW o \in Targets \ raced
                 PROVE  /\ \A r1, r2 \in rows[o] : r1 = r2
                        /\ rows[o] # {} => Served(o) = {last[o]}
        BY DEF SerialUpdatesServed
    <2>1. SerialOf(o)
        BY <1>1 DEF IInv, SerialInv
    <2>2. ASSUME rows[o] # {} PROVE Served(o) = {last[o]}
        BY <2>1, <2>2 DEF SerialOf, Served
    <2> QED BY <2>1, <2>2 DEF SerialOf
<1> QED BY <1>1, Invariance, PTL

(* A configuration, or the default, is only ever lost when the user who    *)
(* wrote it last is deleted.                                               *)
THEOREM OnlyLostWithAuthor == ConfigSpec => []LostWithAuthor
<1>1. IInv => LostWithAuthor
    BY DEF IInv, AuthorInv, AuthorOf, LostWithAuthor
<1> QED BY <1>1, Invariance, PTL
=============================================================================
