----------------------- MODULE ContainerClientProofs -----------------------
(* Proofs about the container client.  Probes, for any number of tests and *)
(* packets, any number of copies and any size of the buffer: what a reply  *)
(* is counted for, and whose probe its latency is reported for.            *)
(* ContainerClient, for any loops and targets: that an upload carries a    *)
(* fresh token.                                                            *)
EXTENDS Probes, ContainerClient, FiniteSetTheorems, TLAPS


Credits(r) == {d \in Replies : credited[d] = r}
Places(r) == {i \in 1..Len(buffer) : buffer[i] = r}

(* What was taken, what waits in the socket and what flies was copied.     *)
Conserved(r) ==
    Cardinality(Credits(r)) + Cardinality(Places(r)) + flying[r] <= copies[r]
ConservedInv == \A r \in Replies : Conserved(r)

(* A probe under way is one of the probes of the round.                    *)
UnderWayInv == pc # "closed" => test \in 1..Tests /\ packet \in Packets

Earlier(r) == r[1] < test \/ (r[1] = test /\ r[2] < packet)

(* There are replies to probes that were sent only, and probes that were   *)
(* not are credited with nothing.                                          *)
SentInv ==
    \A r \in Replies : ~Earlier(r) =>
        /\ credited[r] = None
        /\ copies[r] > 0 => pc = "wait" /\ r = Probe

(* What the code and the socket compare.                                   *)
MatchInv ==
    /\ kind = "udp" =>
          /\ \A i \in 1..Len(buffer) : buffer[i] # Foreign => buffer[i][1] = test
          /\ \A d \in Replies : credited[d] # None => credited[d][1] = d[1]
    /\ kind = "icmp" =>
          \A d \in Replies : credited[d] # None => credited[d][2] = d[2]

(* What OwnReply says of a probe credited with another probe's reply.      *)
Explained(d) ==
    LET by == credited[d]
    IN  \/ /\ kind = "udp" /\ by[1] = d[1] /\ by[2] < d[2]
           /\ \E i \in 1..(d[2] - 1) :
                 credited[<<d[1], i>>] = None \/ copies[<<d[1], i>>] > 1
        \/ /\ kind = "icmp" /\ by[1] < d[1] /\ by[2] = d[2]
           /\ credited[by] # by \/ copies[by] > 1

IInv ==
    /\ TypeOK /\ ConservedInv /\ UnderWayInv /\ SentInv /\ MatchInv
    /\ OwnReply

-----------------------------------------------------------------------------
(* Facts about the data.                                                   *)

LEMMA RepliesFinite == IsFiniteSet(Replies)
<1>1. IsFiniteSet(1..Tests) /\ IsFiniteSet(1..Count)
    BY FS_Interval, ProbesAssumption
<1> QED BY <1>1, FS_Product DEF Replies, Packets

LEMMA ReplyParts ==
    ASSUME NEW r \in Replies
    PROVE  /\ r = <<r[1], r[2]>>
           /\ r[1] \in 1..Tests /\ r[2] \in 1..Count
           /\ r # Foreign /\ r # None
BY ProbesAssumption DEF Replies, Packets

LEMMA SetsFinite ==
    ASSUME TypeOK, NEW r
    PROVE  /\ IsFiniteSet(Credits(r)) /\ Cardinality(Credits(r)) \in Nat
           /\ IsFiniteSet(Places(r)) /\ Cardinality(Places(r)) \in Nat
<1>1. IsFiniteSet(Credits(r))
    BY RepliesFinite, FS_Subset DEF Credits
<1>2. IsFiniteSet(1..Len(buffer))
    BY FS_Interval DEF TypeOK
<1>3. IsFiniteSet(Places(r))
    BY <1>2, FS_Subset DEF Places
<1> QED BY <1>1, <1>3, FS_CardinalityType

LEMMA SetsFiniteNext ==
    ASSUME TypeOK', NEW r
    PROVE  Cardinality(Credits(r)') \in Nat /\ Cardinality(Places(r)') \in Nat
<1>1. IsFiniteSet(Credits(r)')
    BY RepliesFinite, FS_Subset DEF Credits
<1>2. IsFiniteSet(1..Len(buffer'))
    BY FS_Interval DEF TypeOK
<1>3. IsFiniteSet(Places(r)')
    BY <1>2, FS_Subset DEF Places
<1> QED BY <1>1, <1>3, FS_CardinalityType

(* A reply that is both taken for a probe and waiting came twice.          *)
LEMMA TakenAndWaiting ==
    ASSUME TypeOK, ConservedInv, NEW r \in Replies, NEW d \in Replies,
           credited[d] = r, NEW i \in 1..Len(buffer), buffer[i] = r
    PROVE  copies[r] > 1
<1>1. d \in Credits(r) /\ i \in Places(r)
    BY DEF Credits, Places
<1>2. Cardinality(Credits(r)) # 0 /\ Cardinality(Places(r)) # 0
    BY <1>1, SetsFinite, FS_EmptySet
<1>3. flying[r] \in Nat /\ copies[r] \in Nat
    BY DEF TypeOK
<1> QED BY <1>2, <1>3, SetsFinite DEF ConservedInv, Conserved

(* What is not copied neither flies nor waits nor was taken.               *)
LEMMA NotCopied ==
    ASSUME TypeOK, ConservedInv, NEW r \in Replies, copies[r] = 0
    PROVE  Credits(r) = {} /\ Places(r) = {}
<1>1. flying[r] \in Nat
    BY DEF TypeOK
<1>2. Cardinality(Credits(r)) = 0 /\ Cardinality(Places(r)) = 0
    BY <1>1, SetsFinite DEF ConservedInv, Conserved
<1> QED BY <1>2, SetsFinite, FS_EmptySet

(* What waits in the socket was sent.                                      *)
LEMMA WaitingWasSent ==
    ASSUME IInv, NEW i \in 1..Len(buffer), buffer[i] # Foreign
    PROVE  /\ buffer[i] \in Replies
           /\ copies[buffer[i]] > 0
           /\ ~Earlier(buffer[i]) => pc = "wait" /\ buffer[i] = Probe
<1>1. buffer[i] \in Replies
    BY DEF IInv, TypeOK
<1>2. i \in Places(buffer[i])
    BY DEF Places
<1>3. copies[buffer[i]] # 0
    BY <1>1, <1>2, NotCopied DEF IInv
<1>4. copies[buffer[i]] > 0
    BY <1>1, <1>3 DEF IInv, TypeOK
<1>5. ~Earlier(buffer[i]) => pc = "wait" /\ buffer[i] = Probe
    BY <1>1, <1>4 DEF IInv, SentInv, Earlier
<1> QED BY <1>1, <1>4, <1>5

-----------------------------------------------------------------------------
(* The counts after a step.                                                *)

(* A set of places all moved forward by one is no larger.                  *)
LEMMA Moved ==
    ASSUME NEW S, IsFiniteSet(S), S \subseteq Int, NEW T,
           \A i \in T : i + 1 \in S /\ i \in Int
    PROVE  IsFiniteSet(T) /\ Cardinality(T) <= Cardinality(S)
<1> DEFINE f == [i \in S |-> i - 1]
           U == {f[i] : i \in S}
<1>1. f \in Surjection(S, U)
    BY DEF Surjection
<1>2. IsFiniteSet(U) /\ Cardinality(U) <= Cardinality(S)
    BY <1>1, FS_Surjection
<1>3. T \subseteq U
    <2> SUFFICES ASSUME NEW i \in T PROVE i \in U
        OBVIOUS
    <2>1. i + 1 \in S /\ f[i + 1] = i
        OBVIOUS
    <2> QED BY <2>1
<1>4. IsFiniteSet(T) /\ Cardinality(T) <= Cardinality(U)
    BY <1>2, <1>3, FS_Subset
<1>5. Cardinality(T) \in Nat /\ Cardinality(U) \in Nat /\ Cardinality(S) \in Nat
    BY <1>2, <1>4, FS_CardinalityType
<1> QED BY <1>2, <1>4, <1>5

(* Taking the first datagram leaves one place less to it, and no more to   *)
(* the others.                                                             *)
LEMMA PlacesTail ==
    ASSUME TypeOK, buffer # <<>>, buffer' = Tail(buffer), NEW r
    PROVE  /\ Cardinality(Places(r)') <= Cardinality(Places(r))
           /\ Head(buffer) = r =>
                 Cardinality(Places(r)') + 1 <= Cardinality(Places(r))
           /\ \A i \in 1..Len(buffer') :
                 i + 1 \in 1..Len(buffer) /\ buffer'[i] = buffer[i + 1]
<1> DEFINE S == Places(r) \ {1}
<1>1. /\ Len(buffer) \in Nat \ {0} /\ Len(buffer') = Len(buffer) - 1
      /\ Head(buffer) = buffer[1]
      /\ \A i \in 1..Len(buffer') : buffer'[i] = buffer[i + 1]
    BY DEF TypeOK
<1>2. \A i \in Places(r)' : i + 1 \in S /\ i \in Int
    BY <1>1 DEF Places
<1>3. IsFiniteSet(Places(r)) /\ Cardinality(Places(r)) \in Nat
    BY SetsFinite
<1>4. /\ IsFiniteSet(S)
      /\ Cardinality(S) = IF 1 \in Places(r) THEN Cardinality(Places(r)) - 1
                          ELSE Cardinality(Places(r))
    BY <1>3, FS_RemoveElement
<1>5. S \subseteq Int
    BY DEF Places
<1>6. IsFiniteSet(Places(r)') /\ Cardinality(Places(r)') <= Cardinality(S)
    BY <1>2, <1>4, <1>5, Moved
<1>7. Cardinality(Places(r)') \in Nat /\ Cardinality(S) \in Nat
    BY <1>4, <1>6, FS_CardinalityType
<1>8. Head(buffer) = r => 1 \in Places(r)
    BY <1>1 DEF Places
<1>9. \A i \in 1..Len(buffer') : i + 1 \in 1..Len(buffer)
    BY <1>1
<1> QED BY <1>1, <1>3, <1>4, <1>6, <1>7, <1>8, <1>9

(* A datagram received has one place more.                                 *)
LEMMA PlacesAppend ==
    ASSUME TypeOK, NEW d, buffer' = Append(buffer, d), NEW r
    PROVE  /\ Cardinality(Places(r)') <=
                 Cardinality(Places(r)) + (IF d = r THEN 1 ELSE 0)
           /\ \A i \in 1..Len(buffer') :
                 \/ i \in 1..Len(buffer) /\ buffer'[i] = buffer[i]
                 \/ buffer'[i] = d
<1> DEFINE n == Len(buffer) + 1
<1>1. /\ Len(buffer) \in Nat /\ Len(buffer') = n /\ buffer'[n] = d
      /\ \A i \in 1..Len(buffer) : buffer'[i] = buffer[i]
    BY DEF TypeOK
<1>2. \A i \in 1..Len(buffer') : i \in 1..Len(buffer) \/ i = n
    BY <1>1
<1> HIDE DEF n
<1>3. IsFiniteSet(Places(r)) /\ Cardinality(Places(r)) \in Nat
    BY SetsFinite
<1>4. CASE d = r
    <2>1. Places(r)' \subseteq Places(r) \cup {n}
        BY <1>1, <1>2 DEF Places
    <2>2. /\ IsFiniteSet(Places(r) \cup {n})
          /\ Cardinality(Places(r) \cup {n}) <= Cardinality(Places(r)) + 1
        BY <1>3, FS_AddElement
    <2>3. /\ IsFiniteSet(Places(r)')
          /\ Cardinality(Places(r)') <= Cardinality(Places(r) \cup {n})
        BY <2>1, <2>2, FS_Subset
    <2>4. Cardinality(Places(r)') \in Nat /\ Cardinality(Places(r) \cup {n}) \in Nat
        BY <2>2, <2>3, FS_CardinalityType
    <2> QED BY <1>1, <1>2, <1>3, <1>4, <2>2, <2>3, <2>4
<1>5. CASE d # r
    <2>1. Places(r)' \subseteq Places(r)
        BY <1>1, <1>2, <1>5 DEF Places
    <2>2. Cardinality(Places(r)') <= Cardinality(Places(r))
        BY <1>3, <2>1, FS_Subset
    <2> QED BY <1>1, <1>2, <1>3, <1>5, <2>2
<1> QED BY <1>4, <1>5

(* Of a probe credited now, one more has taken the reply.                  *)
LEMMA CreditsAdd ==
    ASSUME TypeOK, NEW d, NEW reply, credited' = [credited EXCEPT ![d] = reply],
           credited[d] = None, NEW r \in Replies
    PROVE  Cardinality(Credits(r)') <=
              Cardinality(Credits(r)) + (IF reply = r THEN 1 ELSE 0)
<1>1. IsFiniteSet(Credits(r)) /\ Cardinality(Credits(r)) \in Nat
    BY SetsFinite
<1>2. CASE reply = r
    <2>1. Credits(r)' \subseteq Credits(r) \cup {d}
        BY DEF Credits, TypeOK
    <2>2. /\ IsFiniteSet(Credits(r) \cup {d})
          /\ Cardinality(Credits(r) \cup {d}) <= Cardinality(Credits(r)) + 1
        <3>1. /\ IsFiniteSet(Credits(r) \cup {d})
              /\ \/ Cardinality(Credits(r) \cup {d}) = Cardinality(Credits(r))
                 \/ Cardinality(Credits(r) \cup {d}) = Cardinality(Credits(r)) + 1
            BY <1>1, FS_AddElement, Zenon
        <3> QED BY <1>1, <3>1
    <2>3. /\ IsFiniteSet(Credits(r)')
          /\ Cardinality(Credits(r)') <= Cardinality(Credits(r) \cup {d})
        BY <2>1, <2>2, FS_Subset
    <2>4. Cardinality(Credits(r)') \in Nat /\ Cardinality(Credits(r) \cup {d}) \in Nat
        BY <2>2, <2>3, FS_CardinalityType
    <2> QED BY <1>1, <1>2, <2>2, <2>3, <2>4
<1>3. CASE reply # r
    <2>1. Credits(r)' \subseteq Credits(r)
        BY <1>3 DEF Credits, TypeOK
    <2>2. Cardinality(Credits(r)') <= Cardinality(Credits(r))
        BY <1>1, <2>1, FS_Subset
    <2> QED BY <1>1, <1>3, <2>2
<1> QED BY <1>2, <1>3

-----------------------------------------------------------------------------
(* A probe ends.                                                           *)

(* With no reply, or with the datagram it found first, of which it had     *)
(* compared what there is to compare.                                      *)
Ends(reply) ==
    /\ pc # "closed"
    /\ End(reply)
    /\ buffer' = buffer \/ (buffer # <<>> /\ buffer' = Tail(buffer))
    /\ reply # None =>
          /\ pc = "wait" /\ buffer # <<>> /\ buffer' = Tail(buffer)
          /\ reply = Head(buffer) /\ reply # Foreign
          /\ kind = "icmp" => reply[2] = packet

LEMMA EndsFacts ==
    ASSUME IInv, NEW reply, Ends(reply)
    PROVE  /\ Probe \in Replies /\ Probe[1] = test /\ Probe[2] = packet
           /\ test \in 1..Tests /\ packet \in 1..Count /\ test' = test
           /\ packet' = packet + 1 /\ pc' \in {"send", "closed"}
           /\ ~Earlier(Probe) /\ credited[Probe] = None
           /\ credited' = [credited EXCEPT ![Probe] = reply]
           /\ credited'[Probe] = reply
           /\ \A d \in Replies : d # Probe => credited'[d] = credited[d]
           /\ flying' = flying /\ copies' = copies /\ kind' = kind
<1>1. test \in 1..Tests /\ packet \in 1..Count /\ test \in Nat /\ packet \in Nat
    BY ProbesAssumption DEF IInv, TypeOK, UnderWayInv, Packets, Ends
<1>2. Probe \in Replies /\ Probe[1] = test /\ Probe[2] = packet
    BY <1>1 DEF Probe, Replies, Packets
<1>3. ~Earlier(Probe)
    BY <1>1, <1>2 DEF Earlier
<1>4. credited[Probe] = None
    BY <1>2, <1>3 DEF IInv, SentInv
<1>5. /\ credited' = [credited EXCEPT ![Probe] = reply]
      /\ test' = test /\ packet' = packet + 1 /\ pc' \in {"send", "closed"}
      /\ flying' = flying /\ copies' = copies /\ kind' = kind
    BY DEF Ends, End
<1>6. /\ credited'[Probe] = reply
      /\ \A d \in Replies : d # Probe => credited'[d] = credited[d]
    BY <1>2, <1>5 DEF IInv, TypeOK
<1> QED BY <1>1, <1>2, <1>3, <1>4, <1>5, <1>6

(* The datagram a probe ends with is the reply to a probe that was sent.   *)
LEMMA EndsWithReply ==
    ASSUME IInv, NEW reply, Ends(reply), reply # None
    PROVE  /\ 1 \in 1..Len(buffer) /\ buffer[1] = reply
           /\ reply \in Replies /\ copies[reply] > 0
           /\ ~Earlier(reply) => reply = Probe
<1>1. buffer # <<>> /\ reply = Head(buffer) /\ reply # Foreign
    BY DEF Ends
<1>2. 1 \in 1..Len(buffer) /\ buffer[1] = reply
    BY <1>1 DEF IInv, TypeOK
<1> QED BY <1>1, <1>2, WaitingWasSent

LEMMA EndsType ==
    ASSUME IInv, NEW reply, Ends(reply)
    PROVE  TypeOK'
<1>1. reply \in Replies \cup {None}
    BY EndsWithReply
<1>2. credited' \in [Replies -> Replies \cup {None}]
    BY <1>1, EndsFacts DEF IInv, TypeOK
<1>3. buffer' \in Seq(Replies \cup {Foreign})
    <2>1. buffer \in Seq(Replies \cup {Foreign})
        BY DEF IInv, TypeOK
    <2>2. buffer # <<>> => Tail(buffer) \in Seq(Replies \cup {Foreign})
        BY <2>1
    <2> QED BY <2>1, <2>2 DEF Ends
<1>4. packet' \in 1..(Count + 1) /\ pc' \in {"closed", "send", "wait"}
    BY EndsFacts, ProbesAssumption
<1> QED BY <1>2, <1>3, <1>4 DEF Ends, End, IInv, TypeOK

LEMMA EndsConserved ==
    ASSUME IInv, NEW reply, Ends(reply)
    PROVE  ConservedInv'
<1> SUFFICES ASSUME NEW r \in Replies PROVE Conserved(r)'
    BY DEF ConservedInv
<1>1. TypeOK /\ TypeOK' /\ Conserved(r)
    BY EndsType DEF IInv, ConservedInv
<1>2. Cardinality(Credits(r)') <=
         Cardinality(Credits(r)) + (IF reply = r THEN 1 ELSE 0)
    BY <1>1, EndsFacts, CreditsAdd
<1>3. Cardinality(Places(r)') + (IF reply = r THEN 1 ELSE 0)
         <= Cardinality(Places(r))
    <2>1. CASE buffer' = buffer
        <3>1. reply # r
            <4> SUFFICES ASSUME reply = r PROVE FALSE
                OBVIOUS
            <4>1. reply # None
                BY ReplyParts
            <4>2. buffer # <<>> /\ buffer' = Tail(buffer)
                BY <4>1 DEF Ends
            <4>3. Len(Tail(buffer)) # Len(buffer)
                BY <1>1, <4>2 DEF TypeOK
            <4> QED BY <2>1, <4>2, <4>3
        <3>2. Places(r)' = Places(r)
            BY <2>1 DEF Places
        <3>3. Cardinality(Places(r)) \in Nat
            BY <1>1, SetsFinite
        <3> QED BY <3>1, <3>2, <3>3
    <2>2. CASE buffer # <<>> /\ buffer' = Tail(buffer)
        <3>1. reply = r => Head(buffer) = r
            BY ReplyParts DEF Ends
        <3>2. /\ Cardinality(Places(r)') <= Cardinality(Places(r))
              /\ Head(buffer) = r =>
                    Cardinality(Places(r)') + 1 <= Cardinality(Places(r))
            BY <1>1, <2>2, PlacesTail
        <3>3. Cardinality(Places(r)) \in Nat /\ Cardinality(Places(r)') \in Nat
            BY <1>1, SetsFinite, SetsFiniteNext
        <3> QED BY <3>1, <3>2, <3>3
    <2> QED BY <2>1, <2>2 DEF Ends
<1>4. flying'[r] = flying[r] /\ copies'[r] = copies[r]
    BY EndsFacts
<1>5. flying[r] \in Nat /\ copies[r] \in Nat
    BY <1>1 DEF TypeOK
<1>6. /\ Cardinality(Credits(r)) \in Nat /\ Cardinality(Credits(r)') \in Nat
      /\ Cardinality(Places(r)) \in Nat /\ Cardinality(Places(r)') \in Nat
    BY <1>1, SetsFinite, SetsFiniteNext
<1>7. Cardinality(Credits(r)) + Cardinality(Places(r)) + flying[r] <= copies[r]
    BY <1>1 DEF Conserved
<1>8. Cardinality(Credits(r)') + Cardinality(Places(r)') + flying'[r] <= copies'[r]
    <2> HIDE DEF Credits, Places
    <2> QED BY <1>2, <1>3, <1>4, <1>5, <1>6, <1>7
<1> QED BY <1>8 DEF Conserved

LEMMA EndsSent ==
    ASSUME IInv, NEW reply, Ends(reply)
    PROVE  UnderWayInv' /\ SentInv'
<1>1. UnderWayInv'
    <2>1. pc' # "closed" => packet < Count
        BY DEF Ends, End
    <2> QED BY <2>1, EndsFacts, ProbesAssumption DEF UnderWayInv, Packets
<1>2. SentInv'
    <2> SUFFICES ASSUME NEW r \in Replies, ~Earlier(r)'
                 PROVE  credited'[r] = None /\ ~(copies'[r] > 0)
        BY DEF SentInv
    <2>1. r = <<r[1], r[2]>> /\ r[1] \in Nat /\ r[2] \in Nat
        BY ReplyParts, ProbesAssumption
    <2>2. ~Earlier(r) /\ r # Probe
        BY <2>1, EndsFacts, ProbesAssumption DEF Earlier
    <2>3. credited[r] = None /\ ~(copies[r] > 0)
        BY <2>2 DEF IInv, SentInv
    <2> QED BY <2>2, <2>3, EndsFacts
<1> QED BY <1>1, <1>2

LEMMA EndsMatch ==
    ASSUME IInv, NEW reply, Ends(reply)
    PROVE  MatchInv'
<1>1. ASSUME kind = "udp", NEW i \in 1..Len(buffer'), buffer'[i] # Foreign
      PROVE  buffer'[i][1] = test'
    <2>1. \E j \in 1..Len(buffer) : buffer'[i] = buffer[j]
        <3>1. CASE buffer' = buffer
            BY <1>1, <3>1
        <3>2. CASE buffer # <<>> /\ buffer' = Tail(buffer)
            <4>1. i + 1 \in 1..Len(buffer) /\ buffer'[i] = buffer[i + 1]
                BY <1>1, <3>2, PlacesTail DEF IInv
            <4> QED BY <4>1
        <3> QED BY <3>1, <3>2 DEF Ends
    <2> QED BY <1>1, <2>1, EndsFacts DEF IInv, MatchInv
<1>2. ASSUME kind = "udp", NEW d \in Replies, credited'[d] # None
      PROVE  credited'[d][1] = d[1]
    <2>1. CASE d # Probe
        BY <1>2, <2>1, EndsFacts DEF IInv, MatchInv
    <2>2. CASE d = Probe
        <3>1. reply # None /\ credited'[d] = reply
            BY <1>2, <2>2, EndsFacts
        <3>2. reply[1] = test
            BY <1>2, <3>1, EndsWithReply, ReplyParts DEF IInv, MatchInv
        <3> QED BY <2>2, <3>1, <3>2, EndsFacts
    <2> QED BY <2>1, <2>2
<1>3. ASSUME kind = "icmp", NEW d \in Replies, credited'[d] # None
      PROVE  credited'[d][2] = d[2]
    <2>1. CASE d # Probe
        BY <1>3, <2>1, EndsFacts DEF IInv, MatchInv
    <2>2. CASE d = Probe
        BY <1>3, <2>2, EndsFacts DEF Ends
    <2> QED BY <2>1, <2>2
<1> QED BY <1>1, <1>2, <1>3, EndsFacts DEF MatchInv

(* An explanation lasts: the probes it speaks of are over.                 *)
LEMMA ExplainedLasts ==
    ASSUME IInv, NEW d \in Replies, credited[d] \notin {d, None},
           kind' = kind, credited'[d] = credited[d],
           \A e \in Replies : Earlier(e) =>
               credited'[e] = credited[e] /\ copies'[e] = copies[e]
    PROVE  Explained(d)'
<1> DEFINE by == credited[d]
<1>1. /\ d = <<d[1], d[2]>> /\ d[1] \in 1..Tests /\ d[2] \in 1..Count
      /\ d[1] \in Nat /\ d[2] \in Nat
    BY ReplyParts, ProbesAssumption
<1>2. Earlier(d)
    BY DEF IInv, SentInv
<1>3. Explained(d)
    BY DEF IInv, OwnReply, Explained
<1>4. by \in Replies
    BY DEF IInv, TypeOK
<1>5. CASE kind = "udp"
    <2>1. PICK i \in 1..(d[2] - 1) :
             credited[<<d[1], i>>] = None \/ copies[<<d[1], i>>] > 1
        BY <1>3, <1>5 DEF Explained
    <2>2. <<d[1], i>> \in Replies /\ Earlier(<<d[1], i>>)
        BY <1>1, <1>2, <2>1, ProbesAssumption DEF Replies, Packets, Earlier, IInv, TypeOK
    <2>3. credited'[<<d[1], i>>] = None \/ copies'[<<d[1], i>>] > 1
        BY <2>1, <2>2
    <2> QED BY <1>3, <1>5, <2>3 DEF Explained
<1>6. CASE kind = "icmp"
    <2>1. by[1] < d[1] /\ by[2] = d[2] /\ (credited[by] # by \/ copies[by] > 1)
        BY <1>3, <1>6 DEF Explained
    <2>2. by[1] \in Nat
        BY <1>4, ReplyParts, ProbesAssumption
    <2>3. Earlier(by)
        BY <1>1, <1>2, <2>1, <2>2 DEF Earlier, IInv, TypeOK
    <2>4. credited'[by] = credited[by] /\ copies'[by] = copies[by]
        BY <1>4, <2>3
    <2> QED BY <1>6, <2>1, <2>4 DEF Explained
<1> QED BY <1>5, <1>6 DEF IInv, TypeOK

(* A probe that ends with the reply to another one has its explanation.    *)
LEMMA EndsExplained ==
    ASSUME IInv, NEW reply, Ends(reply), reply \notin {Probe, None},
           NEW d, d = Probe
    PROVE  Explained(d)'
<1>1. /\ reply \in Replies /\ reply = <<reply[1], reply[2]>>
      /\ reply[1] \in Nat /\ reply[2] \in 1..Count /\ reply[2] \in Nat
      /\ Earlier(reply)
    BY EndsWithReply, ReplyParts, ProbesAssumption
<1>2. credited[reply] = reply => copies[reply] > 1
    BY <1>1, EndsWithReply, TakenAndWaiting DEF IInv
<1>3. test \in Nat /\ packet \in Nat /\ d[1] = test /\ d[2] = packet
    BY EndsFacts, ProbesAssumption
<1>4. \A e \in Replies : Earlier(e) =>
         credited'[e] = credited[e] /\ copies'[e] = copies[e]
    BY EndsFacts
<1>5. d \in Replies /\ credited'[d] = reply /\ kind' = kind
    BY EndsFacts
<1>6. CASE kind = "udp"
    <2>1. reply[1] = test /\ reply[2] < packet
        BY <1>1, <1>6, EndsWithReply, ReplyParts DEF IInv, MatchInv, Earlier
    <2>2. \E i \in 1..(packet - 1) :
             credited[<<test, i>>] = None \/ copies[<<test, i>>] > 1
        <3>1. reply[2] \in 1..(packet - 1) /\ <<test, reply[2]>> = reply
            BY <1>1, <1>3, <2>1
        <3>2. CASE credited[reply] \in {reply, None}
            BY <1>2, <3>1, <3>2
        <3>3. CASE credited[reply] \notin {reply, None}
            <4>1. Explained(reply)
                BY <1>1, <3>3 DEF IInv, OwnReply, Explained
            <4>2. PICK i \in 1..(reply[2] - 1) :
                     credited[<<test, i>>] = None \/ copies[<<test, i>>] > 1
                BY <1>6, <2>1, <4>1 DEF Explained
            <4>3. i \in 1..(packet - 1)
                BY <1>1, <1>3, <2>1, <4>2
            <4> QED BY <4>2, <4>3
        <3> QED BY <3>2, <3>3
    <2>3. PICK i \in 1..(packet - 1) :
             credited[<<test, i>>] = None \/ copies[<<test, i>>] > 1
        BY <2>2
    <2>4. <<test, i>> \in Replies /\ Earlier(<<test, i>>)
        BY <1>3, <2>3, EndsFacts, ProbesAssumption DEF Replies, Packets, Earlier
    <2>5. credited'[<<test, i>>] = None \/ copies'[<<test, i>>] > 1
        BY <1>4, <2>3, <2>4
    <2>6. credited'[d][1] = d[1] /\ credited'[d][2] < d[2]
        BY <1>3, <1>5, <2>1
    <2>7. \E k \in 1..(d[2] - 1) :
             credited'[<<d[1], k>>] = None \/ copies'[<<d[1], k>>] > 1
        BY <1>3, <2>3, <2>5
    <2> QED BY <1>5, <1>6, <2>6, <2>7 DEF Explained
<1>7. CASE kind = "icmp"
    <2>1. reply[2] = packet /\ reply[1] < test
        BY <1>1, <1>3, <1>7 DEF Ends, Earlier
    <2>2. credited'[reply] # reply \/ copies'[reply] > 1
        BY <1>1, <1>2, <1>4
    <2> QED BY <1>3, <1>5, <1>7, <2>1, <2>2 DEF Explained
<1> QED BY <1>6, <1>7 DEF IInv, TypeOK

LEMMA EndsInv ==
    ASSUME IInv, NEW reply, Ends(reply)
    PROVE  IInv'
<1>1. OwnReply'
    <2> SUFFICES ASSUME NEW d \in Replies, credited'[d] \notin {d, None}
                 PROVE  Explained(d)'
        BY DEF OwnReply, Explained
    <2>1. CASE d # Probe
        <3>1. credited'[d] = credited[d] /\ credited[d] \notin {d, None}
            BY <2>1, EndsFacts
        <3>2. \A e \in Replies : Earlier(e) =>
                 credited'[e] = credited[e] /\ copies'[e] = copies[e]
            BY EndsFacts
        <3> QED BY <3>1, <3>2, EndsFacts, ExplainedLasts
    <2>2. CASE d = Probe
        <3>1. reply \notin {Probe, None}
            BY <2>2, EndsFacts
        <3> QED BY <2>2, <3>1, EndsExplained
    <2> QED BY <2>1, <2>2
<1> QED BY <1>1, EndsType, EndsConserved, EndsSent, EndsMatch DEF IInv

-----------------------------------------------------------------------------
(* The other steps.                                                        *)

(* Steps of the network and skipped messages change none of this.          *)
LEMMA Undisturbed ==
    ASSUME IInv, UNCHANGED <<kind, test, packet, pc, credited, copies>>
    PROVE  UnderWayInv' /\ SentInv' /\ OwnReply'
<1>1. UnderWayInv'
    BY DEF IInv, UnderWayInv
<1>2. SentInv'
    BY DEF IInv, SentInv, Earlier, Probe
<1>3. OwnReply'
    BY DEF IInv, OwnReply
<1> QED BY <1>1, <1>2, <1>3

(* Places and copies in flight that grow by no more than the copies do.    *)
LEMMA ConservedStep ==
    ASSUME TypeOK, TypeOK', ConservedInv, credited' = credited,
           \A r \in Replies :
               Cardinality(Places(r)') + flying'[r] + copies[r] <=
               Cardinality(Places(r)) + flying[r] + copies'[r]
    PROVE  ConservedInv'
<1> SUFFICES ASSUME NEW r \in Replies PROVE Conserved(r)'
    BY DEF ConservedInv
<1>1. Credits(r)' = Credits(r)
    BY DEF Credits
<1>2. Cardinality(Credits(r)) + Cardinality(Places(r)) + flying[r] <= copies[r]
    BY DEF ConservedInv, Conserved
<1>3. /\ Cardinality(Credits(r)) \in Nat /\ Cardinality(Places(r)) \in Nat
      /\ Cardinality(Places(r)') \in Nat
    BY SetsFinite, SetsFiniteNext
<1>4. flying[r] \in Nat /\ copies[r] \in Nat /\ flying'[r] \in Nat /\ copies'[r] \in Nat
    BY DEF TypeOK
<1>5. Cardinality(Credits(r)) + Cardinality(Places(r)') + flying'[r] <= copies'[r]
    BY <1>2, <1>3, <1>4
<1> QED BY <1>1, <1>5 DEF Conserved

LEMMA OpenInv ==
    ASSUME IInv, Open
    PROVE  IInv'
<1>1. /\ pc = "closed" /\ test' = test + 1 /\ packet' = 1 /\ buffer' = <<>>
      /\ test < Tests /\ test \in Nat /\ Tests \in Nat /\ Count \in Nat \ {0}
      /\ UNCHANGED <<kind, flying, noisy, credited, copies>>
    BY ProbesAssumption DEF Open, IInv, TypeOK
<1>2. TypeOK'
    BY <1>1 DEF Open, IInv, TypeOK
<1>3. ConservedInv'
    <2> SUFFICES ASSUME NEW r \in Replies
                 PROVE  Cardinality(Places(r)') + flying'[r] + copies[r] <=
                        Cardinality(Places(r)) + flying[r] + copies'[r]
        BY <1>1, <1>2, ConservedStep DEF IInv
    <2>1. Len(buffer') = 0
        BY <1>1
    <2>2. Places(r)' = {}
        BY <2>1 DEF Places
    <2>3. Cardinality(Places(r)') = 0 /\ Cardinality(Places(r)) \in Nat
        BY <2>2, FS_EmptySet, SetsFinite DEF IInv
    <2>4. /\ flying'[r] = flying[r] /\ copies'[r] = copies[r]
          /\ flying[r] \in Nat /\ copies[r] \in Nat
        BY <1>1 DEF IInv, TypeOK
    <2> QED BY <2>3, <2>4
<1>4. UnderWayInv'
    BY <1>1 DEF UnderWayInv, Packets
<1>5. SentInv'
    <2> SUFFICES ASSUME NEW r \in Replies, ~Earlier(r)'
                 PROVE  credited'[r] = None /\ ~(copies'[r] > 0)
        BY DEF SentInv
    <2>1. r[1] \in Nat /\ r[2] \in Nat
        BY ReplyParts, ProbesAssumption
    <2>2. ~Earlier(r)
        BY <1>1, <2>1 DEF Earlier
    <2>3. credited[r] = None /\ ~(copies[r] > 0)
        BY <1>1, <2>2 DEF IInv, SentInv
    <2> QED BY <1>1, <2>3
<1>6. MatchInv'
    <2>1. 1..Len(buffer') = {}
        BY <1>1
    <2> QED BY <1>1, <2>1 DEF IInv, MatchInv
<1>7. OwnReply'
    BY <1>1 DEF IInv, OwnReply
<1> QED BY <1>2, <1>3, <1>4, <1>5, <1>6, <1>7 DEF IInv

LEMMA SendInv ==
    ASSUME IInv, SendProbe
    PROVE  IInv'
<1>1. PICK n \in 1..MaxCopies :
         /\ flying' = [flying EXCEPT ![Probe] = n]
         /\ copies' = [copies EXCEPT ![Probe] = n]
    BY DEF SendProbe
<1>2. /\ pc = "send" /\ pc' = "wait" /\ n \in Nat
      /\ UNCHANGED <<kind, test, packet, buffer, noisy, credited>>
    BY <1>1, ProbesAssumption DEF SendProbe
<1>3. test \in 1..Tests /\ packet \in 1..Count
    BY <1>2 DEF IInv, UnderWayInv, Packets
<1>4. Probe \in Replies /\ ~Earlier(Probe)
    BY <1>3, ProbesAssumption DEF Probe, Replies, Packets, Earlier
<1>5. /\ flying'[Probe] = n /\ copies'[Probe] = n
      /\ \A r \in Replies : r # Probe =>
            flying'[r] = flying[r] /\ copies'[r] = copies[r]
    BY <1>1, <1>4 DEF IInv, TypeOK
<1>6. TypeOK'
    BY <1>1, <1>2 DEF IInv, TypeOK
<1>7. copies[Probe] = 0
    BY <1>2, <1>4 DEF IInv, SentInv, TypeOK
<1>8. ConservedInv'
    <2> SUFFICES ASSUME NEW r \in Replies
                 PROVE  Cardinality(Places(r)') + flying'[r] + copies[r] <=
                        Cardinality(Places(r)) + flying[r] + copies'[r]
        BY <1>2, <1>6, ConservedStep DEF IInv
    <2>1. Places(r)' = Places(r) /\ Cardinality(Places(r)) \in Nat
        BY <1>2, SetsFinite DEF Places, IInv
    <2>2. flying[r] \in Nat /\ copies[r] \in Nat
        BY DEF IInv, TypeOK
    <2>3. CASE r # Probe
        BY <1>5, <2>1, <2>2, <2>3
    <2>4. CASE r = Probe
        BY <1>2, <1>5, <1>7, <2>1, <2>2, <2>4
    <2> QED BY <2>3, <2>4
<1>9. UnderWayInv'
    BY <1>2, <1>3 DEF UnderWayInv, Packets
<1>10. SentInv'
    <2> SUFFICES ASSUME NEW r \in Replies, ~Earlier(r)'
                 PROVE  credited'[r] = None /\ (copies'[r] > 0 => r = Probe')
        BY <1>2 DEF SentInv
    <2>1. ~Earlier(r) /\ Probe' = Probe
        BY <1>2 DEF Earlier, Probe
    <2>2. credited[r] = None /\ ~(copies[r] > 0)
        BY <1>2, <2>1 DEF IInv, SentInv
    <2> QED BY <1>2, <1>5, <2>1, <2>2
<1>11. MatchInv'
    BY <1>2 DEF IInv, MatchInv
<1>12. OwnReply'
    <2> SUFFICES ASSUME NEW d \in Replies, credited'[d] \notin {d, None}
                 PROVE  Explained(d)'
        BY DEF OwnReply, Explained
    <2>1. \A e \in Replies : Earlier(e) =>
             credited'[e] = credited[e] /\ copies'[e] = copies[e]
        BY <1>2, <1>4, <1>5
    <2> QED BY <1>2, <2>1, ExplainedLasts
<1> QED BY <1>6, <1>8, <1>9, <1>10, <1>11, <1>12 DEF IInv

LEMMA SkipInv ==
    ASSUME IInv, SkipMessage
    PROVE  IInv'
<1>1. /\ kind = "icmp" /\ buffer # <<>> /\ buffer' = Tail(buffer)
      /\ UNCHANGED <<kind, test, packet, pc, flying, noisy, credited, copies>>
    BY DEF SkipMessage
<1>2. buffer \in Seq(Replies \cup {Foreign})
    BY DEF IInv, TypeOK
<1>3. Tail(buffer) \in Seq(Replies \cup {Foreign})
    BY <1>1, <1>2
<1>4. TypeOK'
    BY <1>1, <1>3 DEF IInv, TypeOK
<1>5. ConservedInv'
    <2> SUFFICES ASSUME NEW r \in Replies
                 PROVE  Cardinality(Places(r)') + flying'[r] + copies[r] <=
                        Cardinality(Places(r)) + flying[r] + copies'[r]
        BY <1>1, <1>4, ConservedStep DEF IInv
    <2>1. Cardinality(Places(r)') <= Cardinality(Places(r))
        BY <1>1, PlacesTail DEF IInv
    <2>2. Cardinality(Places(r)) \in Nat /\ Cardinality(Places(r)') \in Nat
        BY <1>4, SetsFinite, SetsFiniteNext DEF IInv
    <2>3. /\ flying'[r] = flying[r] /\ copies'[r] = copies[r]
          /\ flying[r] \in Nat /\ copies[r] \in Nat
        BY <1>1 DEF IInv, TypeOK
    <2> QED BY <2>1, <2>2, <2>3
<1>6. MatchInv'
    BY <1>1 DEF IInv, MatchInv
<1> QED BY <1>1, <1>4, <1>5, <1>6, Undisturbed DEF IInv

(* A datagram leaves the network and is heard, or not.                     *)
LEMMA ReceiveInv ==
    ASSUME IInv, NEW d \in Replies \cup {Foreign}, Receive(d),
           UNCHANGED <<kind, test, packet, pc, noisy, credited, copies>>,
           \/ d = Foreign /\ flying' = flying
           \/ /\ d \in Replies /\ flying[d] > 0
              /\ flying' = [flying EXCEPT ![d] = @ - 1]
    PROVE  IInv'
<1>1. buffer' = buffer \/ (Heard(d) /\ buffer' = Append(buffer, d))
    BY DEF Receive
<1>2. flying \in [Replies -> Nat] /\ buffer \in Seq(Replies \cup {Foreign})
    BY DEF IInv, TypeOK
<1>3. \A r \in Replies :
         /\ flying'[r] \in Nat /\ flying[r] \in Nat
         /\ flying'[r] + (IF d = r THEN 1 ELSE 0) = flying[r]
    BY <1>2, ReplyParts
<1>4. flying' \in [Replies -> Nat]
    BY <1>2, <1>3
<1>5. buffer' \in Seq(Replies \cup {Foreign})
    BY <1>1, <1>2
<1>6. TypeOK'
    BY <1>4, <1>5 DEF IInv, TypeOK
<1>7. ConservedInv'
    <2> SUFFICES ASSUME NEW r \in Replies
                 PROVE  Cardinality(Places(r)') + flying'[r] + copies[r] <=
                        Cardinality(Places(r)) + flying[r] + copies'[r]
        BY <1>6, ConservedStep DEF IInv
    <2>1. Cardinality(Places(r)) \in Nat /\ Cardinality(Places(r)') \in Nat
        BY <1>6, SetsFinite, SetsFiniteNext DEF IInv
    <2>2. Cardinality(Places(r)') <=
             Cardinality(Places(r)) + (IF d = r THEN 1 ELSE 0)
        <3>1. CASE buffer' = buffer
            <4>1. Places(r)' = Places(r)
                BY <3>1 DEF Places
            <4> QED BY <2>1, <4>1
        <3>2. CASE buffer' = Append(buffer, d)
            BY <3>2, PlacesAppend DEF IInv
        <3> QED BY <1>1, <3>1, <3>2
    <2>3. copies[r] \in Nat /\ copies'[r] = copies[r]
        BY DEF IInv, TypeOK
    <2> QED BY <1>3, <2>1, <2>2, <2>3
<1>8. MatchInv'
    <2>1. ASSUME kind = "udp", NEW i \in 1..Len(buffer'), buffer'[i] # Foreign
          PROVE  buffer'[i][1] = test
        <3>1. CASE buffer' = buffer
            BY <2>1, <3>1 DEF IInv, MatchInv
        <3>2. CASE Heard(d) /\ buffer' = Append(buffer, d)
            <4>1. CASE i \in 1..Len(buffer) /\ buffer'[i] = buffer[i]
                BY <2>1, <4>1 DEF IInv, MatchInv
            <4>2. CASE buffer'[i] = d
                BY <2>1, <3>2, <4>2 DEF Heard
            <4> QED BY <2>1, <3>2, <4>1, <4>2, PlacesAppend DEF IInv
        <3> QED BY <1>1, <3>1, <3>2
    <2> QED BY <2>1 DEF IInv, MatchInv
<1> QED BY <1>6, <1>7, <1>8, Undisturbed DEF IInv

-----------------------------------------------------------------------------
(* The theorems.                                                           *)

LEMMA InitInv == Init => IInv
<1> SUFFICES ASSUME Init PROVE IInv
    OBVIOUS
<1>1. TypeOK
    BY ProbesAssumption DEF Init, TypeOK
<1>2. ConservedInv
    <2> SUFFICES ASSUME NEW r \in Replies PROVE Conserved(r)
        BY DEF ConservedInv
    <2>1. Credits(r) = {} /\ Places(r) = {}
        BY ReplyParts DEF Init, Credits, Places
    <2>2. flying[r] = 0 /\ copies[r] = 0
        BY DEF Init
    <2> QED BY <2>1, <2>2, FS_EmptySet DEF Conserved
<1>3. UnderWayInv /\ SentInv
    BY DEF Init, UnderWayInv, SentInv
<1>4. MatchInv /\ OwnReply
    BY DEF Init, MatchInv, OwnReply
<1> QED BY <1>1, <1>2, <1>3, <1>4 DEF IInv

(* Every way a probe ends is an Ends.                                      *)
LEMMA ProbeEnds ==
    ASSUME IInv,
           SendFails \/ TakeDatagram \/ TakeEchoReply \/ Timeout \/ ReceiveFails
    PROVE  IInv'
<1>1. CASE SendFails \/ Timeout \/ ReceiveFails
    <2>1. Ends(None)
        BY <1>1 DEF SendFails, Timeout, ReceiveFails, Ends
    <2> QED BY <2>1, EndsInv
<1>2. CASE TakeDatagram
    <2>1. CASE Head(buffer) = Foreign
        <3>1. Ends(None)
            BY <1>2, <2>1 DEF TakeDatagram, Ends
        <3> QED BY <3>1, EndsInv
    <2>2. CASE Head(buffer) # Foreign
        <3>1. Ends(Head(buffer))
            BY <1>2, <2>2 DEF TakeDatagram, Ends
        <3> QED BY <3>1, EndsInv
    <2> QED BY <2>1, <2>2
<1>3. CASE TakeEchoReply
    <2>1. Ends(Head(buffer))
        BY <1>3 DEF TakeEchoReply, Ours, Ends
    <2> QED BY <2>1, EndsInv
<1> QED BY <1>1, <1>2, <1>3

LEMMA NextInv == IInv /\ [Next]_vars => IInv'
<1> SUFFICES ASSUME IInv, [Next]_vars PROVE IInv'
    OBVIOUS
<1>1. CASE Open
    BY <1>1, OpenInv
<1>2. CASE SendProbe
    BY <1>2, SendInv
<1>3. CASE SendFails \/ TakeDatagram \/ TakeEchoReply \/ Timeout \/ ReceiveFails
    BY <1>3, ProbeEnds
<1>4. CASE SkipMessage
    BY <1>4, SkipInv
<1>5. ASSUME NEW d \in Replies, Arrive(d) PROVE IInv'
    BY <1>5, ReceiveInv DEF Arrive
<1>6. CASE ArriveForeign
    BY <1>6, ReceiveInv DEF ArriveForeign
<1>7. CASE Quieten \/ UNCHANGED vars
    <2>1. /\ UNCHANGED <<kind, test, packet, pc, buffer, flying, credited, copies>>
          /\ noisy' \in BOOLEAN
        BY <1>7 DEF Quieten, vars, IInv, TypeOK
    <2>2. TypeOK'
        BY <2>1 DEF IInv, TypeOK
    <2>3. ConservedInv' /\ MatchInv'
        BY <2>1 DEF IInv, ConservedInv, Conserved, Credits, Places, MatchInv
    <2> QED BY <2>1, <2>2, <2>3, Undisturbed DEF IInv
<1> QED BY <1>1, <1>2, <1>3, <1>4, <1>5, <1>6, <1>7 DEF Next, TestStep

LEMMA Invariance == Spec => []IInv
BY InitInv, NextInv, PTL DEF Spec

(* Type correctness of the probes, for any number of tests and packets.    *)
THEOREM TypeCorrect == Spec => []TypeOK
<1>1. IInv => TypeOK
    BY DEF IInv
<1> QED BY <1>1, Invariance, PTL

(* A latency that is not the probe's own has one of the explanations that  *)
(* OwnReply names: a train with no late or doubled reply has none.         *)
THEOREM OwnReplyCorrect == Spec => []OwnReply
<1>1. IInv => OwnReply
    BY DEF IInv
<1> QED BY <1>1, Invariance, PTL

(* packets_received counts no reply more often than it came, and a ping    *)
(* test counts none twice.                                                 *)
THEOREM CountedCorrect == Spec => []CountedOnce
<1>1. ASSUME IInv PROVE CountedOnce
    <2> SUFFICES ASSUME NEW r \in Replies
                 PROVE  /\ Cardinality(Credits(r)) <= copies[r]
                        /\ kind = "icmp" =>
                              \A d, e \in Credits(r) : d[1] = e[1] => d = e
        BY DEF CountedOnce, Credits
    <2>1. Cardinality(Credits(r)) <= copies[r]
        <3>1. flying[r] \in Nat /\ copies[r] \in Nat
            BY <1>1 DEF IInv, TypeOK
        <3> QED BY <1>1, <3>1, SetsFinite DEF IInv, ConservedInv, Conserved
    <2>2. ASSUME kind = "icmp", NEW d \in Credits(r), NEW e \in Credits(r), d[1] = e[1]
          PROVE  d = e
        <3>1. d \in Replies /\ e \in Replies /\ r # None
            BY ReplyParts DEF Credits
        <3>2. r[2] = d[2] /\ r[2] = e[2]
            BY <1>1, <2>2, <3>1 DEF IInv, MatchInv, Credits
        <3> QED BY <2>2, <3>1, <3>2, ReplyParts
    <2> QED BY <2>1, <2>2
<1> QED BY <1>1, Invariance, PTL

-----------------------------------------------------------------------------
(* ContainerClient.  Who logs in under the lock finds no token, and nobody *)
(* is past the lock before there is one: so no answer is under way that    *)
(* could replace the token of a first login by one issued before it.       *)
PastInv ==
    \A l \in Loops :
        /\ at[l] = "login" => access = 0 /\ tokenLock = l
        /\ at[l] \in {"refresh", "relogin", "upload"} => access # 0
        /\ response[l] # 0 => at[l] \in {"login", "refresh", "relogin"}

RenewedInv ==
    \A l \in Loops :
        /\ at[l] \in {"test", "lock", "login", "done"} => ~upload[l].renewed
        /\ response[l] # 0 => response[l] > upload[l].began
        /\ upload[l].renewed /\ at[l] \in {"refresh", "relogin"} =>
              /\ access > upload[l].began
              /\ \A k \in Loops : response[k] # 0 => response[k] > upload[l].began

ContainerInv == ContainerTypeOK /\ PastInv /\ RenewedInv /\ UploadIsFresh

(* What the steps of one loop leave to be shown of it and of the others.   *)
LEMMA ContainerBegins == ContainerInit => ContainerInv
<1> SUFFICES ASSUME ContainerInit PROVE ContainerInv
    OBVIOUS
<1>1. NoUpload \in [token : 0..1, began : 0..1, renewed : BOOLEAN] /\ ~NoUpload.renewed
    BY DEF NoUpload
<1>2. ContainerTypeOK
    BY <1>1, ContainerAssumption DEF ContainerInit, ContainerTypeOK, LoopPlaces
<1>3. PastInv
    BY DEF ContainerInit, PastInv
<1>4. RenewedInv /\ UploadIsFresh
    BY <1>1 DEF ContainerInit, RenewedInv, UploadIsFresh
<1> QED BY <1>2, <1>3, <1>4 DEF ContainerInv

Uploads == [token : 0..issued, began : 0..issued, renewed : BOOLEAN]

(* A loop that is done with a target starts the next one afresh.           *)
LEMMA NextTargetInv ==
    ASSUME ContainerInv, NEW l \in Loops, NextTarget(l),
           UNCHANGED <<hasPassword, access, refresh, issued>>,
           response' = [response EXCEPT ![l] = 0],
           \/ tokenLock' = tokenLock /\ at[l] # "login"
           \/ tokenLock' = NoLoop /\ tokenLock = l
    PROVE  ContainerInv'
<1> USE DEF ContainerInv
<1>1. /\ tested' = [tested EXCEPT ![l] = @ + 1]
      /\ upload' = [upload EXCEPT ![l] = NoUpload]
      /\ \E p \in {"test", "done"} : at' = [at EXCEPT ![l] = p]
    BY DEF NextTarget, Go
<1>2. PICK p \in {"test", "done"} : at' = [at EXCEPT ![l] = p]
    BY <1>1
<1>3. NoUpload \in Uploads /\ ~NoUpload.renewed /\ NoUpload.began = 0
    BY ContainerAssumption DEF NoUpload, Uploads, ContainerTypeOK
<1>4. ContainerTypeOK'
    BY <1>1, <1>2, <1>3 DEF ContainerTypeOK, LoopPlaces, Uploads
<1>5. /\ at[l] \in LoopPlaces /\ at'[l] = p /\ upload'[l] = NoUpload /\ response'[l] = 0
      /\ \A k \in Loops \ {l} :
            at'[k] = at[k] /\ upload'[k] = upload[k] /\ response'[k] = response[k]
    BY <1>1, <1>2 DEF ContainerTypeOK
<1>6. PastInv'
    BY <1>2, <1>5 DEF PastInv
<1>7. RenewedInv'
    BY <1>2, <1>3, <1>5 DEF RenewedInv
<1>8. UploadIsFresh'
    BY <1>2, <1>5 DEF UploadIsFresh
<1> QED BY <1>4, <1>6, <1>7, <1>8

(* An upload is sent with a token that will do.                            *)
LEMMA PostInv ==
    ASSUME ContainerInv, NEW l \in Loops, NEW token, NEW new \in BOOLEAN, Post(l, token, new),
           access' \in 0..issued, refresh' \in 0..issued, token \in 0..issued,
           token # 0, new => token > upload[l].began,
           access' = access \/ (response[l] # 0 /\ access' = response[l]), access # 0, access' # 0,
           response' = [response EXCEPT ![l] = 0],
           UNCHANGED <<tested, hasPassword, tokenLock, issued>>
    PROVE  ContainerInv'
<1> USE DEF ContainerInv
<1>1. /\ at' = [at EXCEPT ![l] = "upload"]
      /\ upload' = [upload EXCEPT ![l].token = token, ![l].renewed = new]
    BY DEF Post, Go
<1>u. upload' \in [Loops -> Uploads]
    <2>1. [upload[l] EXCEPT !.token = token, !.renewed = new] \in Uploads
        BY DEF ContainerTypeOK, Uploads
    <2>2. upload' = [upload EXCEPT ![l] = [upload[l] EXCEPT !.token = token, !.renewed = new]]
        BY <1>1 DEF ContainerTypeOK
    <2> QED BY <2>1, <2>2 DEF ContainerTypeOK, Uploads
<1>2. ContainerTypeOK'
    BY <1>1, <1>u DEF ContainerTypeOK, LoopPlaces, Uploads
<1>3. /\ at'[l] = "upload" /\ upload'[l].token = token /\ upload'[l].renewed = new
      /\ upload'[l].began = upload[l].began /\ response'[l] = 0
      /\ \A k \in Loops \ {l} :
            at'[k] = at[k] /\ upload'[k] = upload[k] /\ response'[k] = response[k]
    BY <1>1 DEF ContainerTypeOK
<1>4. PastInv'
    BY <1>3 DEF PastInv
<1>5. RenewedInv'
    BY <1>3 DEF RenewedInv
<1>6. UploadIsFresh'
    BY <1>3 DEF UploadIsFresh
<1> QED BY <1>2, <1>4, <1>5, <1>6

(* A loop waits for an answer of the manager.                              *)
LEMMA AskInv ==
    ASSUME ContainerInv, NEW l \in Loops, NEW p \in {"refresh", "relogin"}, Go(l, p),
           access # 0, at[l] \in {"lock", "refresh"},
           response' = [response EXCEPT ![l] = 0],
           UNCHANGED <<tested, hasPassword, access, refresh, tokenLock, issued, upload>>
    PROVE  ContainerInv'
<1> USE DEF ContainerInv
<1>1. at' = [at EXCEPT ![l] = p]
    BY DEF Go
<1>2. ContainerTypeOK'
    BY <1>1 DEF ContainerTypeOK, LoopPlaces
<1>3. /\ at'[l] = p /\ response'[l] = 0
      /\ \A k \in Loops \ {l} : at'[k] = at[k] /\ response'[k] = response[k]
    BY <1>1 DEF ContainerTypeOK
<1>4. PastInv'
    BY <1>3 DEF PastInv
<1>5. RenewedInv'
    BY <1>3 DEF RenewedInv
<1>6. UploadIsFresh'
    BY <1>3 DEF UploadIsFresh
<1> QED BY <1>2, <1>4, <1>5, <1>6

LEMMA LoginAgainInv ==
    ASSUME ContainerInv, NEW l \in Loops, LoginAgain(l), access # 0,
           at[l] \in {"lock", "refresh"}, response' = [response EXCEPT ![l] = 0],
           UNCHANGED <<tested, hasPassword, access, refresh, tokenLock, issued>>
    PROVE  ContainerInv'
<1> USE DEF ContainerInv
<1>1. CASE hasPassword
    BY <1>1, AskInv DEF LoginAgain
<1>2. CASE ~hasPassword
    <2> DEFINE new == upload[l].renewed
    <2>1. new \in BOOLEAN /\ access \in 0..issued /\ refresh \in 0..issued
        BY DEF ContainerTypeOK
    <2>2. new => access > upload[l].began
        BY DEF RenewedInv
    <2>3. Post(l, access, new)
        BY <1>2 DEF LoginAgain
    <2> HIDE DEF new
    <2> QED BY <2>1, <2>2, <2>3, PostInv
<1> QED BY <1>1, <1>2

LEMMA ReplyNone ==
    ASSUME ContainerInv, NEW l \in Loops, response[l] = 0
    PROVE  response = [response EXCEPT ![l] = 0]
BY DEF ContainerInv, ContainerTypeOK

LEMMA LoopTestDoneInv ==
    ASSUME ContainerInv, NEW l \in Loops, LoopTestDone(l) PROVE ContainerInv'
<1> USE DEF ContainerInv
<1>0. /\ at[l] = "test" /\ response[l] = 0
      /\ UNCHANGED <<hasPassword, access, refresh, tokenLock, issued, response>>
    BY DEF LoopTestDone, PastInv
<1>1. CASE NextTarget(l)
    BY <1>0, <1>1, ReplyNone, NextTargetInv
<1>2. CASE /\ Go(l, "lock") /\ upload' = [upload EXCEPT ![l].began = issued]
           /\ UNCHANGED tested
    <2>1. at' = [at EXCEPT ![l] = "lock"]
        BY <1>2 DEF Go
    <2>2. ContainerTypeOK'
        BY <1>0, <1>2, <2>1 DEF ContainerTypeOK, LoopPlaces
    <2>3. /\ at'[l] = "lock" /\ upload'[l].renewed = upload[l].renewed
          /\ \A k \in Loops \ {l} : at'[k] = at[k] /\ upload'[k] = upload[k]
        BY <1>2, <2>1 DEF ContainerTypeOK
    <2>4. PastInv'
        BY <1>0, <2>3 DEF PastInv
    <2>5. RenewedInv'
        BY <1>0, <2>3 DEF RenewedInv
    <2>6. UploadIsFresh'
        BY <1>0, <2>3 DEF UploadIsFresh
    <2> QED BY <2>2, <2>4, <2>5, <2>6
<1> QED BY <1>1, <1>2 DEF LoopTestDone

LEMMA EnsureInv ==
    ASSUME ContainerInv, NEW l \in Loops, EnsureAuthenticated(l) PROVE ContainerInv'
<1> USE DEF ContainerInv
<1>0. /\ at[l] = "lock" /\ response[l] = 0 /\ tokenLock = NoLoop
      /\ UNCHANGED <<hasPassword, access, refresh, issued, response>>
    BY DEF EnsureAuthenticated, PastInv
<1>r. response' = [response EXCEPT ![l] = 0]
    BY <1>0, ReplyNone
<1>1. CASE access # 0 /\ UNCHANGED <<tested, tokenLock>> /\ LoginAgain(l)
    BY <1>0, <1>r, <1>1, LoginAgainInv
<1>2. CASE access # 0 /\ UNCHANGED <<tested, tokenLock, upload>> /\ Go(l, "refresh")
    BY <1>0, <1>r, <1>2, AskInv
<1>3. CASE /\ access = 0 /\ hasPassword /\ Go(l, "login")
           /\ tokenLock' = l /\ UNCHANGED <<tested, upload>>
    <2>1. at' = [at EXCEPT ![l] = "login"]
        BY <1>3 DEF Go
    <2>2. ContainerTypeOK'
        BY <1>0, <1>3, <2>1 DEF ContainerTypeOK, LoopPlaces
    <2>3. at'[l] = "login" /\ \A k \in Loops \ {l} : at'[k] = at[k]
        BY <2>1 DEF ContainerTypeOK
    <2>4. PastInv'
        BY <1>0, <1>3, <2>3, ContainerAssumption DEF PastInv
    <2>5. RenewedInv'
        BY <1>0, <1>3, <2>3 DEF RenewedInv
    <2>6. UploadIsFresh'
        BY <1>0, <1>3, <2>3 DEF UploadIsFresh
    <2> QED BY <2>2, <2>4, <2>5, <2>6
<1>4. CASE access = 0 /\ ~hasPassword /\ NextTarget(l) /\ UNCHANGED tokenLock
    BY <1>0, <1>r, <1>4, NextTargetInv
<1> QED BY <1>1, <1>2, <1>3, <1>4 DEF EnsureAuthenticated

LEMMA IssueInv ==
    ASSUME ContainerInv, NEW l \in Loops, Issue(l) PROVE ContainerInv'
<1> USE DEF ContainerInv
<1>0. /\ at[l] \in {"login", "refresh", "relogin"} /\ response[l] = 0
      /\ issued' = issued + 1 /\ response' = [response EXCEPT ![l] = issued + 1]
      /\ issued < MaxTokens
      /\ UNCHANGED <<at, tested, hasPassword, access, refresh, tokenLock, upload>>
    BY DEF Issue
<1>1. issued' \in 1..MaxTokens /\ 0..issued \subseteq 0..issued' /\ issued + 1 \in 0..issued'
    BY <1>0, ContainerAssumption DEF ContainerTypeOK
<1>2. upload' \in [Loops -> [token : 0..issued', began : 0..issued', renewed : BOOLEAN]]
    <2>1. \A k \in Loops : upload[k] \in [token : 0..issued', began : 0..issued', renewed : BOOLEAN]
        BY <1>1 DEF ContainerTypeOK
    <2> QED BY <1>0, <2>1 DEF ContainerTypeOK
<1>3. ContainerTypeOK'
    BY <1>0, <1>1, <1>2 DEF ContainerTypeOK
<1>4. /\ response'[l] = issued + 1 /\ \A k \in Loops \ {l} : response'[k] = response[k]
      /\ \A k \in Loops : upload[k].began < issued + 1
      /\ issued \in Nat
    BY <1>0, ContainerAssumption DEF ContainerTypeOK
<1>5. PastInv'
    BY <1>0, <1>4 DEF PastInv
<1>6. RenewedInv'
    BY <1>0, <1>4 DEF RenewedInv
<1>7. UploadIsFresh'
    BY <1>0 DEF UploadIsFresh
<1> QED BY <1>3, <1>5, <1>6, <1>7

LEMMA AnsweredInv ==
    ASSUME ContainerInv, NEW l \in Loops, Answered(l) PROVE ContainerInv'
<1> USE DEF ContainerInv
<1>0. /\ response[l] # 0 /\ response[l] \in 0..issued /\ access' = response[l]
      /\ response' = [response EXCEPT ![l] = 0] /\ response[l] > upload[l].began
      /\ refresh \in 0..issued
      /\ UNCHANGED <<tested, hasPassword, issued>>
    BY DEF Answered, ContainerTypeOK, RenewedInv
<1>1. CASE /\ at[l] = "login" /\ refresh' = response[l] /\ tokenLock' = NoLoop
           /\ Go(l, "refresh") /\ upload' = [upload EXCEPT ![l].renewed = TRUE]
    <2>1. at' = [at EXCEPT ![l] = "refresh"]
        BY <1>1 DEF Go
    <2>u. upload' \in [Loops -> Uploads]
        <3>1. [upload[l] EXCEPT !.renewed = TRUE] \in Uploads
            BY DEF ContainerTypeOK, Uploads
        <3>2. upload' = [upload EXCEPT ![l] = [upload[l] EXCEPT !.renewed = TRUE]]
            BY <1>1 DEF ContainerTypeOK
        <3> QED BY <3>1, <3>2 DEF ContainerTypeOK, Uploads
    <2>2. ContainerTypeOK'
        BY <1>0, <1>1, <2>1, <2>u DEF ContainerTypeOK, LoopPlaces, Uploads
    <2>3. /\ at'[l] = "refresh" /\ upload'[l].renewed /\ upload'[l].began = upload[l].began
          /\ response'[l] = 0
          /\ \A k \in Loops \ {l} :
                at'[k] = at[k] /\ upload'[k] = upload[k] /\ response'[k] = response[k]
        BY <1>0, <1>1, <2>1 DEF ContainerTypeOK
    <2>4. \A k \in Loops \ {l} : /\ at[k] \notin {"login", "refresh", "relogin", "upload"}
                                 /\ response[k] = 0
        BY <1>1 DEF PastInv
    <2>5. PastInv'
        BY <1>0, <2>3, <2>4 DEF PastInv
    <2>6. RenewedInv'
        BY <1>0, <2>3, <2>4 DEF RenewedInv
    <2>7. UploadIsFresh'
        BY <2>3, <2>4 DEF UploadIsFresh
    <2> QED BY <2>2, <2>5, <2>6, <2>7
<1>2. CASE at[l] = "refresh" /\ Post(l, response[l], TRUE) /\ UNCHANGED <<refresh, tokenLock>>
    <2>1. access # 0
        BY <1>2 DEF PastInv
    <2>2. access' \in 0..issued /\ refresh' \in 0..issued /\ access' # 0
        BY <1>0, <1>2
    <2> QED BY <1>0, <1>2, <2>1, <2>2, PostInv
<1>3. CASE /\ at[l] = "relogin" /\ refresh' = response[l] /\ Post(l, response[l], TRUE)
           /\ UNCHANGED tokenLock
    <2>1. access # 0
        BY <1>3 DEF PastInv
    <2>2. access' \in 0..issued /\ refresh' \in 0..issued /\ access' # 0
        BY <1>0, <1>3
    <2> QED BY <1>0, <1>3, <2>1, <2>2, PostInv
<1> QED BY <1>1, <1>2, <1>3 DEF Answered

LEMMA RefusedInv ==
    ASSUME ContainerInv, NEW l \in Loops, Refused(l) PROVE ContainerInv'
<1> USE DEF ContainerInv
<1>0. /\ response' = [response EXCEPT ![l] = 0]
      /\ UNCHANGED <<hasPassword, access, refresh, issued>>
    BY DEF Refused
<1>1. CASE LoginRefused(l)
    BY <1>0, <1>1, NextTargetInv DEF LoginRefused, PastInv
<1>2. CASE at[l] = "refresh" /\ LoginAgain(l) /\ UNCHANGED <<tested, tokenLock>>
    BY <1>0, <1>2, LoginAgainInv DEF PastInv
<1>3. CASE /\ at[l] = "relogin" /\ Post(l, access, upload[l].renewed)
           /\ UNCHANGED <<tested, tokenLock>>
    <2> DEFINE new == upload[l].renewed
    <2>1. new \in BOOLEAN /\ access \in 0..issued /\ refresh \in 0..issued
        BY DEF ContainerTypeOK
    <2>2. access # 0 /\ (new => access > upload[l].began)
        BY <1>3 DEF PastInv, RenewedInv
    <2>3. Post(l, access, new)
        BY <1>3
    <2> HIDE DEF new
    <2> QED BY <1>0, <1>3, <2>1, <2>2, <2>3, PostInv
<1> QED BY <1>1, <1>2, <1>3 DEF Refused

LEMMA UploadOverInv ==
    ASSUME ContainerInv, NEW l \in Loops, UploadOver(l) PROVE ContainerInv'
<1>1. /\ at[l] = "upload" /\ response[l] = 0 /\ NextTarget(l)
      /\ UNCHANGED <<hasPassword, access, refresh, tokenLock, issued, response>>
    BY DEF UploadOver, ContainerInv, PastInv
<1> QED BY <1>1, ReplyNone, NextTargetInv

LEMMA NextRoundInv == ASSUME ContainerInv, NextRound PROVE ContainerInv'
<1> USE DEF ContainerInv, NextRound
<1>1. ContainerTypeOK'
    BY DEF ContainerTypeOK, LoopPlaces
<1>2. PastInv'
    BY DEF PastInv
<1>3. RenewedInv'
    BY DEF RenewedInv
<1>4. UploadIsFresh'
    BY DEF UploadIsFresh
<1> QED BY <1>1, <1>2, <1>3, <1>4

LEMMA ContainerStep == ContainerInv /\ [ContainerNext]_containerVars => ContainerInv'
<1> SUFFICES ASSUME ContainerInv, [ContainerNext]_containerVars PROVE ContainerInv'
    OBVIOUS
<1>1. CASE UNCHANGED containerVars
    BY <1>1 DEF containerVars, ContainerInv, ContainerTypeOK, PastInv, RenewedInv, UploadIsFresh
<1> QED BY <1>1, NextRoundInv, LoopTestDoneInv, EnsureInv, AnsweredInv, RefusedInv,
           UploadOverInv, IssueInv DEF ContainerNext, LoopStep

THEOREM ContainerCorrect == ContainerSpec => []ContainerInv
BY ContainerBegins, ContainerStep, PTL DEF ContainerSpec

(* The type invariant of ContainerClient.                                  *)
THEOREM ContainerTypes == ContainerSpec => []ContainerTypeOK
BY ContainerCorrect, PTL DEF ContainerInv

(* An upload carries a token, and a fresh one if any request of its own    *)
(* was answered: _ensure_authenticated, _refresh_token and _login.         *)
THEOREM FreshCorrect == ContainerSpec => []UploadIsFresh
BY ContainerCorrect, PTL DEF ContainerInv
=============================================================================
