------------------------------- MODULE Probes -------------------------------
(***************************************************************************)
(* The trains of probes of the container client (containerClient/tests):   *)
(* the raw UDP test (udp_test.py) and the ICMP ping over a raw socket      *)
(* (icmp_test.py), over a network that loses, delays, duplicates and       *)
(* reorders their replies.  run_udp_tests and run_icmp_tests (client.py)   *)
(* make the tests of a round one after the other, each on a new socket.    *)
(*                                                                         *)
(* A UDP datagram carries nothing that tells the packets of a test apart.  *)
(* An echo reply carries the process id, the same for all tests, and the   *)
(* sequence number, which starts again with each test; the raw socket      *)
(* hears every ICMP message of the host.                                   *)
(*                                                                         *)
(* A reply is named by its probe <<test, packet>>.  Its latency is left    *)
(* out: what matters is which probe it is credited to.                     *)
(***************************************************************************)
EXTENDS Naturals, Sequences, FiniteSets

CONSTANTS
    Tests,       \* bound on the tests of a round: targets 1..Tests
    Count,       \* packet_count
    MaxCopies,   \* bound on the copies the network makes of a reply
    MaxBuffer,   \* bound on the datagrams waiting in a socket
    Foreign,     \* a datagram that is no reply to any probe
    None         \* no reply

Packets == 1..Count
Replies == (1..Tests) \X Packets

ASSUME ProbesAssumption ==
    /\ Tests \in Nat /\ Count \in Nat \ {0}
    /\ MaxCopies \in Nat \ {0} /\ MaxBuffer \in Nat \ {0}
    /\ Foreign \notin Replies /\ None \notin Replies

VARIABLES
    kind,       \* udp or icmp
    test,       \* the test under way
    packet,     \* its packet
    pc,         \* closed: no socket; send: about to; wait: for the reply
    buffer,     \* the datagrams waiting in the socket, in order of arrival
    flying,     \* the copies of each reply still in the network
    noisy,      \* others send to the port, or other ICMP messages arrive
    credited,   \* the datagram taken for the reply to each probe
    copies      \* history: the copies of each reply there ever were

vars == <<kind, test, packet, pc, buffer, flying, noisy, credited, copies>>

TypeOK ==
    /\ kind \in {"udp", "icmp"}
    /\ test \in 0..Tests
    /\ packet \in 1..(Count + 1)
    /\ pc \in {"closed", "send", "wait"}
    /\ buffer \in Seq(Replies \cup {Foreign})
    /\ flying \in [Replies -> Nat]
    /\ noisy \in BOOLEAN
    /\ credited \in [Replies -> Replies \cup {None}]
    /\ copies \in [Replies -> Nat]

Init ==
    /\ kind \in {"udp", "icmp"}
    /\ test = 0
    /\ packet = 1
    /\ pc = "closed"
    /\ buffer = <<>>
    /\ flying = [d \in Replies |-> 0]
    /\ noisy \in BOOLEAN
    /\ credited = [d \in Replies |-> None]
    /\ copies = [d \in Replies |-> 0]

-----------------------------------------------------------------------------
(* The test.                                                               *)

(* The next target of the round: resolve it and make a socket, or end with *)
(* an error.                                                               *)
Open ==
    /\ pc = "closed" /\ test < Tests
    /\ test' = test + 1
    /\ packet' = 1
    /\ pc' \in {"send", "closed"}
    /\ buffer' = <<>>
    /\ UNCHANGED <<kind, flying, noisy, credited, copies>>

Probe == <<test, packet>>

(* sock_sendto.  The network decides how many replies will be on their     *)
(* way; one that is lost is one that never arrives.                        *)
SendProbe ==
    /\ pc = "send"
    /\ \E n \in 1..MaxCopies :
          /\ flying' = [flying EXCEPT ![Probe] = n]
          /\ copies' = [copies EXCEPT ![Probe] = n]
    /\ pc' = "wait"
    /\ UNCHANGED <<kind, test, packet, buffer, noisy, credited>>

(* The probe ends with a reply or without, and the next one follows, or    *)
(* the socket is closed and the statistics are made.                       *)
End(reply) ==
    /\ credited' = [credited EXCEPT ![Probe] = reply]
    /\ packet' = packet + 1
    /\ pc' = IF packet < Count THEN "send" ELSE "closed"
    /\ UNCHANGED <<kind, test, flying, noisy, copies>>

(* sock_sendto raises.                                                     *)
SendFails == pc = "send" /\ End(None) /\ UNCHANGED buffer

(* Mutant: the sequence number is not compared.                            *)
OursAny(d) == d # Foreign

(* _ping_once: an echo reply with our id and this sequence number, from    *)
(* whatever address.                                                       *)
Ours(d) == d # Foreign /\ d[2] = packet

(* _send_udp_packet takes the first datagram there is: a reply if it comes *)
(* from the target's address, and otherwise no reply at all.               *)
TakeDatagram ==
    /\ kind = "udp" /\ pc = "wait" /\ buffer # <<>>
    /\ End(IF Head(buffer) = Foreign THEN None ELSE Head(buffer))
    /\ buffer' = Tail(buffer)

TakeEchoReply ==
    /\ kind = "icmp" /\ pc = "wait" /\ buffer # <<>>
    /\ Ours(Head(buffer))
    /\ End(Head(buffer))
    /\ buffer' = Tail(buffer)

(* Any other message, and wait again with the timeout from the beginning.  *)
SkipMessage ==
    /\ kind = "icmp" /\ pc = "wait" /\ buffer # <<>>
    /\ ~Ours(Head(buffer))
    /\ buffer' = Tail(buffer)
    /\ UNCHANGED <<kind, test, packet, pc, flying, noisy, credited, copies>>

(* Mutant: recvfrom is awaited without wait_for.                           *)
TimeoutNever == FALSE

(* wait_for times out with nothing to receive.                             *)
Timeout ==
    /\ pc = "wait" /\ buffer = <<>>
    /\ End(None)
    /\ UNCHANGED buffer

(* sock_recvfrom raises.                                                   *)
ReceiveFails == pc = "wait" /\ End(None) /\ UNCHANGED buffer

-----------------------------------------------------------------------------
(* The network.                                                            *)

(* Mutant: the tests of a round share one socket.                          *)
HeardAlways(d) == pc # "closed"

(* Whether the socket receives it: the port of a UDP socket is its own.    *)
Heard(d) ==
    /\ pc # "closed"
    /\ kind = "udp" /\ d # Foreign => d[1] = test

Receive(d) ==
    buffer' = IF Heard(d) THEN Append(buffer, d) ELSE buffer

Arrive(d) ==
    /\ flying[d] > 0 /\ Len(buffer) < MaxBuffer
    /\ flying' = [flying EXCEPT ![d] = @ - 1]
    /\ Receive(d)
    /\ UNCHANGED <<kind, test, packet, pc, noisy, credited, copies>>

ArriveForeign ==
    /\ noisy /\ Len(buffer) < MaxBuffer
    /\ Receive(Foreign)
    /\ UNCHANGED <<kind, test, packet, pc, flying, noisy, credited, copies>>

(* The others fall silent for good.                                        *)
Quieten ==
    /\ noisy /\ noisy' = FALSE
    /\ UNCHANGED <<kind, test, packet, pc, buffer, flying, credited, copies>>

TestStep ==
    \/ Open \/ SendProbe \/ SendFails
    \/ TakeDatagram \/ TakeEchoReply \/ SkipMessage \/ Timeout

Next ==
    \/ TestStep \/ ReceiveFails
    \/ (\E d \in Replies : Arrive(d)) \/ ArriveForeign \/ Quieten

Spec == Init /\ [][Next]_vars

(* The event loop resumes the coroutine; a timer fires when it is left     *)
(* alone.  Nothing is assumed of the network.                              *)
FairSpec == Spec /\ WF_vars(TestStep)

-----------------------------------------------------------------------------
(* The latency reported for a probe is that of its own reply, except       *)
(*   - UDP: after a packet of the same test that was not answered in time, *)
(*     or twice: its reply is taken for that of a later packet, and the    *)
(*     replies of the packets after it may all be one packet late;         *)
(*   - ICMP: when the reply of an earlier test of the round to the same    *)
(*     sequence number was not taken by its own probe, or came twice.      *)
(* A train nothing was late or duplicated in measures what it reports.     *)
OwnReply ==
    \A d \in Replies : credited[d] \notin {d, None} =>
        LET by == credited[d]
        IN  \/ /\ kind = "udp" /\ by[1] = d[1] /\ by[2] < d[2]
               /\ \E i \in 1..(d[2] - 1) :
                     credited[<<d[1], i>>] = None \/ copies[<<d[1], i>>] > 1
            \/ /\ kind = "icmp" /\ by[1] < d[1] /\ by[2] = d[2]
               /\ credited[by] # by \/ copies[by] > 1

(* packets_received is not inflated: a reply counts no more often than the *)
(* network delivered it, and in one ping test once, duplicated or not.     *)
CountedOnce ==
    \A r \in Replies :
        LET takers == {d \in Replies : credited[d] = r}
        IN  /\ Cardinality(takers) <= copies[r]
            /\ kind = "icmp" => \A d, e \in takers : d[1] = e[1] => d = e

(* However many replies are lost, a round comes to its end, for UDP always *)
(* and for ICMP once no other messages keep arriving.                      *)
RoundEnds ==
    (kind = "udp" \/ ~noisy) ~> (pc = "closed" /\ test = Tests)

(* containerClient/README.md:24: "Run with scheduler (every 90 seconds)".  *)
(* run_scheduler makes the next round when this one ends.  A ping that is  *)
(* not answered waits for five seconds without any ICMP message: others    *)
(* that arrive more often keep it, and the schedule, waiting for ever.     *)
ScheduleGoesOn == <>(pc = "closed" /\ test = Tests)
=============================================================================
