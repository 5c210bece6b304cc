----------------------------- MODULE FIFOQueue -----------------------------
(***************************************************************************)
(* The FIFO output queue of an interface (src/OutputQueue.cc, class FIFO)  *)
(* and the link behind it.  The queue never serves a packet by itself: a   *)
(* packet that arrives alone schedules a DeQueuePacket event, whose        *)
(* handler, CBCBNode::dequeue_packet, transmits the head of the queue and  *)
(* schedules the next one.                                                 *)
(***************************************************************************)
EXTENDS Queue

VARIABLES
    list,        \* m_packet_list
    link         \* packets signalled to the neighbour, within m_link_delay

FIFOVars == <<list, length, departures, link>>

Elements(s) == {s[i] : i \in DOMAIN s}

FIFOInit ==
    /\ list = <<>>
    /\ length = 0
    /\ departures = 0
    /\ link = <<>>

-----------------------------------------------------------------------------

Room(p) == length + Size[p] <= QueueSize

(* enqueue: a full queue deletes the packet.                               *)
Drop(p) ==
    /\ p \notin Elements(list) \cup Elements(link)
    /\ ~Room(p)
    /\ UNCHANGED FIFOVars

(* An arrival that finds the queue empty starts the service.               *)
AnyArrivalStarts(p) == TRUE
NoArrivalStarts(p) == length + Size[p] = 0
StartsService(p) == length + Size[p] = Size[p]

PushFront(p) == <<p>> \o list
PushBack(p) == Append(list, p)

Accept(p) ==
    /\ p \notin Elements(list) \cup Elements(link)
    /\ Room(p)
    /\ list' = PushBack(p)
    /\ length' = length + Size[p]
    /\ departures' = departures + (IF StartsService(p) THEN 1 ELSE 0)
    /\ UNCHANGED link

LengthWithout(p) == length - Size[p]

(* A DeQueuePacket event: transmit(), then dequeue() schedules the next    *)
(* departure if the queue is not empty.                                    *)
Transmit ==
    /\ departures > 0
    /\ length' = LengthWithout(Head(list))
    /\ link' = Append(link, Head(list))
    /\ list' = Tail(list)
    /\ departures' = departures - 1 + (IF list' # <<>> THEN 1 ELSE 0)

(* The event signalled to the neighbour fires there; the delay is the same *)
(* for all packets, so they arrive in the order they were sent.            *)
Deliver ==
    /\ link # <<>>
    /\ link' = Tail(link)
    /\ UNCHANGED <<list, length, departures>>

FIFONext ==
    \/ \E p \in Packets : Drop(p) \/ Accept(p)
    \/ Transmit
    \/ Deliver

(* Every event that was signalled fires at its time.                       *)
Fairness == WF_FIFOVars(Transmit) /\ WF_FIFOVars(Deliver)

FIFOSpec == FIFOInit /\ [][FIFONext]_FIFOVars /\ Fairness

-----------------------------------------------------------------------------

FIFOTypeOK ==
    /\ list \in Seq(Packets)
    /\ length \in 0..QueueSize
    /\ departures \in Nat
    /\ link \in Seq(Packets)

(* m_length is the size of what is queued: counting on from the front, it  *)
(* is what lies ahead of an arriving packet.                               *)
Tallies(ahead, s, total) ==
    /\ ahead \in [1..Len(s) + 1 -> 0..total]
    /\ ahead[1] = 0 /\ ahead[Len(s) + 1] = total
    /\ \A i \in 1..Len(s) : ahead[i + 1] = ahead[i] + Size[s[i]]
    /\ \A i, j \in 1..Len(s) + 1 : i <= j => ahead[i] <= ahead[j]

LengthExact ==
    \E ahead \in [1..Len(list) + 1 -> 0..length] : Tallies(ahead, list, length)

(* The transmitter is busy exactly while packets wait, and with one packet *)
(* at a time: with no event the queue would be stuck for ever, with two    *)
(* the link would exceed its rate and a departure find the list empty.     *)
OneDeparture == departures = IF list = <<>> THEN 0 ELSE 1

(* enqueue decides by the length alone whether to drop a packet and to     *)
(* start the service, dequeue by the list whether to go on: length, list   *)
(* and scheduled departures agree in every state.                          *)
ServiceConsistent == LengthExact /\ OneDeparture

(* Seen from the packets, queue and link are one channel of a single flow  *)
(* that keeps their order and loses none of those it accepted.             *)
FIFOChannel == INSTANCE PacketChannel
           WITH Flows <- {"all"}, Flow <- [p \in Packets |-> "all"],
                PushesOut <- FALSE, contents <- [f \in {"all"} |-> link \o list]
ImplementsFIFOChannel == FIFOChannel!Safety

(* However many arrivals come behind or are dropped, an accepted packet is *)
(* transmitted and delivered: the chain of departure events never breaks.  *)
EveryPacketArrives ==
    \A p \in Packets :
        p \in Elements(list) ~> p \notin Elements(list) \cup Elements(link)
=============================================================================
