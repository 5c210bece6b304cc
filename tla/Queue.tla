------------------------------- MODULE Queue -------------------------------
(***************************************************************************)
(* What the output queues of an interface share (OutputQueue.h, class      *)
(* Queue): the packets, the size of the queue, its length in bits, and the *)
(* departure events that its node has scheduled for it.                    *)
(***************************************************************************)
EXTENDS Integers, Sequences

CONSTANTS
    Packets,    \* the packet objects that meet the queue
    Size,       \* Size[p]: pkt->size()
    QueueSize   \* m_size

(* Packets of size 0 (INFO packets) are sent past the queue.               *)
ASSUME SizeAssumption == Size \in [Packets -> Nat \ {0}]
ASSUME QueueSizeAssumption == QueueSize \in Nat

VARIABLES
    length,      \* m_length
    departures   \* the DeQueuePacket events of this queue that are scheduled
=============================================================================
