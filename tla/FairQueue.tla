----------------------------- MODULE FairQueue -----------------------------
(***************************************************************************)
(* The DRR output queue of an interface (src/OutputQueue.cc, class FQ): a  *)
(* virtual queue per flow, a flow being a content name and a port, visited *)
(* in the iteration order of the hash table that holds them.  A visit adds *)
(* a quantum to the flow's deficit counter, which pays for its packets.    *)
(* FIFOQueue models the link behind the queue, which is the same here.     *)
(***************************************************************************)
EXTENDS Queue, SequencesExt, FiniteSetsExt

CONSTANTS
    Flows,
    Flow,       \* Flow[p]: content name and port of p
    Quantum,    \* m_quantum
    Bucket,     \* Bucket[f]: where the hash table puts f
    NoFlow,     \* m_virtual_queues.end()
    MaxStale    \* bound: overflows are explored up to this length of a flow

\* Those of one run of the simulation.
ASSUME PacketsAssumption == IsFiniteSet(Packets)
ASSUME FlowAssumption == Flow \in [Packets -> Flows] /\ NoFlow \notin Flows
ASSUME QuantumAssumption == Quantum \in Nat \ {0}
ASSUME BucketAssumption == Bucket \in [Flows -> Nat]

VARIABLES
    round,       \* the flows of m_virtual_queues in iteration order
    queues,      \* m_virtual_queues: flow -> [list, length, deficit]
    actual,      \* m_actual_queue
    crashed,     \* an operation had no defined outcome, or does not return
    lead,        \* history: bits charged to a flow more than to another one
                 \* since both have been present
    overflowed   \* history: drop() has been called

vars == <<round, queues, actual, length, departures, crashed, lead, overflowed>>

NoQueues == [f \in {} |-> {}]

QueuedIn(q) == UNION {ToSet(q[f].list) : f \in DOMAIN q}

\* Packets are objects: none is in a list twice.
SizesOf(S) == MapThenSumSet(LAMBDA p : Size[p], S)
SizeOf(s) == SizesOf(ToSet(s))

Init ==
    /\ round = <<>>
    /\ queues = NoQueues
    /\ actual = NoFlow
    /\ length = 0
    /\ departures = 0
    /\ crashed = FALSE
    /\ lead = [f \in Flows |-> [g \in Flows |-> 0]]
    /\ overflowed = FALSE

-----------------------------------------------------------------------------
(* dequeue() of a round rd of queues q with the iterator at flow at.       *)

(* Its deficit counter pays for the first packet of the virtual queue v.   *)
Ready(v) == v.list # <<>> /\ Size[Head(v.list)] <= v.deficit

(* head() reads the front of an empty list.                                *)
Broken(v) == v.list = <<>> /\ v.length # 0

Place(rd, f) == CHOOSE i \in DOMAIN rd : rd[i] = f

(* The flows in the order of the visits to come: the one left comes last,  *)
(* unless its length is 0, when next_queue erases it.                      *)
FromBegin(rd, q, at) ==
    IF q[at].length = 0 THEN RemoveAt(rd, Place(rd, at)) ELSE rd
Order(rd, q, at) ==
    LET i == Place(rd, at)
        n == Len(rd)
    IN  [j \in 1..(IF q[at].length = 0 THEN n - 1 ELSE n) |->
            rd[IF i + j <= n THEN i + j ELSE i + j - n]]

Remaining(rd, q, at) ==
    IF q[at].length = 0 THEN RemoveAt(rd, Place(rd, at)) ELSE rd

(* The recursion of dequeue visits one flow after the other, in rounds. It *)
(* ends with the first flow that a visit makes ready, or with a crash.     *)
VisitsNeeded(v) ==
    IF Broken(v) THEN 1
    ELSE Min({k \in 1..Size[Head(v.list)] : Size[Head(v.list)] <= v.deficit + Quantum * k})
LastRound(q, order) == Min({VisitsNeeded(q[order[i]]) : i \in DOMAIN order})
LastPlace(q, order) ==
    Min({i \in DOMAIN order : VisitsNeeded(q[order[i]]) = LastRound(q, order)})

(* Each visit pays a quantum.                                              *)
CreditAll(q, order) ==
    [f \in ToSet(order) |-> [q[f] EXCEPT !.deficit = @ + Quantum * LastRound(q, order)]]
Credit(q, order) ==
    LET visits(f) == IF Place(order, f) <= LastPlace(q, order)
                     THEN LastRound(q, order) ELSE LastRound(q, order) - 1
    IN  [f \in ToSet(order) |-> [q[f] EXCEPT !.deficit = @ + Quantum * visits(f)]]

Idle == [round |-> <<>>, queues |-> NoQueues, actual |-> NoFlow]

ChargeAll(q, f) == [q EXCEPT ![f].deficit = 0]
Charge(q, f) == [q EXCEPT ![f].deficit = @ - Size[Head(q[f].list)]]

(* The departure of the first packet of f is charged and scheduled.        *)
Serving(rd, q, f) == [round |-> rd, queues |-> Charge(q, f), actual |-> f]

(* With order = Order(rd, q, at).                                          *)
Dequeue(rd, q, at, order) ==
    IF Ready(q[at]) THEN Serving(rd, q, at)
    ELSE IF order = <<>> THEN Idle
    ELSE Serving(Remaining(rd, q, at), Credit(q, order), order[LastPlace(q, order)])

DequeueBreaks(q, at, order) ==
    \/ Broken(q[at])
    \/ ~Ready(q[at]) /\ order # <<>> /\ Broken(q[order[LastPlace(q, order)]])

Events(after) == IF after.actual = NoFlow THEN 0 ELSE 1

(* The history after a dequeue that led to the tables after; it saturates  *)
(* at the share that no flow should reach.                                 *)
LargestSize == Max({Size[p] : p \in Packets})
ShareBound == Quantum + 2 * LargestSize
Saturated(n) == Max({-ShareBound, Min({n, ShareBound})})

LeadAfter(after) ==
    LET charged(f) == IF f = after.actual
                      THEN Size[Head(after.queues[f].list)] ELSE 0
    IN  [f \in Flows |-> [g \in Flows |->
            IF {f, g} \subseteq DOMAIN after.queues
            THEN Saturated(lead[f][g] + charged(f) - charged(g)) ELSE 0]]

Crash ==
    /\ crashed' = TRUE
    /\ UNCHANGED <<round, queues, actual, length, departures, lead>>

-----------------------------------------------------------------------------
(* enqueue: the packet is pushed in any case.                              *)

(* The table is iterated bucket by bucket; where in its bucket a new flow  *)
(* comes is up to the library.                                             *)
Rounds(f) ==
    IF f \in DOMAIN queues THEN {round}
    ELSE {rd \in {InsertAt(round, i, f) : i \in 1..Len(round) + 1} :
             \A i \in 1..Len(round) : Bucket[rd[i]] <= Bucket[rd[i + 1]]}

NewQueue == [list |-> <<>>, length |-> 0, deficit |-> 0]

QueueOf(f) == IF f \in DOMAIN queues THEN queues[f] ELSE NewQueue

PushInFront(v, p) ==
    [v EXCEPT !.list = <<p>> \o @, !.length = @ + Size[p]]
PushOnly(v, p) == [v EXCEPT !.list = Append(@, p)]
Push(v, p) == [v EXCEPT !.list = Append(@, p), !.length = @ + Size[p]]

Pushed(p) ==
    [f \in DOMAIN queues \cup {Flow[p]} |->
        IF f = Flow[p] THEN Push(QueueOf(f), p) ELSE queues[f]]

(* A packet that is alone starts the service with the first flow.          *)
StartsNever(p) == FALSE
Starts(p) == length + Size[p] = Size[p]

Started(rd, p) == [Pushed(p) EXCEPT ![rd[1]].deficit = @ + Quantum]

Ahead(rd, p) == Order(rd, Started(rd, p), rd[1])

StartBreaks(p, rd) ==
    Starts(p) /\ DequeueBreaks(Started(rd, p), rd[1], Ahead(rd, p))

(* The tables before the check for an overflow.                            *)
Arrival(p, rd) ==
    IF Starts(p) THEN Dequeue(rd, Started(rd, p), rd[1], Ahead(rd, p))
    ELSE [round |-> rd, queues |-> Pushed(p), actual |-> actual]

Arrives(p, rd, after) ==
    /\ round' = after.round
    /\ actual' = after.actual
    /\ departures' = departures + (IF Starts(p) THEN Events(after) ELSE 0)
    /\ lead' = IF Starts(p) THEN LeadAfter(after) ELSE lead

(* The packet fits.                                                        *)
Enqueue(p) ==
    /\ ~crashed /\ p \notin QueuedIn(queues)
    /\ length + Size[p] <= QueueSize
    /\ \E rd \in Rounds(Flow[p]) :
          \/ StartBreaks(p, rd) /\ Crash
          \/ /\ ~StartBreaks(p, rd)
             /\ Arrives(p, rd, Arrival(p, rd))
             /\ queues' = Arrival(p, rd).queues
             /\ length' = length + Size[p]
             /\ UNCHANGED crashed
    /\ UNCHANGED overflowed

-----------------------------------------------------------------------------
(* drop, called until the queue fits.  Its search starts by reading the    *)
(* length of the queue behind max_flow, an iterator without a value: that  *)
(* crashes; or it finds 0, chooses no queue and the loop never ends; or it *)
(* finds more than 0, takes the first queue and keeps it, for each of the  *)
(* others is compared with itself.  VirtualQueue::drop takes the last      *)
(* packet and leaves the length of the virtual queue as it was.            *)

LastDropped(v, n) == SubSeq(v.list, Len(v.list) - n + 1, Len(v.list))

(* Dropping n packets of the first queue makes the rest fit, and no less.  *)
Enough(v, n, total) ==
    /\ total - SizeOf(LastDropped(v, n)) <= QueueSize
    /\ total - SizeOf(LastDropped(v, n - 1)) > QueueSize

Dropped(v, n) == [v EXCEPT !.list = SubSeq(@, 1, Len(@) - n)]

TotalAfter(v, n, total) == total - SizeOf(LastDropped(v, n))

EnqueueFull(p) ==
    /\ ~crashed /\ p \notin QueuedIn(queues)
    /\ length + Size[p] > QueueSize
    /\ \A f \in DOMAIN queues : queues[f].length <= MaxStale
    /\ overflowed' = TRUE
    /\ \/ Crash
       \/ \E rd \in Rounds(Flow[p]) :
             /\ ~StartBreaks(p, rd)
             /\ Arrives(p, rd, Arrival(p, rd))
             /\ LET q == Arrival(p, rd).queues
                    v == q[round'[1]]
                IN  \E n \in 1..Len(v.list) :
                      /\ Enough(v, n, length + Size[p])
                      /\ queues' = [q EXCEPT ![round'[1]] = Dropped(v, n)]
                      /\ length' = TotalAfter(v, n, length + Size[p])
             /\ UNCHANGED crashed

-----------------------------------------------------------------------------
(* A DeQueuePacket event: transmit() sends the head of the actual queue,   *)
(* then dequeue() looks for the next one.                                  *)

Transmitted(v) ==
    [v EXCEPT !.list = Tail(@), !.length = @ - Size[Head(v.list)]]

Depart ==
    /\ ~crashed /\ departures > 0
    /\ IF actual = NoFlow \/ queues[actual].list = <<>> THEN Crash
       ELSE \E q \in {[queues EXCEPT ![actual] = Transmitted(@)]} :
            \E order \in {Order(round, q, actual)} :
                \/ DequeueBreaks(q, actual, order) /\ Crash
                \/ /\ ~DequeueBreaks(q, actual, order)
                   /\ \E after \in {Dequeue(round, q, actual, order)} :
                         /\ round' = after.round
                         /\ queues' = after.queues
                         /\ actual' = after.actual
                         /\ departures' = departures - 1 + Events(after)
                         /\ lead' = LeadAfter(after)
                   /\ length' = length - Size[Head(queues[actual].list)]
                   /\ UNCHANGED crashed
    /\ UNCHANGED overflowed

Next ==
    \/ \E p \in Packets : Enqueue(p) \/ EnqueueFull(p)
    \/ Depart

(* Every event that was scheduled fires at its time.                       *)
Spec == Init /\ [][Next]_vars /\ WF_vars(Depart)

-----------------------------------------------------------------------------

Present == ToSet(round)

TypeOK ==
    /\ IsInjective(round)
    /\ DOMAIN queues = Present /\ Present \subseteq Flows
    /\ \A f \in Present :
          /\ queues[f].list \in Seq(Packets)
          /\ {queues[f].length, queues[f].deficit} \subseteq Nat
    /\ actual \in Flows \cup {NoFlow}
    /\ length \in 0..QueueSize
    /\ departures \in Nat
    /\ crashed \in BOOLEAN

(* Until it overflows no call of the queue ends in an undefined read, of   *)
(* an empty list, of the end of the table or of a flow already erased.     *)
NeverCrashes == crashed => overflowed

(* The length of the whole queue is the size of what is queued, also after *)
(* overflows.  Until then one departure is scheduled exactly while packets *)
(* wait, and the one who is served is the actual queue; a flow is in the   *)
(* table exactly while it has packets, and its own length is theirs.       *)
Consistent ==
    /\ ~crashed => length = SizesOf(QueuedIn(queues))
    /\ ~overflowed =>
          /\ departures = IF length = 0 THEN 0 ELSE 1
          /\ IF length = 0 THEN round = <<>> ELSE actual \in Present
          /\ \A f \in Present : /\ queues[f].list # <<>>
                                /\ queues[f].length = SizeOf(queues[f].list)

(* Deficit round robin: a flow that waits for its turn has been given all  *)
(* the service that its deficit counter could pay for.                     *)
CreditSpent ==
    ~overflowed =>
        \A f \in Present \ {actual} : queues[f].deficit < Size[Head(queues[f].list)]

(* The fairness of DRR: while two flows both have packets, neither gets    *)
(* more than a quantum and two packets of the largest size ahead.          *)
FairShare == ~overflowed => \A f, g \in Present : lead[f][g] < ShareBound

(* No flow starves, however the others' packets keep arriving: unless the  *)
(* queue overflows, each packet is transmitted at some time.               *)
EveryPacketLeaves ==
    \A p \in Packets : p \in QueuedIn(queues) ~> p \notin QueuedIn(queues) \/ overflowed

(* To each flow the queue is a channel that keeps the order of its packets *)
(* and loses none until it overflows; after that it loses packets from the *)
(* tail of one flow at a time.                                             *)
Lists == [f \in Flows |-> QueueOf(f).list]
Channel == INSTANCE PacketChannel WITH PushesOut <- FALSE, contents <- Lists
LossyChannel == INSTANCE PacketChannel WITH PushesOut <- TRUE, contents <- Lists
ImplementsChannel ==
    LossyChannel!Safety /\ [][overflowed' \/ Channel!Next]_Lists

(* OutputQueue.h:265, of drop: "drop a packet from the longest queue".  A  *)
(* flow that has lost the last packet it had, or the one that arrives, had *)
(* no less queued than any other.                                          *)
DropsFromLongest ==
    [][\A p \in Packets : EnqueueFull(p) /\ ~crashed' =>
          \E rd \in Rounds(Flow[p]) :
             LET q == Pushed(p)
                 size(f) == SizeOf(q[f].list)
             IN  \A f \in DOMAIN q : queues'[f].list # q[f].list =>
                    \A g \in DOMAIN q : size(g) <= size(f)]_vars
=============================================================================
