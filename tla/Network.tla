------------------------------ MODULE Network ------------------------------
(***************************************************************************)
(* The download of a content over several nodes: the handlers of           *)
(* CBCBNode.cc for interests and data, which tie a node's forwarding       *)
(* table, PIT, cache, sockets and output queues together.  Sockets are     *)
(* those of Receiver.  The PIT is the list of its live entries, oldest     *)
(* first (PITable has both indexes and the times), with filtering on; the  *)
(* cache is the set of its chunks (Cache has the replacement policies).    *)
(*                                                                         *)
(* A packet for chunk 0, the INFO of a content, takes only the delay of a  *)
(* link.  All others pass the queue of the interface, which keeps their    *)
(* order and may overflow: a packet that it drops is dropped here when its *)
(* turn would have come.  An interface is named by the node behind it.     *)
(***************************************************************************)
EXTENDS Integers, SequencesExt, FiniteSetsExt, Removal

CONSTANTS
    Node,          \* the nodes, numbers from 1
    Routes,        \* Routes[n]: the interfaces the content's name matches at n
    Consumers,     \* the nodes whose applications download the content
    Times,         \* times of the workload's download_content events
    LastChunk, Ports, InitialWindow, Limit,
    CacheSize,     \* chunks that a cache holds
    MaxDownloads,  \* bound on the downloads
    MaxMishaps     \* bound on the packets that full queues drop and the timers
                   \* that fire while what they wait for may still come

Local == 0      \* interface 0
Chunks == 1..LastChunk
Names == 0..LastChunk

ASSUME NodeAssumption == Node \subseteq Nat \ {0} /\ Consumers \subseteq Node
\* A node that matches its own content serves it and routes it nowhere else.
ASSUME RoutesAssumption ==
    /\ Routes \in [Node -> SUBSET Node]
    /\ \A n \in Node : n \in Routes[n] => Routes[n] = {n} /\ n \notin Consumers
    /\ \A n \in Consumers : Routes[n] # {}
ASSUME BoundsAssumption ==
    {LastChunk, CacheSize, MaxDownloads, MaxMishaps} \subseteq Nat
ASSUME SocketsAssumption ==
    InitialWindow \in Nat \ {0} /\ Limit \in Nat \ {0} /\ Ports \subseteq Nat

VARIABLES
    downloads,  \* downloads started at a node
    opened,     \* sockets opened so far, which tells their start times apart
    closed,     \* history: downloads that were completed at a node
    lost,       \* history: downloads whose INFO was waited for in vain
    pit,        \* m_PIT_table: node -> entries
    cache,      \* m_cache: node -> chunks
    sockets,    \* m_socket_manager: node -> port -> socket
    timers,     \* the ReceiverTO events that are scheduled: node -> events
    links,      \* packets in or behind the queue of an interface
    infos,      \* packets for chunk 0 under way
    mishaps,    \* number of packets dropped and timers fired too early
    credit      \* history: interests from a neighbour less data sent to it

vars == <<downloads, opened, closed, lost, pit, cache, sockets, timers,
          links, infos, mishaps, credit>>

Rcv(f) == INSTANCE Receiver WITH
    Faces <- f, Controllers <- {"FIX"}, controller <- "FIX", InSequence <- TRUE,
    MaxSuppressed <- 0,
    MaxWindow <- InitialWindow, MaxRequests <- Limit,
    pending <- {}, suppressed <- 0, downloads <- opened

Packet(type, k, port, issue) ==
    [type |-> type, chunk |-> k, port |-> port, issue |-> issue]

Entry(f, k, port, issue) == [ifid |-> f, chunk |-> k, port |-> port, issue |-> issue]

Empty == [n \in Node |-> [m \in Node |-> <<>>]]

Init ==
    /\ downloads = [n \in Node |-> 0] /\ opened = 0 /\ closed = [n \in Node |-> 0]
    /\ lost = [n \in Node |-> 0]
    /\ pit = [n \in Node |-> <<>>]
    /\ cache = [n \in Node |-> {}]
    /\ sockets = [n \in Node |-> [p \in {} |-> {}]]
    /\ timers = [n \in Node |-> {}]
    /\ links = Empty /\ infos = Empty
    /\ mishaps = 0
    /\ credit = [n \in Node |-> [m \in Node |-> [k \in Names |-> 0]]]

-----------------------------------------------------------------------------
(* The way of packets: n sends one to m, or out, <<interface, packet>>s.   *)

SendOne(ls, n, m, packet) == [ls EXCEPT ![n][m] = Append(@, packet)]

Send(ls, n, out) ==
    LET packets == [i \in DOMAIN out |-> out[i][2]]
        for(m) == {i \in DOMAIN out : out[i][1] = m}
    IN  [ls EXCEPT ![n] = [m \in Node |-> @[m] \o Kept(packets, for(m))]]

Received(ls, n, m) == [ls EXCEPT ![m][n] = Tail(@)]

Matching(n, k) == {i \in DOMAIN pit[n] : pit[n][i].chunk = k}

-----------------------------------------------------------------------------
(* process_interest of node n, for the interest i from m.  The node that   *)
(* serves the content replies, and so does a cache; otherwise the interest *)
(* is recorded and, unless one for the chunk is pending, sent on.  ls are  *)
(* the links for packets like i, after is what the handler makes of them.  *)

Filtered(n, i) == i.chunk # 0 /\ Matching(n, i.chunk) # {}

Serves(n, i) == n \in Routes[n] \/ (i.chunk # 0 /\ i.chunk \in cache[n])

(* fwd_interest: any interface of the prefix may be drawn, as the counts   *)
(* of pending interests leave no weight at zero.                           *)
Drawn(n) == Routes[n]

Interest(ls, n, m, i, after) ==
    \/ /\ Serves(n, i)
       /\ after = SendOne(ls, n, m, Packet("data", i.chunk, i.port, i.issue))
       /\ UNCHANGED <<pit, credit>>
    \/ /\ ~Serves(n, i)
       /\ pit' = [pit EXCEPT ![n] = Append(@, Entry(m, i.chunk, i.port, i.issue))]
       /\ credit' = [credit EXCEPT ![n][m][i.chunk] = @ + 1]
       /\ \/ (Filtered(n, i) \/ Routes[n] = {}) /\ after = ls
          \/ ~Filtered(n, i) /\ \E f \in Drawn(n) : after = SendOne(ls, n, f, i)

ProcessInterest(n, m) ==
    /\ links[m][n] # <<>> /\ Head(links[m][n]).type = "interest"
    /\ Interest(Received(links, n, m), n, m, Head(links[m][n]), links')
    /\ UNCHANGED <<downloads, opened, closed, lost, cache, sockets, timers, infos, mishaps>>

ProcessInfoInterest(n, m) ==
    /\ infos[m][n] # <<>> /\ Head(infos[m][n]).type = "interest"
    /\ Interest(Received(infos, n, m), n, m, Head(infos[m][n]), infos')
    /\ UNCHANGED <<downloads, opened, closed, lost, cache, sockets, timers, links, mishaps>>

-----------------------------------------------------------------------------
(* A download_content event: the interest for the INFO goes to the first   *)
(* interface that matches, has no timer and is recorded whatever the PIT   *)
(* holds.                                                                  *)

Download(n, t) ==
    /\ FoldFunction(+, 0, downloads) < MaxDownloads
    /\ downloads' = [downloads EXCEPT ![n] = @ + 1]
    /\ pit' = [pit EXCEPT ![n] = Append(@, Entry(Local, 0, 0, t))]
    /\ infos' = SendOne(infos, n, Min(Routes[n]), Packet("interest", 0, 0, t))
    /\ UNCHANGED <<opened, closed, lost, cache, sockets, timers, links, mishaps, credit>>

-----------------------------------------------------------------------------
(* set_outgoing_interests of the socket s at port p of node n: others are  *)
(* the other sockets; table, ls and events are the PIT, the links and the  *)
(* timers as the handler left them.  A chunk that has an entry of the same *)
(* port, whatever its interface, is not asked for.                         *)

\* A mutant: a chunk is asked for although its entry is still there.
NeverPendingAt(table, k, p) == FALSE

PendingAt(table, k, p) == \E i \in DOMAIN table : table[i].chunk = k /\ table[i].port = p

SendMore(n, p, s, others, table, ls, events) ==
    \E a \in Rcv(Routes[n])!Allotments(s) :
    \E known \in {{k \in Rcv(Routes[n])!Allotted(a) : PendingAt(table, k, p)}} :
        LET asked == Rcv(Routes[n])!Allotted(a) \ known
            face(k) == CHOOSE f \in Routes[n] : k \in a[f]
        IN  /\ sockets' = [sockets EXCEPT ![n] = [q \in others \cup {p} |->
                  IF q = p THEN Rcv(Routes[n])!Requested(s, a, known) ELSE sockets[n][q]]]
            /\ timers' = [timers EXCEPT ![n] = events \cup Rcv(Routes[n])!NewTimers(p, s, a)]
            /\ pit' = [pit EXCEPT ![n] =
                  table \o Kept([k \in Chunks |-> Entry(Local, k, p, 0)], asked)]
            /\ links' = Send(ls, n, Kept([k \in Chunks |->
                  <<face(k), Packet("interest", k, p, 0)>>], asked))

-----------------------------------------------------------------------------
(* process_data of node n, for d from m.  process_out walks the entries of *)
(* other interfaces: an INFO answers the one that its interest left; other *)
(* data answers all neighbours, up to the first local socket of its port.  *)

Answers(e, d) ==
    IF d.chunk = 0 THEN e.issue = d.issue /\ e.port = d.port
    ELSE e.ifid # Local \/ e.port = d.port
\* A mutant: an INFO is given to every download that waits for it.
EndsForChunk(e, d) == d.chunk # 0 /\ e.ifid = Local

Ends(e, d) == d.chunk = 0 \/ e.ifid = Local

Answered(n, m, d) ==
    LET walk == {i \in DOMAIN pit[n] : /\ pit[n][i].chunk = d.chunk /\ pit[n][i].ifid # m
                                       /\ Answers(pit[n][i], d)}
    IN  {i \in walk : \A j \in walk : j < i => ~Ends(pit[n][j], d)}

\* The entries that stay, and those consumed, in their order.
Selected(n, is) == Kept(pit[n], is)
ForLocal(n, gone) == {i \in gone : pit[n][i].ifid = Local}
\* A mutant: entries of neighbours outlive the data that they let through.
LeftWithNeighbours(n, gone) == Selected(n, DOMAIN pit[n] \ ForLocal(n, gone))
Left(n, gone) == Selected(n, DOMAIN pit[n] \ gone)

(* What goes to a neighbour carries the port of its interest.              *)
Onward(n, gone, d) ==
    Kept([i \in DOMAIN pit[n] |->
             <<pit[n][i].ifid, Packet("data", d.chunk, pit[n][i].port, d.issue)>>],
         gone \ ForLocal(n, gone))

Charged(n, gone, d) ==
    [credit EXCEPT ![n] = [m \in Node |-> [credit[n][m] EXCEPT ![d.chunk] =
        @ - Cardinality({i \in gone : pit[n][i].ifid = m})]]]

(* It is cached too; any other chunk may have to leave a full cache.       *)
Cached(n, k) ==
    IF k \in cache[n] \/ CacheSize = 0 THEN {cache[n]}
    ELSE IF Cardinality(cache[n]) < CacheSize THEN {cache[n] \cup {k}}
    ELSE {(cache[n] \ {v}) \cup {k} : v \in cache[n]}

Open(n) == DOMAIN sockets[n]

ProcessData(n, m) ==
    /\ links[m][n] # <<>> /\ Head(links[m][n]).type = "data"
    /\ LET d     == Head(links[m][n])
           gone  == Answered(n, m, d)
           mine  == ForLocal(n, gone) # {} /\ d.port \in Open(n)
           table == Left(n, gone)
           ls    == Send(Received(links, n, m), n, Onward(n, gone, d))
       IN  /\ credit' = Charged(n, gone, d)
           /\ \E c \in IF gone = ForLocal(n, gone) THEN {cache[n]} ELSE Cached(n, d.chunk) :
                 cache' = [cache EXCEPT ![n] = c]
           /\ IF ~mine
              THEN /\ pit' = [pit EXCEPT ![n] = table] /\ links' = ls
                   /\ UNCHANGED <<sockets, timers, closed>>
              ELSE \E s \in Rcv(Routes[n])!WithChunk(sockets[n][d.port], m, d.chunk) :
                      IF Rcv(Routes[n])!Completed(s)
                      THEN /\ sockets' = [sockets EXCEPT ![n] =
                                 [q \in Open(n) \ {d.port} |-> sockets[n][q]]]
                           /\ closed' = [closed EXCEPT ![n] = @ + 1]
                           /\ pit' = [pit EXCEPT ![n] = table] /\ links' = ls
                           /\ UNCHANGED timers
                      ELSE /\ SendMore(n, d.port, s, Open(n), table, ls, timers[n])
                           /\ UNCHANGED closed
    /\ UNCHANGED <<downloads, opened, lost, infos, mishaps>>

\* A mutant: the lowest port, taken or not.
LowestPort(n, p) == p = Min(Ports)

LowestFree(n, p) == p \notin Open(n) /\ \A q \in Ports : q < p => q \in Open(n)

(* An INFO for an application opens a socket, which starts to ask.         *)
ProcessInfo(n, m) ==
    /\ infos[m][n] # <<>> /\ Head(infos[m][n]).type = "data"
    /\ LET d     == Head(infos[m][n])
           gone  == Answered(n, m, d)
           table == Left(n, gone)
       IN  /\ infos' = Send(Received(infos, n, m), n, Onward(n, gone, d))
           /\ credit' = Charged(n, gone, d)
           /\ IF ForLocal(n, gone) = {}
              THEN /\ pit' = [pit EXCEPT ![n] = table]
                   /\ UNCHANGED <<opened, sockets, timers, links>>
              ELSE \E p \in Ports :
                      /\ LowestFree(n, p)
                      /\ opened' = opened + 1
                      /\ SendMore(n, p, Rcv(Routes[n])!NewSocket(opened'), Open(n),
                                  table, links, timers[n])
    /\ UNCHANGED <<downloads, closed, lost, cache, mishaps>>

-----------------------------------------------------------------------------
(* Time passes.  A timer that fires while something of its chunk is under  *)
(* way, or still recorded where it would have to be sent on, is early.     *)

Quiet(k) ==
    \A n, m \in Node : \A ls \in {links, infos} :
        \A i \in DOMAIN ls[n][m] : ls[n][m][i].chunk # k

Early(early) ==
    /\ early => mishaps < MaxMishaps
    /\ mishaps' = IF early THEN mishaps + 1 ELSE mishaps

(* An entry of the PIT reaches its expiry time.                            *)
Expire(n, i) ==
    /\ Early(~Quiet(pit[n][i].chunk))
    /\ pit' = [pit EXCEPT ![n] = Selected(n, DOMAIN pit[n] \ {i})]
    /\ lost' = IF pit[n][i].ifid = Local /\ pit[n][i].chunk = 0
               THEN [lost EXCEPT ![n] = @ + 1] ELSE lost
    /\ UNCHANGED <<downloads, opened, closed, cache, sockets, timers, links, infos, credit>>

(* The timer of a request fires: receiver_TO.                              *)
Fire(n, t) ==
    /\ Early(~Quiet(t.chunk) \/ \E m \in Node : Matching(m, t.chunk) # {})
    /\ LET events == timers[n] \ {t}
       IN  IF t.port \notin Open(n)
           THEN timers' = [timers EXCEPT ![n] = events] /\ UNCHANGED <<sockets, pit, links>>
           ELSE \E s \in IF Rcv(Routes[n])!IsTimeout(sockets[n][t.port], t)
                         THEN Rcv(Routes[n])!TimedOut(sockets[n][t.port], t)
                         ELSE {sockets[n][t.port]} :
                   IF s.aborted
                   THEN /\ sockets' = [sockets EXCEPT ![n][t.port] = s]
                        /\ timers' = [timers EXCEPT ![n] = events]
                        /\ UNCHANGED <<pit, links>>
                   ELSE SendMore(n, t.port, s, Open(n), pit[n], links, events)
    /\ UNCHANGED <<downloads, opened, closed, lost, cache, infos, credit>>

(* A queue that was full dropped a packet.                                 *)
Lose(n, m) ==
    /\ links[m][n] # <<>> /\ mishaps < MaxMishaps
    /\ links' = Received(links, n, m)
    /\ mishaps' = mishaps + 1
    /\ UNCHANGED <<downloads, opened, closed, lost, pit, cache, sockets, timers, infos, credit>>

Deliver(n, m) ==
    \/ ProcessInterest(n, m) \/ ProcessInfoInterest(n, m)
    \/ ProcessData(n, m) \/ ProcessInfo(n, m)

Timeout(n) == (\E i \in DOMAIN pit[n] : Expire(n, i)) \/ (\E t \in timers[n] : Fire(n, t))

Next ==
    \/ \E n \in Consumers, t \in Times : Download(n, t)
    \/ \E n, m \in Node : Deliver(n, m) \/ Lose(n, m)
    \/ \E n \in Node : Timeout(n)

(* Packets that are not dropped arrive, and all timers fire.               *)
Fairness ==
    /\ \A n, m \in Node : WF_vars(Deliver(n, m))
    /\ \A n \in Node : WF_vars(Timeout(n))

Spec == Init /\ [][Next]_vars /\ Fairness

-----------------------------------------------------------------------------
TypeOK ==
    /\ mishaps \in 0..MaxMishaps
    /\ downloads \in [Node -> Nat] /\ opened \in Nat /\ {closed, lost} \subseteq [Node -> Nat]
    /\ \A n \in Node :
          /\ \A i \in DOMAIN pit[n] : pit[n][i].ifid \in {Local} \cup (Node \ {n})
          /\ cache[n] \subseteq Chunks /\ Cardinality(cache[n]) <= CacheSize
          /\ \A p \in Open(n) : sockets[n][p] \in Rcv(Routes[n])!Socket

(* Flow balance: a node never gets more data of a name than it asked for,  *)
(* although entries expire, interests are filtered and one data answers    *)
(* several.                                                                *)
FlowBalance == \A n, m \in Node, k \in Names : credit[n][m][k] >= 0

(* No chunk reaches a socket twice that has not given up (m_aborted): what *)
(* it has, it has no request for.  After it has, a chunk that is noted for *)
(* another request is not taken back when its data comes over another      *)
(* interface, and the next data for the socket has it asked for again.     *)
NoChunkTwice ==
    \A n \in Node : \A i \in DOMAIN pit[n] : LET e == pit[n][i] IN
        e.ifid = Local /\ e.chunk # 0 /\ e.port \in Open(n)
          /\ ~sockets[n][e.port].aborted =>
            e.chunk \notin sockets[n][e.port].received

(* Every download is accounted for: it waits for its INFO, has waited for  *)
(* it in vain, has a socket of its own, or is complete.                    *)
DownloadsAccounted ==
    \A n \in Node :
        downloads[n] = lost[n] + closed[n] + Cardinality(Open(n))
          + Cardinality({i \in DOMAIN pit[n] : pit[n][i].ifid = Local /\ pit[n][i].chunk = 0})

(* With a limit of two requests more than there are mishaps every download *)
(* completes whose INFO was not waited for in vain, although each one may  *)
(* find its interests filtered, or its data taken, by those of the others. *)
DownloadsComplete ==
    []<>(\A n \in Node : downloads[n] = lost[n] + closed[n])
=============================================================================
