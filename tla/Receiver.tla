------------------------------ MODULE Receiver ------------------------------
(***************************************************************************)
(* The downloads of one content at a node: the sockets (src/Socket.cc,     *)
(* src/SocketManager.cc), their interest windows, one per interface        *)
(* (src/FlowControllerAIMD.cc, src/ICP.cc), the retransmission timers, and *)
(* the handlers of CCNxNode.cc that tie them to the PIT.  Of the PIT only  *)
(* the entries of the local sockets are kept; PITable models the rest.     *)
(* Data, timers and the expiry of PIT entries come in any order.           *)
(***************************************************************************)
EXTENDS Integers, FiniteSets

CONSTANTS
    Faces,          \* numbers of the interfaces that lead to the content
    LastChunk,      \* m_tot_filesize: chunks 1..LastChunk, INFO is chunk 0
    Ports,          \* 0..n, the ports of the sockets
    InitialWindow,  \* m_options.rbfcp_win
    Controllers,    \* window controllers that the options may choose
    InSequence,     \* request_order = INSEQUENCE, else RANDOM
    Limit,          \* m_options.to_limit
    MaxSuppressed,  \* bound on the requests that neighbours' requests of the
                    \* same port, still pending in the PIT, suppress
    MaxDownloads,   \* bound on the downloads started
    MaxWindow,      \* bound on the interest windows
    MaxRequests     \* bound on the requests for a chunk

Chunks == 1..LastChunk

ASSUME FacesAssumption == Faces \subseteq Nat \ {0} /\ IsFiniteSet(Faces)
ASSUME ChunksAssumption == LastChunk \in Nat \ {0}
ASSUME PortsAssumption == Ports \subseteq Nat /\ \A p \in Ports : 0..p \subseteq Ports
ASSUME WindowAssumption == InitialWindow \in 1..MaxWindow /\ MaxWindow \in Nat
ASSUME LimitAssumption == Limit \in Nat \ {0} /\ {MaxRequests, MaxSuppressed, MaxDownloads} \subseteq Nat
ASSUME ControllersAssumption == Controllers \subseteq {"FIX", "ICP", "RAQM", "CBR"}
ASSUME FlagsAssumption == InSequence \in BOOLEAN

VARIABLES
    controller, \* m_options: the window controller of this simulation
    sockets,   \* m_socket_manager: port -> socket
    pending,   \* live PIT entries of local sockets, <<chunk, port>>
    timers,    \* the ReceiverTO events that are scheduled, and as timers of
               \* chunk 0 the ReceiverCBR events
    downloads, \* number of downloads so far, which gives m_start_time
    suppressed \* number of requests that neighbours' requests suppressed

vars == <<controller, sockets, pending, timers, downloads, suppressed>>

Open == DOMAIN sockets

Socket == [start : Nat,                         \* m_start_time
           received : SUBSET Chunks,            \* chunk_info::received
           notreq : SUBSET Chunks,              \* m_notreq_chunks
           requests : [Chunks -> Nat],          \* chunk_info::chunk_request
           aborted : BOOLEAN,                   \* m_aborted
           win : [Faces -> SUBSET Chunks],      \* m_interest_win
           reissue : [Faces -> SUBSET Chunks],  \* m_reissuing_chunks
           size : [Faces -> Nat \ {0}],         \* m_interest_win_size
           filled : [Faces -> Nat]]             \* m_win_received

Timer(f, p, k, start) == [ifid |-> f, port |-> p, chunk |-> k, start |-> start]

Init ==
    /\ controller \in Controllers
    /\ sockets = [p \in {} |-> {}]
    /\ pending = {}
    /\ timers = {}
    /\ downloads = 0
    /\ suppressed = 0

-----------------------------------------------------------------------------
(* get_interested_chunk: the chunks that each window controller takes.     *)

(* select_chunk discards what was received or requested too often.         *)
Fresh(s) == {k \in s.notreq : k \notin s.received /\ s.requests[k] < Limit}

FreeSlots(s, f) == s.size[f] - Cardinality(s.win[f])

(* The controllers are served in the order of their interfaces.            *)
TakenUpTo(a, f) == UNION {a[g] : g \in {h \in Faces : h <= f}}

(* A controller takes as many chunks as it has free slots, first those     *)
(* that timed out, in their order, then fresh ones.                        *)
Takes(s, a, f) ==
    LET late  == a[f] \cap s.reissue[f]
        fresh == a[f] \ s.reissue[f]
        taken == TakenUpTo(a, f)
    IN  /\ a[f] \subseteq s.reissue[f] \cup Fresh(s)
        /\ \A g \in Faces \ {f} : fresh \cap a[g] = {}
        /\ \A k \in late, j \in s.reissue[f] : j < k => j \in late
        /\ fresh # {} => late = s.reissue[f]
        /\ InSequence => \A k \in fresh, j \in Fresh(s) : j < k => j \in taken
        /\ \/ Cardinality(a[f]) = FreeSlots(s, f)
           \/ a[f] = {} /\ FreeSlots(s, f) <= 0
           \/ /\ Cardinality(a[f]) < FreeSlots(s, f)
              /\ late = s.reissue[f]
              /\ Fresh(s) \subseteq taken

Allotments(s) == {a \in [Faces -> SUBSET Chunks] : \A f \in Faces : Takes(s, a, f)}

Allotted(a) == UNION {a[f] : f \in Faces}

(* set_outgoing_interests of the socket s at port p, with all the chunks a *)
(* of its controllers: record_interest suppresses a request whose port is  *)
(* already in the PIT; the others are sent and counted.  A timer runs for  *)
(* either; a window at constant rate (CBR) keeps no chunks and no timers.  *)
Own(p, a, pit) == {k \in Allotted(a) : <<k, p>> \in pit}
Suppressions(p, a, pit) ==
    {S \in SUBSET Allotted(a) :
        /\ Own(p, a, pit) \subseteq S
        /\ suppressed + Cardinality(S \ Own(p, a, pit)) <= MaxSuppressed}

WindowKeeps(s, a) == s.reissue
PopTimedOut(s, a) == [f \in Faces |-> s.reissue[f] \ a[f]]

Requested(s, a, S) ==
    [s EXCEPT !.notreq = Fresh(s) \ Allotted(a),
              !.reissue = PopTimedOut(s, a),
              !.win = [f \in Faces |-> IF controller = "CBR" THEN {} ELSE s.win[f] \cup a[f]],
              !.requests = [k \in Chunks |->
                  IF k \in Allotted(a) \ S THEN s.requests[k] + 1 ELSE s.requests[k]]]

NewTimers(p, s, a) ==
    IF controller = "CBR" THEN {} ELSE
    UNION {{Timer(f, p, k, s.start) : k \in a[f]} : f \in Faces}

(* The end of a handler that asks for more: others are the other sockets,  *)
(* pit and events what the handler left so far.                            *)
SendMore(others, p, s, pit, events) ==
    \E a \in Allotments(s) : \E S \in Suppressions(p, a, pit) :
        /\ \A k \in Allotted(a) : s.requests[k] < MaxRequests
        /\ sockets' = [q \in DOMAIN others \cup {p} |->
              IF q = p THEN Requested(s, a, S) ELSE others[q]]
        /\ pending' = pit \cup {<<k, p>> : k \in Allotted(a) \ S}
        /\ suppressed' = suppressed + Cardinality(S \ Own(p, a, pit))
        /\ timers' = events \cup NewTimers(p, s, a)

-----------------------------------------------------------------------------
(* An INFO packet for the local node opens a socket at the lowest port     *)
(* that is free, which then asks for its first window.                     *)

LowestFree(p) == p \notin Open /\ \A q \in Ports : q < p => q \in Open

NewSocket(start) ==
    [start |-> start, received |-> {}, notreq |-> Chunks,
     requests |-> [k \in Chunks |-> 0], aborted |-> FALSE,
     win |-> [f \in Faces |-> {}], reissue |-> [f \in Faces |-> {}],
     size |-> [f \in Faces |-> InitialWindow], filled |-> [f \in Faces |-> 0]]

(* A window at constant rate schedules the time of its next turn.          *)
Polls(p, start) ==
    {Timer(f, p, 0, start) : f \in IF controller = "CBR" THEN Faces ELSE {}}

OpenSocket(p) ==
    /\ downloads < MaxDownloads
    /\ LowestFree(p)
    /\ downloads' = downloads + 1
    /\ SendMore(sockets, p, NewSocket(downloads'), pending,
                timers \cup Polls(p, downloads'))
    /\ UNCHANGED controller

-----------------------------------------------------------------------------
(* Data for the port of a socket, from interface f.                        *)

(* increase_win of ICP: after a whole window one slot more.                *)
IcpGrown(s, f) ==
    IF s.filled[f] + 1 = s.size[f]
    THEN [s EXCEPT !.size[f] = @ + 1, !.filled[f] = 0]
    ELSE [s EXCEPT !.filled[f] = @ + 1]

(* increase_win of RAQM adds to a number, of which the window is the       *)
(* integral part, its inverse: one slot always becomes two.                *)
RaqmGrown(s, f) ==
    {[s EXCEPT !.size[f] = w] : w \in {s.size[f], s.size[f] + 1} \ {1}}

(* decrease_win of RAQM: a part of that number, unless that is at most 1.  *)
Lowered(s, f) == {[s EXCEPT !.size[f] = w] : w \in 1..s.size[f]}

(* A chunk from the window lets it grow; RAQM then may decrease it, with a *)
(* probability that the delays set.                                        *)
Adapted(s, f) ==
    CASE controller = "ICP"  -> {IcpGrown(s, f)}
      [] controller = "RAQM" -> UNION {{g} \cup Lowered(g, f) : g \in RaqmGrown(s, f)}
      [] OTHER -> {s}

(* received_chunk of the controller of f, and of the socket.               *)
Satisfied(s, f, k) ==
    IF k \in s.reissue[f] THEN {[s EXCEPT !.reissue[f] = @ \ {k}]}
    ELSE IF k \in s.win[f] THEN Adapted([s EXCEPT !.win[f] = @ \ {k}], f)
    ELSE {s}

LeftInReissue(s, f, k) ==
    {[s EXCEPT !.received = @ \cup {k}, !.win[f] = @ \ {k}]}
WithChunk(s, f, k) ==
    {[t EXCEPT !.received = @ \cup {k}] : t \in Satisfied(s, f, k)}

Completed(s) == s.received = Chunks

(* At constant rate the next turn asks for more, or closes the socket.     *)
CompletedAtAnyRate(s) == Completed(s)
Finished(s) == Completed(s) /\ controller # "CBR"

Data(f, k, p) ==
    /\ <<k, p>> \in pending
    /\ LET pit == pending \ {<<k, p>>} IN
       \/ /\ p \notin Open
          /\ pending' = pit
          /\ UNCHANGED <<sockets, timers, suppressed>>
       \/ /\ p \in Open
          /\ \A g \in Faces : sockets[p].size[g] < MaxWindow
          /\ \E s \in WithChunk(sockets[p], f, k) :
             \/ /\ Finished(s)
                /\ sockets' = [q \in Open \ {p} |-> sockets[q]]
                /\ pending' = pit
                /\ UNCHANGED <<timers, suppressed>>
             \/ /\ ~Finished(s) /\ controller = "CBR"
                /\ sockets' = [sockets EXCEPT ![p] = s]
                /\ pending' = pit
                /\ UNCHANGED <<timers, suppressed>>
             \/ /\ ~Finished(s) /\ controller # "CBR"
                /\ SendMore(sockets, p, s, pit, timers)
    /\ UNCHANGED <<controller, downloads>>

-----------------------------------------------------------------------------
(* receiver_TO: a timer fires.                                             *)

(* decrease_win of ICP halves the window, down to 1, unless it was         *)
(* decreased less than a timer ago or there are not yet enough samples of  *)
(* the delay.                                                              *)
KeepsCount(s, f) ==
    {s} \cup (IF s.size[f] \div 2 >= 1 THEN {[s EXCEPT !.size[f] = @ \div 2]} ELSE {})
Halved(s, f) ==
    {s} \cup (IF s.size[f] \div 2 >= 1
              THEN {[s EXCEPT !.size[f] = @ \div 2, !.filled[f] = 0]} ELSE {})

Shrunk(s, f) ==
    CASE controller = "ICP" -> Halved(s, f)
      [] controller = "RAQM" -> Lowered(s, f)
      [] OTHER -> {s}

OfAnySocket(s, t) == t.chunk \notin s.received
IsTimeout(s, t) == t.start = s.start /\ t.chunk \notin s.received

ToReissue(s, t) ==
    [s EXCEPT !.win[t.ifid] = @ \ {t.chunk}, !.reissue[t.ifid] = @ \cup {t.chunk}]

NeverAborts(s, k) == FALSE
Aborts(s, k) == s.requests[k] >= Limit

(* The controller moves the chunk from the window to those to reissue.     *)
TimedOut(s, t) ==
    LET moved == IF t.chunk \in s.win[t.ifid]
                 THEN Shrunk(ToReissue(s, t), t.ifid) ELSE {s}
    IN  {[m EXCEPT !.aborted = @ \/ Aborts(s, t.chunk)] : m \in moved}

Fire(t) ==
    /\ t \in timers /\ t.chunk # 0
    /\ LET events == timers \ {t} IN
       \/ /\ t.port \notin Open
          /\ timers' = events
          /\ UNCHANGED <<sockets, pending, suppressed>>
       \/ /\ t.port \in Open
          /\ \E s \in (IF IsTimeout(sockets[t.port], t)
                       THEN TimedOut(sockets[t.port], t) ELSE {sockets[t.port]}) :
             \/ /\ s.aborted
                /\ sockets' = [sockets EXCEPT ![t.port] = s]
                /\ timers' = events
                /\ UNCHANGED <<pending, suppressed>>
             \/ /\ ~s.aborted
                /\ SendMore(sockets, t.port, s, pending, events)
    /\ UNCHANGED <<controller, downloads>>

(* receiver_CBR: all windows of a socket send at the turn of one of them,  *)
(* which then schedules its next turn; when nothing was sent, also because *)
(* all of it was suppressed, the socket is closed.  Without the socket the *)
(* handler would follow a pointer to no element.                           *)
Poll(t) ==
    /\ t \in timers /\ t.chunk = 0 /\ t.port \in Open
    /\ LET p == t.port
           s == sockets[p]
       IN  \/ \E a \in Allotments(s) : \E S \in Suppressions(p, a, pending) :
                /\ S = Allotted(a)
                /\ sockets' = [q \in Open \ {p} |-> sockets[q]]
                /\ timers' = timers \ {t}
                /\ suppressed' = suppressed + Cardinality(S \ Own(p, a, pending))
                /\ UNCHANGED pending
           \/ /\ SendMore(sockets, p, s, pending,
                           (timers \ {t}) \cup {Timer(t.ifid, p, 0, s.start)})
              /\ pending' # pending
    /\ UNCHANGED <<controller, downloads>>

(* A PIT entry reaches its expiry time.                                    *)
Expire(e) ==
    /\ e \in pending
    /\ pending' = pending \ {e}
    /\ UNCHANGED <<controller, sockets, timers, downloads, suppressed>>

Next ==
    \/ \E p \in Ports : OpenSocket(p)
    \/ \E f \in Faces, k \in Chunks, p \in Ports : Data(f, k, p)
    \/ \E t \in timers : Fire(t) \/ Poll(t)
    \/ \E e \in pending : Expire(e)

(* Scheduled events fire and PIT entries expire; data may never come.      *)
AllTimers == [ifid : Faces, port : Ports, chunk : 0..LastChunk, start : 1..MaxDownloads]

Fairness ==
    /\ \A t \in AllTimers : WF_vars(Fire(t)) /\ WF_vars(Poll(t))
    /\ \A e \in Chunks \X Ports : WF_vars(Expire(e))

Spec == Init /\ [][Next]_vars

FairSpec == Spec /\ Fairness

-----------------------------------------------------------------------------

(* Types; a window never shrinks to nothing.                               *)
TypeOK ==
    /\ controller \in Controllers
    /\ Open \subseteq Ports /\ \A p \in Open : sockets[p] \in Socket
    /\ pending \subseteq Chunks \X Ports
    /\ timers \subseteq AllTimers
    /\ downloads \in 0..MaxDownloads
    /\ suppressed \in 0..MaxSuppressed

(* No chunk is forgotten or asked for twice: a missing chunk either was    *)
(* never requested or belongs to one window controller, which waits for it *)
(* or has noted it for another request.  (At constant rate a chunk is      *)
(* asked for once and not waited for.)                                     *)
ChunkAccounted ==
    controller # "CBR" => \A p \in Open : LET s == sockets[p] IN
        \A k \in Chunks \ s.received :
            Cardinality({f \in Faces : k \in s.win[f]})
              + Cardinality({f \in Faces : k \in s.reissue[f]})
              + (IF k \in s.notreq THEN 1 ELSE 0) = 1

(* A missing chunk has a timer of its own socket, at its own controller,   *)
(* exactly while it is in the window, also when the port was used before   *)
(* and timers of the earlier socket are still to fire.                     *)
TimerWhileWaiting ==
    \A p \in Open : LET s == sockets[p] IN
        \A f \in Faces, k \in Chunks \ s.received :
            k \in s.win[f] <=> Timer(f, p, k, s.start) \in timers

(* At constant rate every window of a socket has one turn ahead, and there *)
(* is no turn without its socket, which the handler would not notice; also *)
(* when the socket is closed with chunks missing, and its port used again. *)
OneTurnAhead ==
    \A p \in Ports :
        Cardinality({t \in timers : t.port = p /\ t.chunk = 0}) =
            IF controller = "CBR" /\ p \in Open THEN Cardinality(Faces) ELSE 0

(* The count of chunks of the current window stays below the window, also  *)
(* when the window shrinks between two of them: once it were above, the    *)
(* comparison for equality of increase_win would never hold again and the  *)
(* window would have stopped growing.                                      *)
WindowCanGrow ==
    \A p \in Open, f \in Faces : sockets[p].filled[f] < sockets[p].size[f]

(* FlowControllerAIMD.h:103-107, on the reception of a chunk: "deletes the *)
(* received chunk from win and eventually from m_reissuing_chunks".        *)
WindowsHoldMissing ==
    \A p \in Open, f \in Faces : LET s == sockets[p] IN
        (s.win[f] \cup s.reissue[f]) \cap s.received = {}

(* Every download comes to an end: its socket closes, or it is given up.   *)
Terminates ==
    \A p \in Ports : p \in Open ~> p \notin Open \/ sockets[p].aborted
=============================================================================
