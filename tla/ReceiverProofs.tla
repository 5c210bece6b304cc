--------------------------- MODULE ReceiverProofs ---------------------------
(***************************************************************************)
(* Proofs about the receiver, for any interfaces, windows and limits: what *)
(* each change of a socket keeps, then what each handler keeps.            *)
(***************************************************************************)
EXTENDS Receiver, FiniteSetTheorems, TLAPS

(* A controller holds a chunk that it waits for, or is to ask for again.   *)
Holds(s, f, k) == k \in s.win[f] \/ k \in s.reissue[f]

(* A missing chunk was never requested, or one controller holds it once.   *)
Accounted(s, k) ==
    /\ \A f \in Faces : ~(k \in s.win[f] /\ k \in s.reissue[f])
    /\ \A f, g \in Faces : Holds(s, f, k) /\ Holds(s, g, k) => f = g
    /\ k \in s.notreq <=> \A f \in Faces : ~Holds(s, f, k)

(* The count of a window stays below its size; only ICP counts.            *)
WindowInv(c, s) ==
    /\ \A f \in Faces : s.filled[f] < s.size[f]
    /\ c # "ICP" => \A f \in Faces : s.filled[f] = 0

(* What holds of a socket of a simulation with controllers of type c.      *)
SocketInv(c, s) ==
    /\ s \in Socket
    /\ \A k \in s.notreq : s.requests[k] = 0
    /\ c # "CBR" => \A k \in Chunks \ s.received : Accounted(s, k)
    /\ c = "CBR" => \A f \in Faces : s.win[f] = {} /\ s.reissue[f] = {}
    /\ WindowInv(c, s)

(* The timers of a socket at port p run for the chunks in its windows.     *)
Timed(T, p, s) ==
    \A f \in Faces, k \in Chunks \ s.received :
        k \in s.win[f] <=> Timer(f, p, k, s.start) \in T

-----------------------------------------------------------------------------
(* A new socket has asked for nothing.                                     *)
LEMMA NewSocketInv ==
    ASSUME NEW start \in Nat
    PROVE  SocketInv(controller, NewSocket(start))
<1> DEFINE s == NewSocket(start)
<1>1. s \in Socket
  BY WindowAssumption DEF NewSocket, Socket
<1>2. \A k \in Chunks : Accounted(s, k)
  BY DEF NewSocket, Accounted, Holds
<1>3. /\ \A k \in s.notreq : s.requests[k] = 0
      /\ \A f \in Faces : s.win[f] = {} /\ s.reissue[f] = {}
      /\ \A f \in Faces : s.filled[f] < s.size[f] /\ s.filled[f] = 0
  BY WindowAssumption DEF NewSocket
<1> QED BY <1>1, <1>2, <1>3 DEF SocketInv, WindowInv

(* The chunks that the controllers take, and the socket after it asked for *)
(* them, field by field.                                                   *)
LEMMA RequestedFields ==
    ASSUME NEW s \in Socket, NEW a \in Allotments(s), NEW S \in SUBSET Allotted(a)
    PROVE  LET t == Requested(s, a, S) IN
           /\ t \in Socket
           /\ t.start = s.start /\ t.received = s.received
           /\ t.notreq = Fresh(s) \ Allotted(a)
           /\ t.size = s.size /\ t.filled = s.filled
           /\ \A f \in Faces : t.reissue[f] = s.reissue[f] \ a[f]
           /\ \A f \in Faces : t.win[f] = IF controller = "CBR" THEN {} ELSE s.win[f] \cup a[f]
           /\ \A k \in Chunks \ Allotted(a) : t.requests[k] = s.requests[k]
<1> DEFINE t == Requested(s, a, S)
<1>1. a \in [Faces -> SUBSET Chunks]
  BY DEF Allotments
<1>2. Fresh(s) \ Allotted(a) \in SUBSET Chunks
  BY DEF Fresh, Socket
<1>3. PopTimedOut(s, a) \in [Faces -> SUBSET Chunks]
  BY DEF PopTimedOut, Socket
<1>4. [f \in Faces |-> IF controller = "CBR" THEN {} ELSE s.win[f] \cup a[f]]
          \in [Faces -> SUBSET Chunks]
  BY <1>1 DEF Socket
<1>5. [k \in Chunks |-> IF k \in Allotted(a) \ S THEN s.requests[k] + 1 ELSE s.requests[k]]
          \in [Chunks -> Nat]
  BY DEF Socket
<1>6. t \in Socket
  BY <1>2, <1>3, <1>4, <1>5 DEF Requested, Socket
<1>7. /\ t.start = s.start /\ t.received = s.received
      /\ t.notreq = Fresh(s) \ Allotted(a)
      /\ t.size = s.size /\ t.filled = s.filled
      /\ t.reissue = PopTimedOut(s, a)
      /\ t.win = [f \in Faces |-> IF controller = "CBR" THEN {} ELSE s.win[f] \cup a[f]]
      /\ t.requests = [k \in Chunks |->
             IF k \in Allotted(a) \ S THEN s.requests[k] + 1 ELSE s.requests[k]]
  BY DEF Requested, Socket
<1> QED BY <1>6, <1>7 DEF PopTimedOut

(* Asking for more keeps what holds of a socket.                           *)
LEMMA RequestedInv ==
    ASSUME NEW s, SocketInv(controller, s),
           NEW a \in Allotments(s), NEW S \in SUBSET Allotted(a)
    PROVE  SocketInv(controller, Requested(s, a, S))
<1> DEFINE t == Requested(s, a, S)
<1>s. s \in Socket
  BY DEF SocketInv
<1>1. /\ t \in Socket
      /\ t.start = s.start /\ t.received = s.received
      /\ t.notreq = Fresh(s) \ Allotted(a)
      /\ t.size = s.size /\ t.filled = s.filled
      /\ \A f \in Faces : t.reissue[f] = s.reissue[f] \ a[f]
      /\ \A f \in Faces : t.win[f] = IF controller = "CBR" THEN {} ELSE s.win[f] \cup a[f]
      /\ \A k \in Chunks \ Allotted(a) : t.requests[k] = s.requests[k]
  BY <1>s, RequestedFields
<1> HIDE DEF t
<1>2. \A k \in t.notreq : t.requests[k] = 0
  BY <1>1, <1>s DEF SocketInv, Fresh, Socket
<1>3. controller = "CBR" => \A f \in Faces : t.win[f] = {} /\ t.reissue[f] = {}
  BY <1>1 DEF SocketInv
<1>4. ASSUME controller # "CBR", NEW k \in Chunks \ t.received
      PROVE  Accounted(t, k)
  <2>0. k \in Chunks \ s.received /\ Accounted(s, k)
    BY <1>4, <1>1 DEF SocketInv
  <2>1. k \in Fresh(s) <=> k \in s.notreq
    BY <2>0, <1>s, LimitAssumption DEF SocketInv, Fresh, Socket
  <2>2. /\ \A f \in Faces : k \in a[f] => k \in s.reissue[f] \/ k \in s.notreq
        /\ \A f, g \in Faces : k \in a[f] /\ k \notin s.reissue[f] /\ f # g => k \notin a[g]
    BY <2>1 DEF Allotments, Takes
  <2>3. k \in Allotted(a) <=> \E f \in Faces : k \in a[f]
    BY DEF Allotted
  <2>4. \A f \in Faces : Holds(t, f, k) <=> Holds(s, f, k) \/ k \in a[f]
    BY <1>1, <1>4 DEF Holds
  <2>5. \A f \in Faces : ~(k \in t.win[f] /\ k \in t.reissue[f])
    BY <1>1, <1>4, <2>0 DEF Accounted
  <2>6. \A f, g \in Faces : Holds(t, f, k) /\ Holds(t, g, k) => f = g
    BY <2>0, <2>2, <2>4 DEF Accounted, Holds
  <2>7. k \in t.notreq <=> \A f \in Faces : ~Holds(t, f, k)
    BY <1>1, <2>0, <2>1, <2>3, <2>4 DEF Accounted
  <2> QED BY <2>5, <2>6, <2>7 DEF Accounted
<1>5. WindowInv(controller, t)
  BY <1>1 DEF SocketInv, WindowInv
<1>6. SocketInv(controller, t)
  BY <1>1, <1>2, <1>3, <1>4, <1>5 DEF SocketInv
<1> QED BY <1>6 DEF t

-----------------------------------------------------------------------------
(* t differs from s in the sizes and counts of its windows only.           *)
SameChunks(t, s) ==
    /\ t.start = s.start /\ t.received = s.received /\ t.notreq = s.notreq
    /\ t.requests = s.requests /\ t.win = s.win /\ t.reissue = s.reissue

LEMMA LoweredWindow ==
    ASSUME NEW s \in Socket, WindowInv(controller, s), controller # "ICP",
           NEW f \in Faces, NEW t \in Lowered(s, f)
    PROVE  t \in Socket /\ SameChunks(t, s) /\ WindowInv(controller, t)
<1>1. PICK w \in 1..s.size[f] : t = [s EXCEPT !.size[f] = w]
  BY DEF Lowered
<1>2. w \in Nat \ {0} /\ [s.size EXCEPT ![f] = w] \in [Faces -> Nat \ {0}]
  BY DEF Socket
<1>3. t \in Socket /\ SameChunks(t, s) /\ t.filled = s.filled
      /\ t.size = [s.size EXCEPT ![f] = w]
  BY <1>1, <1>2 DEF Socket, SameChunks
<1> QED BY <1>2, <1>3 DEF WindowInv, Socket

LEMMA AdaptedWindow ==
    ASSUME NEW s \in Socket, WindowInv(controller, s),
           NEW f \in Faces, NEW t \in Adapted(s, f)
    PROVE  t \in Socket /\ SameChunks(t, s) /\ WindowInv(controller, t)
<1>1. CASE controller = "ICP"
  <2>1. t = IcpGrown(s, f)
    BY <1>1 DEF Adapted
  <2>2. CASE s.filled[f] + 1 = s.size[f]
    <3>1. /\ [s.size EXCEPT ![f] = @ + 1] \in [Faces -> Nat \ {0}]
          /\ [s.filled EXCEPT ![f] = 0] \in [Faces -> Nat]
      BY DEF Socket
    <3>2. t \in Socket /\ SameChunks(t, s)
          /\ t.size = [s.size EXCEPT ![f] = @ + 1] /\ t.filled = [s.filled EXCEPT ![f] = 0]
      BY <2>1, <2>2, <3>1 DEF IcpGrown, Socket, SameChunks
    <3> QED BY <3>2, <1>1 DEF WindowInv, Socket
  <2>3. CASE s.filled[f] + 1 # s.size[f]
    <3>1. [s.filled EXCEPT ![f] = @ + 1] \in [Faces -> Nat]
      BY DEF Socket
    <3>2. t \in Socket /\ SameChunks(t, s)
          /\ t.size = s.size /\ t.filled = [s.filled EXCEPT ![f] = @ + 1]
      BY <2>1, <2>3, <3>1 DEF IcpGrown, Socket, SameChunks
    <3> QED BY <3>2, <1>1, <2>3 DEF WindowInv, Socket
  <2> QED BY <2>2, <2>3
<1>2. CASE controller = "RAQM"
  <2>1. PICK g \in RaqmGrown(s, f) : t = g \/ t \in Lowered(g, f)
    BY <1>2 DEF Adapted
  <2>a. PICK w \in {s.size[f], s.size[f] + 1} \ {1} : g = [s EXCEPT !.size[f] = w]
    BY <2>1 DEF RaqmGrown
  <2>b. s.size[f] \in Nat \ {0}
    BY DEF Socket
  <2>2. w \in Nat \ {0} /\ w >= s.size[f] /\ g = [s EXCEPT !.size[f] = w]
    BY <2>a, <2>b
  <2>3. [s.size EXCEPT ![f] = w] \in [Faces -> Nat \ {0}]
    BY DEF Socket
  <2>4. g \in Socket /\ SameChunks(g, s) /\ g.filled = s.filled
        /\ g.size = [s.size EXCEPT ![f] = w]
    BY <2>2, <2>3 DEF Socket, SameChunks
  <2>5. WindowInv(controller, g)
    BY <2>2, <2>4 DEF WindowInv, Socket
  <2>6. t \in Socket /\ SameChunks(t, g) /\ WindowInv(controller, t)
    BY <1>2, <2>1, <2>4, <2>5, LoweredWindow DEF SameChunks
  <2> QED BY <2>4, <2>6 DEF SameChunks
<1>3. CASE controller # "ICP" /\ controller # "RAQM"
  BY <1>3 DEF Adapted, SameChunks
<1> QED BY <1>1, <1>2, <1>3

LEMMA ShrunkWindow ==
    ASSUME NEW s \in Socket, WindowInv(controller, s),
           NEW f \in Faces, NEW t \in Shrunk(s, f)
    PROVE  t \in Socket /\ SameChunks(t, s) /\ WindowInv(controller, t)
<1>1. CASE controller = "ICP" /\ t # s
  <2>1. s.size[f] \div 2 >= 1
        /\ t = [s EXCEPT !.size[f] = @ \div 2, !.filled[f] = 0]
    BY <1>1 DEF Shrunk, Halved
  <2>2. /\ [s.size EXCEPT ![f] = @ \div 2] \in [Faces -> Nat \ {0}]
        /\ [s.filled EXCEPT ![f] = 0] \in [Faces -> Nat]
    BY <2>1 DEF Socket
  <2>3. t \in Socket /\ SameChunks(t, s)
        /\ t.size = [s.size EXCEPT ![f] = @ \div 2] /\ t.filled = [s.filled EXCEPT ![f] = 0]
    BY <2>1, <2>2 DEF Socket, SameChunks
  <2> QED BY <2>1, <2>3, <1>1 DEF WindowInv, Socket
<1>2. CASE controller = "RAQM"
  BY <1>2, LoweredWindow DEF Shrunk
<1>3. CASE t = s
  BY <1>3 DEF SameChunks
<1>4. CASE controller # "ICP" /\ controller # "RAQM"
  BY <1>4 DEF Shrunk, SameChunks
<1> QED BY <1>1, <1>2, <1>3, <1>4
LEMMA SameChunksInv ==
    ASSUME NEW s, NEW t \in Socket, SocketInv(controller, s),
           SameChunks(t, s), WindowInv(controller, t)
    PROVE  SocketInv(controller, t)
BY DEF SocketInv, SameChunks, Accounted, Holds

-----------------------------------------------------------------------------
(* A chunk that arrives is missing no more; nothing else moves.            *)
LEMMA WithChunkInv ==
    ASSUME NEW s, SocketInv(controller, s), NEW f \in Faces, NEW k \in Chunks,
           NEW t \in WithChunk(s, f, k)
    PROVE  /\ SocketInv(controller, t)
           /\ t.start = s.start /\ t.received = s.received \cup {k}
           /\ \A g \in Faces, j \in Chunks \ t.received : j \in t.win[g] <=> j \in s.win[g]
<1>s. s \in Socket /\ WindowInv(controller, s)
  BY DEF SocketInv
<1>1. PICK u \in Satisfied(s, f, k) : t = [u EXCEPT !.received = @ \cup {k}]
  BY DEF WithChunk
<1>2. /\ u \in Socket /\ WindowInv(controller, u)
      /\ u.start = s.start /\ u.received = s.received /\ u.notreq = s.notreq
      /\ u.requests = s.requests
      /\ \A g \in Faces : u.win[g] \ {k} = s.win[g] \ {k} /\ u.win[g] \subseteq s.win[g]
      /\ \A g \in Faces : u.reissue[g] \ {k} = s.reissue[g] \ {k}
                          /\ u.reissue[g] \subseteq s.reissue[g]
  <2>1. CASE k \in s.reissue[f]
    <3>1. [s.reissue EXCEPT ![f] = @ \ {k}] \in [Faces -> SUBSET Chunks]
      BY <1>s DEF Socket
    <3>2. u = [s EXCEPT !.reissue[f] = @ \ {k}]
      BY <1>1, <2>1 DEF Satisfied
    <3>3. /\ u \in Socket /\ u.reissue = [s.reissue EXCEPT ![f] = @ \ {k}]
          /\ u.start = s.start /\ u.received = s.received /\ u.notreq = s.notreq
          /\ u.requests = s.requests /\ u.win = s.win
          /\ u.size = s.size /\ u.filled = s.filled
      BY <1>s, <3>1, <3>2 DEF Socket
    <3> QED BY <1>s, <3>3 DEF WindowInv, Socket
  <2>2. CASE k \notin s.reissue[f] /\ k \in s.win[f]
    <3> DEFINE v == [s EXCEPT !.win[f] = @ \ {k}]
    <3>1. [s.win EXCEPT ![f] = @ \ {k}] \in [Faces -> SUBSET Chunks]
      BY <1>s DEF Socket
    <3>2. /\ v \in Socket /\ v.win = [s.win EXCEPT ![f] = @ \ {k}]
          /\ v.start = s.start /\ v.received = s.received /\ v.notreq = s.notreq
          /\ v.requests = s.requests /\ v.reissue = s.reissue
          /\ v.size = s.size /\ v.filled = s.filled
      BY <1>s, <3>1 DEF Socket
    <3>3. u \in Adapted(v, f)
      BY <1>1, <2>2 DEF Satisfied
    <3> HIDE DEF v
    <3>4. WindowInv(controller, v)
      BY <1>s, <3>2 DEF WindowInv
    <3>5. u \in Socket /\ SameChunks(u, v) /\ WindowInv(controller, u)
      BY <3>2, <3>3, <3>4, AdaptedWindow
    <3> QED BY <1>s, <3>2, <3>5 DEF SameChunks, Socket
  <2>3. CASE k \notin s.reissue[f] /\ k \notin s.win[f]
    BY <1>s, <1>1, <2>3 DEF Satisfied
  <2> QED BY <2>1, <2>2, <2>3
<1>3. /\ t \in Socket /\ t.received = u.received \cup {k}
      /\ t.start = u.start /\ t.notreq = u.notreq /\ t.requests = u.requests
      /\ t.win = u.win /\ t.reissue = u.reissue /\ t.size = u.size /\ t.filled = u.filled
  BY <1>1, <1>2 DEF Socket
<1>4. WindowInv(controller, t)
  BY <1>2, <1>3 DEF WindowInv
<1>5. ASSUME controller # "CBR", NEW j \in Chunks \ t.received
      PROVE  Accounted(t, j)
  <2>1. j \in Chunks \ s.received /\ j # k /\ Accounted(s, j)
    BY <1>2, <1>3, <1>5 DEF SocketInv
  <2>2. /\ j \in t.notreq <=> j \in s.notreq
        /\ \A g \in Faces : j \in t.win[g] <=> j \in s.win[g]
        /\ \A g \in Faces : j \in t.reissue[g] <=> j \in s.reissue[g]
    BY <1>2, <1>3, <2>1
  <2> QED BY <2>1, <2>2 DEF Accounted, Holds
<1>6. /\ \A j \in t.notreq : t.requests[j] = 0
      /\ controller = "CBR" => \A g \in Faces : t.win[g] = {} /\ t.reissue[g] = {}
  BY <1>2, <1>3 DEF SocketInv
<1>7. SocketInv(controller, t)
  BY <1>3, <1>4, <1>5, <1>6 DEF SocketInv
<1> QED BY <1>2, <1>3, <1>7

(* A chunk that timed out goes from its window to those to ask for again.  *)
LEMMA TimedOutInv ==
    ASSUME NEW s, SocketInv(controller, s), NEW x \in AllTimers, x.chunk \in Chunks,
           IsTimeout(s, x), NEW t \in TimedOut(s, x)
    PROVE  /\ SocketInv(controller, t)
           /\ t.start = s.start /\ t.received = s.received
           /\ \A g \in Faces, j \in Chunks \ t.received :
                 j \in t.win[g] <=> j \in s.win[g] /\ ~(g = x.ifid /\ j = x.chunk)
<1> DEFINE f == x.ifid
           k == x.chunk
<1>s. s \in Socket /\ WindowInv(controller, s) /\ f \in Faces /\ k \in Chunks \ s.received
  BY DEF SocketInv, AllTimers, IsTimeout
<1>1. PICK u : /\ u \in IF k \in s.win[f] THEN Shrunk(ToReissue(s, x), f) ELSE {s}
               /\ t = [u EXCEPT !.aborted = @ \/ Aborts(s, k)]
  BY DEF TimedOut
<1>2. /\ u \in Socket /\ SocketInv(controller, u)
      /\ u.start = s.start /\ u.received = s.received
      /\ \A g \in Faces, j \in Chunks \ s.received :
            j \in u.win[g] <=> j \in s.win[g] /\ ~(g = f /\ j = k)
  <2>1. CASE k \in s.win[f]
    <3> DEFINE v == ToReissue(s, x)
    <3>1. /\ [s.win EXCEPT ![f] = @ \ {k}] \in [Faces -> SUBSET Chunks]
          /\ [s.reissue EXCEPT ![f] = @ \cup {k}] \in [Faces -> SUBSET Chunks]
      BY <1>s DEF Socket
    <3>2. /\ v \in Socket
          /\ v.win = [s.win EXCEPT ![f] = @ \ {k}]
          /\ v.reissue = [s.reissue EXCEPT ![f] = @ \cup {k}]
          /\ v.start = s.start /\ v.received = s.received /\ v.notreq = s.notreq
          /\ v.requests = s.requests /\ v.size = s.size /\ v.filled = s.filled
      BY <1>s, <3>1 DEF Socket, ToReissue
    <3>3. u \in Shrunk(v, f)
      BY <1>1, <2>1
    <3> HIDE DEF v
    <3>4. WindowInv(controller, v)
      BY <1>s, <3>2 DEF WindowInv
    <3>5. controller # "CBR"
      BY <2>1, <1>s DEF SocketInv
    <3>6. ASSUME NEW j \in Chunks \ v.received
          PROVE  Accounted(v, j)
      <4>1. Accounted(s, j)
        BY <3>2, <3>5, <3>6 DEF SocketInv
      <4>2. \A g \in Faces : Holds(v, g, j) <=> Holds(s, g, j)
        BY <3>2, <2>1, <1>s DEF Holds, Socket
      <4>3. \A g \in Faces : ~(j \in v.win[g] /\ j \in v.reissue[g])
        BY <3>2, <4>1, <1>s DEF Accounted, Socket
      <4> QED BY <4>1, <4>2, <4>3, <3>2 DEF Accounted
    <3>7. SocketInv(controller, v)
      BY <3>2, <3>4, <3>5, <3>6 DEF SocketInv
    <3>8. u \in Socket /\ SameChunks(u, v) /\ WindowInv(controller, u)
      BY <1>s, <3>2, <3>3, <3>4, ShrunkWindow
    <3>9. SocketInv(controller, u)
      BY <3>7, <3>8, SameChunksInv
    <3> QED BY <1>s, <3>2, <3>8, <3>9 DEF SameChunks, Socket
  <2>2. CASE k \notin s.win[f]
    BY <1>s, <1>1, <2>2
  <2> QED BY <2>1, <2>2
<1>3. /\ t \in Socket /\ SameChunks(t, u) /\ t.size = u.size /\ t.filled = u.filled
  <2>1. (u.aborted \/ Aborts(s, k)) \in BOOLEAN
    BY <1>2, <1>s DEF Socket, Aborts
  <2> QED BY <1>1, <1>2, <2>1 DEF Socket, SameChunks
<1>4. WindowInv(controller, t)
  BY <1>2, <1>3 DEF WindowInv, SocketInv
<1>5. SocketInv(controller, t)
  BY <1>2, <1>3, <1>4, SameChunksInv
<1> QED BY <1>2, <1>3, <1>5 DEF SameChunks
-----------------------------------------------------------------------------
(* The inductive invariant.  Downloads tell the sockets of a port apart;   *)
(* only a window at constant rate has turns, and it has no other timers.   *)
SocketsInv ==
    /\ controller \in Controllers /\ downloads \in 0..MaxDownloads
    /\ Open \subseteq Ports
    /\ \A p \in Open : SocketInv(controller, sockets[p]) /\ sockets[p].start \in 1..downloads

TimersInv ==
    /\ timers \subseteq AllTimers
    /\ \A t \in timers : t.start <= downloads /\ (controller = "CBR" <=> t.chunk = 0)

PendingInv == pending \subseteq Chunks \X Ports /\ suppressed \in 0..MaxSuppressed

AllTimed == controller # "CBR" => \A p \in Open : Timed(timers, p, sockets[p])

Inv == SocketsInv /\ TimersInv /\ PendingInv /\ AllTimed

LEMMA TimerType ==
    ASSUME NEW f \in Faces, NEW p \in Ports, NEW k \in 0..LastChunk, NEW d \in 1..MaxDownloads
    PROVE  /\ Timer(f, p, k, d) \in AllTimers
           /\ Timer(f, p, k, d).ifid = f /\ Timer(f, p, k, d).port = p
           /\ Timer(f, p, k, d).chunk = k /\ Timer(f, p, k, d).start = d
BY DEF Timer, AllTimers

(* What the end of a handler that asks for more does: the body of SendMore *)
(* with the chunks a taken and those S of them suppressed.                 *)
LEMMA RequestedTimed ==
    ASSUME NEW p \in Ports, NEW s, SocketInv(controller, s), s.start \in 1..MaxDownloads,
           NEW a \in Allotments(s), NEW S \in SUBSET Allotted(a),
           NEW events \in SUBSET AllTimers
    PROVE  LET t == Requested(s, a, S)
               T == events \cup NewTimers(p, s, a)
           IN  /\ SocketInv(controller, t) /\ t.start = s.start
               /\ T \subseteq AllTimers
               /\ \A x \in T \ events :
                     x.port = p /\ x.start = s.start /\ x.chunk # 0 /\ controller # "CBR"
               /\ controller # "CBR" /\ Timed(events, p, s) => Timed(T, p, t)
<1> DEFINE t == Requested(s, a, S)
           N == NewTimers(p, s, a)
<1>s. s \in Socket
  BY DEF SocketInv
<1>1. s \in Socket /\ a \in [Faces -> SUBSET Chunks]
  BY <1>s DEF Allotments
<1>2. /\ SocketInv(controller, t) /\ t.start = s.start /\ t.received = s.received
      /\ \A f \in Faces : t.win[f] = IF controller = "CBR" THEN {} ELSE s.win[f] \cup a[f]
  <2>1. SocketInv(controller, t)
    BY RequestedInv
  <2>2. /\ t \in Socket
        /\ t.start = s.start /\ t.received = s.received
        /\ t.notreq = Fresh(s) \ Allotted(a)
        /\ t.size = s.size /\ t.filled = s.filled
        /\ \A f \in Faces : t.reissue[f] = s.reissue[f] \ a[f]
        /\ \A f \in Faces : t.win[f] = IF controller = "CBR" THEN {} ELSE s.win[f] \cup a[f]
        /\ \A k \in Chunks \ Allotted(a) : t.requests[k] = s.requests[k]
    BY <1>s, RequestedFields
  <2> HIDE DEF t
  <2> QED BY <2>1, <2>2
<1>3. \A x \in N : controller # "CBR" /\ \E f \in Faces : \E k \in a[f] : x = Timer(f, p, k, s.start)
  BY DEF NewTimers
<1>4. Chunks \subseteq 0..LastChunk /\ 0 \notin Chunks
  BY ChunksAssumption DEF Chunks
<1>5. \A x \in N :
         x \in AllTimers /\ x.port = p /\ x.start = s.start /\ x.chunk # 0 /\ controller # "CBR"
  BY <1>1, <1>3, <1>4, TimerType
<1>6. ASSUME controller # "CBR", NEW f \in Faces, NEW k \in Chunks
      PROVE  k \in a[f] <=> Timer(f, p, k, s.start) \in N
  <2>1. ASSUME k \in a[f] PROVE Timer(f, p, k, s.start) \in N
    BY <1>6, <2>1 DEF NewTimers
  <2>2. ASSUME Timer(f, p, k, s.start) \in N PROVE k \in a[f]
    <3>1. PICK g \in Faces : \E j \in a[g] : Timer(f, p, k, s.start) = Timer(g, p, j, s.start)
      BY <1>3, <2>2
    <3>2. PICK j \in a[g] : Timer(f, p, k, s.start) = Timer(g, p, j, s.start)
      BY <3>1
    <3>3. f = g /\ k = j
      BY <3>2 DEF Timer
    <3> QED BY <3>3
  <2> QED BY <2>1, <2>2
<1> HIDE DEF t, N
<1>7. ASSUME controller # "CBR", Timed(events, p, s)
      PROVE  Timed(events \cup N, p, t)
  BY <1>2, <1>6, <1>7 DEF Timed
<1>8. /\ SocketInv(controller, t) /\ t.start = s.start
      /\ events \cup N \subseteq AllTimers
      /\ \A x \in (events \cup N) \ events :
            x.port = p /\ x.start = s.start /\ x.chunk # 0 /\ controller # "CBR"
  BY <1>2, <1>5
<1> QED BY <1>7, <1>8 DEF t, N

LEMMA SuppressedType ==
    ASSUME PendingInv, NEW p \in Ports, NEW s, NEW a \in Allotments(s), NEW pit,
           NEW S \in Suppressions(p, a, pit)
    PROVE  /\ Allotted(a) \subseteq Chunks /\ S \in SUBSET Allotted(a)
           /\ suppressed + Cardinality(S \ Own(p, a, pit)) \in 0..MaxSuppressed
<1>1. /\ S \in SUBSET Allotted(a) /\ Allotted(a) \subseteq Chunks
      /\ suppressed + Cardinality(S \ Own(p, a, pit)) <= MaxSuppressed
  BY DEF Suppressions, Allotments, Allotted
<1>2. IsFiniteSet(Chunks)
  BY ChunksAssumption, FS_Interval DEF Chunks
<1>3. IsFiniteSet(S \ Own(p, a, pit))
  BY <1>1, <1>2, FS_Subset
<1>4. Cardinality(S \ Own(p, a, pit)) \in Nat
  BY <1>3, FS_CardinalityType
<1> QED BY <1>1, <1>4, LimitAssumption DEF PendingInv

LEMMA InitInv == Init => Inv
BY LimitAssumption DEF Init, Inv, SocketsInv, TimersInv, PendingInv, AllTimed, Open
(* A handler that ends by asking for more keeps the invariant, when it     *)
(* treated the timers of its own port rightly and left those of others.    *)
Prepared(p, s, pit, events, down) ==
    /\ SocketInv(controller, s) /\ s.start \in 1..down
    /\ down \in downloads..MaxDownloads
    /\ pit \in SUBSET (Chunks \X Ports) /\ events \in SUBSET AllTimers
    /\ \A t \in events : t.start <= down /\ (controller = "CBR" <=> t.chunk = 0)
    /\ controller # "CBR" => Timed(events, p, s)
    /\ \A t \in AllTimers : t.port # p => (t \in events <=> t \in timers)

LEMMA SocketsKept ==
    ASSUME Inv, NEW p \in Ports, NEW s, NEW pit, NEW events, NEW down,
           Prepared(p, s, pit, events, down),
           NEW a \in Allotments(s), NEW S \in SUBSET Allotted(a)
    PROVE  LET ns == [q \in DOMAIN sockets \cup {p} |->
                         IF q = p THEN Requested(s, a, S) ELSE sockets[q]]
               T == events \cup NewTimers(p, s, a)
           IN  /\ DOMAIN ns \subseteq Ports
               /\ \A q \in DOMAIN ns : SocketInv(controller, ns[q]) /\ ns[q].start \in 1..down
               /\ T \subseteq AllTimers
               /\ \A t \in T : t.start <= down /\ (controller = "CBR" <=> t.chunk = 0)
               /\ controller # "CBR" => \A q \in DOMAIN ns : Timed(T, q, ns[q])
<1> DEFINE ns == [q \in DOMAIN sockets \cup {p} |->
                     IF q = p THEN Requested(s, a, S) ELSE sockets[q]]
           T == events \cup NewTimers(p, s, a)
<1>0. /\ SocketInv(controller, s) /\ s.start \in 1..MaxDownloads /\ s.start <= down
      /\ events \in SUBSET AllTimers /\ down \in Nat /\ downloads <= down /\ downloads \in Nat
  BY LimitAssumption DEF Prepared, Inv, SocketsInv
<1>1. /\ SocketInv(controller, Requested(s, a, S)) /\ Requested(s, a, S).start = s.start
      /\ T \subseteq AllTimers
      /\ \A x \in T \ events :
            x.port = p /\ x.start = s.start /\ x.chunk # 0 /\ controller # "CBR"
      /\ controller # "CBR" /\ Timed(events, p, s) => Timed(T, p, Requested(s, a, S))
  BY <1>0, RequestedTimed
<1>2. DOMAIN ns = Open \cup {p} /\ ns[p] = Requested(s, a, S)
      /\ \A q \in Open \ {p} : ns[q] = sockets[q]
  BY DEF Open
<1> HIDE DEF T, ns
<1>3. DOMAIN ns \subseteq Ports
  BY <1>2 DEF Inv, SocketsInv
<1>4. ASSUME NEW q \in DOMAIN ns
      PROVE  SocketInv(controller, ns[q]) /\ ns[q].start \in 1..down
  <2>1. CASE q = p
    BY <2>1, <1>0, <1>1, <1>2
  <2>2. CASE q # p
    BY <2>2, <1>0, <1>2 DEF Inv, SocketsInv
  <2> QED BY <2>1, <2>2
<1>5. \A t \in T : t.start <= down /\ (controller = "CBR" <=> t.chunk = 0)
  BY <1>0, <1>1 DEF Prepared
<1>6. ASSUME controller # "CBR", NEW q \in DOMAIN ns
      PROVE  Timed(T, q, ns[q])
  <2>1. CASE q = p
    BY <2>1, <1>1, <1>2, <1>6 DEF Prepared
  <2>2. CASE q # p
    <3>1. /\ q \in Open /\ q \in Ports /\ ns[q] = sockets[q]
          /\ sockets[q].start \in 1..MaxDownloads
      BY <1>2, <2>2, LimitAssumption DEF Inv, SocketsInv
    <3>2. Timed(timers, q, sockets[q])
      BY <3>1, <1>6 DEF Inv, AllTimed
    <3>3. ASSUME NEW f \in Faces, NEW k \in Chunks
          PROVE  Timer(f, q, k, sockets[q].start) \in timers
                   <=> Timer(f, q, k, sockets[q].start) \in T
      <4> DEFINE x == Timer(f, q, k, sockets[q].start)
      <4>1. k \in 0..LastChunk
        BY ChunksAssumption DEF Chunks
      <4>2. x \in AllTimers /\ x.port = q
        BY <3>1, <4>1, TimerType
      <4> HIDE DEF x
      <4>3. x \in events <=> x \in timers
        BY <4>2, <2>2 DEF Prepared
      <4>4. x \in T <=> x \in events
        BY <4>2, <2>2, <1>1 DEF T
      <4> QED BY <4>3, <4>4 DEF x
    <3> QED BY <3>1, <3>2, <3>3 DEF Timed
  <2> QED BY <2>1, <2>2
<1>7. /\ DOMAIN ns \subseteq Ports
      /\ \A q \in DOMAIN ns : SocketInv(controller, ns[q]) /\ ns[q].start \in 1..down
      /\ T \subseteq AllTimers
      /\ \A t \in T : t.start <= down /\ (controller = "CBR" <=> t.chunk = 0)
      /\ controller # "CBR" => \A q \in DOMAIN ns : Timed(T, q, ns[q])
  BY <1>1, <1>3, <1>4, <1>5, <1>6
<1> QED BY <1>7 DEF ns, T

LEMMA MoreSent ==
    ASSUME Inv, NEW p \in Ports, NEW s, NEW pit, NEW events,
           NEW down, Prepared(p, s, pit, events, down),
           controller' = controller, downloads' = down,
           NEW a \in Allotments(s), NEW S \in Suppressions(p, a, pit),
           sockets' = [q \in DOMAIN sockets \cup {p} |->
                          IF q = p THEN Requested(s, a, S) ELSE sockets[q]],
           pending' = pit \cup {<<k, p>> : k \in Allotted(a) \ S},
           suppressed' = suppressed + Cardinality(S \ Own(p, a, pit)),
           timers' = events \cup NewTimers(p, s, a)
    PROVE  Inv'
<1>0. PendingInv
  BY DEF Inv
<1>1. /\ Allotted(a) \subseteq Chunks /\ S \in SUBSET Allotted(a)
      /\ suppressed' \in 0..MaxSuppressed
  BY <1>0, SuppressedType
<1> DEFINE ns == [q \in DOMAIN sockets \cup {p} |->
                     IF q = p THEN Requested(s, a, S) ELSE sockets[q]]
           T == events \cup NewTimers(p, s, a)
<1>2. /\ DOMAIN ns \subseteq Ports
      /\ \A q \in DOMAIN ns : SocketInv(controller, ns[q]) /\ ns[q].start \in 1..down
      /\ T \subseteq AllTimers
      /\ \A t \in T : t.start <= down /\ (controller = "CBR" <=> t.chunk = 0)
      /\ controller # "CBR" => \A q \in DOMAIN ns : Timed(T, q, ns[q])
  BY <1>1, SocketsKept
<1>e. sockets' = ns /\ timers' = T
  OBVIOUS
<1> HIDE DEF ns, T
<1>3. pending' \subseteq Chunks \X Ports
  BY <1>1 DEF Prepared
<1>4. downloads' \in 0..MaxDownloads
  BY LimitAssumption DEF Prepared, Inv, SocketsInv
<1>5. SocketsInv'
  BY <1>2, <1>e, <1>4 DEF SocketsInv, Inv, Open
<1>6. TimersInv' /\ PendingInv' /\ AllTimed'
  BY <1>1, <1>2, <1>e, <1>3 DEF TimersInv, PendingInv, AllTimed, Open
<1> QED BY <1>5, <1>6 DEF Inv

-----------------------------------------------------------------------------
(* A new socket has no timers yet: those at its port are of earlier ones.  *)
LEMMA OpenSocketInv == ASSUME Inv, NEW p \in Ports, OpenSocket(p) PROVE Inv'
<1> DEFINE d == downloads + 1
           s == NewSocket(d)
           events == timers \cup Polls(p, d)
<1>1. /\ downloads' = d /\ controller' = controller /\ d \in 1..MaxDownloads
      /\ downloads \in Nat
  BY LimitAssumption DEF OpenSocket, Inv, SocketsInv
<1>2. PICK a \in Allotments(s) : \E S \in Suppressions(p, a, pending) :
        /\ sockets' = [q \in DOMAIN sockets \cup {p} |->
              IF q = p THEN Requested(s, a, S) ELSE sockets[q]]
        /\ pending' = pending \cup {<<k, p>> : k \in Allotted(a) \ S}
        /\ suppressed' = suppressed + Cardinality(S \ Own(p, a, pending))
        /\ timers' = events \cup NewTimers(p, s, a)
  BY <1>1 DEF OpenSocket, SendMore
<1>3. PICK S \in Suppressions(p, a, pending) :
        /\ sockets' = [q \in DOMAIN sockets \cup {p} |->
              IF q = p THEN Requested(s, a, S) ELSE sockets[q]]
        /\ pending' = pending \cup {<<k, p>> : k \in Allotted(a) \ S}
        /\ suppressed' = suppressed + Cardinality(S \ Own(p, a, pending))
        /\ timers' = events \cup NewTimers(p, s, a)
  BY <1>2
<1>4. SocketInv(controller, s) /\ s.start = d /\ \A f \in Faces : s.win[f] = {}
  BY <1>1, NewSocketInv DEF NewSocket
<1>5. \A x \in Polls(p, d) : /\ x \in AllTimers /\ x.port = p /\ x.start = d /\ x.chunk = 0
                             /\ controller = "CBR"
  <2>1. 0 \in 0..LastChunk
    BY ChunksAssumption
  <2>2. \A x \in Polls(p, d) : controller = "CBR" /\ \E f \in Faces : x = Timer(f, p, 0, d)
    BY DEF Polls
  <2> QED BY <1>1, <2>1, <2>2, TimerType
<1>6. /\ timers \subseteq AllTimers
      /\ \A x \in timers : x.start <= downloads /\ (controller = "CBR" <=> x.chunk = 0)
  BY DEF Inv, TimersInv
<1>7. ASSUME controller # "CBR" PROVE Timed(events, p, s)
  <2>1. \A f \in Faces, k \in Chunks : Timer(f, p, k, d) \notin events
    <3>1. ASSUME NEW f \in Faces, NEW k \in Chunks PROVE Timer(f, p, k, d) \notin timers
      <4>1. Timer(f, p, k, d).start = d
        BY DEF Timer
      <4> QED BY <4>1, <1>1, <1>6
    <3> QED BY <3>1, <1>5, <1>7
  <2> QED BY <2>1, <1>4 DEF Timed
<1>8. /\ events \in SUBSET AllTimers
      /\ \A x \in events : x.start <= d /\ (controller = "CBR" <=> x.chunk = 0)
      /\ \A x \in AllTimers : x.port # p => (x \in events <=> x \in timers)
  <2>1. AllTimers = [ifid : Faces, port : Ports, chunk : 0..LastChunk, start : 1..MaxDownloads]
    BY DEF AllTimers
  <2>2. \A x \in AllTimers : x.start \in Nat
    BY <2>1, LimitAssumption
  <2>3. \A x \in timers : x.start <= d
    BY <1>1, <1>6, <2>2
  <2> QED BY <1>1, <1>5, <1>6, <2>3
<1>9. pending \in SUBSET (Chunks \X Ports)
  BY DEF Inv, PendingInv
<1>10. d \in downloads..MaxDownloads /\ s.start \in 1..d
  BY <1>1, <1>4
<1> HIDE DEF s, events, d
<1>11. Prepared(p, s, pending, events, d)
  BY <1>4, <1>7, <1>8, <1>9, <1>10 DEF Prepared
<1> QED BY <1>1, <1>3, <1>11, MoreSent

-----------------------------------------------------------------------------
(* A handler that asks for nothing keeps the invariant when it treats the  *)
(* sockets and timers that it leaves rightly.                              *)
LEMMA NothingSent ==
    ASSUME Inv, NEW ns, NEW T,
           controller' = controller, downloads' = downloads, sockets' = ns, timers' = T,
           suppressed' \in 0..MaxSuppressed, pending' \subseteq pending,
           DOMAIN ns \subseteq Open, T \subseteq timers,
           \A q \in DOMAIN ns : SocketInv(controller, ns[q]) /\ ns[q].start \in 1..downloads,
           controller # "CBR" => \A q \in DOMAIN ns : Timed(T, q, ns[q])
    PROVE  Inv'
<1>1. SocketsInv'
  BY DEF Inv, SocketsInv, Open
<1>2. TimersInv' /\ PendingInv'
  BY DEF Inv, TimersInv, PendingInv
<1>3. AllTimed'
  BY DEF AllTimed, Open
<1> QED BY <1>1, <1>2, <1>3 DEF Inv

(* What holds of the sockets that are open, one by one.                    *)
LEMMA OpenInv ==
    ASSUME Inv
    PROVE  \A q \in Open : /\ q \in Ports /\ SocketInv(controller, sockets[q])
                           /\ sockets[q].start \in 1..downloads
                           /\ controller # "CBR" => Timed(timers, q, sockets[q])
BY DEF Inv, SocketsInv, AllTimed

LEMMA ExpireInv == ASSUME Inv, NEW e \in pending, Expire(e) PROVE Inv'
<1>1. /\ controller' = controller /\ downloads' = downloads /\ sockets' = sockets
      /\ timers' = timers /\ suppressed' \in 0..MaxSuppressed /\ pending' \subseteq pending
  BY DEF Expire, Inv, PendingInv
<1>2. DOMAIN sockets \subseteq Open
  BY DEF Open
<1> QED BY <1>1, <1>2, OpenInv, NothingSent DEF Open

(* The data of a chunk: all other missing chunks are accounted for as they *)
(* were.                                                                   *)
LEMMA DataInv ==
    ASSUME Inv, NEW f \in Faces, NEW k \in Chunks, NEW p \in Ports, Data(f, k, p)
    PROVE  Inv'
<1> DEFINE pit == pending \ {<<k, p>>}
<1>1. /\ controller' = controller /\ downloads' = downloads /\ downloads \in 0..MaxDownloads
      /\ suppressed \in 0..MaxSuppressed
  BY DEF Data, Inv, SocketsInv, PendingInv
<1>2. CASE p \notin Open
  <2>1. sockets' = sockets /\ timers' = timers /\ pending' \subseteq pending
        /\ suppressed' = suppressed
    BY <1>2 DEF Data
  <2> QED BY <1>1, <2>1, OpenInv, NothingSent DEF Open
<1>3. CASE p \in Open
  <2>1. PICK s \in WithChunk(sockets[p], f, k) :
             \/ /\ Finished(s)
                /\ sockets' = [q \in Open \ {p} |-> sockets[q]]
                /\ pending' = pit
                /\ UNCHANGED <<timers, suppressed>>
             \/ /\ ~Finished(s) /\ controller = "CBR"
                /\ sockets' = [sockets EXCEPT ![p] = s]
                /\ pending' = pit
                /\ UNCHANGED <<timers, suppressed>>
             \/ /\ ~Finished(s) /\ controller # "CBR"
                /\ SendMore(sockets, p, s, pit, timers)
    BY <1>3 DEF Data
  <2> DEFINE old == sockets[p]
  <2>2. /\ SocketInv(controller, old) /\ old.start \in 1..downloads
        /\ controller # "CBR" => Timed(timers, p, old)
    BY <1>3, OpenInv
  <2> HIDE DEF old
  <2>3. s \in WithChunk(old, f, k)
    BY DEF old
  <2>4. /\ SocketInv(controller, s)
        /\ s.start = old.start /\ s.received = old.received \cup {k}
        /\ \A g \in Faces, j \in Chunks \ s.received : j \in s.win[g] <=> j \in old.win[g]
    BY <2>2, <2>3, WithChunkInv
  <2>5. s.start \in 1..downloads
    BY <2>2, <2>4
  <2>6. ASSUME controller # "CBR" PROVE Timed(timers, p, s)
    BY <2>2, <2>4, <2>6 DEF Timed
  <2>7. CASE Finished(s)
    <3> DEFINE ns == [q \in Open \ {p} |-> sockets[q]]
    <3>1. /\ sockets' = ns /\ timers' = timers /\ suppressed' = suppressed
          /\ pending' \subseteq pending
      BY <2>1, <2>7
    <3>2. DOMAIN ns \subseteq Open /\ \A q \in DOMAIN ns : ns[q] = sockets[q]
      OBVIOUS
    <3> HIDE DEF ns
    <3> QED BY <1>1, <3>1, <3>2, OpenInv, NothingSent
  <2>8. CASE ~Finished(s) /\ controller = "CBR"
    <3> DEFINE ns == [sockets EXCEPT ![p] = s]
    <3>1. /\ sockets' = ns /\ timers' = timers /\ suppressed' = suppressed
          /\ pending' \subseteq pending
      BY <2>1, <2>8
    <3>2. /\ DOMAIN ns = Open /\ ns[p] = s
          /\ \A q \in DOMAIN ns : q # p => ns[q] = sockets[q]
      BY <1>3 DEF Open
    <3> HIDE DEF ns
    <3>3. \A q \in DOMAIN ns : SocketInv(controller, ns[q]) /\ ns[q].start \in 1..downloads
      BY <2>4, <2>5, <3>2, OpenInv
    <3> QED BY <1>1, <2>8, <3>1, <3>2, <3>3, NothingSent
  <2>9. CASE ~Finished(s) /\ controller # "CBR"
    <3>1. PICK a \in Allotments(s) : \E S \in Suppressions(p, a, pit) :
            /\ sockets' = [q \in DOMAIN sockets \cup {p} |->
                  IF q = p THEN Requested(s, a, S) ELSE sockets[q]]
            /\ pending' = pit \cup {<<j, p>> : j \in Allotted(a) \ S}
            /\ suppressed' = suppressed + Cardinality(S \ Own(p, a, pit))
            /\ timers' = timers \cup NewTimers(p, s, a)
      BY <2>1, <2>9 DEF SendMore
    <3>2. PICK S \in Suppressions(p, a, pit) :
            /\ sockets' = [q \in DOMAIN sockets \cup {p} |->
                  IF q = p THEN Requested(s, a, S) ELSE sockets[q]]
            /\ pending' = pit \cup {<<j, p>> : j \in Allotted(a) \ S}
            /\ suppressed' = suppressed + Cardinality(S \ Own(p, a, pit))
            /\ timers' = timers \cup NewTimers(p, s, a)
      BY <3>1
    <3>3. pit \in SUBSET (Chunks \X Ports)
      BY DEF Inv, PendingInv
    <3> HIDE DEF pit
    <3>4. /\ timers \in SUBSET AllTimers
          /\ \A x \in timers : x.start <= downloads /\ (controller = "CBR" <=> x.chunk = 0)
      BY DEF Inv, TimersInv
    <3>5. downloads \in downloads..MaxDownloads
      BY <1>1, LimitAssumption
    <3>6. Prepared(p, s, pit, timers, downloads)
      BY <2>4, <2>5, <2>6, <3>3, <3>4, <3>5 DEF Prepared
    <3> QED BY <1>1, <3>2, <3>6, MoreSent
  <2> QED BY <2>1, <2>7, <2>8, <2>9
<1> QED BY <1>2, <1>3

(* A timer that fires was the only one of its chunk, which is then not in  *)
(* the window any more, or has arrived, or was of an earlier socket.       *)
LEMMA FiredTimed ==
    ASSUME Inv, NEW x \in timers, x.chunk # 0, x.port \in Open,
           NEW s \in IF IsTimeout(sockets[x.port], x)
                     THEN TimedOut(sockets[x.port], x) ELSE {sockets[x.port]}
    PROVE  /\ SocketInv(controller, s) /\ s.start \in 1..downloads
           /\ Timed(timers \ {x}, x.port, s)
<1> DEFINE p == x.port
           old == sockets[p]
<1>1. x \in AllTimers /\ x.chunk \in Chunks /\ controller # "CBR"
  BY ChunksAssumption DEF Inv, TimersInv, AllTimers, Chunks
<1>2. /\ SocketInv(controller, old) /\ old.start \in 1..downloads
      /\ Timed(timers, p, old)
  BY <1>1, OpenInv
<1>3. x = Timer(x.ifid, p, x.chunk, x.start) /\ x.ifid \in Faces
  BY <1>1 DEF AllTimers, Timer
<1>4. s \in IF IsTimeout(old, x) THEN TimedOut(old, x) ELSE {old}
  OBVIOUS
<1> HIDE DEF old, p
<1>5. ASSUME NEW g \in Faces, NEW j \in Chunks
      PROVE  Timer(g, p, j, old.start) = x
               <=> g = x.ifid /\ j = x.chunk /\ old.start = x.start
  BY <1>3 DEF Timer
<1>6. CASE IsTimeout(old, x)
  <2>1. /\ SocketInv(controller, s)
        /\ s.start = old.start /\ s.received = old.received
        /\ \A g \in Faces, j \in Chunks \ s.received :
              j \in s.win[g] <=> j \in old.win[g] /\ ~(g = x.ifid /\ j = x.chunk)
    BY <1>1, <1>2, <1>4, <1>6, TimedOutInv
  <2>2. old.start = x.start
    BY <1>6 DEF IsTimeout
  <2>3. Timed(timers \ {x}, p, s)
    BY <1>2, <1>5, <2>1, <2>2 DEF Timed
  <2> QED BY <1>2, <2>1, <2>3 DEF p
<1>7. CASE ~IsTimeout(old, x)
  <2>1. s = old
    BY <1>4, <1>7
  <2>2. Timed(timers \ {x}, p, old)
    BY <1>2, <1>5, <1>7 DEF Timed, IsTimeout
  <2> QED BY <1>2, <2>1, <2>2 DEF p
<1> QED BY <1>6, <1>7

(* The timers of the sockets of the other ports, and of no socket, stay.   *)
LEMMA FireInv == ASSUME Inv, NEW x \in timers, Fire(x) PROVE Inv'
<1> DEFINE p == x.port
           events == timers \ {x}
<1>1. /\ controller' = controller /\ downloads' = downloads /\ downloads \in 0..MaxDownloads
      /\ suppressed \in 0..MaxSuppressed /\ x.chunk # 0
      /\ x \in AllTimers /\ p \in Ports /\ events \subseteq timers
  BY DEF Fire, Inv, SocketsInv, PendingInv, TimersInv, AllTimers
<1>2. ASSUME NEW q \in Ports, q # p, Timed(timers, q, sockets[q])
      PROVE  Timed(events, q, sockets[q])
  <2>1. \A f \in Faces, k \in Chunks : Timer(f, q, k, sockets[q].start) # x
    BY <1>2 DEF Timer
  <2> QED BY <1>2, <2>1 DEF Timed
<1>3. CASE p \notin Open
  <2>1. sockets' = sockets /\ timers' = events /\ pending' \subseteq pending
        /\ suppressed' = suppressed
    BY <1>3 DEF Fire
  <2>2. ASSUME controller # "CBR", NEW q \in Open PROVE Timed(events, q, sockets[q])
    BY <1>2, <1>3, <2>2, OpenInv
  <2> HIDE DEF events
  <2> QED BY <1>1, <2>1, <2>2, OpenInv, NothingSent DEF Open
<1>4. CASE p \in Open
  <2>1. PICK s \in (IF IsTimeout(sockets[p], x) THEN TimedOut(sockets[p], x) ELSE {sockets[p]}) :
             \/ /\ s.aborted
                /\ sockets' = [sockets EXCEPT ![p] = s]
                /\ timers' = events
                /\ UNCHANGED <<pending, suppressed>>
             \/ /\ ~s.aborted
                /\ SendMore(sockets, p, s, pending, events)
    BY <1>4 DEF Fire
  <2>2. SocketInv(controller, s) /\ s.start \in 1..downloads /\ Timed(events, p, s)
    BY <1>1, <1>4, <2>1, FiredTimed
  <2>3. CASE s.aborted /\ sockets' = [sockets EXCEPT ![p] = s] /\ timers' = events
             /\ UNCHANGED <<pending, suppressed>>
    <3> DEFINE ns == [sockets EXCEPT ![p] = s]
    <3>1. /\ DOMAIN ns = Open /\ ns[p] = s
          /\ \A q \in DOMAIN ns : q # p => ns[q] = sockets[q]
      BY <1>4 DEF Open
    <3>2. sockets' = ns /\ timers' = events
      BY <2>3
    <3> HIDE DEF ns
    <3>3. \A q \in DOMAIN ns : SocketInv(controller, ns[q]) /\ ns[q].start \in 1..downloads
      BY <2>2, <3>1, OpenInv
    <3>4. ASSUME controller # "CBR", NEW q \in DOMAIN ns PROVE Timed(events, q, ns[q])
      BY <1>2, <2>2, <3>1, <3>4, OpenInv
    <3> HIDE DEF events
    <3> QED BY <1>1, <2>3, <3>1, <3>2, <3>3, <3>4, NothingSent
  <2>4. CASE SendMore(sockets, p, s, pending, events)
    <3>1. PICK a \in Allotments(s) : \E S \in Suppressions(p, a, pending) :
            /\ sockets' = [q \in DOMAIN sockets \cup {p} |->
                  IF q = p THEN Requested(s, a, S) ELSE sockets[q]]
            /\ pending' = pending \cup {<<j, p>> : j \in Allotted(a) \ S}
            /\ suppressed' = suppressed + Cardinality(S \ Own(p, a, pending))
            /\ timers' = events \cup NewTimers(p, s, a)
      BY <2>4 DEF SendMore
    <3>2. PICK S \in Suppressions(p, a, pending) :
            /\ sockets' = [q \in DOMAIN sockets \cup {p} |->
                  IF q = p THEN Requested(s, a, S) ELSE sockets[q]]
            /\ pending' = pending \cup {<<j, p>> : j \in Allotted(a) \ S}
            /\ suppressed' = suppressed + Cardinality(S \ Own(p, a, pending))
            /\ timers' = events \cup NewTimers(p, s, a)
      BY <3>1
    <3>3. /\ events \in SUBSET AllTimers
          /\ \A t \in events : t.start <= downloads /\ (controller = "CBR" <=> t.chunk = 0)
          /\ \A t \in AllTimers : t.port # p => (t \in events <=> t \in timers)
      BY DEF Inv, TimersInv
    <3>4. downloads \in downloads..MaxDownloads /\ pending \in SUBSET (Chunks \X Ports)
      BY <1>1, LimitAssumption DEF Inv, PendingInv
    <3> HIDE DEF events
    <3>5. Prepared(p, s, pending, events, downloads)
      BY <2>2, <3>3, <3>4 DEF Prepared
    <3> QED BY <1>1, <3>2, <3>5, MoreSent
  <2> QED BY <2>1, <2>3, <2>4
<1> QED BY <1>3, <1>4

(* A turn at constant rate: there are no timers but turns to keep.         *)
LEMMA PollInv == ASSUME Inv, NEW x \in timers, Poll(x) PROVE Inv'
<1> DEFINE p == x.port
           s == sockets[p]
           events == (timers \ {x}) \cup {Timer(x.ifid, p, 0, s.start)}
<1>1. /\ controller' = controller /\ downloads' = downloads /\ downloads \in 0..MaxDownloads
      /\ x.chunk = 0 /\ x \in AllTimers /\ p \in Ports /\ p \in Open /\ controller = "CBR"
  BY DEF Poll, Inv, SocketsInv, TimersInv, AllTimers
<1>2. CASE \E a \in Allotments(s) : \E S \in Suppressions(p, a, pending) :
                /\ S = Allotted(a)
                /\ sockets' = [q \in Open \ {p} |-> sockets[q]]
                /\ timers' = timers \ {x}
                /\ suppressed' = suppressed + Cardinality(S \ Own(p, a, pending))
                /\ UNCHANGED pending
  <2> DEFINE ns == [q \in Open \ {p} |-> sockets[q]]
             T == timers \ {x}
  <2>1. PICK a \in Allotments(s) : \E S \in Suppressions(p, a, pending) :
                suppressed' = suppressed + Cardinality(S \ Own(p, a, pending))
    BY <1>2
  <2>2. PICK S \in Suppressions(p, a, pending) :
                suppressed' = suppressed + Cardinality(S \ Own(p, a, pending))
    BY <2>1
  <2>3. PendingInv
    BY DEF Inv
  <2>4. suppressed' \in 0..MaxSuppressed
    BY <1>1, <2>2, <2>3, SuppressedType
  <2>5. /\ sockets' = ns /\ timers' = T /\ pending' \subseteq pending /\ T \subseteq timers
        /\ DOMAIN ns \subseteq Open /\ \A q \in DOMAIN ns : ns[q] = sockets[q]
    BY <1>2
  <2> HIDE DEF ns, T
  <2> QED BY <1>1, <2>4, <2>5, OpenInv, NothingSent
<1>3. CASE SendMore(sockets, p, s, pending, events)
  <2>1. SocketInv(controller, s) /\ s.start \in 1..downloads
    BY <1>1, OpenInv
  <2>2. /\ Timer(x.ifid, p, 0, s.start) \in AllTimers
        /\ Timer(x.ifid, p, 0, s.start).port = p /\ Timer(x.ifid, p, 0, s.start).chunk = 0
        /\ Timer(x.ifid, p, 0, s.start).start = s.start
    <3>1. x.ifid \in Faces /\ 0 \in 0..LastChunk /\ s.start \in 1..MaxDownloads
      BY <1>1, <2>1, ChunksAssumption, LimitAssumption DEF AllTimers
    <3> HIDE DEF s
    <3> QED BY <1>1, <3>1, TimerType
  <2>3. /\ events \in SUBSET AllTimers
        /\ \A t \in events : t.start <= downloads /\ (controller = "CBR" <=> t.chunk = 0)
        /\ \A t \in AllTimers : t.port # p => (t \in events <=> t \in timers)
    <3>1. \A t \in timers : t \in AllTimers /\ t.start <= downloads /\ t.chunk = 0
      BY <1>1 DEF Inv, TimersInv
    <3>2. s.start <= downloads
      BY <1>1, <2>1
    <3> HIDE DEF s
    <3> QED BY <1>1, <2>2, <3>1, <3>2
  <2>4. downloads \in downloads..MaxDownloads /\ pending \in SUBSET (Chunks \X Ports)
    BY <1>1, LimitAssumption DEF Inv, PendingInv
  <2>5. PICK a \in Allotments(s) : \E S \in Suppressions(p, a, pending) :
          /\ sockets' = [q \in DOMAIN sockets \cup {p} |->
                IF q = p THEN Requested(s, a, S) ELSE sockets[q]]
          /\ pending' = pending \cup {<<j, p>> : j \in Allotted(a) \ S}
          /\ suppressed' = suppressed + Cardinality(S \ Own(p, a, pending))
          /\ timers' = events \cup NewTimers(p, s, a)
    BY <1>3 DEF SendMore
  <2>6. PICK S \in Suppressions(p, a, pending) :
          /\ sockets' = [q \in DOMAIN sockets \cup {p} |->
                IF q = p THEN Requested(s, a, S) ELSE sockets[q]]
          /\ pending' = pending \cup {<<j, p>> : j \in Allotted(a) \ S}
          /\ suppressed' = suppressed + Cardinality(S \ Own(p, a, pending))
          /\ timers' = events \cup NewTimers(p, s, a)
    BY <2>5
  <2> HIDE DEF events, s
  <2>7. Prepared(p, s, pending, events, downloads)
    BY <1>1, <2>1, <2>3, <2>4 DEF Prepared
  <2> QED BY <1>1, <2>6, <2>7, MoreSent
<1> QED BY <1>2, <1>3 DEF Poll

-----------------------------------------------------------------------------
LEMMA InductiveInv == Inv /\ [Next]_vars => Inv'
<1> SUFFICES ASSUME Inv, [Next]_vars PROVE Inv'
  OBVIOUS
<1>1. ASSUME NEW p \in Ports, OpenSocket(p) PROVE Inv'
  BY <1>1, OpenSocketInv
<1>2. ASSUME NEW f \in Faces, NEW k \in Chunks, NEW p \in Ports, Data(f, k, p) PROVE Inv'
  BY <1>2, DataInv
<1>3. ASSUME NEW t \in timers, Fire(t) PROVE Inv'
  BY <1>3, FireInv
<1>4. ASSUME NEW t \in timers, Poll(t) PROVE Inv'
  BY <1>4, PollInv
<1>5. ASSUME NEW e \in pending, Expire(e) PROVE Inv'
  BY <1>5, ExpireInv
<1>6. CASE UNCHANGED vars
  BY <1>6 DEF vars, Inv, SocketsInv, TimersInv, PendingInv, AllTimed, Open
<1> QED BY <1>1, <1>2, <1>3, <1>4, <1>5, <1>6 DEF Next

(* The invariant of the receiver: the sockets, their timers and the PIT    *)
(* entries agree in every reachable state.                                 *)
THEOREM Invariance == Spec => []Inv
BY InitInv, InductiveInv, PTL DEF Spec

(* The state keeps its types; a window never shrinks to nothing.           *)
THEOREM ReceiverTypeOK == Spec => []TypeOK
<1>1. Inv => TypeOK
  BY DEF Inv, SocketsInv, TimersInv, PendingInv, SocketInv, TypeOK
<1> QED BY <1>1, Invariance, PTL

(* The count of chunks of the current window never reaches the window, so  *)
(* that a window that adapts can always grow (FlowControllerAIMD.cc).      *)
THEOREM WindowsGrow == Spec => []WindowCanGrow
<1>1. Inv => WindowCanGrow
  BY OpenInv DEF SocketInv, WindowInv, WindowCanGrow
<1> QED BY <1>1, Invariance, PTL

(* A missing chunk has a timer of its own socket exactly while it is in a  *)
(* window (set_interest_timer, receiver_TO).                               *)
THEOREM TimersRight == Spec => []TimerWhileWaiting
<1>1. ASSUME Inv PROVE TimerWhileWaiting
  <2>1. ASSUME NEW p \in Open, controller # "CBR", NEW f \in Faces,
               NEW k \in Chunks \ sockets[p].received
        PROVE  k \in sockets[p].win[f] <=> Timer(f, p, k, sockets[p].start) \in timers
    BY <1>1, <2>1, OpenInv DEF Timed
  <2>2. ASSUME NEW p \in Open, controller = "CBR", NEW f \in Faces,
               NEW k \in Chunks \ sockets[p].received
        PROVE  k \notin sockets[p].win[f] /\ Timer(f, p, k, sockets[p].start) \notin timers
    <3>1. k \notin sockets[p].win[f]
      BY <1>1, <2>2, OpenInv DEF SocketInv
    <3>2. Timer(f, p, k, sockets[p].start).chunk = k /\ k # 0
      BY ChunksAssumption DEF Timer, Chunks
    <3>3. \A t \in timers : t.chunk = 0
      BY <1>1, <2>2 DEF Inv, TimersInv
    <3> QED BY <3>1, <3>2, <3>3
  <2> QED BY <2>1, <2>2 DEF TimerWhileWaiting
<1> QED BY <1>1, Invariance, PTL

(* A set that holds at most one element, counted.                          *)
LEMMA AtMostOne ==
    ASSUME NEW Q, \A x, y \in Q : x = y
    PROVE  Cardinality(Q) = IF Q = {} THEN 0 ELSE 1
<1>1. CASE Q = {}
  BY <1>1, FS_EmptySet
<1>2. CASE Q # {}
  <2>1. PICK x : x \in Q
    BY <1>2
  <2>2. Q = {x}
    BY <2>1
  <2>3. Cardinality({x}) = 1
    BY FS_Singleton
  <2> QED BY <1>2, <2>2, <2>3
<1> QED BY <1>1, <1>2

(* No missing chunk is forgotten and none is held twice, by the windows or *)
(* by the chunks to ask for again (FlowControllerAIMD.cc, Socket.cc).      *)
THEOREM NoChunkForgotten == Spec => []ChunkAccounted
<1>1. ASSUME Inv, controller # "CBR", NEW p \in Open, NEW k \in Chunks \ sockets[p].received
      PROVE  Cardinality({f \in Faces : k \in sockets[p].win[f]})
               + Cardinality({f \in Faces : k \in sockets[p].reissue[f]})
               + (IF k \in sockets[p].notreq THEN 1 ELSE 0) = 1
  <2> DEFINE s == sockets[p]
             W == {f \in Faces : k \in s.win[f]}
             R == {f \in Faces : k \in s.reissue[f]}
  <2>1. Accounted(s, k)
    BY <1>1, OpenInv DEF SocketInv
  <2>2. \A f, g \in W \cup R : f = g
    BY <2>1 DEF Accounted, Holds
  <2>3. W \cap R = {} /\ (k \in s.notreq <=> W = {} /\ R = {})
    BY <2>1 DEF Accounted, Holds
  <2> HIDE DEF W, R
  <2>4. W = {} \/ R = {}
    <3> SUFFICES ASSUME NEW f \in W, NEW g \in R PROVE FALSE
      OBVIOUS
    <3> QED BY <2>2, <2>3
  <2>5. /\ Cardinality(W) = IF W = {} THEN 0 ELSE 1
        /\ Cardinality(R) = IF R = {} THEN 0 ELSE 1
    <3>1. \A f, g \in W : f = g
      BY <2>2
    <3>2. \A f, g \in R : f = g
      BY <2>2
    <3>3. Cardinality(W) = IF W = {} THEN 0 ELSE 1
      BY <3>1, AtMostOne
    <3>4. Cardinality(R) = IF R = {} THEN 0 ELSE 1
      BY <3>2, AtMostOne
    <3> QED BY <3>3, <3>4
  <2>6. Cardinality(W) + Cardinality(R) + (IF k \in s.notreq THEN 1 ELSE 0) = 1
    <3>1. CASE W = {} /\ R = {}
      BY <3>1, <2>3, <2>5
    <3>2. CASE W # {}
      BY <3>2, <2>3, <2>4, <2>5
    <3>3. CASE R # {}
      BY <3>3, <2>3, <2>4, <2>5
    <3> QED BY <3>1, <3>2, <3>3
  <2> QED BY <2>6 DEF W, R
<1>2. Inv => ChunkAccounted
  BY <1>1 DEF ChunkAccounted
<1> QED BY <1>2, Invariance, PTL

-----------------------------------------------------------------------------
(* With one interface, a socket at constant rate has one turn ahead: the   *)
(* handler that uses its turn schedules the next or closes the socket.     *)
Turns(p) == {t \in timers : t.port = p /\ t.chunk = 0}

TurnInv(f) ==
    controller = "CBR" => \A p \in Ports :
        Turns(p) = IF p \in Open THEN {Timer(f, p, 0, sockets[p].start)} ELSE {}

LEMMA TurnsOne ==
    ASSUME NEW f, Faces = {f}, Inv, TurnInv(f)
    PROVE  OneTurnAhead
<1>1. Cardinality(Faces) = 1 /\ Cardinality({}) = 0
  BY FS_Singleton, FS_EmptySet
<1>2. ASSUME NEW p \in Ports
      PROVE  Cardinality(Turns(p)) =
               IF controller = "CBR" /\ p \in Open THEN Cardinality(Faces) ELSE 0
  <2>1. CASE controller = "CBR" /\ p \in Open
    <3>1. Turns(p) = {Timer(f, p, 0, sockets[p].start)}
      BY <2>1 DEF TurnInv
    <3>2. Cardinality({Timer(f, p, 0, sockets[p].start)}) = 1
      BY FS_Singleton
    <3> QED BY <1>1, <2>1, <3>1, <3>2
  <2>2. CASE controller = "CBR" /\ p \notin Open
    <3>1. Turns(p) = {}
      BY <2>2 DEF TurnInv
    <3> QED BY <1>1, <2>2, <3>1
  <2>3. CASE controller # "CBR"
    <3>1. Turns(p) = {}
      BY <2>3 DEF Turns, Inv, TimersInv
    <3> QED BY <1>1, <2>3, <3>1
  <2> QED BY <2>1, <2>2, <2>3
<1> QED BY <1>2 DEF OneTurnAhead, Turns

(* A handler that asks for more at constant rate adds no timers.           *)
LEMMA RequestedAtRate ==
    ASSUME controller = "CBR", NEW p, NEW s \in Socket, NEW a, NEW S
    PROVE  Requested(s, a, S).start = s.start /\ NewTimers(p, s, a) = {}
BY DEF Requested, NewTimers, Socket

LEMMA TurnsStep ==
    ASSUME NEW f, Faces = {f}, Inv, TurnInv(f), [Next]_vars
    PROVE  TurnInv(f)'
<1> SUFFICES ASSUME controller' = "CBR"
             PROVE  \A q \in Ports : Turns(q)' =
                      IF q \in Open' THEN {Timer(f, q, 0, sockets'[q].start)} ELSE {}
  BY DEF TurnInv
<1>0. controller = "CBR"
  BY DEF Next, OpenSocket, Data, Fire, Poll, Expire, vars
<1>t. \A q \in Ports :
         Turns(q) = IF q \in Open THEN {Timer(f, q, 0, sockets[q].start)} ELSE {}
  BY <1>0 DEF TurnInv
<1>1. ASSUME NEW p \in Ports, OpenSocket(p)
      PROVE  \A q \in Ports : Turns(q)' =
               IF q \in Open' THEN {Timer(f, q, 0, sockets'[q].start)} ELSE {}
  <2> DEFINE s == NewSocket(downloads + 1)
             N == {Timer(f, p, 0, downloads + 1)}
  <2>1. p \notin Open /\ downloads' = downloads + 1 /\ downloads \in Nat
    BY <1>1, LimitAssumption DEF OpenSocket, LowestFree, Inv, SocketsInv
  <2>2. s \in Socket /\ s.start = downloads + 1
    BY <2>1, NewSocketInv DEF SocketInv, NewSocket
  <2>3. Polls(p, downloads + 1) = N
    BY <1>0 DEF Polls
  <2>4. PICK a \in Allotments(s) : \E S \in Suppressions(p, a, pending) :
          /\ sockets' = [q \in DOMAIN sockets \cup {p} |->
                IF q = p THEN Requested(s, a, S) ELSE sockets[q]]
          /\ timers' = (timers \cup Polls(p, downloads + 1)) \cup NewTimers(p, s, a)
    BY <1>1, <2>1 DEF OpenSocket, SendMore
  <2>5. PICK S : /\ sockets' = [q \in DOMAIN sockets \cup {p} |->
                         IF q = p THEN Requested(s, a, S) ELSE sockets[q]]
                 /\ timers' = (timers \cup Polls(p, downloads + 1)) \cup NewTimers(p, s, a)
    BY <2>4
  <2> HIDE DEF s
  <2>6. Requested(s, a, S).start = downloads + 1 /\ NewTimers(p, s, a) = {}
    BY <1>0, <2>2, RequestedAtRate
  <2>7. timers' = timers \cup N /\ sockets'[p].start = downloads + 1
        /\ Open' = Open \cup {p} /\ \A q \in Open \ {p} : sockets'[q] = sockets[q]
    BY <2>3, <2>5, <2>6 DEF Open
  <2>8. \A x \in N : x.port = p /\ x.chunk = 0
    BY DEF Timer
  <2>9. \A q \in Ports : Turns(q)' = Turns(q) \cup {x \in N : q = p}
    BY <2>7, <2>8 DEF Turns
  <2> QED BY <1>t, <2>1, <2>7, <2>9
<1>2. ASSUME NEW g \in Faces, NEW k \in Chunks, NEW p \in Ports, Data(g, k, p)
      PROVE  \A q \in Ports : Turns(q)' =
               IF q \in Open' THEN {Timer(f, q, 0, sockets'[q].start)} ELSE {}
  <2>1. timers' = timers
    BY <1>0, <1>2 DEF Data, Finished
  <2>2. CASE p \notin Open
    <3>1. sockets' = sockets
      BY <1>2, <2>2 DEF Data
    <3> QED BY <1>t, <2>1, <3>1 DEF Turns, Open
  <2>3. CASE p \in Open
    <3>1. PICK s \in WithChunk(sockets[p], g, k) : sockets' = [sockets EXCEPT ![p] = s]
      BY <1>0, <1>2, <2>3 DEF Data, Finished
    <3>2. SocketInv(controller, sockets[p])
      BY <2>3, OpenInv
    <3>3. s.start = sockets[p].start
      BY <3>1, <3>2, WithChunkInv
    <3>4. Open' = Open /\ \A q \in Open : sockets'[q].start = sockets[q].start
      BY <2>3, <3>1, <3>3 DEF Open
    <3> QED BY <1>t, <2>1, <3>4 DEF Turns
  <2> QED BY <2>2, <2>3
<1>3. ASSUME NEW x \in timers, Fire(x) PROVE FALSE
  BY <1>0, <1>3 DEF Fire, Inv, TimersInv
<1>4. ASSUME NEW x \in timers, Poll(x)
      PROVE  \A q \in Ports : Turns(q)' =
               IF q \in Open' THEN {Timer(f, q, 0, sockets'[q].start)} ELSE {}
  <2> DEFINE p == x.port
             s == sockets[p]
             n == Timer(x.ifid, p, 0, s.start)
  <2>1. p \in Open /\ p \in Ports /\ s \in Socket /\ x.chunk = 0
    BY <1>4, OpenInv DEF Poll, SocketInv
  <2>2. x \in Turns(p)
    BY <2>1 DEF Turns
  <2>3. x.ifid = f /\ x = Timer(f, p, 0, s.start)
    <3>1. x = Timer(f, p, 0, s.start)
      BY <1>t, <2>1, <2>2
    <3> QED BY <3>1 DEF Timer
  <2>4. CASE sockets' = [q \in Open \ {p} |-> sockets[q]] /\ timers' = timers \ {x}
    <3>1. \A q \in Ports : Turns(q)' = Turns(q) \ {y \in {x} : q = p}
      BY <2>4 DEF Turns
    <3>2. Open' = Open \ {p} /\ \A q \in Open' : sockets'[q] = sockets[q]
      BY <2>4 DEF Open
    <3>3. \A q \in Ports : Turns(q)' = IF q = p THEN {} ELSE Turns(q)
      BY <1>t, <2>1, <2>3, <3>1
    <3> QED BY <1>t, <2>1, <3>2, <3>3
  <2>5. CASE SendMore(sockets, p, s, pending, (timers \ {x}) \cup {n})
    <3>1. PICK a, S : /\ sockets' = [q \in DOMAIN sockets \cup {p} |->
                              IF q = p THEN Requested(s, a, S) ELSE sockets[q]]
                      /\ timers' = ((timers \ {x}) \cup {n}) \cup NewTimers(p, s, a)
      BY <2>5 DEF SendMore
    <3> HIDE DEF s
    <3>2. Requested(s, a, S).start = s.start /\ NewTimers(p, s, a) = {}
      BY <1>0, <2>1, RequestedAtRate
    <3>3. timers' = timers
      BY <2>3, <3>1, <3>2
    <3>4. Open' = Open /\ \A q \in Open : sockets'[q].start = sockets[q].start
      BY <2>1, <3>1, <3>2 DEF Open, s
    <3> QED BY <1>t, <3>3, <3>4 DEF Turns
  <2>6. \/ sockets' = [q \in Open \ {p} |-> sockets[q]] /\ timers' = timers \ {x}
        \/ SendMore(sockets, p, s, pending, (timers \ {x}) \cup {n})
    BY <1>4 DEF Poll
  <2> QED BY <2>4, <2>5, <2>6
<1>5. ASSUME UNCHANGED <<sockets, timers>>
      PROVE  \A q \in Ports : Turns(q)' =
               IF q \in Open' THEN {Timer(f, q, 0, sockets'[q].start)} ELSE {}
  BY <1>t, <1>5 DEF Turns, Open
<1>6. ASSUME NEW e \in pending, Expire(e) PROVE UNCHANGED <<sockets, timers>>
  BY <1>6 DEF Expire
<1>7. CASE UNCHANGED vars
  BY <1>5, <1>7 DEF vars
<1> QED BY <1>1, <1>2, <1>3, <1>4, <1>5, <1>6, <1>7 DEF Next

(* With one interface the handler of a turn (receiver_CBR) always finds    *)
(* its socket; with two, the model checker shows that it may not.          *)
THEOREM OneTurn ==
    ASSUME NEW f, Faces = {f}
    PROVE  Spec => []OneTurnAhead
<1>1. Init => TurnInv(f)
  BY DEF Init, TurnInv, Turns, Open
<1>2. Inv /\ TurnInv(f) /\ [Next]_vars => TurnInv(f)'
  BY TurnsStep
<1>3. Inv /\ TurnInv(f) => OneTurnAhead
  BY TurnsOne
<1> QED BY <1>1, <1>2, <1>3, Invariance, PTL DEF Spec

-----------------------------------------------------------------------------
(* No controller keeps a chunk that was received: with one interface the   *)
(* data of a chunk passes the controller that holds it.                    *)
Missing(f, s) == (s.win[f] \cup s.reissue[f]) \cap s.received = {}

MissingInv(f) == \A p \in Open : Missing(f, sockets[p])

LEMMA RequestedMissing ==
    ASSUME NEW s, SocketInv(controller, s),
           NEW a \in Allotments(s), NEW S \in SUBSET Allotted(a),
           NEW h \in Faces, Missing(h, s)
    PROVE  Missing(h, Requested(s, a, S))
<1>s. s \in Socket
  BY DEF SocketInv
<1> DEFINE t == Requested(s, a, S)
<1>1. /\ t \in Socket
      /\ t.start = s.start /\ t.received = s.received
      /\ t.notreq = Fresh(s) \ Allotted(a)
      /\ t.size = s.size /\ t.filled = s.filled
      /\ \A f \in Faces : t.reissue[f] = s.reissue[f] \ a[f]
      /\ \A f \in Faces : t.win[f] = IF controller = "CBR" THEN {} ELSE s.win[f] \cup a[f]
      /\ \A k \in Chunks \ Allotted(a) : t.requests[k] = s.requests[k]
  BY <1>s, RequestedFields
<1>2. a[h] \cap s.received = {}
  <2>1. a[h] \subseteq s.reissue[h] \cup Fresh(s)
    BY DEF Allotments, Takes
  <2> QED BY <2>1 DEF Fresh, Missing
<1> HIDE DEF t
<1>3. Missing(h, t)
  BY <1>1, <1>2 DEF Missing
<1> QED BY <1>3 DEF t

LEMMA WithChunkMissing ==
    ASSUME NEW s, SocketInv(controller, s), NEW k \in Chunks,
           NEW f \in Faces, Missing(f, s), NEW t \in WithChunk(s, f, k)
    PROVE  Missing(f, t)
<1>s. s \in Socket /\ WindowInv(controller, s)
  BY DEF SocketInv
<1>0. ~(k \in s.win[f] /\ k \in s.reissue[f])
  <2>1. CASE k \in s.received
    BY <2>1 DEF Missing
  <2>2. CASE k \notin s.received
    BY <2>2 DEF SocketInv, Accounted
  <2> QED BY <2>1, <2>2
<1>1. PICK u \in Satisfied(s, f, k) : t = [u EXCEPT !.received = @ \cup {k}]
  BY DEF WithChunk
<1>2. /\ u \in Socket /\ u.received = s.received
      /\ u.win[f] = s.win[f] \ {k} /\ u.reissue[f] = s.reissue[f] \ {k}
  <2>1. CASE k \in s.reissue[f]
    <3>1. u = [s EXCEPT !.reissue[f] = @ \ {k}]
      BY <1>1, <2>1 DEF Satisfied
    <3>2. [s.reissue EXCEPT ![f] = @ \ {k}] \in [Faces -> SUBSET Chunks]
      BY <1>s DEF Socket
    <3>3. /\ u \in Socket /\ u.received = s.received /\ u.win = s.win
          /\ u.reissue = [s.reissue EXCEPT ![f] = @ \ {k}]
      BY <1>s, <3>1, <3>2 DEF Socket
    <3> QED BY <1>0, <1>s, <2>1, <3>3 DEF Socket
  <2>2. CASE k \notin s.reissue[f] /\ k \in s.win[f]
    <3> DEFINE v == [s EXCEPT !.win[f] = @ \ {k}]
    <3>1. [s.win EXCEPT ![f] = @ \ {k}] \in [Faces -> SUBSET Chunks]
      BY <1>s DEF Socket
    <3>2. /\ v \in Socket /\ v.win = [s.win EXCEPT ![f] = @ \ {k}]
          /\ v.received = s.received /\ v.reissue = s.reissue
          /\ v.size = s.size /\ v.filled = s.filled
      BY <1>s, <3>1 DEF Socket
    <3>3. u \in Adapted(v, f)
      BY <1>1, <2>2 DEF Satisfied
    <3> HIDE DEF v
    <3>4. WindowInv(controller, v)
      BY <1>s, <3>2 DEF WindowInv
    <3>5. u \in Socket /\ SameChunks(u, v)
      BY <3>2, <3>3, <3>4, AdaptedWindow
    <3> QED BY <1>s, <2>2, <3>2, <3>5 DEF SameChunks, Socket
  <2>3. CASE k \notin s.reissue[f] /\ k \notin s.win[f]
    BY <1>s, <1>1, <2>3 DEF Satisfied
  <2> QED BY <2>1, <2>2, <2>3
<1>3. /\ t.received = s.received \cup {k}
      /\ t.win[f] = s.win[f] \ {k} /\ t.reissue[f] = s.reissue[f] \ {k}
  BY <1>1, <1>2 DEF Socket
<1> QED BY <1>3 DEF Missing

LEMMA TimedOutMissing ==
    ASSUME NEW s, SocketInv(controller, s), NEW x \in AllTimers, x.chunk \in Chunks,
           IsTimeout(s, x), NEW t \in TimedOut(s, x), Missing(x.ifid, s)
    PROVE  Missing(x.ifid, t)
<1> DEFINE f == x.ifid
           k == x.chunk
<1>s. s \in Socket /\ WindowInv(controller, s) /\ f \in Faces /\ k \notin s.received
  BY DEF SocketInv, AllTimers, IsTimeout
<1>1. PICK u : /\ u \in IF k \in s.win[f] THEN Shrunk(ToReissue(s, x), f) ELSE {s}
               /\ t = [u EXCEPT !.aborted = @ \/ Aborts(s, k)]
  BY DEF TimedOut
<1>2. /\ u \in Socket /\ u.received = s.received
      /\ u.win[f] \cup u.reissue[f] \subseteq s.win[f] \cup s.reissue[f] \cup {k}
  <2>1. CASE k \in s.win[f]
    <3> DEFINE v == ToReissue(s, x)
    <3>1. /\ [s.win EXCEPT ![f] = @ \ {k}] \in [Faces -> SUBSET Chunks]
          /\ [s.reissue EXCEPT ![f] = @ \cup {k}] \in [Faces -> SUBSET Chunks]
      BY <1>s DEF Socket
    <3>2. /\ v \in Socket
          /\ v.win = [s.win EXCEPT ![f] = @ \ {k}]
          /\ v.reissue = [s.reissue EXCEPT ![f] = @ \cup {k}]
          /\ v.received = s.received /\ v.size = s.size /\ v.filled = s.filled
      BY <1>s, <3>1 DEF Socket, ToReissue
    <3>3. u \in Shrunk(v, f)
      BY <1>1, <2>1
    <3> HIDE DEF v
    <3>4. WindowInv(controller, v)
      BY <1>s, <3>2 DEF WindowInv
    <3>5. u \in Socket /\ SameChunks(u, v)
      BY <1>s, <3>2, <3>3, <3>4, ShrunkWindow
    <3> QED BY <1>s, <3>2, <3>5 DEF SameChunks, Socket
  <2>2. CASE k \notin s.win[f]
    BY <1>s, <1>1, <2>2
  <2> QED BY <2>1, <2>2
<1>3. t.received = u.received /\ t.win = u.win /\ t.reissue = u.reissue
  BY <1>1, <1>2 DEF Socket
<1> QED BY <1>s, <1>2, <1>3 DEF Missing

(* A handler that ends by asking for more from a socket s at port p.       *)
LEMMA MoreMissing ==
    ASSUME Inv, NEW f, Faces = {f}, MissingInv(f), NEW p, NEW s, NEW pit, NEW events,
           SocketInv(controller, s), Missing(f, s), SendMore(sockets, p, s, pit, events)
    PROVE  MissingInv(f)'
<1>a. PICK a \in Allotments(s) : \E S \in SUBSET Allotted(a) :
           sockets' = [q \in DOMAIN sockets \cup {p} |->
                          IF q = p THEN Requested(s, a, S) ELSE sockets[q]]
  BY DEF SendMore, Suppressions
<1>1. PICK S \in SUBSET Allotted(a) :
           sockets' = [q \in DOMAIN sockets \cup {p} |->
                          IF q = p THEN Requested(s, a, S) ELSE sockets[q]]
  BY <1>a
<1>2. Missing(f, Requested(s, a, S))
  BY RequestedMissing
<1> QED BY <1>1, <1>2 DEF MissingInv, Open, Missing

LEMMA MissingStep ==
    ASSUME NEW f, Faces = {f}, Inv, MissingInv(f), [Next]_vars
    PROVE  MissingInv(f)'
<1>1. ASSUME NEW p \in Ports, OpenSocket(p) PROVE MissingInv(f)'
  <2> DEFINE s == NewSocket(downloads + 1)
  <2>1. SendMore(sockets, p, s, pending, timers \cup Polls(p, downloads + 1))
    BY <1>1 DEF OpenSocket
  <2>2. downloads + 1 \in Nat
    BY LimitAssumption DEF Inv, SocketsInv
  <2>3. SocketInv(controller, s) /\ Missing(f, s)
    BY <2>2, NewSocketInv DEF NewSocket, Missing
  <2> HIDE DEF s
  <2> QED BY <2>1, <2>3, MoreMissing
<1>2. ASSUME NEW g \in Faces, NEW k \in Chunks, NEW p \in Ports, Data(g, k, p)
      PROVE  MissingInv(f)'
  <2>1. CASE p \notin Open
    BY <1>2, <2>1 DEF Data, MissingInv, Open, Missing
  <2>2. CASE p \in Open
    <3>1. PICK s \in WithChunk(sockets[p], f, k) :
            \/ sockets' = [q \in Open \ {p} |-> sockets[q]]
            \/ sockets' = [sockets EXCEPT ![p] = s]
            \/ SendMore(sockets, p, s, pending \ {<<k, p>>}, timers)
      BY <1>2, <2>2 DEF Data
    <3>2. SocketInv(controller, sockets[p]) /\ Missing(f, sockets[p])
      BY <2>2, OpenInv DEF MissingInv
    <3>3. SocketInv(controller, s) /\ Missing(f, s)
      BY <3>1, <3>2, WithChunkInv, WithChunkMissing
    <3>4. CASE \/ sockets' = [q \in Open \ {p} |-> sockets[q]]
               \/ sockets' = [sockets EXCEPT ![p] = s]
      BY <3>3, <3>4, <2>2 DEF MissingInv, Open, Missing
    <3>5. CASE SendMore(sockets, p, s, pending \ {<<k, p>>}, timers)
      BY <3>3, <3>5, MoreMissing
    <3> QED BY <3>1, <3>4, <3>5
  <2> QED BY <2>1, <2>2
<1>3. ASSUME NEW x \in timers, Fire(x) PROVE MissingInv(f)'
  <2> DEFINE p == x.port
  <2>1. CASE p \notin Open
    BY <1>3, <2>1 DEF Fire, MissingInv, Open, Missing
  <2>2. CASE p \in Open
    <3>1. PICK s \in (IF IsTimeout(sockets[p], x)
                      THEN TimedOut(sockets[p], x) ELSE {sockets[p]}) :
            \/ sockets' = [sockets EXCEPT ![p] = s]
            \/ SendMore(sockets, p, s, pending, timers \ {x})
      BY <1>3, <2>2 DEF Fire
    <3>2. x \in AllTimers /\ x.ifid = f /\ x.chunk \in Chunks /\ x.chunk # 0
      BY <1>3, ChunksAssumption DEF Fire, Inv, TimersInv, AllTimers, Chunks
    <3>3. SocketInv(controller, sockets[p]) /\ Missing(f, sockets[p])
      BY <2>2, OpenInv DEF MissingInv
    <3>4. Missing(f, s)
      BY <3>1, <3>2, <3>3, TimedOutMissing
    <3>5. SocketInv(controller, s)
      BY <3>1, <3>2, <2>2, FiredTimed
    <3>6. CASE sockets' = [sockets EXCEPT ![p] = s]
      BY <2>2, <3>4, <3>6 DEF MissingInv, Open, Missing
    <3>7. CASE SendMore(sockets, p, s, pending, timers \ {x})
      BY <3>4, <3>5, <3>7, MoreMissing
    <3> QED BY <3>1, <3>6, <3>7
  <2> QED BY <2>1, <2>2
<1>4. ASSUME NEW x \in timers, Poll(x) PROVE MissingInv(f)'
  <2> DEFINE p == x.port
             n == Timer(x.ifid, p, 0, sockets[p].start)
  <2>1. p \in Open /\ SocketInv(controller, sockets[p]) /\ Missing(f, sockets[p])
    BY <1>4, OpenInv DEF Poll, MissingInv
  <2>2. \/ sockets' = [q \in Open \ {p} |-> sockets[q]]
        \/ SendMore(sockets, p, sockets[p], pending, (timers \ {x}) \cup {n})
    BY <1>4 DEF Poll
  <2>3. CASE sockets' = [q \in Open \ {p} |-> sockets[q]]
    BY <2>3 DEF MissingInv, Open, Missing
  <2>4. CASE SendMore(sockets, p, sockets[p], pending, (timers \ {x}) \cup {n})
    BY <2>1, <2>4, MoreMissing
  <2> QED BY <2>2, <2>3, <2>4
<1>5. ASSUME NEW e \in pending, Expire(e) PROVE MissingInv(f)'
  BY <1>5 DEF Expire, MissingInv, Open, Missing
<1>6. CASE UNCHANGED vars
  BY <1>6 DEF vars, MissingInv, Open, Missing
<1> QED BY <1>1, <1>2, <1>3, <1>4, <1>5, <1>6 DEF Next

(* With one interface received_chunk deletes a chunk from all that holds   *)
(* it, as FlowControllerAIMD.h:103-107 says; with two, it may not.         *)
THEOREM NothingReceivedHeld ==
    ASSUME NEW f, Faces = {f}
    PROVE  Spec => []WindowsHoldMissing
<1>1. Init => MissingInv(f)
  BY DEF Init, MissingInv, Open
<1>2. Inv /\ MissingInv(f) /\ [Next]_vars => MissingInv(f)'
  BY MissingStep
<1>3. MissingInv(f) => WindowsHoldMissing
  BY DEF MissingInv, Missing, WindowsHoldMissing
<1> QED BY <1>1, <1>2, <1>3, Invariance, PTL DEF Spec
=============================================================================
