--------------------------- MODULE NetworkProofs ---------------------------
(***************************************************************************)
(* What Network's runs check of three nodes and two chunks, for any nodes, *)
(* routes, ports, chunks, windows and caches.                              *)
(*                                                                         *)
(* The inductive invariant Inv has three parts: what packets and entries   *)
(* may be where (Lines, TableOK: an interest goes only to an interface of  *)
(* its prefix, data only back); what a socket is between two handlers      *)
(* (Settled: no chunk waits to be asked for again, so that whatever is     *)
(* asked is missing); and counts of the entries of a table, which credit,  *)
(* downloads and the chunks that sockets have are compared with.           *)
(***************************************************************************)
EXTENDS Network, DataLemmas

(* A socket at constant windows, between two handlers (Settled) and at the *)
(* end of one, when a slot that a timer freed may be asked for (Ready).    *)
Fit(F, s) ==
    /\ s \in Rcv(F)!Socket
    /\ \A f \in F : s.size[f] = InitialWindow /\ Cardinality(s.win[f]) <= InitialWindow

Settled(F, s) == Fit(F, s) /\ (~s.aborted => \A f \in F : s.reissue[f] = {})

Ready(F, s) ==
    /\ Fit(F, s)
    /\ ~s.aborted => \A f \in F :
          \/ s.reissue[f] = {}
          \/ /\ \E k \in Chunks : s.reissue[f] = {k} /\ k \notin s.received
             /\ Cardinality(s.win[f]) < InitialWindow

LEMMA ChunksFinite == IsFiniteSet(Chunks) /\ Chunks \subseteq Int /\ 0 \notin Chunks
<1>1. 1 \in Int /\ LastChunk \in Int
  BY BoundsAssumption
<1>2. IsFiniteSet(1..LastChunk)
  BY <1>1, FS_Interval, Zenon
<1> QED BY <1>1, <1>2 DEF Chunks

LEMMA RcvSocket ==
    ASSUME NEW F
    PROVE  /\ Rcv(F)!Socket =
                [start : Nat, received : SUBSET Chunks, notreq : SUBSET Chunks,
                 requests : [Chunks -> Nat], aborted : BOOLEAN,
                 win : [F -> SUBSET Chunks], reissue : [F -> SUBSET Chunks],
                 size : [F -> Nat \ {0}], filled : [F -> Nat]]
           /\ Rcv(F)!Chunks = Chunks
BY DEF Rcv!Socket, Rcv!Chunks, Chunks

(* A new socket is settled.                                                *)
LEMMA NewFits ==
    ASSUME NEW F, NEW start \in Nat
    PROVE  Settled(F, Rcv(F)!NewSocket(start)) /\ Ready(F, Rcv(F)!NewSocket(start))
<1> DEFINE s == Rcv(F)!NewSocket(start)
<1>1. s = [start |-> start, received |-> {}, notreq |-> Chunks,
           requests |-> [k \in Chunks |-> 0], aborted |-> FALSE,
           win |-> [f \in F |-> {}], reissue |-> [f \in F |-> {}],
           size |-> [f \in F |-> InitialWindow], filled |-> [f \in F |-> 0]]
  BY DEF Rcv!NewSocket, Rcv!Chunks, Chunks
<1> HIDE DEF s
<1>2. s \in Rcv(F)!Socket
  <2>1. InitialWindow \in Nat \ {0}
    BY SocketsAssumption
  <2> QED BY <1>1, <2>1, RcvSocket
<1>3. \A f \in F : s.size[f] = InitialWindow /\ s.win[f] = {} /\ s.reissue[f] = {}
  BY <1>1
<1>4. Cardinality({}) = 0 /\ InitialWindow \in Nat
  BY FS_EmptySet, SocketsAssumption
<1>5. Fit(F, s)
  BY <1>2, <1>3, <1>4 DEF Fit
<1> QED BY <1>3, <1>5 DEF Settled, Ready, s

LEMMA SameCardinality ==
    ASSUME NEW F, NEW S PROVE Rcv(F)!Cardinality(S) = Cardinality(S)
BY Zenon DEF Rcv!Cardinality, Cardinality

(* Which and how many chunks a controller takes.                           *)
LEMMA TakesIs ==
    ASSUME NEW F, NEW s, NEW a, NEW f, Rcv(F)!Takes(s, a, f), s.size[f] = InitialWindow
    PROVE  /\ a[f] \subseteq s.reissue[f] \cup Rcv(F)!Fresh(s)
           /\ a[f] \ s.reissue[f] # {} => a[f] \cap s.reissue[f] = s.reissue[f]
           /\ \/ Cardinality(a[f]) = InitialWindow - Cardinality(s.win[f])
              \/ a[f] = {} /\ InitialWindow - Cardinality(s.win[f]) <= 0
              \/ /\ Cardinality(a[f]) < InitialWindow - Cardinality(s.win[f])
                 /\ a[f] \cap s.reissue[f] = s.reissue[f]
<1>1. Rcv(F)!FreeSlots(s, f) = InitialWindow - Cardinality(s.win[f])
  BY SameCardinality, Zenon DEF Rcv!FreeSlots
<1>2. Rcv(F)!Cardinality(a[f]) = Cardinality(a[f])
  BY SameCardinality
<1>3. /\ a[f] \subseteq s.reissue[f] \cup Rcv(F)!Fresh(s)
      /\ a[f] \ s.reissue[f] # {} => a[f] \cap s.reissue[f] = s.reissue[f]
  BY Zenon DEF Rcv!Takes
<1>4. \/ Rcv(F)!Cardinality(a[f]) = Rcv(F)!FreeSlots(s, f)
      \/ a[f] = {} /\ Rcv(F)!FreeSlots(s, f) <= 0
      \/ /\ Rcv(F)!Cardinality(a[f]) < Rcv(F)!FreeSlots(s, f)
         /\ a[f] \cap s.reissue[f] = s.reissue[f]
  BY Zenon DEF Rcv!Takes
<1> QED BY <1>1, <1>2, <1>3, <1>4, Zenon

LEMMA FitFields ==
    ASSUME NEW F, NEW s, Fit(F, s)
    PROVE  /\ s \in [start : Nat, received : SUBSET Chunks, notreq : SUBSET Chunks,
                     requests : [Chunks -> Nat], aborted : BOOLEAN,
                     win : [F -> SUBSET Chunks], reissue : [F -> SUBSET Chunks],
                     size : [F -> Nat \ {0}], filled : [F -> Nat]]
           /\ \A f \in F : /\ s.win[f] \in SUBSET Chunks /\ s.reissue[f] \in SUBSET Chunks
                           /\ s.size[f] = InitialWindow
                           /\ Cardinality(s.win[f]) \in Nat
                           /\ Cardinality(s.win[f]) <= InitialWindow
<1>1. s \in [start : Nat, received : SUBSET Chunks, notreq : SUBSET Chunks,
             requests : [Chunks -> Nat], aborted : BOOLEAN,
             win : [F -> SUBSET Chunks], reissue : [F -> SUBSET Chunks],
             size : [F -> Nat \ {0}], filled : [F -> Nat]]
  BY DEF Fit, Rcv!Socket, Rcv!Chunks, Chunks
<1>2. \A f \in F : s.win[f] \in SUBSET Chunks /\ s.reissue[f] \in SUBSET Chunks
  BY <1>1
<1>3. \A f \in F : Cardinality(s.win[f]) \in Nat
  BY <1>2, ChunksFinite, FS_Subset, FS_CardinalityType
<1> QED BY <1>1, <1>2, <1>3 DEF Fit

LEMMA SettledReady == ASSUME NEW F, NEW s, Settled(F, s) PROVE Ready(F, s)
BY DEF Settled, Ready

\* What a controller may take, in one step of the definition.
LEMMA AllottedIs ==
    ASSUME NEW F, NEW s, Fit(F, s), NEW a \in Rcv(F)!Allotments(s)
    PROVE  /\ a \in [F -> SUBSET Chunks]
           /\ \A f \in F : Rcv(F)!Takes(s, a, f)
           /\ Rcv(F)!Allotted(a) \subseteq Chunks
           /\ \A k : k \in Rcv(F)!Allotted(a) <=> \E f \in F : k \in a[f]
<1>1. a \in [F -> SUBSET Chunks] /\ \A f \in F : Rcv(F)!Takes(s, a, f)
  BY RcvSocket DEF Rcv!Allotments
<1>2. \A k : k \in Rcv(F)!Allotted(a) <=> \E f \in F : k \in a[f]
  BY DEF Rcv!Allotted
<1> QED BY <1>1, <1>2

(* What a socket is after it asked.                                        *)
LEMMA RequestedIs ==
    ASSUME NEW F, NEW s, Fit(F, s), NEW a \in Rcv(F)!Allotments(s), NEW S
    PROVE  LET r == Rcv(F)!Requested(s, a, S) IN
           /\ r \in Rcv(F)!Socket
           /\ r.received = s.received /\ r.aborted = s.aborted /\ r.size = s.size
           /\ \A f \in F : r.win[f] = s.win[f] \cup a[f] /\ r.reissue[f] = s.reissue[f] \ a[f]
<1> DEFINE r == Rcv(F)!Requested(s, a, S)
           notreq == Rcv(F)!Fresh(s) \ Rcv(F)!Allotted(a)
           reissue == [f \in F |-> s.reissue[f] \ a[f]]
           win == [f \in F |-> s.win[f] \cup a[f]]
           requests == [k \in Chunks |-> IF k \in Rcv(F)!Allotted(a) \ S
                                         THEN s.requests[k] + 1 ELSE s.requests[k]]
<1>1. r = [s EXCEPT !.notreq = notreq, !.reissue = reissue, !.win = win, !.requests = requests]
  BY RcvSocket DEF Rcv!Requested, Rcv!PopTimedOut
<1>2. s \in [start : Nat, received : SUBSET Chunks, notreq : SUBSET Chunks,
             requests : [Chunks -> Nat], aborted : BOOLEAN,
             win : [F -> SUBSET Chunks], reissue : [F -> SUBSET Chunks],
             size : [F -> Nat \ {0}], filled : [F -> Nat]]
  BY FitFields
<1>3. a \in [F -> SUBSET Chunks] /\ Rcv(F)!Allotted(a) \subseteq Chunks
  BY AllottedIs
<1>4. notreq \in SUBSET Chunks
  BY <1>2, RcvSocket DEF Rcv!Fresh
<1>5. reissue \in [F -> SUBSET Chunks] /\ win \in [F -> SUBSET Chunks]
  BY <1>2, <1>3
<1>6. requests \in [Chunks -> Nat]
  <2> HIDE DEF r
  <2> QED BY <1>2
<1>7. \A f \in F : win[f] = s.win[f] \cup a[f] /\ reissue[f] = s.reissue[f] \ a[f]
  BY Zenon
<1> HIDE DEF r, notreq, reissue, win, requests
<1>8. r \in [start : Nat, received : SUBSET Chunks, notreq : SUBSET Chunks,
             requests : [Chunks -> Nat], aborted : BOOLEAN,
             win : [F -> SUBSET Chunks], reissue : [F -> SUBSET Chunks],
             size : [F -> Nat \ {0}], filled : [F -> Nat]]
  BY <1>1, <1>2, <1>4, <1>5, <1>6
<1>9. /\ r.received = s.received /\ r.aborted = s.aborted /\ r.size = s.size
      /\ r.win = win /\ r.reissue = reissue
  BY <1>1, <1>2
<1>10. r \in Rcv(F)!Socket
  BY <1>8, RcvSocket
<1> QED BY <1>7, <1>9, <1>10 DEF r

(* A window never holds more than its size.                                *)
LEMMA WindowFits ==
    ASSUME NEW F, NEW s, Fit(F, s), NEW a \in Rcv(F)!Allotments(s), NEW f \in F
    PROVE  Cardinality(s.win[f] \cup a[f]) <= InitialWindow
<1>1. Rcv(F)!Takes(s, a, f) /\ a[f] \in SUBSET Chunks
  BY AllottedIs
<1>2. s.win[f] \in SUBSET Chunks /\ s.size[f] = InitialWindow /\ Cardinality(s.win[f]) <= InitialWindow
  BY FitFields
<1>3. /\ IsFiniteSet(a[f]) /\ IsFiniteSet(s.win[f])
      /\ Cardinality(a[f]) \in Nat /\ Cardinality(s.win[f]) \in Nat
      /\ IsFiniteSet(a[f] \cap s.win[f]) /\ Cardinality(s.win[f] \cap a[f]) \in Nat
  <2>1. /\ IsFiniteSet(a[f]) /\ IsFiniteSet(s.win[f]) /\ IsFiniteSet(s.win[f] \cap a[f])
    <3>1. s.win[f] \cap a[f] \in SUBSET Chunks
      BY <1>1
    <3> QED BY <1>1, <1>2, <3>1, ChunksFinite, FS_Subset, Zenon
  <2>2. a[f] \cap s.win[f] = s.win[f] \cap a[f]
    OBVIOUS
  <2> QED BY <2>1, <2>2, FS_CardinalityType
<1>4. \/ Cardinality(a[f]) <= InitialWindow - Cardinality(s.win[f])
      \/ a[f] = {}
  BY <1>1, <1>2, <1>3, TakesIs, SocketsAssumption
<1>5. CASE a[f] = {}
  <2>1. s.win[f] \cup a[f] = s.win[f]
    BY <1>5
  <2> QED BY <2>1, <1>2
<1>6. CASE Cardinality(a[f]) <= InitialWindow - Cardinality(s.win[f])
  <2>1. Cardinality(s.win[f] \cup a[f]) =
          Cardinality(s.win[f]) + Cardinality(a[f]) - Cardinality(s.win[f] \cap a[f])
    BY <1>3, FS_Union
  <2> QED BY <2>1, <1>3, <1>6, SocketsAssumption
<1> QED BY <1>4, <1>5, <1>6

(* A chunk that timed out is asked for again at once: the slot that it     *)
(* left is free.                                                           *)
LEMMA ReissuedAtOnce ==
    ASSUME NEW F, NEW s, Fit(F, s), NEW a \in Rcv(F)!Allotments(s), NEW f \in F,
           NEW k, s.reissue[f] = {k}, Cardinality(s.win[f]) < InitialWindow
    PROVE  k \in a[f]
<1> SUFFICES ASSUME k \notin a[f] PROVE FALSE
  OBVIOUS
<1>1. Rcv(F)!Takes(s, a, f) /\ a[f] \in SUBSET Chunks
  BY AllottedIs
<1>2. s.size[f] = InitialWindow /\ Cardinality(s.win[f]) \in Nat
  BY FitFields
<1>3. /\ a[f] \ s.reissue[f] # {} => a[f] \cap s.reissue[f] = s.reissue[f]
      /\ \/ Cardinality(a[f]) = InitialWindow - Cardinality(s.win[f])
         \/ InitialWindow - Cardinality(s.win[f]) <= 0
         \/ a[f] \cap s.reissue[f] = s.reissue[f]
  BY <1>1, <1>2, TakesIs
<1>4. a[f] \cap s.reissue[f] # s.reissue[f]
  OBVIOUS
<1>5. Cardinality(a[f]) = 0
  <2>1. a[f] = {}
    BY <1>3, <1>4
  <2> QED BY <2>1, FS_EmptySet
<1> QED BY <1>2, <1>3, <1>4, <1>5, SocketsAssumption

(* Asking settles a socket: no chunk is left to be asked for again.        *)
LEMMA RequestedSettled ==
    ASSUME NEW F, NEW s, Ready(F, s), NEW a \in Rcv(F)!Allotments(s), NEW S
    PROVE  Settled(F, Rcv(F)!Requested(s, a, S))
<1> DEFINE r == Rcv(F)!Requested(s, a, S)
<1>1. Fit(F, s)
  BY DEF Ready
<1>2. /\ r \in Rcv(F)!Socket
      /\ r.aborted = s.aborted /\ r.size = s.size
      /\ \A f \in F : r.win[f] = s.win[f] \cup a[f] /\ r.reissue[f] = s.reissue[f] \ a[f]
  BY <1>1, RequestedIs
<1> HIDE DEF r
<1>3. Fit(F, r)
  <2>1. \A f \in F : Cardinality(s.win[f] \cup a[f]) <= InitialWindow
    BY <1>1, WindowFits
  <2> QED BY <1>1, <1>2, <2>1 DEF Fit
<1>4. ASSUME ~r.aborted, NEW f \in F PROVE r.reissue[f] = {}
  <2>1. \/ s.reissue[f] = {}
        \/ (\E k \in Chunks : s.reissue[f] = {k}) /\ Cardinality(s.win[f]) < InitialWindow
    BY <1>2, <1>4 DEF Ready
  <2>2. CASE s.reissue[f] = {}
    BY <1>2, <2>2
  <2>3. CASE (\E k \in Chunks : s.reissue[f] = {k}) /\ Cardinality(s.win[f]) < InitialWindow
    <3>1. PICK k \in Chunks : s.reissue[f] = {k}
      BY <2>3
    <3>2. k \in a[f]
      BY <1>1, <2>3, <3>1, ReissuedAtOnce
    <3> QED BY <1>2, <3>1, <3>2
  <2> QED BY <2>1, <2>2, <2>3
<1> QED BY <1>3, <1>4 DEF Settled, r

(* A socket that has not given up never asks for what it has.              *)
LEMMA AskedIsMissing ==
    ASSUME NEW F, NEW s, Ready(F, s), ~s.aborted, NEW a \in Rcv(F)!Allotments(s)
    PROVE  Rcv(F)!Allotted(a) \cap s.received = {}
<1>1. Fit(F, s)
  BY DEF Ready
<1> SUFFICES ASSUME NEW k, k \in Rcv(F)!Allotted(a), k \in s.received PROVE FALSE
  OBVIOUS
<1>2. PICK f \in F : k \in a[f] /\ Rcv(F)!Takes(s, a, f)
  BY <1>1, AllottedIs
<1>3. k \in s.reissue[f] \cup Rcv(F)!Fresh(s)
  BY <1>2, Zenon DEF Rcv!Takes
<1>4. k \notin Rcv(F)!Fresh(s)
  BY DEF Rcv!Fresh
<1>5. k \notin s.reissue[f]
  BY DEF Ready
<1> QED BY <1>3, <1>4, <1>5

(* Data and a timer change a settled socket to one that is ready to ask.   *)
LEMMA WithChunkIs ==
    ASSUME NEW F, NEW s, Settled(F, s), NEW f \in F, NEW k \in Chunks,
           NEW t \in Rcv(F)!WithChunk(s, f, k)
    PROVE  Settled(F, t) /\ t.received = s.received \cup {k} /\ t.aborted = s.aborted
<1>1. /\ s \in [start : Nat, received : SUBSET Chunks, notreq : SUBSET Chunks,
                requests : [Chunks -> Nat], aborted : BOOLEAN,
                win : [F -> SUBSET Chunks], reissue : [F -> SUBSET Chunks],
                size : [F -> Nat \ {0}], filled : [F -> Nat]]
      /\ \A g \in F : /\ s.win[g] \in SUBSET Chunks /\ s.reissue[g] \in SUBSET Chunks
                      /\ s.size[g] = InitialWindow
                      /\ Cardinality(s.win[g]) \in Nat
                      /\ Cardinality(s.win[g]) <= InitialWindow
  BY FitFields DEF Settled
<1>2. PICK u \in Rcv(F)!Satisfied(s, f, k) : t = [u EXCEPT !.received = @ \cup {k}]
  BY DEF Rcv!WithChunk
<1>3. \/ u = [s EXCEPT !.reissue[f] = @ \ {k}]
      \/ u = [s EXCEPT !.win[f] = @ \ {k}]
      \/ u = s
  <2>1. Rcv(F)!Adapted([s EXCEPT !.win[f] = @ \ {k}], f) = {[s EXCEPT !.win[f] = @ \ {k}]}
    BY DEF Rcv!Adapted
  <2> QED BY <1>2, <2>1, Zenon DEF Rcv!Satisfied
<1>4. /\ u \in [start : Nat, received : SUBSET Chunks, notreq : SUBSET Chunks,
                requests : [Chunks -> Nat], aborted : BOOLEAN,
                win : [F -> SUBSET Chunks], reissue : [F -> SUBSET Chunks],
                size : [F -> Nat \ {0}], filled : [F -> Nat]]
      /\ u.received = s.received /\ u.aborted = s.aborted /\ u.size = s.size
      /\ \A g \in F : u.win[g] \subseteq s.win[g] /\ u.reissue[g] \subseteq s.reissue[g]
  <2>1. CASE u = [s EXCEPT !.reissue[f] = @ \ {k}]
    BY <2>1, <1>1
  <2>2. CASE u = [s EXCEPT !.win[f] = @ \ {k}]
    BY <2>2, <1>1
  <2>3. CASE u = s
    BY <2>3, <1>1
  <2> QED BY <1>3, <2>1, <2>2, <2>3
<1>5. /\ t \in [start : Nat, received : SUBSET Chunks, notreq : SUBSET Chunks,
                requests : [Chunks -> Nat], aborted : BOOLEAN,
                win : [F -> SUBSET Chunks], reissue : [F -> SUBSET Chunks],
                size : [F -> Nat \ {0}], filled : [F -> Nat]]
      /\ t.received = s.received \cup {k} /\ t.aborted = s.aborted /\ t.size = s.size
      /\ t.win = u.win /\ t.reissue = u.reissue
  BY <1>2, <1>4
<1>6. \A g \in F : Cardinality(t.win[g]) <= InitialWindow
  <2> SUFFICES ASSUME NEW g \in F PROVE Cardinality(t.win[g]) <= InitialWindow
    OBVIOUS
  <2>1. t.win[g] \in SUBSET s.win[g] /\ s.win[g] \in SUBSET Chunks
    BY <1>1, <1>4, <1>5
  <2>2. IsFiniteSet(s.win[g])
    BY <2>1, ChunksFinite, FS_Subset
  <2>3. Cardinality(t.win[g]) <= Cardinality(s.win[g]) /\ Cardinality(t.win[g]) \in Nat
    BY <2>1, <2>2, FS_Subset, FS_CardinalityType
  <2> QED BY <2>3, <1>1, SocketsAssumption
<1>7. t \in Rcv(F)!Socket
  BY <1>5 DEF Rcv!Socket, Rcv!Chunks, Chunks
<1>8. Fit(F, t)
  BY <1>1, <1>5, <1>6, <1>7 DEF Fit
<1>9. ~t.aborted => \A g \in F : t.reissue[g] = {}
  BY <1>4, <1>5 DEF Settled
<1> QED BY <1>5, <1>8, <1>9 DEF Settled

(* A timer that fires frees a slot for its chunk.                          *)
LEMMA TimedOutIs ==
    ASSUME NEW F, NEW s, Settled(F, s), NEW t, t.ifid \in F, t.chunk \in Chunks,
           t.chunk \notin s.received, NEW u \in Rcv(F)!TimedOut(s, t)
    PROVE  Ready(F, u) /\ u.received = s.received /\ (s.aborted => u.aborted)
<1> DEFINE f == t.ifid
           k == t.chunk
           moved == [s EXCEPT !.win[f] = @ \ {k}, !.reissue[f] = @ \cup {k}]
<1>1. /\ s \in [start : Nat, received : SUBSET Chunks, notreq : SUBSET Chunks,
                requests : [Chunks -> Nat], aborted : BOOLEAN,
                win : [F -> SUBSET Chunks], reissue : [F -> SUBSET Chunks],
                size : [F -> Nat \ {0}], filled : [F -> Nat]]
      /\ \A g \in F : /\ s.win[g] \in SUBSET Chunks /\ s.reissue[g] \in SUBSET Chunks
                      /\ s.size[g] = InitialWindow
                      /\ Cardinality(s.win[g]) \in Nat
                      /\ Cardinality(s.win[g]) <= InitialWindow
  BY FitFields DEF Settled
<1>2. \E m \in IF k \in s.win[f] THEN {moved} ELSE {s} :
         u = [m EXCEPT !.aborted = @ \/ Rcv(F)!Aborts(s, k)]
  <2>1. Rcv(F)!Shrunk(Rcv(F)!ToReissue(s, t), f) = {moved}
    BY DEF Rcv!Shrunk, Rcv!ToReissue
  <2> QED BY <2>1, Zenon DEF Rcv!TimedOut
<1>3. Rcv(F)!Aborts(s, k) \in BOOLEAN
  BY DEF Rcv!Aborts
<1>4. CASE k \notin s.win[f]
  <2>1. u = [s EXCEPT !.aborted = @ \/ Rcv(F)!Aborts(s, k)]
    BY <1>2, <1>4, Zenon
  <2>2. /\ u.received = s.received /\ u.win = s.win /\ u.reissue = s.reissue /\ u.size = s.size
        /\ u.aborted = (s.aborted \/ Rcv(F)!Aborts(s, k))
    BY <2>1, <1>1, Zenon
  <2>3. u.aborted \in BOOLEAN /\ (s.aborted => u.aborted)
    BY <2>2
  <2>4. u \in Rcv(F)!Socket
    BY <2>1, <2>2, <2>3, <1>1 DEF Rcv!Socket, Rcv!Chunks, Chunks
  <2>5. Fit(F, u)
    BY <2>2, <2>4, <1>1 DEF Fit
  <2>6. ~u.aborted => \A g \in F : u.reissue[g] = {}
    BY <2>2, <2>3 DEF Settled
  <2> QED BY <2>2, <2>3, <2>5, <2>6 DEF Ready
<1>5. CASE k \in s.win[f]
  <2>1. u = [moved EXCEPT !.aborted = @ \/ Rcv(F)!Aborts(s, k)]
    <3> HIDE DEF moved
    <3> QED BY <1>2, <1>5, Zenon
  <2>2. /\ moved \in [start : Nat, received : SUBSET Chunks, notreq : SUBSET Chunks,
                      requests : [Chunks -> Nat], aborted : BOOLEAN,
                      win : [F -> SUBSET Chunks], reissue : [F -> SUBSET Chunks],
                      size : [F -> Nat \ {0}], filled : [F -> Nat]]
        /\ moved.received = s.received /\ moved.size = s.size /\ moved.aborted = s.aborted
        /\ moved.win = [s.win EXCEPT ![f] = @ \ {k}]
        /\ moved.reissue = [s.reissue EXCEPT ![f] = @ \cup {k}]
    BY <1>1
  <2>3. /\ u.received = s.received /\ u.size = s.size
        /\ u.win = moved.win /\ u.reissue = moved.reissue
        /\ u.aborted = (s.aborted \/ Rcv(F)!Aborts(s, k))
    <3> HIDE DEF moved
    <3> QED BY <2>1, <2>2, Zenon
  <2>4. u.aborted \in BOOLEAN /\ (s.aborted => u.aborted)
    BY <2>3
  <2>5. u \in Rcv(F)!Socket
    <3> HIDE DEF moved
    <3> QED BY <2>1, <2>2, <2>3, <2>4 DEF Rcv!Socket, Rcv!Chunks, Chunks
  <2>6. \A g \in F : /\ u.win[g] = IF g = f THEN s.win[g] \ {k} ELSE s.win[g]
                     /\ u.reissue[g] = IF g = f THEN s.reissue[g] \cup {k} ELSE s.reissue[g]
    <3>1. /\ u.win = [s.win EXCEPT ![f] = s.win[f] \ {k}]
          /\ u.reissue = [s.reissue EXCEPT ![f] = s.reissue[f] \cup {k}]
      <4> HIDE DEF moved, f, k
      <4> QED BY <2>2, <2>3, Zenon
    <3>2. s.win \in [F -> SUBSET Chunks] /\ s.reissue \in [F -> SUBSET Chunks]
      BY <1>1
    <3> HIDE DEF moved, f, k
    <3> QED BY <3>1, <3>2
  <2>7. Cardinality(s.win[f] \ {k}) = Cardinality(s.win[f]) - 1
    <3>1. IsFiniteSet(s.win[f])
      BY <1>1, ChunksFinite, FS_Subset
    <3> QED BY <3>1, <1>5, FS_RemoveElement
  <2>8. Cardinality(u.win[f]) < InitialWindow /\ Cardinality(u.win[f]) <= InitialWindow
    <3>1. Cardinality(u.win[f]) = Cardinality(s.win[f]) - 1
      BY <2>6, <2>7, Zenon
    <3>2. Cardinality(s.win[f]) \in Nat /\ Cardinality(s.win[f]) <= InitialWindow
      BY <1>1
    <3> QED BY <3>1, <3>2, SocketsAssumption
  <2>9. \A g \in F : Cardinality(u.win[g]) <= InitialWindow
    <3> SUFFICES ASSUME NEW g \in F PROVE Cardinality(u.win[g]) <= InitialWindow
      OBVIOUS
    <3>1. CASE g = f
      BY <3>1, <2>8, Zenon
    <3>2. CASE g # f
      BY <3>2, <2>6, <1>1
    <3> QED BY <3>1, <3>2
  <2>10. Fit(F, u)
    BY <2>3, <2>5, <2>9, <1>1 DEF Fit
  <2>11. ASSUME ~u.aborted, NEW g \in F
         PROVE  \/ u.reissue[g] = {}
                \/ u.reissue[g] = {k} /\ Cardinality(u.win[g]) < InitialWindow
    <3>1. s.reissue[g] = {}
      BY <2>3, <2>11 DEF Settled
    <3> QED BY <3>1, <2>6, <2>8
  <2>12. ASSUME ~u.aborted, NEW g \in F
         PROVE  \/ u.reissue[g] = {}
                \/ /\ \E j \in Chunks : u.reissue[g] = {j} /\ j \notin u.received
                   /\ Cardinality(u.win[g]) < InitialWindow
    <3>1. k \in Chunks /\ k \notin u.received
      BY <2>3
    <3> HIDE DEF k
    <3> QED BY <3>1, <2>11, <2>12
  <2> QED BY <2>3, <2>4, <2>10, <2>12 DEF Ready
<1> QED BY <1>4, <1>5

LEMMA NewTimersIs ==
    ASSUME NEW F, NEW s, Fit(F, s), NEW a \in Rcv(F)!Allotments(s), NEW p,
           NEW t \in Rcv(F)!NewTimers(p, s, a)
    PROVE  t.ifid \in F /\ t.chunk \in Chunks
<1>1. PICK f \in F : \E k \in a[f] : t = [ifid |-> f, port |-> p, chunk |-> k, start |-> s.start]
  BY DEF Rcv!NewTimers, Rcv!Timer
<1>2. a[f] \subseteq Chunks
  BY AllottedIs
<1> QED BY <1>1, <1>2

-----------------------------------------------------------------------------
(* What entries and packets may be where.  A neighbour's entry and a data  *)
(* packet are on the way back of an interest, which went where its prefix  *)
(* led.                                                                    *)
PortNumbers == Ports \cup {0}
Issues == Times \cup {0}
Entries == [ifid : Node \cup {Local}, chunk : Names, port : PortNumbers, issue : Issues]

EntriesAt(n) ==
    {e \in Entries : IF e.ifid = Local THEN n \in Consumers
                     ELSE e.ifid # n /\ n \in Routes[e.ifid]}

Of(m, k) == {e \in Entries : e.ifid = m /\ e.chunk = k}
LocalOf(k, p) == {e \in Entries : e.ifid = Local /\ e.chunk = k /\ e.port = p}

Packets(n, m, K) ==
    {x \in [type : {"interest", "data"}, chunk : K, port : PortNumbers, issue : Issues] :
        n # m /\ IF x.type = "interest" THEN m \in Routes[n] ELSE n \in Routes[m]}

Lines(ls, K) ==
    /\ DOMAIN ls = Node
    /\ \A n \in Node : /\ DOMAIN ls[n] = Node
                       /\ \A m \in Node : ls[n][m] \in Seq(Packets(n, m, K))

TableOK(n, tb) == tb \in Seq(EntriesAt(n))

LEMMA NodesAre == Node \subseteq Int /\ Local \notin Node /\ Local \in Int /\ Consumers \subseteq Node
BY NodeAssumption DEF Local

LEMMA LeftTable ==
    ASSUME NEW n, NEW tb, TableOK(n, tb), NEW gone, gone \subseteq DOMAIN tb
    PROVE  TableOK(n, Kept(tb, DOMAIN tb \ gone))
BY CountLeft DEF TableOK

LEMMA LeftCount ==
    ASSUME NEW n, NEW tb, TableOK(n, tb), NEW gone, gone \subseteq DOMAIN tb, NEW E
    PROVE  /\ Cardinality(Chosen(tb, gone, E)) \in Nat
           /\ Count(Kept(tb, DOMAIN tb \ gone), E) =
                Count(tb, E) - Cardinality(Chosen(tb, gone, E))
BY CountLeft DEF TableOK

LEMMA TableCount ==
    ASSUME NEW n, NEW tb, TableOK(n, tb), NEW E
    PROVE  Count(tb, E) \in Nat /\ DOMAIN tb = 1..Len(tb) /\ IsFiniteSet(DOMAIN tb)
BY MembersFinite DEF TableOK

LEMMA AppendTable ==
    ASSUME NEW n, NEW tb, TableOK(n, tb), NEW e \in EntriesAt(n)
    PROVE  /\ TableOK(n, Append(tb, e))
           /\ \A E : Count(Append(tb, e), E) = Count(tb, E) + IF e \in E THEN 1 ELSE 0
<1>1. TableOK(n, Append(tb, e))
  BY DEF TableOK
<1>2. ASSUME NEW E PROVE Count(Append(tb, e), E) = Count(tb, E) + IF e \in E THEN 1 ELSE 0
  BY CountAppend DEF TableOK
<1> QED BY <1>1, <1>2

LEMMA ConcatTable ==
    ASSUME NEW n, NEW tb, TableOK(n, tb), NEW tc, TableOK(n, tc)
    PROVE  /\ TableOK(n, tb \o tc)
           /\ \A E : Count(tb \o tc, E) = Count(tb, E) + Count(tc, E)
<1>1. TableOK(n, tb \o tc)
  BY DEF TableOK
<1>2. ASSUME NEW E PROVE Count(tb \o tc, E) = Count(tb, E) + Count(tc, E)
  BY CountConcat DEF TableOK
<1> QED BY <1>1, <1>2

-----------------------------------------------------------------------------
SocketsOK(n, sk) ==
    /\ IsFiniteSet(DOMAIN sk) /\ DOMAIN sk \subseteq Ports
    /\ DOMAIN sk # {} => n \in Consumers
    /\ \A p \in DOMAIN sk : Settled(Routes[n], sk[p])

TimersOK(n, ts) == \A t \in ts : t.ifid \in Routes[n] /\ t.chunk \in Chunks

\* What the sockets of a table may still be sent.
OnceAt(tb, open, sk) ==
    \A k \in Chunks, p \in Ports :
        /\ Count(tb, LocalOf(k, p)) <= 1
        /\ p \in open /\ ~sk[p].aborted /\ k \in sk[p].received => Count(tb, LocalOf(k, p)) = 0

OwnEntries(p) == [k \in Chunks |-> Entry(Local, k, p, 0)]

LEMMA AskedTable ==
    ASSUME NEW n \in Consumers, NEW p \in Ports, NEW asked, asked \subseteq Chunks
    PROVE  /\ TableOK(n, Kept(OwnEntries(p), asked))
           /\ \A E : Count(Kept(OwnEntries(p), asked), E) =
                       Cardinality(Chosen(OwnEntries(p), asked, E))
<1>1. asked \in SUBSET Chunks /\ asked \subseteq Int /\ IsFiniteSet(asked) /\ Chunks \subseteq Int
  <2>1. asked \in SUBSET Chunks
    OBVIOUS
  <2>2. asked \subseteq Int
    BY ChunksFinite
  <2> QED BY <2>1, <2>2, ChunksFinite, FS_Subset
<1>2. OwnEntries(p) \in [Chunks -> EntriesAt(n)]
  <2>1. ASSUME NEW k \in Chunks PROVE Entry(Local, k, p, 0) \in EntriesAt(n)
    <3>1. k \in Names
      BY BoundsAssumption DEF Chunks, Names
    <3> QED BY <3>1 DEF Entry, EntriesAt, Entries, PortNumbers, Issues
  <2> QED BY <2>1 DEF OwnEntries
<1>3. Kept(OwnEntries(p), asked) \in Seq(EntriesAt(n))
  BY <1>1, <1>2, KeptIs, Zenon
<1>4. ASSUME NEW E PROVE Count(Kept(OwnEntries(p), asked), E) =
                           Cardinality(Chosen(OwnEntries(p), asked, E))
  BY <1>1, CountKept, Zenon
<1> QED BY <1>3, <1>4 DEF TableOK

LEMMA AskedCount ==
    ASSUME NEW p \in Ports, NEW asked, asked \subseteq Chunks
    PROVE  /\ \A m \in Node : \A k : Cardinality(Chosen(OwnEntries(p), asked, Of(m, k))) = 0
           /\ Cardinality(Chosen(OwnEntries(p), asked, Of(Local, 0))) = 0
           /\ \A k \in Chunks, q \in Ports :
                 Cardinality(Chosen(OwnEntries(p), asked, LocalOf(k, q))) =
                   IF k \in asked /\ q = p THEN 1 ELSE 0
<1>0. Cardinality({}) = 0
  BY FS_EmptySet
<1>1. ASSUME NEW k \in asked
      PROVE  /\ OwnEntries(p)[k] \in Entries /\ OwnEntries(p)[k].ifid = Local
             /\ OwnEntries(p)[k].chunk = k /\ OwnEntries(p)[k].port = p
  <2>1. OwnEntries(p)[k] = [ifid |-> Local, chunk |-> k, port |-> p, issue |-> 0]
    BY DEF OwnEntries, Entry
  <2>2. k \in Names
    BY BoundsAssumption DEF Chunks, Names
  <2>3. [ifid |-> Local, chunk |-> k, port |-> p, issue |-> 0] \in Entries
    BY <2>2 DEF Entries, PortNumbers, Issues
  <2> QED BY <2>1, <2>3
<1>3. ASSUME NEW m \in Node, NEW k PROVE Cardinality(Chosen(OwnEntries(p), asked, Of(m, k))) = 0
  <2>1. Chosen(OwnEntries(p), asked, Of(m, k)) = {}
    BY <1>1, NodesAre DEF Chosen, Of
  <2> QED BY <1>0, <2>1
<1>4. Cardinality(Chosen(OwnEntries(p), asked, Of(Local, 0))) = 0
  <2>1. Chosen(OwnEntries(p), asked, Of(Local, 0)) = {}
    BY <1>1, ChunksFinite DEF Chosen, Of
  <2> QED BY <1>0, <2>1
<1>5. ASSUME NEW k \in Chunks, NEW q \in Ports
      PROVE  Cardinality(Chosen(OwnEntries(p), asked, LocalOf(k, q))) =
               IF k \in asked /\ q = p THEN 1 ELSE 0
  <2>1. CASE k \in asked /\ q = p
    <3>1. Chosen(OwnEntries(p), asked, LocalOf(k, q)) = {k}
      BY <2>1, <1>1 DEF Chosen, LocalOf
    <3>2. Cardinality({k}) = 1
      BY FS_Singleton
    <3> QED BY <2>1, <3>1, <3>2
  <2>2. CASE ~(k \in asked /\ q = p)
    <3>1. Chosen(OwnEntries(p), asked, LocalOf(k, q)) = {}
      BY <2>2, <1>1 DEF Chosen, LocalOf
    <3> QED BY <2>2, <3>1, <1>0
  <2> QED BY <2>1, <2>2
<1> QED BY <1>3, <1>4, <1>5

LEMMA AskedAdds ==
    ASSUME NEW n \in Consumers, NEW p \in Ports, NEW asked, asked \subseteq Chunks,
           NEW tb, TableOK(n, tb)
    PROVE  /\ TableOK(n, tb \o Kept(OwnEntries(p), asked))
           /\ \A m \in Node : \A k :
                 Count(tb \o Kept(OwnEntries(p), asked), Of(m, k)) = Count(tb, Of(m, k))
           /\ Count(tb \o Kept(OwnEntries(p), asked), Of(Local, 0)) = Count(tb, Of(Local, 0))
<1>1. /\ TableOK(n, Kept(OwnEntries(p), asked))
      /\ \A E : Count(Kept(OwnEntries(p), asked), E) = Cardinality(Chosen(OwnEntries(p), asked, E))
  BY AskedTable
<1>2. /\ TableOK(n, tb \o Kept(OwnEntries(p), asked))
      /\ \A E : Count(tb \o Kept(OwnEntries(p), asked), E) =
                   Count(tb, E) + Count(Kept(OwnEntries(p), asked), E)
  BY <1>1, ConcatTable
<1>3. ASSUME NEW E, Cardinality(Chosen(OwnEntries(p), asked, E)) = 0
      PROVE  Count(tb \o Kept(OwnEntries(p), asked), E) = Count(tb, E)
  <2>1. Count(tb, E) \in Nat
    BY TableCount
  <2>2. Count(tb \o Kept(OwnEntries(p), asked), E) = Count(tb, E) + 0
    BY <1>1, <1>2, <1>3
  <2> QED BY <2>1, <2>2
<1>4. ASSUME NEW m \in Node, NEW k
      PROVE  Count(tb \o Kept(OwnEntries(p), asked), Of(m, k)) = Count(tb, Of(m, k))
  <2>1. Cardinality(Chosen(OwnEntries(p), asked, Of(m, k))) = 0
    BY AskedCount
  <2> QED BY <2>1, <1>3
<1>5. Count(tb \o Kept(OwnEntries(p), asked), Of(Local, 0)) = Count(tb, Of(Local, 0))
  <2>1. Cardinality(Chosen(OwnEntries(p), asked, Of(Local, 0))) = 0
    BY AskedCount
  <2> QED BY <2>1, <1>3
<1> QED BY <1>2, <1>4, <1>5

LEMMA NotPending ==
    ASSUME NEW n, NEW tb, TableOK(n, tb), NEW k \in Chunks, NEW p \in Ports
    PROVE  ~PendingAt(tb, k, p) => Count(tb, LocalOf(k, p)) = 0
<1> SUFFICES ASSUME ~PendingAt(tb, k, p) PROVE Count(tb, LocalOf(k, p)) = 0
  OBVIOUS
<1>1. Members(tb, LocalOf(k, p)) = {}
  BY DEF Members, LocalOf, PendingAt
<1> QED BY <1>1, FS_EmptySet DEF Count

(* Asking for more: the chunks that are asked for are missing and had no   *)
(* entry, so that each gets one.                                           *)
LEMMA MoreOnce ==
    ASSUME NEW n \in Consumers, NEW tb, TableOK(n, tb), NEW p \in Ports,
           NEW open, NEW sk, OnceAt(tb, open, sk), p \in open,
           NEW asked, asked \subseteq Chunks,
           \A k \in asked : ~PendingAt(tb, k, p),
           ~sk[p].aborted => asked \cap sk[p].received = {}
    PROVE  OnceAt(tb \o Kept(OwnEntries(p), asked), open, sk)
<1> DEFINE tc == tb \o Kept(OwnEntries(p), asked)
<1>1. ASSUME NEW k \in Chunks, NEW q \in Ports
      PROVE  Count(tc, LocalOf(k, q)) =
               Count(tb, LocalOf(k, q)) + IF k \in asked /\ q = p THEN 1 ELSE 0
  <2>1. Count(Kept(OwnEntries(p), asked), LocalOf(k, q)) =
          Cardinality(Chosen(OwnEntries(p), asked, LocalOf(k, q)))
    BY AskedTable
  <2>2. Cardinality(Chosen(OwnEntries(p), asked, LocalOf(k, q))) =
          IF k \in asked /\ q = p THEN 1 ELSE 0
    BY AskedCount
  <2>3. TableOK(n, Kept(OwnEntries(p), asked))
    BY AskedTable
  <2>4. Count(tc, LocalOf(k, q)) =
          Count(tb, LocalOf(k, q)) + Count(Kept(OwnEntries(p), asked), LocalOf(k, q))
    BY <2>3, ConcatTable
  <2> QED BY <2>1, <2>2, <2>4
<1> HIDE DEF tc
<1>2. ASSUME NEW k \in Chunks, NEW q \in Ports
      PROVE  /\ Count(tc, LocalOf(k, q)) <= 1
             /\ q \in open /\ ~sk[q].aborted /\ k \in sk[q].received => Count(tc, LocalOf(k, q)) = 0
  <2>1. /\ Count(tb, LocalOf(k, q)) <= 1 /\ Count(tb, LocalOf(k, q)) \in Nat
        /\ q \in open /\ ~sk[q].aborted /\ k \in sk[q].received => Count(tb, LocalOf(k, q)) = 0
    BY TableCount DEF OnceAt
  <2>2. CASE k \in asked /\ q = p
    <3>1. Count(tb, LocalOf(k, q)) = 0
      BY <2>2, NotPending
    <3>2. Count(tc, LocalOf(k, q)) = 1
      BY <1>1, <2>2, <3>1
    <3> QED BY <2>2, <3>2
  <2>3. CASE ~(k \in asked /\ q = p)
    <3>1. Count(tc, LocalOf(k, q)) = Count(tb, LocalOf(k, q))
      BY <1>1, <2>1, <2>3
    <3> QED BY <2>1, <3>1
  <2> QED BY <2>2, <2>3
<1> QED BY <1>2 DEF OnceAt, tc

-----------------------------------------------------------------------------
(* Packets go where they may go.                                           *)
LEMMA KeptSeq ==
    ASSUME NEW X, NEW s, NEW at, at \subseteq Int, IsFiniteSet(at), \A i \in at : s[i] \in X
    PROVE  Kept(s, at) \in Seq(X)
<1>1. Cardinality(at) \in Nat /\ \A j \in 1..Cardinality(at) : Nth(at, j) \in at
  BY Ranks
<1>2. Kept(s, at) \in [1..Cardinality(at) -> X]
  BY <1>1 DEF Kept
<1> QED BY <1>1, <1>2

LEMMA SendOneLines ==
    ASSUME NEW K, NEW ls, Lines(ls, K), NEW n \in Node, NEW m \in Node, NEW x \in Packets(n, m, K)
    PROVE  Lines(SendOne(ls, n, m, x), K)
<1> DEFINE lt == SendOne(ls, n, m, x)
<1>1. DOMAIN lt = Node /\ \A q \in Node : lt[q] = IF q = n THEN [ls[n] EXCEPT ![m] = Append(@, x)] ELSE ls[q]
  BY Zenon DEF SendOne, Lines
<1>2. /\ DOMAIN lt[n] = Node
      /\ \A q \in Node : lt[n][q] = IF q = m THEN Append(ls[n][m], x) ELSE ls[n][q]
  BY <1>1, Zenon DEF Lines
<1>3. ls[n][m] \in Seq(Packets(n, m, K))
  BY DEF Lines
<1>4. Append(ls[n][m], x) \in Seq(Packets(n, m, K))
  BY <1>3, AppendProperties
<1> HIDE DEF lt
<1>5. \A q \in Node : DOMAIN lt[q] = Node
  BY <1>1, <1>2, Zenon DEF Lines
<1>6. \A q \in Node, r \in Node : lt[q][r] \in Seq(Packets(q, r, K))
  BY <1>1, <1>2, <1>4, Zenon DEF Lines
<1> QED BY <1>1, <1>5, <1>6 DEF Lines, lt

LEMMA ReceivedLines ==
    ASSUME NEW K, NEW ls, Lines(ls, K), NEW n \in Node, NEW m \in Node, ls[m][n] # <<>>
    PROVE  Lines(Received(ls, n, m), K) /\ Head(ls[m][n]) \in Packets(m, n, K)
<1> DEFINE lt == Received(ls, n, m)
<1>1. DOMAIN lt = Node /\ \A q \in Node : lt[q] = IF q = m THEN [ls[m] EXCEPT ![n] = Tail(ls[m][n])] ELSE ls[q]
  BY Zenon DEF Received, Lines
<1>2. /\ DOMAIN lt[m] = Node
      /\ \A q \in Node : lt[m][q] = IF q = n THEN Tail(ls[m][n]) ELSE ls[m][q]
  BY <1>1, Zenon DEF Lines
<1>3. ls[m][n] \in Seq(Packets(m, n, K))
  BY DEF Lines
<1>4. Tail(ls[m][n]) \in Seq(Packets(m, n, K)) /\ Head(ls[m][n]) \in Packets(m, n, K)
  BY <1>3, HeadTailProperties
<1> HIDE DEF lt
<1>5. \A q \in Node : DOMAIN lt[q] = Node
  BY <1>1, <1>2, Zenon DEF Lines
<1>6. \A q \in Node, r \in Node : lt[q][r] \in Seq(Packets(q, r, K))
  BY <1>1, <1>2, <1>4, Zenon DEF Lines
<1> QED BY <1>1, <1>4, <1>5, <1>6 DEF Lines, lt

LEMMA SendLines ==
    ASSUME NEW K, NEW ls, Lines(ls, K), NEW n \in Node, NEW out,
           DOMAIN out \subseteq Int, IsFiniteSet(DOMAIN out),
           \A i \in DOMAIN out : out[i][1] \in Node => out[i][2] \in Packets(n, out[i][1], K)
    PROVE  Lines(Send(ls, n, out), K)
<1> DEFINE lt == Send(ls, n, out)
           packets == [i \in DOMAIN out |-> out[i][2]]
           for(m) == {i \in DOMAIN out : out[i][1] = m}
<1>1. DOMAIN lt = Node /\ \A q \in Node :
         lt[q] = IF q = n THEN [m \in Node |-> ls[n][m] \o Kept(packets, for(m))] ELSE ls[q]
  BY Zenon DEF Send, Lines
<1>2. /\ DOMAIN lt[n] = Node
      /\ \A m \in Node : lt[n][m] = ls[n][m] \o Kept(packets, for(m))
  BY <1>1, Zenon
<1>3. ASSUME NEW m \in Node PROVE Kept(packets, for(m)) \in Seq(Packets(n, m, K))
  <2>1. for(m) \in SUBSET DOMAIN out
    OBVIOUS
  <2>2. for(m) \subseteq Int /\ IsFiniteSet(for(m))
    BY <2>1, FS_Subset
  <2>3. \A i \in for(m) : packets[i] \in Packets(n, m, K)
    OBVIOUS
  <2> HIDE DEF packets, for
  <2> QED BY <2>2, <2>3, KeptSeq
<1>4. ASSUME NEW m \in Node PROVE ls[n][m] \o Kept(packets, for(m)) \in Seq(Packets(n, m, K))
  <2>1. ls[n][m] \in Seq(Packets(n, m, K))
    BY DEF Lines
  <2> HIDE DEF packets, for
  <2> QED BY <2>1, <1>3, ConcatProperties
<1> HIDE DEF lt, packets, for
<1>5. \A q \in Node : DOMAIN lt[q] = Node
  BY <1>1, <1>2, Zenon DEF Lines
<1>6. \A q \in Node, r \in Node : lt[q][r] \in Seq(Packets(q, r, K))
  BY <1>1, <1>2, <1>4, Zenon DEF Lines
<1> QED BY <1>1, <1>5, <1>6 DEF Lines, lt

LEMMA SendKept ==
    ASSUME NEW K, NEW ls, Lines(ls, K), NEW n \in Node, NEW g, NEW at, at \subseteq Int,
           IsFiniteSet(at),
           \A i \in at : g[i][1] \in Node => g[i][2] \in Packets(n, g[i][1], K)
    PROVE  Lines(Send(ls, n, Kept(g, at)), K)
<1> DEFINE out == Kept(g, at)
<1>1. Cardinality(at) \in Nat /\ \A j \in 1..Cardinality(at) : Nth(at, j) \in at
  BY Ranks
<1>2. DOMAIN out = 1..Cardinality(at) /\ \A j \in 1..Cardinality(at) : out[j] = g[Nth(at, j)]
  BY Zenon DEF Kept
<1>3. DOMAIN out \subseteq Int /\ IsFiniteSet(DOMAIN out)
  <2>1. 1 \in Int /\ Cardinality(at) \in Int
    BY <1>1
  <2>2. IsFiniteSet(1..Cardinality(at))
    BY <2>1, FS_Interval, Zenon
  <2> HIDE DEF out
  <2> QED BY <1>2, <2>2
<1>4. \A i \in DOMAIN out : out[i][1] \in Node => out[i][2] \in Packets(n, out[i][1], K)
  <2> HIDE DEF out
  <2> QED BY <1>1, <1>2, Zenon
<1> HIDE DEF out
<1>5. Lines(Send(ls, n, out), K)
  BY <1>3, <1>4, SendLines
<1> QED BY <1>5 DEF out

(* A node that downloads is none that serves.                              *)
LEMMA ConsumerRoutes ==
    ASSUME NEW n \in Consumers
    PROVE  n \in Node /\ Routes[n] \subseteq Node /\ n \notin Routes[n] /\ Routes[n] # {}
BY NodeAssumption, RoutesAssumption

LEMMA AskLines ==
    ASSUME NEW ls, Lines(ls, Chunks), NEW n \in Consumers, NEW p \in Ports,
           NEW s, Fit(Routes[n], s), NEW a \in Rcv(Routes[n])!Allotments(s),
           NEW asked, asked \subseteq Rcv(Routes[n])!Allotted(a)
    PROVE  Lines(Send(ls, n, Kept([k \in Chunks |->
                     <<CHOOSE f \in Routes[n] : k \in a[f], Packet("interest", k, p, 0)>>],
                     asked)), Chunks)
<1> DEFINE face(k) == CHOOSE f \in Routes[n] : k \in a[f]
           g == [k \in Chunks |-> <<face(k), Packet("interest", k, p, 0)>>]
<1>1. asked \subseteq Chunks /\ \A k \in asked : \E f \in Routes[n] : k \in a[f]
  BY AllottedIs
<1>2. \A k \in asked : face(k) \in Routes[n]
  BY <1>1, Zenon
<1>3. asked \subseteq Int /\ IsFiniteSet(asked)
  <2>1. asked \in SUBSET Chunks
    BY <1>1
  <2> QED BY <2>1, ChunksFinite, FS_Subset
<1>4. ASSUME NEW k \in asked PROVE g[k][1] = face(k) /\ g[k][2] \in Packets(n, face(k), Chunks)
  <2>1. k \in Chunks /\ face(k) \in Routes[n] /\ n # face(k) /\ n \in Node
    BY <1>1, <1>2, ConsumerRoutes
  <2>2. g[k] = <<face(k), [type |-> "interest", chunk |-> k, port |-> p, issue |-> 0]>>
    BY <2>1 DEF Packet
  <2>3. [type |-> "interest", chunk |-> k, port |-> p, issue |-> 0] \in Packets(n, face(k), Chunks)
    BY <2>1 DEF Packets, PortNumbers, Issues
  <2> HIDE DEF g, face
  <2> QED BY <2>2, <2>3
<1>5. n \in Node
  BY ConsumerRoutes
<1> HIDE DEF g, face
<1>6. Lines(Send(ls, n, Kept(g, asked)), Chunks)
  BY <1>3, <1>4, <1>5, SendKept
<1> QED BY <1>6 DEF g, face

LEMMA OnwardLines ==
    ASSUME NEW K, NEW ls, Lines(ls, K), NEW n \in Node, TableOK(n, pit[n]),
           NEW gone, gone \subseteq DOMAIN pit[n], NEW m, NEW d \in Packets(m, n, K)
    PROVE  Lines(Send(ls, n, Onward(n, gone, d)), K)
<1> DEFINE g == [i \in DOMAIN pit[n] |->
                    <<pit[n][i].ifid, Packet("data", d.chunk, pit[n][i].port, d.issue)>>]
           at == gone \ ForLocal(n, gone)
<1>1. DOMAIN pit[n] \subseteq Int /\ IsFiniteSet(DOMAIN pit[n])
  BY TableCount
<1>2. at \subseteq Int /\ IsFiniteSet(at)
  <2>1. at \in SUBSET DOMAIN pit[n]
    OBVIOUS
  <2> HIDE DEF at
  <2> QED BY <1>1, <2>1, FS_Subset
<1>3. ASSUME NEW i \in at
      PROVE  g[i][1] = pit[n][i].ifid /\ g[i][2] \in Packets(n, pit[n][i].ifid, K)
  <2>1. i \in DOMAIN pit[n] /\ pit[n][i] \in EntriesAt(n) /\ pit[n][i].ifid # Local
    BY ElementOfSeq, TableCount DEF TableOK, ForLocal
  <2>2. g[i] = <<pit[n][i].ifid, [type |-> "data", chunk |-> d.chunk, port |-> pit[n][i].port,
                                 issue |-> d.issue]>>
    BY <2>1 DEF Packet
  <2>3. [type |-> "data", chunk |-> d.chunk, port |-> pit[n][i].port, issue |-> d.issue]
          \in Packets(n, pit[n][i].ifid, K)
    BY <2>1 DEF Packets, EntriesAt, Entries
  <2> HIDE DEF g, at
  <2> QED BY <2>2, <2>3
<1> HIDE DEF g, at
<1>4. Lines(Send(ls, n, Kept(g, at)), K)
  BY <1>2, <1>3, SendKept
<1> QED BY <1>4 DEF Onward, g, at

LEMMA OnceSame ==
    ASSUME NEW tb, NEW open, NEW sk, NEW sl, OnceAt(tb, open, sk),
           \A q \in open : sl[q].aborted = sk[q].aborted /\ sl[q].received = sk[q].received
    PROVE  OnceAt(tb, open, sl)
BY DEF OnceAt

(* The end of a handler that asks for more.                                *)
LEMMA MoreIs ==
    ASSUME DOMAIN sockets = Node, DOMAIN timers = Node, DOMAIN pit = Node,
           NEW n \in Consumers, NEW p \in Ports, NEW s, Ready(Routes[n], s),
           NEW others, IsFiniteSet(others), others \subseteq Ports,
           \A q \in others : Settled(Routes[n], sockets[n][q]),
           NEW table, TableOK(n, table), NEW ls, Lines(ls, Chunks),
           NEW events, TimersOK(n, events),
           OnceAt(table, others \cup {p}, [q \in others \cup {p} |-> IF q = p THEN s ELSE sockets[n][q]]),
           SendMore(n, p, s, others, table, ls, events)
    PROVE  /\ DOMAIN sockets' = Node /\ DOMAIN timers' = Node /\ DOMAIN pit' = Node
           /\ \A q \in Node \ {n} :
                 sockets'[q] = sockets[q] /\ timers'[q] = timers[q] /\ pit'[q] = pit[q]
           /\ DOMAIN sockets'[n] = others \cup {p} /\ SocketsOK(n, sockets'[n])
           /\ TimersOK(n, timers'[n])
           /\ TableOK(n, pit'[n]) /\ OnceAt(pit'[n], others \cup {p}, sockets'[n])
           /\ \A m \in Node : \A k : Count(pit'[n], Of(m, k)) = Count(table, Of(m, k))
           /\ Count(pit'[n], Of(Local, 0)) = Count(table, Of(Local, 0))
           /\ Lines(links', Chunks)
<1> DEFINE F == Routes[n]
           sk == [q \in others \cup {p} |-> IF q = p THEN s ELSE sockets[n][q]]
<1>0. n \in Node /\ Fit(F, s)
  BY ConsumerRoutes DEF Ready
<1>1. PICK a \in Rcv(F)!Allotments(s) : \E known \in {{k \in Rcv(F)!Allotted(a) : PendingAt(table, k, p)}} :
        LET asked == Rcv(F)!Allotted(a) \ known
            face(k) == CHOOSE f \in F : k \in a[f]
        IN  /\ sockets' = [sockets EXCEPT ![n] = [q \in others \cup {p} |->
                  IF q = p THEN Rcv(F)!Requested(s, a, known) ELSE sockets[n][q]]]
            /\ timers' = [timers EXCEPT ![n] = events \cup Rcv(F)!NewTimers(p, s, a)]
            /\ pit' = [pit EXCEPT ![n] =
                  table \o Kept([k \in Chunks |-> Entry(Local, k, p, 0)], asked)]
            /\ links' = Send(ls, n, Kept([k \in Chunks |->
                  <<face(k), Packet("interest", k, p, 0)>>], asked))
  BY Zenon DEF SendMore
<1> DEFINE known == {k \in Rcv(F)!Allotted(a) : PendingAt(table, k, p)}
           asked == Rcv(F)!Allotted(a) \ known
           r == Rcv(F)!Requested(s, a, known)
           sl == [q \in others \cup {p} |-> IF q = p THEN r ELSE sockets[n][q]]
<1>2. /\ sockets' = [sockets EXCEPT ![n] = sl]
      /\ timers' = [timers EXCEPT ![n] = events \cup Rcv(F)!NewTimers(p, s, a)]
      /\ pit' = [pit EXCEPT ![n] = table \o Kept(OwnEntries(p), asked)]
      /\ links' = Send(ls, n, Kept([k \in Chunks |->
              <<CHOOSE f \in F : k \in a[f], Packet("interest", k, p, 0)>>], asked))
  BY <1>1, Zenon DEF OwnEntries
<1>3. asked \subseteq Rcv(F)!Allotted(a) /\ asked \subseteq Chunks
  BY <1>0, AllottedIs
<1>4. \A k \in asked : ~PendingAt(table, k, p)
  OBVIOUS
<1>5. Settled(F, r) /\ r.received = s.received /\ r.aborted = s.aborted
  BY <1>0, RequestedSettled, RequestedIs
<1>6. ~s.aborted => asked \cap s.received = {}
  BY <1>3, AskedIsMissing
<1> HIDE DEF asked, known, r
<1>7. DOMAIN sl = others \cup {p} /\ \A q \in others \cup {p} :
         /\ sl[q] = IF q = p THEN r ELSE sockets[n][q]
         /\ sk[q] = IF q = p THEN s ELSE sockets[n][q]
  BY Zenon
<1>8. SocketsOK(n, sl)
  <2>1. IsFiniteSet(others \cup {p})
    BY FS_AddElement
  <2> HIDE DEF sl, sk
  <2> QED BY <1>5, <1>7, <2>1 DEF SocketsOK
<1>9. TimersOK(n, events \cup Rcv(F)!NewTimers(p, s, a))
  BY <1>0, NewTimersIs DEF TimersOK
<1>10. OnceAt(table, others \cup {p}, sk)
  OBVIOUS
<1>11. OnceAt(table \o Kept(OwnEntries(p), asked), others \cup {p}, sl)
  <2>1. OnceAt(table \o Kept(OwnEntries(p), asked), others \cup {p}, sk)
    <3>1. sk[p] = s /\ p \in others \cup {p}
      BY <1>7, Zenon
    <3> HIDE DEF sk, sl
    <3> QED BY <1>3, <1>4, <1>6, <1>10, <3>1, MoreOnce
  <2> HIDE DEF sk, sl
  <2> QED BY <2>1, <1>5, <1>7, OnceSame
<1>12. /\ TableOK(n, table \o Kept(OwnEntries(p), asked))
       /\ \A m \in Node : \A k :
             Count(table \o Kept(OwnEntries(p), asked), Of(m, k)) = Count(table, Of(m, k))
       /\ Count(table \o Kept(OwnEntries(p), asked), Of(Local, 0)) = Count(table, Of(Local, 0))
  BY <1>3, AskedAdds
<1>13. Lines(Send(ls, n, Kept([k \in Chunks |->
              <<CHOOSE f \in F : k \in a[f], Packet("interest", k, p, 0)>>], asked)), Chunks)
  BY <1>0, <1>3, AskLines
<1>14. /\ sockets'[n] = sl /\ DOMAIN sockets' = Node
       /\ timers'[n] = events \cup Rcv(F)!NewTimers(p, s, a) /\ DOMAIN timers' = Node
       /\ pit'[n] = table \o Kept(OwnEntries(p), asked) /\ DOMAIN pit' = Node
       /\ \A q \in Node \ {n} :
             sockets'[q] = sockets[q] /\ timers'[q] = timers[q] /\ pit'[q] = pit[q]
  <2> HIDE DEF sl
  <2> QED BY <1>0, <1>2
<1> HIDE DEF sl, sk
<1>15. Lines(links', Chunks)
  BY <1>2, <1>13, Zenon
<1>16. DOMAIN sl = others \cup {p}
  BY <1>7, Zenon
<1> QED BY <1>8, <1>9, <1>11, <1>12, <1>14, <1>15, <1>16, Zenon

-----------------------------------------------------------------------------
(* The inductive invariant, node by node.                                  *)
CacheOK(c) == c \in SUBSET Chunks /\ Cardinality(c) <= CacheSize

(* Credit covers what the table still holds for the neighbours.            *)
Balanced(tb, cr) ==
    /\ cr \in [Node -> [Names -> Int]]
    /\ \A m \in Node, k \in Names : Count(tb, Of(m, k)) <= cr[m][k]

Accounted(dn, cl, lo, sk, tb) ==
    /\ dn \in Nat /\ cl \in Nat /\ lo \in Nat
    /\ dn = lo + cl + Cardinality(DOMAIN sk) + Count(tb, Of(Local, 0))

Shapes ==
    /\ downloads \in [Node -> Nat] /\ closed \in [Node -> Nat] /\ lost \in [Node -> Nat]
    /\ DOMAIN pit = Node /\ DOMAIN cache = Node /\ DOMAIN credit = Node
    /\ DOMAIN sockets = Node /\ DOMAIN timers = Node

NodeInv(n) ==
    /\ TableOK(n, pit[n]) /\ CacheOK(cache[n])
    /\ SocketsOK(n, sockets[n]) /\ TimersOK(n, timers[n])
    /\ OnceAt(pit[n], DOMAIN sockets[n], sockets[n])
    /\ Balanced(pit[n], credit[n])
    /\ Accounted(downloads[n], closed[n], lost[n], sockets[n], pit[n])

Inv ==
    /\ Shapes
    /\ \A n \in Node : NodeInv(n)
    /\ opened \in Nat /\ mishaps \in 0..MaxMishaps
    /\ Lines(links, Chunks) /\ Lines(infos, {0})

\* A step leaves a node alone.
Same(n) ==
    /\ downloads'[n] = downloads[n] /\ closed'[n] = closed[n] /\ lost'[n] = lost[n]
    /\ pit'[n] = pit[n] /\ cache'[n] = cache[n] /\ credit'[n] = credit[n]
    /\ sockets'[n] = sockets[n] /\ timers'[n] = timers[n]

LEMMA OneNode ==
    ASSUME \A q \in Node : NodeInv(q), NEW n \in Node, \A q \in Node \ {n} : Same(q), NodeInv(n)'
    PROVE  \A q \in Node : NodeInv(q)'
<1> SUFFICES ASSUME NEW q \in Node PROVE NodeInv(q)'
  OBVIOUS
<1>1. CASE q = n
  BY <1>1
<1>2. CASE q # n
  <2>1. NodeInv(q) /\ Same(q)
    BY <1>2
  <2> QED BY <2>1, Zenon DEF NodeInv, Same
<1> QED BY <1>1, <1>2

LEMMA Unchanged ==
    ASSUME \A q \in Node : NodeInv(q), \A q \in Node : Same(q)
    PROVE  \A q \in Node : NodeInv(q)'
BY Zenon DEF NodeInv, Same

-----------------------------------------------------------------------------
(* What entries that come and go change.                                   *)

LEMMA OnceFewer ==
    ASSUME NEW n, NEW tb, TableOK(n, tb), NEW gone, gone \subseteq DOMAIN tb,
           NEW open, NEW sk, OnceAt(tb, open, sk)
    PROVE  OnceAt(Kept(tb, DOMAIN tb \ gone), open, sk)
<1> DEFINE tc == Kept(tb, DOMAIN tb \ gone)
<1>1. ASSUME NEW E PROVE Count(tc, E) \in Nat /\ Count(tb, E) \in Nat /\ Count(tc, E) <= Count(tb, E)
  <2>1. TableOK(n, tc)
    BY LeftTable
  <2>2. Cardinality(Chosen(tb, gone, E)) \in Nat /\ Count(tc, E) = Count(tb, E) - Cardinality(Chosen(tb, gone, E))
    BY LeftCount
  <2>3. Count(tc, E) \in Nat
    <3> HIDE DEF tc
    <3> QED BY <2>1, TableCount
  <2>4. Count(tb, E) \in Nat
    BY TableCount
  <2> HIDE DEF tc
  <2> QED BY <2>2, <2>3, <2>4
<1> HIDE DEF tc
<1>2. ASSUME NEW k \in Chunks, NEW p \in Ports
      PROVE  /\ Count(tc, LocalOf(k, p)) <= 1
             /\ p \in open /\ ~sk[p].aborted /\ k \in sk[p].received => Count(tc, LocalOf(k, p)) = 0
  <2>1. /\ Count(tb, LocalOf(k, p)) <= 1
        /\ p \in open /\ ~sk[p].aborted /\ k \in sk[p].received => Count(tb, LocalOf(k, p)) = 0
    BY DEF OnceAt
  <2>2. /\ Count(tc, LocalOf(k, p)) \in Nat /\ Count(tb, LocalOf(k, p)) \in Nat
        /\ Count(tc, LocalOf(k, p)) <= Count(tb, LocalOf(k, p))
    BY <1>1
  <2> QED BY <2>1, <2>2
<1> QED BY <1>2 DEF OnceAt, tc

LEMMA OnceAppend ==
    ASSUME NEW n, NEW tb, TableOK(n, tb), NEW e \in EntriesAt(n),
           e.ifid # Local \/ e.chunk = 0, NEW open, NEW sk, OnceAt(tb, open, sk)
    PROVE  OnceAt(Append(tb, e), open, sk)
<1>1. \A k \in Chunks, p \in Ports : e \notin LocalOf(k, p)
  BY ChunksFinite DEF LocalOf
<1>2. ASSUME NEW k \in Chunks, NEW p \in Ports
      PROVE  Count(Append(tb, e), LocalOf(k, p)) = Count(tb, LocalOf(k, p))
  <2>1. Count(tb, LocalOf(k, p)) \in Nat
    BY TableCount
  <2>2. Count(Append(tb, e), LocalOf(k, p)) =
          Count(tb, LocalOf(k, p)) + IF e \in LocalOf(k, p) THEN 1 ELSE 0
    BY AppendTable
  <2> QED BY <1>1, <2>1, <2>2
<1> QED BY <1>2 DEF OnceAt

LEMMA BalancedFewer ==
    ASSUME NEW n, NEW tb, TableOK(n, tb), NEW gone, gone \subseteq DOMAIN tb,
           NEW cr, Balanced(tb, cr)
    PROVE  Balanced(Kept(tb, DOMAIN tb \ gone), cr)
<1> DEFINE tc == Kept(tb, DOMAIN tb \ gone)
<1>1. ASSUME NEW m \in Node, NEW k \in Names PROVE Count(tc, Of(m, k)) <= cr[m][k]
  <2>1. Count(tb, Of(m, k)) <= cr[m][k] /\ cr[m][k] \in Int
    BY DEF Balanced
  <2>2. /\ Cardinality(Chosen(tb, gone, Of(m, k))) \in Nat
        /\ Count(tc, Of(m, k)) = Count(tb, Of(m, k)) - Cardinality(Chosen(tb, gone, Of(m, k)))
    BY LeftCount
  <2>3. Count(tb, Of(m, k)) \in Nat
    BY TableCount
  <2> HIDE DEF tc
  <2> QED BY <2>1, <2>2, <2>3
<1> HIDE DEF tc
<1> QED BY <1>1 DEF Balanced, tc

(* Data is charged to a neighbour with the entries that it answers.        *)
Less(cr, tb, gone, k) ==
    [m \in Node |-> [cr[m] EXCEPT ![k] = @ - Cardinality({i \in gone : tb[i].ifid = m})]]

LEMMA ChargedBalanced ==
    ASSUME NEW n, NEW tb, TableOK(n, tb), NEW gone, gone \subseteq DOMAIN tb,
           NEW k \in Names, \A i \in gone : tb[i].chunk = k,
           NEW cr, Balanced(tb, cr)
    PROVE  Balanced(Kept(tb, DOMAIN tb \ gone), Less(cr, tb, gone, k))
<1> DEFINE tc == Kept(tb, DOMAIN tb \ gone)
           less(m) == Cardinality({i \in gone : tb[i].ifid = m})
           dr == [m \in Node |-> [cr[m] EXCEPT ![k] = @ - less(m)]]
<1>1. \A i \in gone : tb[i] \in Entries /\ tb[i].chunk = k
  <2>1. \A i \in DOMAIN tb : tb[i] \in EntriesAt(n)
    BY ElementOfSeq, TableCount DEF TableOK
  <2> QED BY <2>1 DEF EntriesAt
<1>2. ASSUME NEW m \in Node
      PROVE  /\ Chosen(tb, gone, Of(m, k)) = {i \in gone : tb[i].ifid = m}
             /\ \A j \in Names \ {k} : Chosen(tb, gone, Of(m, j)) = {}
  BY <1>1 DEF Chosen, Of
<1>3. ASSUME NEW m \in Node PROVE less(m) \in Nat
  <2>1. Cardinality(Chosen(tb, gone, Of(m, k))) \in Nat
    BY LeftCount
  <2> QED BY <1>2, <2>1, Zenon
<1>4. \A m \in Node, j \in Names : cr[m][j] \in Int /\ cr[m] \in [Names -> Int]
  BY DEF Balanced
<1>5. ASSUME NEW m \in Node
      PROVE  /\ dr[m] = [cr[m] EXCEPT ![k] = cr[m][k] - less(m)]
             /\ cr[m] \in [Names -> Int] /\ cr[m][k] - less(m) \in Int
  <2>1. dr[m] = [cr[m] EXCEPT ![k] = @ - less(m)]
    BY Zenon
  <2> HIDE DEF less, dr
  <2> QED BY <1>3, <1>4, <2>1
<1>6. dr \in [Node -> [Names -> Int]]
  <2>1. \A m \in Node : dr[m] \in [Names -> Int]
    <3>1. \A g \in [Names -> Int], v \in Int : [g EXCEPT ![k] = v] \in [Names -> Int]
      OBVIOUS
    <3> HIDE DEF less, dr
    <3>2. ASSUME NEW m \in Node PROVE dr[m] \in [Names -> Int]
      <4>1. cr[m] \in [Names -> Int] /\ cr[m][k] - less(m) \in Int
        BY <1>5
      <4>2. [cr[m] EXCEPT ![k] = cr[m][k] - less(m)] \in [Names -> Int]
        BY <3>1, <4>1, Zenon
      <4>3. dr[m] = [cr[m] EXCEPT ![k] = cr[m][k] - less(m)]
        BY <1>5
      <4> QED BY <4>2, <4>3, Zenon
    <3> QED BY <3>2
  <2>2. dr = [m \in Node |-> dr[m]]
    BY Zenon
  <2> HIDE DEF less, dr
  <2> QED BY <2>1, <2>2
<1>7. ASSUME NEW m \in Node, NEW j \in Names
      PROVE  dr[m][j] = IF j = k THEN cr[m][k] - less(m) ELSE cr[m][j]
  <2> HIDE DEF less, dr
  <2> QED BY <1>5
<1>8. ASSUME NEW m \in Node, NEW j \in Names PROVE Count(tc, Of(m, j)) <= dr[m][j]
  <2>1. Count(tb, Of(m, j)) <= cr[m][j] /\ Count(tb, Of(m, j)) \in Nat /\ cr[m][j] \in Int
    BY <1>4, TableCount DEF Balanced
  <2>2. Count(tc, Of(m, j)) = Count(tb, Of(m, j)) - Cardinality(Chosen(tb, gone, Of(m, j)))
    BY LeftCount
  <2>3. CASE j = k
    <3>1. Cardinality(Chosen(tb, gone, Of(m, j))) = less(m)
      BY <1>2, <2>3, Zenon
    <3>2. less(m) \in Nat /\ dr[m][j] = cr[m][j] - less(m)
      BY <1>3, <1>7, <2>3
    <3> HIDE DEF less, dr, tc
    <3> QED BY <2>1, <2>2, <3>1, <3>2
  <2>4. CASE j # k
    <3>1. Cardinality(Chosen(tb, gone, Of(m, j))) = 0
      <4>1. Chosen(tb, gone, Of(m, j)) = {}
        BY <1>2, <2>4
      <4> QED BY <4>1, FS_EmptySet
    <3>2. dr[m][j] = cr[m][j]
      BY <1>7, <2>4
    <3> HIDE DEF less, dr, tc
    <3> QED BY <2>1, <2>2, <3>1, <3>2
  <2> QED BY <2>3, <2>4
<1> HIDE DEF dr, tc
<1>9. Balanced(tc, dr)
  BY <1>6, <1>8 DEF Balanced
<1>10. Less(cr, tb, gone, k) = dr
  BY Zenon DEF Less, dr
<1> QED BY <1>9, <1>10 DEF tc

LEMMA BalancedAppend ==
    ASSUME NEW n, NEW tb, TableOK(n, tb), NEW m \in Node, NEW e \in EntriesAt(n), e.ifid = m,
           NEW cr, Balanced(tb, cr)
    PROVE  Balanced(Append(tb, e), [cr EXCEPT ![m][e.chunk] = @ + 1])
<1> DEFINE dr == [cr EXCEPT ![m][e.chunk] = @ + 1]
<1>1. cr \in [Node -> [Names -> Int]] /\ e \in Entries /\ e.chunk \in Names
  BY DEF Balanced, EntriesAt, Entries
<1>2. dr \in [Node -> [Names -> Int]]
  BY <1>1
<1>3. \A q \in Node, k \in Names : dr[q][k] = cr[q][k] + IF e \in Of(q, k) THEN 1 ELSE 0
  <2> SUFFICES ASSUME NEW q \in Node, NEW k \in Names
               PROVE  dr[q][k] = cr[q][k] + IF e \in Of(q, k) THEN 1 ELSE 0
    OBVIOUS
  <2>1. dr[q][k] = IF q = m /\ k = e.chunk THEN cr[q][k] + 1 ELSE cr[q][k]
    BY <1>1
  <2>2. e \in Of(q, k) <=> q = m /\ k = e.chunk
    BY <1>1 DEF Of
  <2>3. cr[q][k] \in Int
    BY <1>1
  <2> HIDE DEF dr
  <2> QED BY <2>1, <2>2, <2>3
<1>4. ASSUME NEW q \in Node, NEW k \in Names PROVE Count(Append(tb, e), Of(q, k)) <= dr[q][k]
  <2>1. Count(tb, Of(q, k)) <= cr[q][k] /\ Count(tb, Of(q, k)) \in Nat /\ cr[q][k] \in Int
    BY <1>1, TableCount DEF Balanced
  <2>2. Count(Append(tb, e), Of(q, k)) = Count(tb, Of(q, k)) + IF e \in Of(q, k) THEN 1 ELSE 0
    BY AppendTable
  <2> HIDE DEF dr
  <2> QED BY <1>3, <2>1, <2>2
<1> HIDE DEF dr
<1>5. Balanced(Append(tb, e), dr)
  BY <1>2, <1>4 DEF Balanced
<1> QED BY <1>5 DEF dr

LEMMA BalancedLocal ==
    ASSUME NEW n, NEW tb, TableOK(n, tb), NEW e \in EntriesAt(n), e.ifid = Local,
           NEW cr, Balanced(tb, cr)
    PROVE  Balanced(Append(tb, e), cr)
<1>1. ASSUME NEW m \in Node, NEW k \in Names PROVE Count(Append(tb, e), Of(m, k)) <= cr[m][k]
  <2>1. e \notin Of(m, k)
    BY NodesAre DEF Of
  <2>2. Count(Append(tb, e), Of(m, k)) = Count(tb, Of(m, k)) + IF e \in Of(m, k) THEN 1 ELSE 0
    BY AppendTable
  <2>3. Count(tb, Of(m, k)) \in Nat /\ Count(tb, Of(m, k)) <= cr[m][k]
    BY TableCount DEF Balanced
  <2> QED BY <2>1, <2>2, <2>3
<1> QED BY <1>1 DEF Balanced

-----------------------------------------------------------------------------
(* The steps of a node.                                                    *)

LEMMA InitInv == ASSUME Init PROVE Inv
<1>0. Cardinality({}) = 0 /\ IsFiniteSet({})
  BY FS_EmptySet
<1>1. Shapes
  BY DEF Init, Shapes
<1>2. Lines(Empty, Chunks) /\ Lines(Empty, {0})
  <2>1. \A n, m \in Node : Empty[n][m] = <<>> /\ DOMAIN Empty[n] = Node
    BY DEF Empty
  <2>2. DOMAIN Empty = Node
    BY DEF Empty
  <2>3. \A X : <<>> \in Seq(X)
    OBVIOUS
  <2> QED BY <2>1, <2>2, <2>3, Zenon DEF Lines
<1>3. opened \in Nat /\ mishaps \in 0..MaxMishaps
  BY BoundsAssumption DEF Init
<1>4. ASSUME NEW n \in Node PROVE NodeInv(n)
  <2>1. /\ downloads[n] = 0 /\ closed[n] = 0 /\ lost[n] = 0 /\ pit[n] = <<>> /\ cache[n] = {}
        /\ sockets[n] = [p \in {} |-> {}] /\ timers[n] = {}
        /\ credit[n] = [m \in Node |-> [k \in Names |-> 0]]
    BY <1>4 DEF Init
  <2>2. DOMAIN sockets[n] = {}
    BY <2>1, Zenon
  <2>3. \A E : Count(pit[n], E) = 0
    BY <2>1, CountEmpty
  <2>4. TableOK(n, pit[n])
    BY <2>1 DEF TableOK
  <2>5. CacheOK(cache[n])
    BY <1>0, <2>1, BoundsAssumption DEF CacheOK
  <2>6. SocketsOK(n, sockets[n]) /\ TimersOK(n, timers[n])
    BY <1>0, <2>1, <2>2 DEF SocketsOK, TimersOK
  <2>7. OnceAt(pit[n], DOMAIN sockets[n], sockets[n])
    BY <2>3 DEF OnceAt
  <2>8. Balanced(pit[n], credit[n])
    BY <2>1, <2>3 DEF Balanced
  <2>9. Accounted(downloads[n], closed[n], lost[n], sockets[n], pit[n])
    BY <1>0, <2>1, <2>2, <2>3 DEF Accounted
  <2> QED BY <2>4, <2>5, <2>6, <2>7, <2>8, <2>9 DEF NodeInv
<1> QED BY <1>1, <1>2, <1>3, <1>4 DEF Inv, Init

LEMMA MinIn == ASSUME NEW S, S \subseteq Nat, S # {} PROVE Min(S) \in S
<1>1. \E x \in S : \A y \in S : x <= y
  BY LeastOf
<1> QED BY <1>1, Zenon DEF Min

LEMMA DownloadStep ==
    ASSUME Inv, NEW n \in Consumers, NEW t \in Times, Download(n, t) PROVE Inv'
<1> DEFINE e == Entry(Local, 0, 0, t)
<1>1. /\ n \in Node /\ Min(Routes[n]) \in Routes[n] /\ Min(Routes[n]) \in Node /\ n # Min(Routes[n])
  <2>1. n \in Node /\ Routes[n] \subseteq Node /\ n \notin Routes[n] /\ Routes[n] # {}
    BY ConsumerRoutes
  <2>2. Routes[n] \subseteq Nat
    BY <2>1, NodeAssumption
  <2> QED BY <2>1, <2>2, MinIn
<1>2. NodeInv(n) /\ Shapes
  BY <1>1 DEF Inv
<1>3. /\ e \in EntriesAt(n) /\ e.ifid = Local /\ e.chunk = 0 /\ e \in Of(Local, 0)
  BY BoundsAssumption DEF Entry, EntriesAt, Entries, Of, Names, PortNumbers, Issues
<1> HIDE DEF e
<1>4. /\ downloads' = [downloads EXCEPT ![n] = downloads[n] + 1]
      /\ pit' = [pit EXCEPT ![n] = Append(pit[n], e)]
      /\ infos' = SendOne(infos, n, Min(Routes[n]), Packet("interest", 0, 0, t))
      /\ opened' = opened /\ closed' = closed /\ lost' = lost /\ cache' = cache
      /\ sockets' = sockets /\ timers' = timers /\ links' = links /\ mishaps' = mishaps
      /\ credit' = credit
  BY DEF Download, e
<1>5. downloads'[n] = downloads[n] + 1 /\ pit'[n] = Append(pit[n], e) /\ Shapes'
  BY <1>1, <1>2, <1>4 DEF Shapes
<1>6. \A q \in Node \ {n} : Same(q)
  BY <1>4 DEF Same
<1>7. NodeInv(n)'
  <2>1. /\ TableOK(n, pit[n]) /\ OnceAt(pit[n], DOMAIN sockets[n], sockets[n])
        /\ Balanced(pit[n], credit[n])
        /\ Accounted(downloads[n], closed[n], lost[n], sockets[n], pit[n])
    BY <1>2 DEF NodeInv
  <2>2. TableOK(n, Append(pit[n], e))
    BY <1>3, <2>1, AppendTable
  <2>3. OnceAt(Append(pit[n], e), DOMAIN sockets[n], sockets[n])
    BY <1>3, <2>1, OnceAppend
  <2>4. Balanced(Append(pit[n], e), credit[n])
    BY <1>3, <2>1, BalancedLocal
  <2>5. Accounted(downloads[n] + 1, closed[n], lost[n], sockets[n], Append(pit[n], e))
    <3>1. Count(Append(pit[n], e), Of(Local, 0)) = Count(pit[n], Of(Local, 0)) + 1
      BY <1>3, <2>1, AppendTable
    <3>2. Cardinality(DOMAIN sockets[n]) \in Nat
      BY <1>2, FS_CardinalityType DEF NodeInv, SocketsOK
    <3>3. Count(pit[n], Of(Local, 0)) \in Nat
      BY <2>1, TableCount
    <3> QED BY <2>1, <3>1, <3>2, <3>3 DEF Accounted
  <2> QED BY <1>2, <1>4, <1>5, <2>2, <2>3, <2>4, <2>5, Zenon DEF NodeInv
<1>8. Lines(infos', {0})
  <2>1. Packet("interest", 0, 0, t) \in Packets(n, Min(Routes[n]), {0})
    BY <1>1 DEF Packet, Packets, PortNumbers, Issues
  <2> QED BY <1>1, <1>4, <2>1, SendOneLines DEF Inv
<1>9. \A q \in Node : NodeInv(q)'
  BY <1>1, <1>6, <1>7, OneNode DEF Inv
<1> QED BY <1>4, <1>5, <1>8, <1>9 DEF Inv

(* An interest is answered, or recorded and maybe sent on.                 *)
LEMMA InterestStep ==
    ASSUME Inv, NEW n \in Node, NEW m \in Node, NEW K, K \subseteq Names,
           NEW ls, Lines(ls, K), NEW i \in Packets(m, n, K), i.type = "interest",
           NEW after, Interest(ls, n, m, i, after),
           downloads' = downloads, closed' = closed, lost' = lost, cache' = cache,
           sockets' = sockets, timers' = timers
    PROVE  Shapes' /\ (\A q \in Node : NodeInv(q)') /\ Lines(after, K)
<1>1. /\ n # m /\ n \in Routes[m] /\ i.chunk \in K /\ i.chunk \in Names
      /\ i.port \in PortNumbers /\ i.issue \in Issues
      /\ i = [type |-> "interest", chunk |-> i.chunk, port |-> i.port, issue |-> i.issue]
  BY DEF Packets
<1>2. CASE /\ after = SendOne(ls, n, m, Packet("data", i.chunk, i.port, i.issue))
           /\ UNCHANGED <<pit, credit>>
  <2>1. Packet("data", i.chunk, i.port, i.issue) \in Packets(n, m, K)
    BY <1>1 DEF Packet, Packets
  <2>2. Lines(after, K)
    BY <1>2, <2>1, SendOneLines
  <2>3. Shapes' /\ \A q \in Node : Same(q)
    BY <1>2 DEF Inv, Shapes, Same
  <2> QED BY <2>2, <2>3, Unchanged DEF Inv
<1>3. CASE /\ ~Serves(n, i)
           /\ pit' = [pit EXCEPT ![n] = Append(@, Entry(m, i.chunk, i.port, i.issue))]
           /\ credit' = [credit EXCEPT ![n][m][i.chunk] = @ + 1]
           /\ \/ (Filtered(n, i) \/ Routes[n] = {}) /\ after = ls
              \/ ~Filtered(n, i) /\ \E f \in Drawn(n) : after = SendOne(ls, n, f, i)
  <2> DEFINE e == Entry(m, i.chunk, i.port, i.issue)
  <2>1. /\ e \in EntriesAt(n) /\ e.ifid = m /\ e.ifid # Local /\ e.chunk = i.chunk
        /\ e \notin Of(Local, 0)
    BY <1>1, NodesAre DEF Entry, EntriesAt, Entries, Of
  <2> HIDE DEF e
  <2>2. NodeInv(n) /\ Shapes
    BY DEF Inv
  <2>3. /\ pit' = [pit EXCEPT ![n] = Append(pit[n], e)]
        /\ credit' = [credit EXCEPT ![n] = [credit[n] EXCEPT ![m][e.chunk] = @ + 1]]
    <3>1. pit' = [pit EXCEPT ![n] = Append(pit[n], e)]
      BY <1>3 DEF e
    <3>2. credit' = [credit EXCEPT ![n] = [credit[n] EXCEPT ![m][i.chunk] = @ + 1]]
      BY <1>3, <2>2 DEF Shapes
    <3> QED BY <2>1, <3>1, <3>2
  <2>4. /\ pit'[n] = Append(pit[n], e) /\ credit'[n] = [credit[n] EXCEPT ![m][e.chunk] = @ + 1]
        /\ Shapes' /\ \A q \in Node \ {n} : Same(q)
    BY <2>2, <2>3 DEF Shapes, Same
  <2>5. /\ TableOK(n, pit[n]) /\ OnceAt(pit[n], DOMAIN sockets[n], sockets[n])
        /\ Balanced(pit[n], credit[n])
        /\ Accounted(downloads[n], closed[n], lost[n], sockets[n], pit[n])
    BY <2>2 DEF NodeInv
  <2>6. TableOK(n, Append(pit[n], e))
    BY <2>1, <2>5, AppendTable
  <2>7. OnceAt(Append(pit[n], e), DOMAIN sockets[n], sockets[n])
    BY <2>1, <2>5, OnceAppend
  <2>8. Balanced(Append(pit[n], e), [credit[n] EXCEPT ![m][e.chunk] = @ + 1])
    BY <2>1, <2>5, BalancedAppend
  <2>9. Accounted(downloads[n], closed[n], lost[n], sockets[n], Append(pit[n], e))
    <3>1. Count(Append(pit[n], e), Of(Local, 0)) =
            Count(pit[n], Of(Local, 0)) + IF e \in Of(Local, 0) THEN 1 ELSE 0
      BY <2>1, <2>5, AppendTable
    <3>2. Count(pit[n], Of(Local, 0)) \in Nat
      BY <2>5, TableCount
    <3>3. Count(Append(pit[n], e), Of(Local, 0)) = Count(pit[n], Of(Local, 0))
      BY <2>1, <3>1, <3>2
    <3> QED BY <2>5, <3>3 DEF Accounted
  <2>10. NodeInv(n)'
    BY <2>2, <2>4, <2>6, <2>7, <2>8, <2>9, Zenon DEF NodeInv
  <2>11. \A q \in Node : NodeInv(q)'
    BY <2>4, <2>10, OneNode DEF Inv
  <2>12. CASE after = ls
    BY <2>4, <2>11, <2>12
  <2>13. CASE \E f \in Routes[n] : after = SendOne(ls, n, f, i)
    <3>1. PICK f \in Routes[n] : after = SendOne(ls, n, f, i)
      BY <2>13
    <3>2. f \in Node /\ n # f
      BY <1>3, RoutesAssumption DEF Serves
    <3>3. i \in Packets(n, f, K)
      BY <3>2 DEF Packets
    <3>4. Lines(after, K)
      BY <3>1, <3>2, <3>3, SendOneLines
    <3> QED BY <2>4, <2>11, <3>4
  <2> QED BY <1>3, <2>12, <2>13 DEF Drawn
<1> QED BY <1>2, <1>3 DEF Interest

LEMMA ProcessInterestStep ==
    ASSUME Inv, NEW n \in Node, NEW m \in Node, ProcessInterest(n, m) PROVE Inv'
<1> DEFINE i == Head(links[m][n])
<1>1. /\ links[m][n] # <<>> /\ i.type = "interest"
      /\ Interest(Received(links, n, m), n, m, i, links')
      /\ downloads' = downloads /\ opened' = opened /\ closed' = closed /\ lost' = lost
      /\ cache' = cache /\ sockets' = sockets /\ timers' = timers /\ infos' = infos
      /\ mishaps' = mishaps
  BY DEF ProcessInterest
<1>2. Lines(Received(links, n, m), Chunks) /\ i \in Packets(m, n, Chunks)
  BY <1>1, ReceivedLines DEF Inv
<1>3. Chunks \subseteq Names
  BY BoundsAssumption DEF Chunks, Names
<1> HIDE DEF i
<1>4. Shapes' /\ (\A q \in Node : NodeInv(q)') /\ Lines(links', Chunks)
  BY <1>1, <1>2, <1>3, InterestStep
<1> QED BY <1>1, <1>4 DEF Inv

LEMMA ProcessInfoInterestStep ==
    ASSUME Inv, NEW n \in Node, NEW m \in Node, ProcessInfoInterest(n, m) PROVE Inv'
<1> DEFINE i == Head(infos[m][n])
<1>1. /\ infos[m][n] # <<>> /\ i.type = "interest"
      /\ Interest(Received(infos, n, m), n, m, i, infos')
      /\ downloads' = downloads /\ opened' = opened /\ closed' = closed /\ lost' = lost
      /\ cache' = cache /\ sockets' = sockets /\ timers' = timers /\ links' = links
      /\ mishaps' = mishaps
  BY DEF ProcessInfoInterest
<1>2. Lines(Received(infos, n, m), {0}) /\ i \in Packets(m, n, {0})
  BY <1>1, ReceivedLines DEF Inv
<1>3. {0} \subseteq Names
  BY BoundsAssumption DEF Names
<1> HIDE DEF i
<1>4. Shapes' /\ (\A q \in Node : NodeInv(q)') /\ Lines(infos', {0})
  BY <1>1, <1>2, <1>3, InterestStep
<1> QED BY <1>1, <1>4 DEF Inv

(* A queue that was full.                                                  *)
LEMMA LoseStep ==
    ASSUME Inv, NEW n \in Node, NEW m \in Node, Lose(n, m) PROVE Inv'
<1>1. /\ links[m][n] # <<>> /\ mishaps < MaxMishaps /\ links' = Received(links, n, m)
      /\ mishaps' = mishaps + 1 /\ opened' = opened /\ infos' = infos
      /\ Shapes' /\ \A q \in Node : Same(q)
  BY DEF Lose, Inv, Shapes, Same
<1>2. Lines(links', Chunks)
  BY <1>1, ReceivedLines DEF Inv
<1>3. \A q \in Node : NodeInv(q)'
  BY <1>1, Unchanged DEF Inv
<1>4. mishaps' \in 0..MaxMishaps
  BY <1>1, BoundsAssumption DEF Inv
<1> QED BY <1>1, <1>2, <1>3, <1>4 DEF Inv

LEMMA EarlyType ==
    ASSUME Inv, NEW b, Early(b) PROVE mishaps' \in 0..MaxMishaps
BY BoundsAssumption DEF Early, Inv

(* An entry expires; that of an INFO makes a download lost.                *)
LEMMA ExpireStep ==
    ASSUME Inv, NEW n \in Node, NEW i \in DOMAIN pit[n], Expire(n, i) PROVE Inv'
<1> DEFINE tc == Kept(pit[n], DOMAIN pit[n] \ {i})
<1>1. /\ pit' = [pit EXCEPT ![n] = tc]
      /\ lost' = IF pit[n][i].ifid = Local /\ pit[n][i].chunk = 0
                 THEN [lost EXCEPT ![n] = @ + 1] ELSE lost
      /\ downloads' = downloads /\ opened' = opened /\ closed' = closed /\ cache' = cache
      /\ sockets' = sockets /\ timers' = timers /\ links' = links /\ infos' = infos
      /\ credit' = credit
  BY DEF Expire, Selected
<1>2. mishaps' \in 0..MaxMishaps
  BY EarlyType DEF Expire
<1>3. NodeInv(n) /\ Shapes
  BY DEF Inv
<1>4. /\ TableOK(n, pit[n]) /\ OnceAt(pit[n], DOMAIN sockets[n], sockets[n])
      /\ Balanced(pit[n], credit[n])
      /\ Accounted(downloads[n], closed[n], lost[n], sockets[n], pit[n])
  BY <1>3 DEF NodeInv
<1>5. TableOK(n, tc) /\ OnceAt(tc, DOMAIN sockets[n], sockets[n]) /\ Balanced(tc, credit[n])
  <2>1. {i} \subseteq DOMAIN pit[n]
    OBVIOUS
  <2> QED BY <1>4, <2>1, LeftTable, OnceFewer, BalancedFewer
<1> DEFINE d == IF pit[n][i].ifid = Local /\ pit[n][i].chunk = 0 THEN 1 ELSE 0
<1>6. Count(tc, Of(Local, 0)) = Count(pit[n], Of(Local, 0)) - d
  <2>1. Cardinality(Chosen(pit[n], {i}, Of(Local, 0))) = d
    <3>1. pit[n][i] \in Entries
      BY <1>4, ElementOfSeq, TableCount DEF TableOK, EntriesAt
    <3>2. CASE pit[n][i].ifid = Local /\ pit[n][i].chunk = 0
      <4>1. Chosen(pit[n], {i}, Of(Local, 0)) = {i}
        BY <3>1, <3>2 DEF Chosen, Of
      <4> QED BY <3>2, <4>1, FS_Singleton
    <3>3. CASE ~(pit[n][i].ifid = Local /\ pit[n][i].chunk = 0)
      <4>1. Chosen(pit[n], {i}, Of(Local, 0)) = {}
        BY <3>1, <3>3 DEF Chosen, Of
      <4> QED BY <3>3, <4>1, FS_EmptySet
    <3> QED BY <3>2, <3>3
  <2>2. Count(tc, Of(Local, 0)) =
          Count(pit[n], Of(Local, 0)) - Cardinality(Chosen(pit[n], {i}, Of(Local, 0)))
    <3>1. {i} \subseteq DOMAIN pit[n]
      OBVIOUS
    <3> QED BY <1>4, <3>1, LeftCount
  <2> QED BY <2>1, <2>2
<1>7. d \in {0, 1} /\ lost' = IF d = 1 THEN [lost EXCEPT ![n] = lost[n] + 1] ELSE lost
  BY <1>1
<1> HIDE DEF tc, d
<1>8. /\ pit'[n] = tc /\ lost'[n] = lost[n] + d /\ Shapes' /\ \A q \in Node \ {n} : Same(q)
  <2>1. lost[n] \in Nat
    BY <1>4 DEF Accounted
  <2> QED BY <1>1, <1>3, <1>7, <2>1 DEF Shapes, Same
<1>9. Accounted(downloads[n], closed[n], lost[n] + d, sockets[n], tc)
  <2>1. Cardinality(DOMAIN sockets[n]) \in Nat
    BY <1>3, FS_CardinalityType DEF NodeInv, SocketsOK
  <2>2. Count(pit[n], Of(Local, 0)) \in Nat
    BY <1>4, TableCount
  <2> QED BY <1>4, <1>6, <1>7, <2>1, <2>2 DEF Accounted
<1>10. NodeInv(n)'
  BY <1>1, <1>3, <1>5, <1>8, <1>9, Zenon DEF NodeInv
<1>11. \A q \in Node : NodeInv(q)'
  BY <1>8, <1>10, OneNode DEF Inv
<1> QED BY <1>1, <1>2, <1>8, <1>11 DEF Inv

-----------------------------------------------------------------------------
(* Steps that let a socket ask for more.                                   *)

\* What NodeInv says of a node that has a socket s of its own at port p.
LEMMA MoreInv ==
    ASSUME Inv, NEW n \in Consumers, NEW p \in Ports, NEW s, Ready(Routes[n], s),
           NEW others, others \subseteq Ports, IsFiniteSet(others),
           \A q \in others : Settled(Routes[n], sockets[n][q]),
           NEW table, TableOK(n, table), NEW ls, Lines(ls, Chunks),
           NEW events, TimersOK(n, events),
           OnceAt(table, others \cup {p}, [q \in others \cup {p} |-> IF q = p THEN s ELSE sockets[n][q]]),
           SendMore(n, p, s, others, table, ls, events),
           NEW cr, Balanced(table, cr),
           downloads' = downloads, closed' = closed, lost' = lost,
           downloads[n] = lost[n] + closed[n] + Cardinality(others \cup {p}) + Count(table, Of(Local, 0)),
           DOMAIN cache' = Node, CacheOK(cache'[n]), DOMAIN credit' = Node, credit'[n] = cr,
           \A q \in Node \ {n} : cache'[q] = cache[q] /\ credit'[q] = credit[q]
    PROVE  Shapes' /\ (\A q \in Node : NodeInv(q)') /\ Lines(links', Chunks)
<1>1. NodeInv(n) /\ Shapes /\ n \in Node
  BY NodesAre DEF Inv
<1>2. /\ DOMAIN sockets' = Node /\ DOMAIN timers' = Node /\ DOMAIN pit' = Node
      /\ \A q \in Node \ {n} :
            sockets'[q] = sockets[q] /\ timers'[q] = timers[q] /\ pit'[q] = pit[q]
      /\ DOMAIN sockets'[n] = others \cup {p} /\ SocketsOK(n, sockets'[n])
      /\ TimersOK(n, timers'[n])
      /\ TableOK(n, pit'[n]) /\ OnceAt(pit'[n], others \cup {p}, sockets'[n])
      /\ \A m \in Node : \A k : Count(pit'[n], Of(m, k)) = Count(table, Of(m, k))
      /\ Count(pit'[n], Of(Local, 0)) = Count(table, Of(Local, 0))
      /\ Lines(links', Chunks)
  <2>1. DOMAIN sockets = Node /\ DOMAIN timers = Node /\ DOMAIN pit = Node
    BY <1>1 DEF Shapes
  <2> QED BY <2>1, MoreIs
<1>3. Shapes' /\ \A q \in Node \ {n} : Same(q)
  BY <1>1, <1>2 DEF Shapes, Same
<1>4. Balanced(pit'[n], cr)
  BY <1>2 DEF Balanced
<1>5. Accounted(downloads[n], closed[n], lost[n], sockets'[n], pit'[n])
  <2>1. downloads[n] \in Nat /\ closed[n] \in Nat /\ lost[n] \in Nat
    BY <1>1 DEF NodeInv, Accounted
  <2> QED BY <1>2, <2>1, Zenon DEF Accounted
<1>6. NodeInv(n)'
  BY <1>2, <1>4, <1>5, Zenon DEF NodeInv
<1>7. \A q \in Node : NodeInv(q)'
  BY <1>1, <1>3, <1>6, OneNode DEF Inv
<1> QED BY <1>2, <1>3, <1>7

\* A socket other than p's is as it was; p's is s.
LEMMA OnceWith ==
    ASSUME NEW tb, NEW open, NEW sk, OnceAt(tb, open, sk), NEW p, NEW s,
           \A k \in Chunks : ~s.aborted /\ k \in s.received => Count(tb, LocalOf(k, p)) = 0
    PROVE  OnceAt(tb, open \cup {p}, [q \in open \cup {p} |-> IF q = p THEN s ELSE sk[q]])
<1> DEFINE sl == [q \in open \cup {p} |-> IF q = p THEN s ELSE sk[q]]
<1>1. \A q \in open \cup {p} : sl[q] = IF q = p THEN s ELSE sk[q]
  BY Zenon
<1> HIDE DEF sl
<1>2. ASSUME NEW k \in Chunks, NEW q \in Ports
      PROVE  /\ Count(tb, LocalOf(k, q)) <= 1
             /\ q \in open \cup {p} /\ ~sl[q].aborted /\ k \in sl[q].received =>
                  Count(tb, LocalOf(k, q)) = 0
  <2>1. /\ Count(tb, LocalOf(k, q)) <= 1
        /\ q \in open /\ ~sk[q].aborted /\ k \in sk[q].received => Count(tb, LocalOf(k, q)) = 0
    BY DEF OnceAt
  <2>2. CASE q = p
    <3>1. p \in open \cup {p} /\ sl[p] = s
      BY <1>1
    <3> QED BY <2>1, <2>2, <3>1
  <2>3. CASE q # p
    <3>1. q \in open \cup {p} => q \in open /\ sl[q] = sk[q]
      BY <1>1, <2>3
    <3> QED BY <2>1, <3>1
  <2> QED BY <2>2, <2>3
<1> QED BY <1>2 DEF OnceAt, sl

LEMMA FireStep ==
    ASSUME Inv, NEW n \in Node, NEW t \in timers[n], Fire(n, t) PROVE Inv'
<1> DEFINE events == timers[n] \ {t}
           p == t.port
           sk == sockets[n]
           F == Routes[n]
<1>1. /\ downloads' = downloads /\ opened' = opened /\ closed' = closed /\ lost' = lost
      /\ cache' = cache /\ infos' = infos /\ credit' = credit
  BY DEF Fire
<1>2. mishaps' \in 0..MaxMishaps
  BY EarlyType DEF Fire
<1>3. NodeInv(n) /\ Shapes
  BY DEF Inv
<1>4. /\ TableOK(n, pit[n]) /\ CacheOK(cache[n]) /\ SocketsOK(n, sk) /\ TimersOK(n, timers[n])
      /\ OnceAt(pit[n], DOMAIN sk, sk) /\ Balanced(pit[n], credit[n])
      /\ Accounted(downloads[n], closed[n], lost[n], sk, pit[n])
  BY <1>3 DEF NodeInv
<1>5. TimersOK(n, events) /\ t.ifid \in F /\ t.chunk \in Chunks
  BY <1>4 DEF TimersOK
<1>6. CASE p \notin Open(n)
  <2>1. timers' = [timers EXCEPT ![n] = events] /\ sockets' = sockets /\ pit' = pit /\ links' = links
    BY <1>6 DEF Fire
  <2>2. timers'[n] = events /\ Shapes' /\ \A q \in Node \ {n} : Same(q)
    <3> HIDE DEF events
    <3> QED BY <1>1, <1>3, <2>1 DEF Shapes, Same
  <2>3. NodeInv(n)'
    <3> HIDE DEF events, sk
    <3> QED BY <1>1, <1>3, <1>5, <2>1, <2>2, Zenon DEF NodeInv
  <2>4. \A q \in Node : NodeInv(q)'
    BY <2>2, <2>3, OneNode DEF Inv
  <2> QED BY <1>1, <1>2, <2>1, <2>2, <2>4 DEF Inv
<1>7. CASE p \in Open(n)
  <2>1. p \in DOMAIN sk /\ n \in Consumers /\ p \in Ports /\ Settled(F, sk[p]) /\ IsFiniteSet(DOMAIN sk)
        /\ DOMAIN sk \subseteq Ports /\ \A q \in DOMAIN sk : Settled(F, sk[q])
    BY <1>4, <1>7 DEF SocketsOK, Open
  <2>2. PICK s \in IF Rcv(F)!IsTimeout(sk[p], t) THEN Rcv(F)!TimedOut(sk[p], t) ELSE {sk[p]} :
           IF s.aborted
           THEN /\ sockets' = [sockets EXCEPT ![n][p] = s]
                /\ timers' = [timers EXCEPT ![n] = events]
                /\ UNCHANGED <<pit, links>>
           ELSE SendMore(n, p, s, Open(n), pit[n], links, events)
    BY <1>7, Zenon DEF Fire
  <2>3. Ready(F, s) /\ s.received = sk[p].received /\ (sk[p].aborted => s.aborted)
    <3>1. CASE Rcv(F)!IsTimeout(sk[p], t)
      <4>1. s \in Rcv(F)!TimedOut(sk[p], t)
        BY <2>2, <3>1
      <4>2. t.chunk \notin sk[p].received
        BY <3>1, Zenon DEF Rcv!IsTimeout
      <4> HIDE DEF sk, F, p
      <4> QED BY <1>5, <2>1, <4>1, <4>2, TimedOutIs
    <3>2. CASE ~Rcv(F)!IsTimeout(sk[p], t)
      <4>1. s = sk[p]
        BY <2>2, <3>2
      <4> HIDE DEF sk, F, p
      <4> QED BY <2>1, <4>1, SettledReady
    <3> QED BY <3>1, <3>2
  <2>4. \A k \in Chunks : ~s.aborted /\ k \in s.received => Count(pit[n], LocalOf(k, p)) = 0
    <3> HIDE DEF sk, p
    <3> QED BY <1>4, <2>1, <2>3 DEF OnceAt
  <2>5. OnceAt(pit[n], DOMAIN sk \cup {p}, [q \in DOMAIN sk \cup {p} |-> IF q = p THEN s ELSE sk[q]])
    <3> HIDE DEF sk, p
    <3> QED BY <1>4, <2>4, OnceWith
  <2>6. CASE s.aborted
    <3>1. /\ sockets' = [sockets EXCEPT ![n] = [sk EXCEPT ![p] = s]]
          /\ timers' = [timers EXCEPT ![n] = events] /\ pit' = pit /\ links' = links
      <4>1. /\ sockets' = [sockets EXCEPT ![n][p] = s]
            /\ timers' = [timers EXCEPT ![n] = events]
            /\ UNCHANGED <<pit, links>>
        BY <2>2, <2>6
      <4>2. [sockets EXCEPT ![n][p] = s] = [sockets EXCEPT ![n] = [sk EXCEPT ![p] = s]]
        BY Zenon
      <4> HIDE DEF events, sk, p
      <4> QED BY <4>1, <4>2
    <3> DEFINE sl == [sk EXCEPT ![p] = s]
    <3>2. DOMAIN sl = DOMAIN sk /\ \A q \in DOMAIN sk : sl[q] = IF q = p THEN s ELSE sk[q]
      <4> HIDE DEF sk, p
      <4> QED BY Zenon
    <3> HIDE DEF events, sl
    <3>3. timers'[n] = events /\ sockets'[n] = sl /\ Shapes' /\ \A q \in Node \ {n} : Same(q)
      <4>1. DOMAIN timers = Node /\ DOMAIN sockets = Node
        BY <1>3 DEF Shapes
      <4>2. timers'[n] = events /\ sockets'[n] = sl
        BY <3>1, <4>1 DEF sl
      <4> QED BY <1>1, <1>3, <3>1, <4>2 DEF Shapes, Same
    <3>4. SocketsOK(n, sl)
      <4>1. Settled(F, s)
        BY <2>3, <2>6 DEF Ready, Settled
      <4> HIDE DEF sk, p
      <4> QED BY <2>1, <3>2, <4>1 DEF SocketsOK
    <3>5. OnceAt(pit[n], DOMAIN sl, sl)
      <4> HIDE DEF sk, p
      <4> QED BY <1>4, <2>6, <3>2 DEF OnceAt
    <3>6. Accounted(downloads[n], closed[n], lost[n], sl, pit[n])
      <4> HIDE DEF sk, p
      <4> QED BY <1>4, <3>2, Zenon DEF Accounted
    <3>7. NodeInv(n)'
      <4> HIDE DEF sk, p
      <4> QED BY <1>1, <1>4, <1>5, <3>1, <3>3, <3>4, <3>5, <3>6, Zenon DEF NodeInv
    <3>8. \A q \in Node : NodeInv(q)'
      BY <3>3, <3>7, OneNode DEF Inv
    <3> QED BY <1>1, <1>2, <3>1, <3>3, <3>8 DEF Inv
  <2>7. CASE ~s.aborted
    <3>1. SendMore(n, p, s, DOMAIN sk, pit[n], links, events)
      BY <2>2, <2>7 DEF Open
    <3>2. DOMAIN sk \cup {p} = DOMAIN sk
      BY <2>1
    <3>3. downloads[n] = lost[n] + closed[n] + Cardinality(DOMAIN sk \cup {p}) + Count(pit[n], Of(Local, 0))
      <4> HIDE DEF sk, p
      <4> QED BY <1>4, <3>2, Zenon DEF Accounted
    <3>4. /\ DOMAIN cache' = Node /\ CacheOK(cache'[n]) /\ DOMAIN credit' = Node /\ credit'[n] = credit[n]
          /\ \A q \in Node \ {n} : cache'[q] = cache[q] /\ credit'[q] = credit[q]
      BY <1>1, <1>3, <1>4 DEF Shapes
    <3>5. Lines(links, Chunks)
      BY DEF Inv
    <3>6. /\ OnceAt(pit[n], DOMAIN sockets[n] \cup {p},
                    [q \in DOMAIN sockets[n] \cup {p} |-> IF q = p THEN s ELSE sockets[n][q]])
          /\ SendMore(n, p, s, DOMAIN sockets[n], pit[n], links, events)
          /\ downloads[n] = lost[n] + closed[n] + Cardinality(DOMAIN sockets[n] \cup {p})
               + Count(pit[n], Of(Local, 0))
          /\ IsFiniteSet(DOMAIN sockets[n]) /\ DOMAIN sockets[n] \subseteq Ports
          /\ \A q \in DOMAIN sockets[n] : Settled(Routes[n], sockets[n][q])
          /\ Ready(Routes[n], s) /\ n \in Consumers /\ p \in Ports
      BY <2>1, <2>3, <2>5, <3>1, <3>3
    <3> HIDE DEF events, sk, p, F
    <3>7. Shapes' /\ (\A q \in Node : NodeInv(q)') /\ Lines(links', Chunks)
      BY <1>1, <1>4, <1>5, <3>4, <3>5, <3>6, MoreInv
    <3> QED BY <1>1, <1>2, <3>7 DEF Inv
  <2> QED BY <2>6, <2>7
<1> QED BY <1>6, <1>7

-----------------------------------------------------------------------------
(* The entries that data answers.                                          *)

LEMMA AnsweredIs ==
    ASSUME NEW n, NEW m, NEW d, TableOK(n, pit[n])
    PROVE  /\ Answered(n, m, d) \subseteq DOMAIN pit[n]
           /\ \A i \in Answered(n, m, d) :
                 /\ pit[n][i] \in EntriesAt(n) /\ pit[n][i] \in Entries
                 /\ pit[n][i].chunk = d.chunk
                 /\ pit[n][i].ifid = Local => pit[n][i].port = d.port
           /\ d.chunk = 0 => \A i, j \in Answered(n, m, d) : i = j
<1> DEFINE walk == {i \in DOMAIN pit[n] : /\ pit[n][i].chunk = d.chunk /\ pit[n][i].ifid # m
                                          /\ Answers(pit[n][i], d)}
<1>1. Answered(n, m, d) = {i \in walk : \A j \in walk : j < i => ~Ends(pit[n][j], d)}
  BY DEF Answered
<1>2. \A i \in walk : /\ i \in DOMAIN pit[n] /\ pit[n][i].chunk = d.chunk
                      /\ pit[n][i].ifid = Local => pit[n][i].port = d.port
  BY DEF Answers
<1>3. \A i \in DOMAIN pit[n] : pit[n][i] \in EntriesAt(n) /\ pit[n][i] \in Entries /\ i \in Int
  <2>1. \A i \in DOMAIN pit[n] : pit[n][i] \in EntriesAt(n) /\ i \in Int
    BY ElementOfSeq, TableCount DEF TableOK
  <2> QED BY <2>1 DEF EntriesAt
<1>4. ASSUME d.chunk = 0, NEW i \in Answered(n, m, d), NEW j \in Answered(n, m, d) PROVE i = j
  <2>1. \A x : Ends(x, d)
    BY <1>4 DEF Ends
  <2>2. i \in walk /\ j \in walk /\ ~(i < j) /\ ~(j < i)
    <3> HIDE DEF walk
    <3> QED BY <1>1, <2>1
  <2>3. i \in Int /\ j \in Int
    BY <1>3, <2>2
  <2> QED BY <2>2, <2>3
<1> HIDE DEF walk
<1>5. Answered(n, m, d) \subseteq walk
  BY <1>1
<1> QED BY <1>2, <1>3, <1>4, <1>5

LEMMA CachedOK ==
    ASSUME NEW n, CacheOK(cache[n]), NEW k \in Chunks, NEW c \in Cached(n, k)
    PROVE  CacheOK(c)
<1> DEFINE old == cache[n]
<1>1. /\ old \in SUBSET Chunks /\ IsFiniteSet(old) /\ Cardinality(old) \in Nat
      /\ Cardinality(old) <= CacheSize /\ CacheSize \in Nat
  BY ChunksFinite, FS_Subset, FS_CardinalityType, BoundsAssumption DEF CacheOK
<1>2. \/ c = old
      \/ k \notin old /\ Cardinality(old) < CacheSize /\ c = old \cup {k}
      \/ k \notin old /\ \E v \in old : c = (old \ {v}) \cup {k}
  BY DEF Cached
<1> HIDE DEF old
<1>3. CASE c = old
  BY <1>1, <1>3 DEF CacheOK
<1>4. CASE k \notin old /\ Cardinality(old) < CacheSize /\ c = old \cup {k}
  <2>1. Cardinality(old \cup {k}) = Cardinality(old) + 1
    BY <1>1, <1>4, FS_AddElement
  <2> QED BY <1>1, <1>4, <2>1 DEF CacheOK
<1>5. CASE k \notin old /\ \E v \in old : c = (old \ {v}) \cup {k}
  <2>1. PICK v \in old : c = (old \ {v}) \cup {k}
    BY <1>5
  <2>2. IsFiniteSet(old \ {v}) /\ Cardinality(old \ {v}) = Cardinality(old) - 1
    BY <1>1, FS_RemoveElement
  <2>3. Cardinality((old \ {v}) \cup {k}) = Cardinality(old \ {v}) + 1
    BY <1>5, <2>2, FS_AddElement
  <2>4. (old \ {v}) \cup {k} \in SUBSET Chunks
    BY <1>1
  <2> QED BY <1>1, <2>1, <2>2, <2>3, <2>4 DEF CacheOK
<1> QED BY <1>2, <1>3, <1>4, <1>5

\* What goes out to the neighbours and what is charged to them.
LEMMA AnsweredStep ==
    ASSUME Inv, NEW n \in Node, NEW m \in Node, NEW K, K \subseteq Names, NEW ls,
           Lines(ls, K), NEW d \in Packets(m, n, K)
    PROVE  LET gone == Answered(n, m, d) IN
           /\ TableOK(n, Left(n, gone))
           /\ OnceAt(Left(n, gone), DOMAIN sockets[n], sockets[n])
           /\ Lines(Send(ls, n, Onward(n, gone, d)), K)
           /\ DOMAIN Charged(n, gone, d) = Node
           /\ Balanced(Left(n, gone), Charged(n, gone, d)[n])
           /\ \A q \in Node \ {n} : Charged(n, gone, d)[q] = credit[q]
           /\ \A E : /\ Cardinality(Chosen(pit[n], gone, E)) \in Nat
                     /\ Count(Left(n, gone), E) =
                          Count(pit[n], E) - Cardinality(Chosen(pit[n], gone, E))
<1> DEFINE gone == Answered(n, m, d)
<1>1. NodeInv(n) /\ Shapes
  BY DEF Inv
<1>2. /\ TableOK(n, pit[n]) /\ OnceAt(pit[n], DOMAIN sockets[n], sockets[n])
      /\ Balanced(pit[n], credit[n])
  BY <1>1 DEF NodeInv
<1>3. gone \subseteq DOMAIN pit[n] /\ \A i \in gone : pit[n][i].chunk = d.chunk
  BY <1>2, AnsweredIs
<1>4. d.chunk \in Names
  BY DEF Packets
<1> HIDE DEF gone
<1>5. Left(n, gone) = Kept(pit[n], DOMAIN pit[n] \ gone)
  BY DEF Left, Selected
<1>6. /\ TableOK(n, Left(n, gone))
      /\ OnceAt(Left(n, gone), DOMAIN sockets[n], sockets[n])
  BY <1>2, <1>3, <1>5, LeftTable, OnceFewer
<1>7. Lines(Send(ls, n, Onward(n, gone, d)), K)
  BY <1>2, <1>3, OnwardLines
<1> DEFINE cr == Less(credit[n], pit[n], gone, d.chunk)
<1>8. Charged(n, gone, d) = [credit EXCEPT ![n] = cr]
  BY Zenon DEF Charged, Less
<1>9. Balanced(Left(n, gone), cr)
  <2>1. Balanced(Kept(pit[n], DOMAIN pit[n] \ gone), cr)
    BY <1>2, <1>3, <1>4, ChargedBalanced
  <2> QED BY <1>5, <2>1, Zenon
<1> HIDE DEF cr
<1>10. /\ DOMAIN Charged(n, gone, d) = Node /\ Charged(n, gone, d)[n] = cr
       /\ \A q \in Node \ {n} : Charged(n, gone, d)[q] = credit[q]
  BY <1>1, <1>8 DEF Shapes
<1>11. \A E : /\ Cardinality(Chosen(pit[n], gone, E)) \in Nat
              /\ Count(Left(n, gone), E) = Count(pit[n], E) - Cardinality(Chosen(pit[n], gone, E))
  BY <1>2, <1>3, <1>5, LeftCount
<1> QED BY <1>6, <1>7, <1>9, <1>10, <1>11 DEF gone

(* Data of the content: a node's own socket takes it and asks for more, or *)
(* is complete.                                                            *)
LEMMA ProcessDataStep ==
    ASSUME Inv, NEW n \in Node, NEW m \in Node, ProcessData(n, m) PROVE Inv'
<1> DEFINE d == Head(links[m][n])
           gone == Answered(n, m, d)
           mine == ForLocal(n, gone) # {} /\ d.port \in Open(n)
           table == Left(n, gone)
           ls == Send(Received(links, n, m), n, Onward(n, gone, d))
           cr == Charged(n, gone, d)[n]
           sk == sockets[n]
           F == Routes[n]
<1>1. /\ links[m][n] # <<>> /\ d.type = "data" /\ credit' = Charged(n, gone, d)
      /\ \E c \in IF gone = ForLocal(n, gone) THEN {cache[n]} ELSE Cached(n, d.chunk) :
            cache' = [cache EXCEPT ![n] = c]
      /\ IF ~mine
         THEN /\ pit' = [pit EXCEPT ![n] = table] /\ links' = ls
              /\ UNCHANGED <<sockets, timers, closed>>
         ELSE \E s \in Rcv(F)!WithChunk(sockets[n][d.port], m, d.chunk) :
                 IF Rcv(F)!Completed(s)
                 THEN /\ sockets' = [sockets EXCEPT ![n] = [q \in Open(n) \ {d.port} |-> sockets[n][q]]]
                      /\ closed' = [closed EXCEPT ![n] = @ + 1]
                      /\ pit' = [pit EXCEPT ![n] = table] /\ links' = ls
                      /\ UNCHANGED timers
                 ELSE /\ SendMore(n, d.port, s, Open(n), table, ls, timers[n])
                      /\ UNCHANGED closed
      /\ downloads' = downloads /\ opened' = opened /\ lost' = lost /\ infos' = infos
      /\ mishaps' = mishaps
  BY Zenon DEF ProcessData
<1>2. Lines(Received(links, n, m), Chunks) /\ d \in Packets(m, n, Chunks)
  BY <1>1, ReceivedLines DEF Inv
<1>3. /\ d.chunk \in Chunks /\ d.chunk # 0 /\ m \in F
      /\ Chunks \subseteq Names
  <2>1. Chunks \subseteq Names
    BY BoundsAssumption DEF Chunks, Names
  <2> HIDE DEF d
  <2> QED BY <1>1, <1>2, <2>1, ChunksFinite DEF Packets
<1>4. NodeInv(n) /\ Shapes
  BY DEF Inv
<1>5. /\ TableOK(n, pit[n]) /\ CacheOK(cache[n]) /\ SocketsOK(n, sk) /\ TimersOK(n, timers[n])
      /\ OnceAt(pit[n], DOMAIN sk, sk)
      /\ Accounted(downloads[n], closed[n], lost[n], sk, pit[n])
  BY <1>4 DEF NodeInv
<1> HIDE DEF d
<1>6. /\ gone \subseteq DOMAIN pit[n]
      /\ \A i \in gone : /\ pit[n][i] \in Entries /\ pit[n][i].chunk = d.chunk
                         /\ pit[n][i].ifid = Local => pit[n][i].port = d.port
  BY <1>5, AnsweredIs
<1>7. /\ TableOK(n, table) /\ OnceAt(table, DOMAIN sk, sk) /\ Lines(ls, Chunks)
      /\ DOMAIN credit' = Node /\ credit'[n] = cr /\ Balanced(table, cr)
      /\ \A q \in Node \ {n} : credit'[q] = credit[q]
      /\ \A E : /\ Cardinality(Chosen(pit[n], gone, E)) \in Nat
                /\ Count(table, E) = Count(pit[n], E) - Cardinality(Chosen(pit[n], gone, E))
  BY <1>1, <1>2, <1>3, AnsweredStep
<1>8. Count(table, Of(Local, 0)) = Count(pit[n], Of(Local, 0))
  <2>1. Chosen(pit[n], gone, Of(Local, 0)) = {}
    <3> HIDE DEF gone
    <3> QED BY <1>3, <1>6 DEF Chosen, Of
  <2>2. Cardinality(Chosen(pit[n], gone, Of(Local, 0))) = 0
    BY <2>1, FS_EmptySet
  <2>3. Count(pit[n], Of(Local, 0)) \in Nat
    BY <1>5, TableCount
  <2> HIDE DEF table, gone
  <2> QED BY <1>7, <2>2, <2>3
<1>9. ASSUME ForLocal(n, gone) # {}, d.port \in Ports
      PROVE  Count(table, LocalOf(d.chunk, d.port)) = 0
  <2>1. PICK i \in gone : pit[n][i].ifid = Local
    BY <1>9 DEF ForLocal
  <2>2. i \in Chosen(pit[n], gone, LocalOf(d.chunk, d.port))
    <3> HIDE DEF gone
    <3> QED BY <1>6, <2>1 DEF Chosen, LocalOf
  <2>3. Cardinality(Chosen(pit[n], gone, LocalOf(d.chunk, d.port))) # 0
    <3>1. Chosen(pit[n], gone, LocalOf(d.chunk, d.port)) \in SUBSET gone
      BY DEF Chosen
    <3>2. IsFiniteSet(DOMAIN pit[n])
      BY <1>5, TableCount
    <3>3. IsFiniteSet(Chosen(pit[n], gone, LocalOf(d.chunk, d.port)))
      <4> HIDE DEF gone
      <4> QED BY <1>6, <3>1, <3>2, FS_Subset
    <3> HIDE DEF gone
    <3> QED BY <2>2, <3>3, FS_EmptySet
  <2>4. Count(pit[n], LocalOf(d.chunk, d.port)) <= 1
    BY <1>3, <1>5, <1>9 DEF OnceAt
  <2>5. Count(table, LocalOf(d.chunk, d.port)) \in Nat /\ Count(pit[n], LocalOf(d.chunk, d.port)) \in Nat
    BY <1>5, <1>7, TableCount
  <2> HIDE DEF table, gone
  <2> QED BY <1>7, <2>3, <2>4, <2>5
<1>10. /\ DOMAIN cache' = Node /\ CacheOK(cache'[n]) /\ \A q \in Node \ {n} : cache'[q] = cache[q]
  <2>1. PICK c \in IF gone = ForLocal(n, gone) THEN {cache[n]} ELSE Cached(n, d.chunk) :
            cache' = [cache EXCEPT ![n] = c]
    BY <1>1
  <2>2. CacheOK(c)
    <3> HIDE DEF gone
    <3> QED BY <1>3, <1>5, <2>1, CachedOK
  <2> HIDE DEF gone
  <2> QED BY <1>4, <2>1, <2>2 DEF Shapes
<1>11. IsFiniteSet(DOMAIN sk) /\ Cardinality(DOMAIN sk) \in Nat /\ Count(pit[n], Of(Local, 0)) \in Nat
  BY <1>5, FS_CardinalityType, TableCount DEF SocketsOK
<1>12. CASE ~mine
  <2>1. /\ pit' = [pit EXCEPT ![n] = table] /\ links' = ls
        /\ sockets' = sockets /\ timers' = timers /\ closed' = closed
    BY <1>1, <1>12
  <2>2. pit'[n] = table /\ Shapes' /\ \A q \in Node \ {n} : Same(q)
    <3> HIDE DEF table
    <3> QED BY <1>1, <1>4, <1>7, <1>10, <2>1 DEF Shapes, Same
  <2>3. Accounted(downloads[n], closed[n], lost[n], sk, table)
    <3> HIDE DEF table, sk
    <3> QED BY <1>5, <1>8, Zenon DEF Accounted
  <2>4. NodeInv(n)'
    <3> HIDE DEF table, sk, cr
    <3>1. downloads'[n] = downloads[n] /\ closed'[n] = closed[n] /\ lost'[n] = lost[n]
          /\ sockets'[n] = sk /\ timers'[n] = timers[n]
      BY <1>1, <2>1 DEF sk
    <3> QED BY <1>5, <1>7, <1>10, <2>2, <2>3, <3>1, Zenon DEF NodeInv
  <2>5. \A q \in Node : NodeInv(q)'
    BY <2>2, <2>4, OneNode DEF Inv
  <2>6. Lines(links', Chunks)
    BY <1>7, <2>1, Zenon
  <2> QED BY <1>1, <2>2, <2>5, <2>6 DEF Inv
<1>13. CASE mine
  <2> DEFINE p == d.port
  <2>1. /\ ForLocal(n, gone) # {} /\ p \in DOMAIN sk /\ n \in Consumers /\ p \in Ports
        /\ Settled(F, sk[p]) /\ DOMAIN sk \subseteq Ports /\ \A q \in DOMAIN sk : Settled(F, sk[q])
    BY <1>5, <1>13 DEF SocketsOK, Open
  <2>2. PICK s \in Rcv(F)!WithChunk(sk[p], m, d.chunk) :
           IF Rcv(F)!Completed(s)
           THEN /\ sockets' = [sockets EXCEPT ![n] = [q \in Open(n) \ {p} |-> sockets[n][q]]]
                /\ closed' = [closed EXCEPT ![n] = @ + 1]
                /\ pit' = [pit EXCEPT ![n] = table] /\ links' = ls
                /\ UNCHANGED timers
           ELSE /\ SendMore(n, p, s, Open(n), table, ls, timers[n])
                /\ UNCHANGED closed
    BY <1>1, <1>13, Zenon
  <2>3. Settled(F, s) /\ s.received = sk[p].received \cup {d.chunk} /\ s.aborted = sk[p].aborted
    <3> HIDE DEF sk, F, p
    <3> QED BY <1>3, <2>1, <2>2, WithChunkIs
  <2>4. CASE Rcv(F)!Completed(s)
    <3> DEFINE sl == [q \in DOMAIN sk \ {p} |-> sk[q]]
    <3>1. /\ sockets' = [sockets EXCEPT ![n] = sl]
          /\ closed' = [closed EXCEPT ![n] = closed[n] + 1]
          /\ pit' = [pit EXCEPT ![n] = table] /\ links' = ls /\ timers' = timers
      BY <2>2, <2>4 DEF Open
    <3>2. DOMAIN sl = DOMAIN sk \ {p} /\ \A q \in DOMAIN sk \ {p} : sl[q] = sk[q]
      BY Zenon
    <3> HIDE DEF sl
    <3>3. pit'[n] = table /\ sockets'[n] = sl /\ closed'[n] = closed[n] + 1
          /\ Shapes' /\ \A q \in Node \ {n} : Same(q)
      <4> HIDE DEF table
      <4> QED BY <1>1, <1>4, <1>7, <1>10, <3>1 DEF Shapes, Same
    <3>4. IsFiniteSet(DOMAIN sl) /\ Cardinality(DOMAIN sl) = Cardinality(DOMAIN sk) - 1
      <4> HIDE DEF sk, p
      <4> QED BY <1>11, <2>1, <3>2, FS_RemoveElement
    <3>5. SocketsOK(n, sl)
      <4> HIDE DEF sk, p
      <4> QED BY <2>1, <3>2, <3>4 DEF SocketsOK
    <3>6. OnceAt(table, DOMAIN sl, sl)
      <4> HIDE DEF sk, p, table
      <4> QED BY <1>7, <3>2 DEF OnceAt
    <3>7. Accounted(downloads[n], closed[n] + 1, lost[n], sl, table)
      <4> HIDE DEF sk, p, table
      <4> QED BY <1>5, <1>8, <1>11, <3>4 DEF Accounted
    <3>8. NodeInv(n)'
      <4>1. downloads'[n] = downloads[n] /\ lost'[n] = lost[n] /\ timers'[n] = timers[n]
        BY <1>1, <3>1
      <4> HIDE DEF table, sk, cr
      <4> QED BY <1>5, <1>7, <1>10, <3>3, <3>5, <3>6, <3>7, <4>1, Zenon DEF NodeInv
    <3>9. \A q \in Node : NodeInv(q)'
      BY <3>3, <3>8, OneNode DEF Inv
    <3>10. Lines(links', Chunks)
      BY <1>7, <3>1, Zenon
    <3> QED BY <1>1, <3>3, <3>9, <3>10 DEF Inv
  <2>5. CASE ~Rcv(F)!Completed(s)
    <3>1. SendMore(n, p, s, DOMAIN sockets[n], table, ls, timers[n]) /\ closed' = closed
      BY <2>2, <2>5 DEF Open
    <3>2. \A k \in Chunks : ~s.aborted /\ k \in s.received => Count(table, LocalOf(k, p)) = 0
      <4>1. Count(table, LocalOf(d.chunk, p)) = 0
        BY <1>9, <2>1
      <4> HIDE DEF sk, table, p
      <4> QED BY <1>7, <2>1, <2>3, <4>1 DEF OnceAt
    <3>3. OnceAt(table, DOMAIN sockets[n] \cup {p},
                 [q \in DOMAIN sockets[n] \cup {p} |-> IF q = p THEN s ELSE sockets[n][q]])
      <4>1. OnceAt(table, DOMAIN sockets[n], sockets[n])
        BY <1>7
      <4> HIDE DEF table, p
      <4> QED BY <3>2, <4>1, OnceWith
    <3>4. DOMAIN sockets[n] \cup {p} = DOMAIN sockets[n]
      BY <2>1
    <3>5. downloads[n] = lost[n] + closed[n] + Cardinality(DOMAIN sockets[n] \cup {p})
            + Count(table, Of(Local, 0))
      <4> HIDE DEF table, p
      <4> QED BY <1>5, <1>8, <3>4, Zenon DEF Accounted, sk
    <3>6. Ready(Routes[n], s)
      <4> HIDE DEF p
      <4> QED BY <2>3, SettledReady
    <3>7. /\ IsFiniteSet(DOMAIN sockets[n]) /\ DOMAIN sockets[n] \subseteq Ports
          /\ \A q \in DOMAIN sockets[n] : Settled(Routes[n], sockets[n][q])
          /\ n \in Consumers /\ p \in Ports
      BY <1>11, <2>1
    <3>8. /\ TableOK(n, table) /\ Lines(ls, Chunks) /\ TimersOK(n, timers[n]) /\ Balanced(table, cr)
          /\ downloads' = downloads /\ closed' = closed /\ lost' = lost
          /\ DOMAIN cache' = Node /\ CacheOK(cache'[n]) /\ DOMAIN credit' = Node /\ credit'[n] = cr
          /\ \A q \in Node \ {n} : cache'[q] = cache[q] /\ credit'[q] = credit[q]
      BY <1>1, <1>5, <1>7, <1>10, <3>1
    <3> HIDE DEF gone, mine, table, ls, cr, sk, F, p
    <3>9. Shapes' /\ (\A q \in Node : NodeInv(q)') /\ Lines(links', Chunks)
      BY <3>1, <3>3, <3>5, <3>6, <3>7, <3>8, MoreInv
    <3> QED BY <1>1, <3>9 DEF Inv
  <2> QED BY <2>4, <2>5
<1> QED BY <1>12, <1>13

(* An INFO: the download that waited for it opens a socket.                *)
LEMMA ProcessInfoStep ==
    ASSUME Inv, NEW n \in Node, NEW m \in Node, ProcessInfo(n, m) PROVE Inv'
<1> DEFINE d == Head(infos[m][n])
           gone == Answered(n, m, d)
           table == Left(n, gone)
           cr == Charged(n, gone, d)[n]
           sk == sockets[n]
           F == Routes[n]
<1>1. /\ infos[m][n] # <<>>
      /\ infos' = Send(Received(infos, n, m), n, Onward(n, gone, d))
      /\ credit' = Charged(n, gone, d)
      /\ IF ForLocal(n, gone) = {}
         THEN /\ pit' = [pit EXCEPT ![n] = table]
              /\ UNCHANGED <<opened, sockets, timers, links>>
         ELSE \E p \in Ports :
                 /\ LowestFree(n, p)
                 /\ opened' = opened + 1
                 /\ SendMore(n, p, Rcv(F)!NewSocket(opened'), Open(n), table, links, timers[n])
      /\ downloads' = downloads /\ closed' = closed /\ lost' = lost /\ cache' = cache
      /\ mishaps' = mishaps
  BY Zenon DEF ProcessInfo
<1>2. Lines(Received(infos, n, m), {0}) /\ d \in Packets(m, n, {0}) /\ {0} \subseteq Names
  BY <1>1, ReceivedLines, BoundsAssumption DEF Inv, Names
<1>3. d.chunk = 0
  <2> HIDE DEF d
  <2> QED BY <1>2 DEF Packets
<1>4. NodeInv(n) /\ Shapes
  BY DEF Inv
<1>5. /\ TableOK(n, pit[n]) /\ CacheOK(cache[n]) /\ SocketsOK(n, sk) /\ TimersOK(n, timers[n])
      /\ OnceAt(pit[n], DOMAIN sk, sk)
      /\ Accounted(downloads[n], closed[n], lost[n], sk, pit[n])
  BY <1>4 DEF NodeInv
<1> HIDE DEF d
<1>6. /\ gone \subseteq DOMAIN pit[n] /\ \A i, j \in gone : i = j
      /\ \A i \in gone : /\ pit[n][i] \in Entries /\ pit[n][i].chunk = 0
                         /\ pit[n][i] \in EntriesAt(n)
  BY <1>3, <1>5, AnsweredIs
<1>7. /\ TableOK(n, table) /\ OnceAt(table, DOMAIN sk, sk) /\ Lines(infos', {0})
      /\ DOMAIN credit' = Node /\ credit'[n] = cr /\ Balanced(table, cr)
      /\ \A q \in Node \ {n} : credit'[q] = credit[q]
      /\ \A E : /\ Cardinality(Chosen(pit[n], gone, E)) \in Nat
                /\ Count(table, E) = Count(pit[n], E) - Cardinality(Chosen(pit[n], gone, E))
  <2>1. /\ TableOK(n, table) /\ OnceAt(table, DOMAIN sk, sk)
        /\ Lines(Send(Received(infos, n, m), n, Onward(n, gone, d)), {0})
        /\ DOMAIN Charged(n, gone, d) = Node
        /\ Balanced(table, Charged(n, gone, d)[n])
        /\ \A q \in Node \ {n} : Charged(n, gone, d)[q] = credit[q]
        /\ \A E : /\ Cardinality(Chosen(pit[n], gone, E)) \in Nat
                  /\ Count(table, E) = Count(pit[n], E) - Cardinality(Chosen(pit[n], gone, E))
    BY <1>2, AnsweredStep
  <2> HIDE DEF gone, table, sk
  <2> QED BY <1>1, <2>1
<1>8. ForLocal(n, gone) = Chosen(pit[n], gone, Of(Local, 0))
  <2> HIDE DEF gone
  <2> QED BY <1>6 DEF ForLocal, Chosen, Of
<1>9. IsFiniteSet(DOMAIN sk) /\ Cardinality(DOMAIN sk) \in Nat /\ Count(pit[n], Of(Local, 0)) \in Nat
  BY <1>5, FS_CardinalityType, TableCount DEF SocketsOK
<1>10. CASE ForLocal(n, gone) = {}
  <2>1. /\ pit' = [pit EXCEPT ![n] = table] /\ opened' = opened
        /\ sockets' = sockets /\ timers' = timers /\ links' = links
    BY <1>1, <1>10
  <2>2. Count(table, Of(Local, 0)) = Count(pit[n], Of(Local, 0))
    <3>1. Cardinality(Chosen(pit[n], gone, Of(Local, 0))) = 0
      BY <1>8, <1>10, FS_EmptySet, Zenon
    <3> HIDE DEF table, gone
    <3> QED BY <1>7, <1>9, <3>1
  <2>3. pit'[n] = table /\ Shapes' /\ \A q \in Node \ {n} : Same(q)
    <3> HIDE DEF table
    <3> QED BY <1>1, <1>4, <1>7, <2>1 DEF Shapes, Same
  <2>4. Accounted(downloads[n], closed[n], lost[n], sk, table)
    <3> HIDE DEF table, sk
    <3> QED BY <1>5, <2>2, Zenon DEF Accounted
  <2>5. NodeInv(n)'
    <3> HIDE DEF table, cr
    <3>1. downloads'[n] = downloads[n] /\ closed'[n] = closed[n] /\ lost'[n] = lost[n]
          /\ sockets'[n] = sk /\ timers'[n] = timers[n] /\ cache'[n] = cache[n]
      BY <1>1, <2>1 DEF sk
    <3> HIDE DEF sk
    <3> QED BY <1>5, <1>7, <2>3, <2>4, <3>1, Zenon DEF NodeInv
  <2>6. \A q \in Node : NodeInv(q)'
    BY <2>3, <2>5, OneNode DEF Inv
  <2> QED BY <1>1, <1>7, <2>1, <2>3, <2>6 DEF Inv
<1>11. CASE ForLocal(n, gone) # {}
  <2>1. PICK p \in Ports :
           /\ LowestFree(n, p)
           /\ opened' = opened + 1
           /\ SendMore(n, p, Rcv(F)!NewSocket(opened'), Open(n), table, links, timers[n])
    BY <1>1, <1>11
  <2> DEFINE s == Rcv(F)!NewSocket(opened')
  <2>2. opened' \in Nat /\ Lines(links, Chunks)
    BY <2>1 DEF Inv
  <2>3. n \in Consumers
    <3>1. PICK i \in gone : pit[n][i].ifid = Local
      BY <1>11 DEF ForLocal
    <3> HIDE DEF gone
    <3> QED BY <1>6, <3>1 DEF EntriesAt
  <2>4. p \notin DOMAIN sk
    BY <2>1 DEF LowestFree, Open
  <2>5. Count(table, Of(Local, 0)) = Count(pit[n], Of(Local, 0)) - 1
    <3>1. PICK i \in gone : ForLocal(n, gone) = {i}
      <4>1. PICK i \in gone : i \in ForLocal(n, gone)
        BY <1>11 DEF ForLocal
      <4>2. \A j \in ForLocal(n, gone) : j = i
        BY <1>6 DEF ForLocal
      <4> HIDE DEF gone
      <4> QED BY <4>1, <4>2
    <3>2. Cardinality(Chosen(pit[n], gone, Of(Local, 0))) = 1
      BY <1>8, <3>1, FS_Singleton
    <3> HIDE DEF table, gone
    <3> QED BY <1>7, <3>2
  <2>6. Cardinality(DOMAIN sk \cup {p}) = Cardinality(DOMAIN sk) + 1
    BY <1>9, <2>4, FS_AddElement
  <2>7. downloads[n] = lost[n] + closed[n] + Cardinality(DOMAIN sockets[n] \cup {p})
          + Count(table, Of(Local, 0))
    <3>1. /\ downloads[n] \in Nat /\ closed[n] \in Nat /\ lost[n] \in Nat
          /\ downloads[n] = lost[n] + closed[n] + Cardinality(DOMAIN sk) + Count(pit[n], Of(Local, 0))
      BY <1>5 DEF Accounted
    <3>2. Cardinality(DOMAIN sockets[n] \cup {p}) = Cardinality(DOMAIN sk) + 1
      BY <2>6
    <3> HIDE DEF table, sk
    <3> QED BY <1>9, <2>5, <3>1, <3>2
  <2>8. Ready(Routes[n], s) /\ s.received = {}
    <3>1. Ready(Routes[n], s)
      BY <2>2, NewFits
    <3>2. s.received = {}
      BY DEF Rcv!NewSocket
    <3> QED BY <3>1, <3>2
  <2>9. OnceAt(table, DOMAIN sockets[n] \cup {p},
               [q \in DOMAIN sockets[n] \cup {p} |-> IF q = p THEN s ELSE sockets[n][q]])
    <3>1. OnceAt(table, DOMAIN sockets[n], sockets[n])
      BY <1>7
    <3>2. \A k \in Chunks : ~s.aborted /\ k \in s.received => Count(table, LocalOf(k, p)) = 0
      BY <2>8
    <3> HIDE DEF table, s
    <3> QED BY <3>1, <3>2, OnceWith
  <2>10. /\ IsFiniteSet(DOMAIN sockets[n]) /\ DOMAIN sockets[n] \subseteq Ports
         /\ \A q \in DOMAIN sockets[n] : Settled(Routes[n], sockets[n][q])
    BY <1>5 DEF SocketsOK
  <2>11. /\ TableOK(n, table) /\ TimersOK(n, timers[n]) /\ Balanced(table, cr)
         /\ downloads' = downloads /\ closed' = closed /\ lost' = lost
         /\ DOMAIN cache' = Node /\ CacheOK(cache'[n]) /\ DOMAIN credit' = Node /\ credit'[n] = cr
         /\ \A q \in Node \ {n} : cache'[q] = cache[q] /\ credit'[q] = credit[q]
    BY <1>1, <1>4, <1>5, <1>7 DEF Shapes
  <2>12. SendMore(n, p, s, DOMAIN sockets[n], table, links, timers[n])
    BY <2>1 DEF Open
  <2> HIDE DEF gone, table, cr, sk, F, s
  <2>13. Shapes' /\ (\A q \in Node : NodeInv(q)') /\ Lines(links', Chunks)
    BY <2>2, <2>3, <2>7, <2>8, <2>9, <2>10, <2>11, <2>12, MoreInv
  <2> QED BY <1>1, <1>7, <2>2, <2>13 DEF Inv
<1> QED BY <1>10, <1>11

-----------------------------------------------------------------------------
(* One lemma per action gives the step.                                    *)
LEMMA NextInv == ASSUME Inv, [Next]_vars PROVE Inv'
<1>1. CASE \E n \in Consumers, t \in Times : Download(n, t)
  BY <1>1, DownloadStep
<1>2. CASE \E n, m \in Node : Deliver(n, m) \/ Lose(n, m)
  BY <1>2, ProcessInterestStep, ProcessInfoInterestStep, ProcessDataStep, ProcessInfoStep,
     LoseStep DEF Deliver
<1>3. CASE \E n \in Node : Timeout(n)
  BY <1>3, ExpireStep, FireStep DEF Timeout
<1>4. CASE UNCHANGED vars
  <2>1. /\ opened' = opened /\ mishaps' = mishaps /\ links' = links /\ infos' = infos
        /\ Shapes' /\ \A q \in Node : Same(q)
    BY <1>4 DEF vars, Inv, Shapes, Same
  <2>2. \A q \in Node : NodeInv(q)'
    BY <2>1, Unchanged DEF Inv
  <2> QED BY <2>1, <2>2 DEF Inv
<1> QED BY <1>1, <1>2, <1>3, <1>4 DEF Next

(* The invariant holds in every state.                                     *)
LEMMA Always == Spec => []Inv
<1>1. Init => Inv
  BY InitInv
<1>2. Inv /\ [Next]_vars => Inv'
  BY NextInv
<1> QED BY <1>1, <1>2, PTL DEF Spec

-----------------------------------------------------------------------------
(* Whatever the nodes, the routes and the content: only chunks are cached, *)
(* never more than fit, entries name a neighbour or the node itself and    *)
(* sockets are those of Receiver, after every handler (CBCBNode.cc).       *)
THEOREM TypeCorrect == Spec => []TypeOK
<1>1. ASSUME Inv PROVE TypeOK
  <2>1. Shapes /\ \A n \in Node : NodeInv(n)
    BY <1>1 DEF Inv
  <2>4. ASSUME NEW n \in Node
        PROVE  /\ \A i \in DOMAIN pit[n] : pit[n][i].ifid \in {Local} \cup (Node \ {n})
               /\ cache[n] \subseteq Chunks /\ Cardinality(cache[n]) <= CacheSize
               /\ \A p \in Open(n) : sockets[n][p] \in Rcv(Routes[n])!Socket
    <3>1. TableOK(n, pit[n]) /\ CacheOK(cache[n]) /\ SocketsOK(n, sockets[n])
      BY <2>1 DEF NodeInv
    <3>2. \A i \in DOMAIN pit[n] : pit[n][i] \in EntriesAt(n)
      BY <3>1, ElementOfSeq, TableCount DEF TableOK
    <3>3. \A i \in DOMAIN pit[n] : pit[n][i].ifid \in {Local} \cup (Node \ {n})
      BY <3>2 DEF EntriesAt, Entries
    <3>4. \A p \in Open(n) : sockets[n][p] \in Rcv(Routes[n])!Socket
      BY <3>1 DEF SocketsOK, Settled, Fit, Open
    <3> QED BY <3>1, <3>3, <3>4 DEF CacheOK
  <2> QED BY <1>1, <2>1, <2>4 DEF TypeOK, Inv, Shapes
<1> QED BY <1>1, Always, PTL

(* Flow balance (CBCBNode.cc, process_in and process_out): no neighbour is *)
(* ever sent more data of a name than it sent interests, as what is left   *)
(* in the table for it is still covered.                                   *)
THEOREM FlowIsBalanced == Spec => []FlowBalance
<1>1. ASSUME Inv PROVE FlowBalance
  <2> SUFFICES ASSUME NEW n \in Node, NEW m \in Node, NEW k \in Names PROVE credit[n][m][k] >= 0
    BY DEF FlowBalance
  <2>1. TableOK(n, pit[n]) /\ Balanced(pit[n], credit[n])
    BY <1>1 DEF Inv, NodeInv
  <2>2. Count(pit[n], Of(m, k)) \in Nat
    BY <2>1, TableCount
  <2>3. Count(pit[n], Of(m, k)) <= credit[n][m][k] /\ credit[n][m][k] \in Int
    BY <2>1 DEF Balanced
  <2> QED BY <2>2, <2>3
<1> QED BY <1>1, Always, PTL

(* A chunk that a socket has (and that has not given up) is not waited for *)
(* again in the node's table, so that no data of it reaches the socket.    *)
THEOREM ChunksComeOnce == Spec => []NoChunkTwice
<1>1. ASSUME Inv PROVE NoChunkTwice
  <2> SUFFICES ASSUME NEW n \in Node, NEW i \in DOMAIN pit[n],
                      pit[n][i].ifid = Local, pit[n][i].chunk # 0, pit[n][i].port \in Open(n),
                      ~sockets[n][pit[n][i].port].aborted,
                      pit[n][i].chunk \in sockets[n][pit[n][i].port].received
               PROVE  FALSE
    BY DEF NoChunkTwice
  <2> DEFINE e == pit[n][i]
  <2>1. TableOK(n, pit[n]) /\ SocketsOK(n, sockets[n]) /\ OnceAt(pit[n], DOMAIN sockets[n], sockets[n])
    BY <1>1 DEF Inv, NodeInv
  <2>2. e \in Entries
    BY <2>1, ElementOfSeq, TableCount DEF TableOK, EntriesAt
  <2>3. e.port \in Ports /\ e.port \in DOMAIN sockets[n]
    BY <2>1 DEF SocketsOK, Open
  <2>4. e.chunk \in Chunks
    <3>1. e.chunk \in Names
      BY <2>2 DEF Entries
    <3>2. e.chunk # 0
      OBVIOUS
    <3> HIDE DEF e
    <3> QED BY <3>1, <3>2, BoundsAssumption DEF Names, Chunks
  <2>5. Count(pit[n], LocalOf(e.chunk, e.port)) = 0
    BY <2>1, <2>3, <2>4 DEF OnceAt
  <2>6. i \in Members(pit[n], LocalOf(e.chunk, e.port))
    BY <2>2 DEF Members, LocalOf
  <2>7. IsFiniteSet(Members(pit[n], LocalOf(e.chunk, e.port)))
    BY <2>1, MembersFinite DEF TableOK
  <2> HIDE DEF e
  <2> QED BY <2>5, <2>6, <2>7, FS_EmptySet DEF Count
<1> QED BY <1>1, Always, PTL

(* Every download that a workload started at a node waits for its INFO,    *)
(* has waited in vain, has a socket, or is complete: none is dropped when  *)
(* an INFO answers several, a port is reused or an entry expires.          *)
THEOREM NoDownloadDropped == Spec => []DownloadsAccounted
<1>1. ASSUME Inv PROVE DownloadsAccounted
  <2> SUFFICES ASSUME NEW n \in Node
               PROVE  downloads[n] = lost[n] + closed[n] + Cardinality(Open(n))
                        + Cardinality({i \in DOMAIN pit[n] : pit[n][i].ifid = Local /\ pit[n][i].chunk = 0})
    BY DEF DownloadsAccounted
  <2>1. TableOK(n, pit[n]) /\ Accounted(downloads[n], closed[n], lost[n], sockets[n], pit[n])
    BY <1>1 DEF Inv, NodeInv
  <2>2. \A i \in DOMAIN pit[n] : pit[n][i] \in Entries
    BY <2>1, ElementOfSeq, TableCount DEF TableOK, EntriesAt
  <2>3. Members(pit[n], Of(Local, 0)) =
          {i \in DOMAIN pit[n] : pit[n][i].ifid = Local /\ pit[n][i].chunk = 0}
    BY <2>2 DEF Members, Of
  <2> QED BY <2>1, <2>3, Zenon DEF Accounted, Count, Open
<1> QED BY <1>1, Always, PTL
=============================================================================
