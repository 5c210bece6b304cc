--------------------------- MODULE PITableProofs ---------------------------
(***************************************************************************)
(* Proofs about PITable, for every value of its constants.                 *)
(***************************************************************************)
EXTENDS PITable, TLAPS, WellFoundedInduction

(* The strengthening that is inductive: filtering copies an expiry that    *)
(* upstream covers, forwarding raises upstream to the latest expiry a new  *)
(* entry can have, and the agreement of the indexes is what makes cleaning *)
(* by time remove exactly the expired entries.                             *)
IInv == TypeOK /\ IndexAgreement /\ AggregationBounded

-----------------------------------------------------------------------------

(* PIT_clean keeps exactly the entries that have not expired: record_interest *)
(* and process_out see a live interest always and an expired one never.    *)
LEMMA LiveIsUnexpired ==
    ASSUME TypeOK, IndexAgreement
    PROVE  Live = {e \in byName : e.time > clock}
<1>1. ASSUME NEW e \in byName
      PROVE  e \in Live <=> e.time > clock
  <2>1. e.time \in Nat /\ clock \in Nat
    BY DEF TypeOK, Entry
  <2>2. CASE e.time > clock
    <3>1. SUFFICES ASSUME NEW t \in Expired, e.id = t.id
                   PROVE  FALSE
      BY <2>2 DEF Live, ExpiredNames
    <3>2. PICK g \in byName : t = Link(g)
      BY <3>1 DEF Expired, IndexAgreement
    <3>3. g = e
      BY <3>1, <3>2 DEF Link, IndexAgreement
    <3>. QED
      BY <2>1, <2>2, <3>1, <3>2, <3>3 DEF Expired, Link
  <2>3. CASE ~(e.time > clock)
    <3>1. Link(e) \in byTime
      BY DEF IndexAgreement
    <3>2. Link(e) \in Expired
      BY <2>1, <2>3, <3>1 DEF Expired, Link
    <3>. QED
      BY <2>3, <3>2 DEF Live, ExpiredNames, Link
  <2>. QED
    BY <2>2, <2>3
<1>. QED
  BY <1>1 DEF Live

(* The time index is cleaned in step with the name index.                  *)
LEMMA LiveTimeIsLinked ==
    ASSUME TypeOK, IndexAgreement
    PROVE  LiveTime = {Link(e) : e \in Live}
<1>1. ASSUME NEW e \in byName
      PROVE  Link(e).time = e.time /\ e.time \in Nat /\ clock \in Nat
  BY DEF Link, TypeOK, Entry
<1>2. LiveTime = {Link(e) : e \in {g \in byName : g.time > clock}}
  BY <1>1 DEF LiveTime, Expired, IndexAgreement
<1>. QED
  BY <1>2, LiveIsUnexpired

(* Inserting one entry with a fresh number and an expiry within m_timer    *)
(* keeps the types and the links.                                          *)
LEMMA InsertKeepsIndexes ==
    ASSUME TypeOK, IndexAgreement, clock' = clock,
           NEW f \in Faces, NEW k \in Keys, NEW p \in Ports,
           NEW i \in 0..clock, NEW x \in Nat, x <= clock + Timer,
           Insert(f, k, p, i, x), upstream' \in [Keys -> Nat]
    PROVE  TypeOK' /\ IndexAgreement'
<1> DEFINE new == [id |-> nextId, ifid |-> f, time |-> x,
                   key |-> k, port |-> p, issue |-> i]
<1>1. /\ clock \in Nat /\ nextId \in Nat /\ Timer \in Nat
      /\ new \in Entry
  BY TimerAssumption DEF TypeOK, Entry
<1>2. /\ byName' = Live \cup {new}
      /\ byTime' = LiveTime \cup {Link(new)}
      /\ nextId' = nextId + 1
  BY DEF Insert, Link
<1>3. Live \subseteq byName /\ LiveTime \subseteq byTime
  BY DEF Live, LiveTime
<1>4. TypeOK'
  <2>1. byName' \subseteq Entry /\ byTime' \subseteq [time : Nat, id : Nat]
    BY <1>1, <1>2, <1>3 DEF TypeOK, Link
  <2>2. ASSUME NEW e \in byName'
        PROVE  e.id < nextId' /\ e.issue <= clock' /\ e.time <= clock' + Timer
    <3>1. CASE e = new
      BY <1>1, <1>2, <3>1
    <3>2. CASE e \in byName
      <4>1. /\ e.id \in Nat
            /\ e.id < nextId /\ e.issue <= clock /\ e.time <= clock + Timer
        BY <3>2 DEF TypeOK, Entry
      <4>. QED
        BY <1>1, <1>2, <4>1
    <3>. QED
      BY <1>2, <1>3, <3>1, <3>2
  <2>. QED
    BY <1>1, <1>2, <2>1, <2>2 DEF TypeOK
<1>5. IndexAgreement'
  <2>1. byTime' = {Link(e) : e \in byName'}
    BY <1>2, LiveTimeIsLinked
  <2>2. ASSUME NEW e \in byName', NEW g \in byName', e.id = g.id
        PROVE  e = g
    <3>1. \A h \in Live : h.id < nextId /\ h.id \in Nat
      BY <1>3 DEF TypeOK, Entry
    <3>. QED
      BY <1>1, <1>2, <1>3, <2>2, <3>1 DEF IndexAgreement
  <2>. QED
    BY <2>1, <2>2 DEF IndexAgreement
<1>. QED
  BY <1>4, <1>5

(* consume_PIT_entry erases from both indexes together.                    *)
LEMMA ConsumeKeepsIndexes ==
    ASSUME TypeOK, IndexAgreement, NEW S \in SUBSET Live, Consume(S),
           UNCHANGED <<clock, nextId, upstream>>
    PROVE  TypeOK' /\ IndexAgreement'
<1>1. byName' \subseteq byName /\ byTime' \subseteq byTime
  BY DEF Consume, Live, LiveTime
<1>2. TypeOK'
  BY <1>1 DEF TypeOK
<1>3. \A e, g \in Live : Link(e) = Link(g) => e = g
  BY DEF Live, Link, IndexAgreement
<1>4. byTime' = {Link(e) : e \in byName'}
  BY <1>3, LiveTimeIsLinked DEF Consume
<1>. QED
  BY <1>1, <1>2, <1>4 DEF IndexAgreement

(* A data packet answers only live entries of its name from other faces.   *)
LEMMA AnsweredAreOthers ==
    ASSUME NEW f, NEW k, NEW p, NEW i
    PROVE  Answered(f, k, p, i) \subseteq Others(f, k)
BY DEF Answered, Exact, Oldest, FilteredOut, LocalOf

-----------------------------------------------------------------------------

LEMMA InitInv == Init => IInv
BY TimerAssumption
   DEF Init, IInv, TypeOK, IndexAgreement, AggregationBounded, Entry, Link

(* Passing an interest on raises the coverage of its name to the maximum.  *)
LEMMA ForwardInv ==
    ASSUME IInv, NEW f \in Faces, NEW k \in Keys, NEW p \in Ports,
           NEW i \in 0..clock, Forward(f, k, p, i)
    PROVE  IInv'
<1>1. clock \in Nat /\ Timer \in Nat /\ clock + Timer \in Nat
  BY TimerAssumption DEF IInv, TypeOK
<1>2. /\ Insert(f, k, p, i, clock + Timer)
      /\ clock' = clock
      /\ upstream' = [upstream EXCEPT ![k] = clock + Timer]
  BY DEF Forward
<1>3. upstream' \in [Keys -> Nat]
  BY <1>1, <1>2 DEF IInv, TypeOK
<1>4. TypeOK' /\ IndexAgreement'
  BY <1>1, <1>2, <1>3, InsertKeepsIndexes DEF IInv
<1>5. ASSUME NEW e \in byName'
      PROVE  e.time <= upstream'[e.key]
  <2>1. e.time <= clock + Timer /\ e.key \in Keys
    BY <1>2, <1>4 DEF TypeOK, Entry
  <2>2. CASE e.key = k
    BY <1>2, <2>1, <2>2 DEF IInv, TypeOK
  <2>3. CASE e.key # k
    <3>1. e \in byName
      BY <1>2, <2>3 DEF Insert, Live
    <3>. QED
      BY <1>2, <2>1, <2>3, <3>1 DEF IInv, TypeOK, AggregationBounded
  <2>. QED
    BY <2>2, <2>3
<1>. QED
  BY <1>4, <1>5 DEF IInv, AggregationBounded

(* A filtered interest copies an expiry that is covered already.           *)
LEMMA FilteredInv ==
    ASSUME IInv, NEW f \in RemoteFaces, NEW k \in Keys, NEW p \in Ports,
           NEW i \in 0..clock, RecordRemoteFiltered(f, k, p, i)
    PROVE  IInv'
<1>1. PICK e \in Oldest(Matching(k)) : Insert(f, k, p, i, e.time)
  BY DEF RecordRemoteFiltered
<1>2. UNCHANGED <<clock, upstream>>
  BY DEF RecordRemoteFiltered
<1>3. e \in byName /\ e.key = k
  BY DEF Oldest, Matching, Live
<1>4. e.time \in Nat /\ e.time <= clock + Timer /\ e.time <= upstream[k]
  BY <1>3 DEF IInv, TypeOK, Entry, AggregationBounded
<1>5. TypeOK' /\ IndexAgreement'
  BY <1>1, <1>2, <1>4, InsertKeepsIndexes DEF IInv, TypeOK, Faces
<1>6. \A g \in byName' : g.time <= upstream'[g.key]
  BY <1>1, <1>2, <1>4 DEF Insert, Live, IInv, AggregationBounded
<1>. QED
  BY <1>5, <1>6 DEF IInv, AggregationBounded

LEMMA SuppressedInv ==
    ASSUME IInv, NEW k, NEW p, RecordSocketSuppressed(k, p)
    PROVE  IInv'
<1>1. Consume({})
  BY DEF RecordSocketSuppressed, Consume
<1>2. TypeOK' /\ IndexAgreement'
  BY <1>1, ConsumeKeepsIndexes DEF IInv, RecordSocketSuppressed
<1>. QED
  BY <1>2 DEF RecordSocketSuppressed, IInv, AggregationBounded, Live

LEMMA ProcessOutInv ==
    ASSUME IInv, NEW f, NEW k, NEW p, NEW i, ProcessOut(f, k, p, i)
    PROVE  IInv'
<1>1. Answered(f, k, p, i) \subseteq Live
  BY AnsweredAreOthers DEF Others, Matching
<1>2. TypeOK' /\ IndexAgreement'
  BY <1>1, ConsumeKeepsIndexes DEF IInv, ProcessOut
<1>. QED
  BY <1>2 DEF ProcessOut, Consume, IInv, AggregationBounded, Live

LEMMA TickInv == ASSUME IInv, Tick PROVE IInv'
<1>1. clock \in Nat /\ Timer \in Nat /\ clock' = clock + 1
  BY TimerAssumption DEF IInv, TypeOK, Tick
<1>2. \A e \in byName : e.time \in Nat /\ e.issue \in Nat
  BY DEF IInv, TypeOK, Entry
<1>. QED
  BY <1>1, <1>2 DEF IInv, TypeOK, IndexAgreement, AggregationBounded, Tick, Link

LEMMA NextInv == ASSUME IInv, [Next]_vars PROVE IInv'
<1>1. ASSUME NEW f \in RemoteFaces, NEW k \in Keys, NEW p \in Ports,
             NEW i \in 0..clock, RecordRemote(f, k, p, i)
      PROVE  IInv'
  BY <1>1, ForwardInv, FilteredInv
     DEF RecordRemote, RecordRemoteForward, Faces
<1>2. ASSUME NEW f \in RemoteFaces, NEW k \in Keys, NEW p \in Ports,
             NEW i \in 0..clock, ProcessOut(f, k, p, i)
      PROVE  IInv'
  BY <1>2, ProcessOutInv
<1>3. clock \in 0..clock /\ Local \in Faces
  BY DEF IInv, TypeOK, Faces
<1>4. ASSUME NEW k \in Keys, RecordDownload(k)
      PROVE  IInv'
  BY <1>3, <1>4, ForwardInv, PortAssumption DEF RecordDownload
<1>5. ASSUME NEW k \in Keys, NEW p \in Ports, RecordSocket(k, p)
      PROVE  IInv'
  BY <1>3, <1>5, ForwardInv, SuppressedInv DEF RecordSocket, RecordSocketForward
<1>6. CASE UNCHANGED vars
  BY <1>6 DEF vars, IInv, TypeOK, IndexAgreement, AggregationBounded, Link
<1>. QED
  BY <1>1, <1>2, <1>4, <1>5, <1>6, TickInv DEF Next, Operation

(* Type correctness of the table: entries carry legal faces, names and     *)
(* ports, and none waits for longer than m_timer.                          *)
THEOREM TypeCorrect == Spec => []TypeOK
<1>1. IInv => TypeOK
  BY DEF IInv
<1>. QED
  BY <1>1, InitInv, NextInv, PTL DEF Spec

(* The two mutually linked indexes of PITable agree in every reachable     *)
(* state, so consume_PIT_entry and PIT_clean never follow a stale iterator. *)
THEOREM IndexesAgree == Spec => []IndexAgreement
<1>1. IInv => IndexAgreement
  BY DEF IInv
<1>. QED
  BY <1>1, InitInv, NextInv, PTL DEF Spec

(* Filtering never lets a face wait beyond the last interest sent on.      *)
THEOREM FilteringBounded == Spec => []AggregationBounded
<1>1. IInv => AggregationBounded
  BY DEF IInv
<1>. QED
  BY <1>1, InitInv, NextInv, PTL DEF Spec

-----------------------------------------------------------------------------

(* An operation takes place at the current time and leaves, of the entries *)
(* it found, live ones only; what it adds is live too.                     *)
LEMMA OperationLeavesLive ==
    ASSUME IInv, Operation
    PROVE  clock' = clock /\ \A e \in byName' : e.time > clock
<1>1. clock \in Nat /\ Timer \in Nat \ {0} /\ clock + Timer > clock
  BY TimerAssumption DEF IInv, TypeOK
<1>2. \A e \in Live : e.time > clock
  BY LiveIsUnexpired DEF IInv
<1>3. ASSUME NEW f, NEW k, NEW p, NEW i, Forward(f, k, p, i)
      PROVE  clock' = clock /\ \A e \in byName' : e.time > clock
  BY <1>1, <1>2, <1>3 DEF Forward, Insert
<1>4. ASSUME NEW f, NEW k, NEW p, NEW i, RecordRemoteFiltered(f, k, p, i)
      PROVE  clock' = clock /\ \A e \in byName' : e.time > clock
  BY <1>2, <1>4 DEF RecordRemoteFiltered, Insert, Oldest, Matching
<1>5. ASSUME NEW k, NEW p, RecordSocketSuppressed(k, p)
      PROVE  clock' = clock /\ \A e \in byName' : e.time > clock
  BY <1>2, <1>5 DEF RecordSocketSuppressed
<1>6. ASSUME NEW f, NEW k, NEW p, NEW i, ProcessOut(f, k, p, i)
      PROVE  clock' = clock /\ \A e \in byName' : e.time > clock
  BY <1>2, <1>6 DEF ProcessOut, Consume
<1>. QED
  BY <1>3, <1>4, <1>5, <1>6
     DEF Operation, RecordRemote, RecordRemoteForward, RecordDownload,
         RecordSocket, RecordSocketForward

(* Every lookup, insertion and consumption leaves both indexes free of     *)
(* expired entries, because PIT_clean runs first and filtering copies the  *)
(* expiry of an entry that survived it.                                    *)
THEOREM Cleaning == Spec => CleanAfterOperation
<1>1. ASSUME IInv, IInv', [Next]_vars
      PROVE  [clock' = clock =>
                /\ \A e \in byName' : e.time > clock
                /\ \A t \in byTime' : t.time > clock]_vars
  <2>1. CASE Operation
    <3>1. \A e \in byName' : e.time > clock
      BY <1>1, <2>1, OperationLeavesLive
    <3>2. \A t \in byTime' : t.time > clock
      BY <1>1, <3>1 DEF IInv, IndexAgreement, Link
    <3>. QED
      BY <3>1, <3>2
  <2>2. CASE Tick
    BY <1>1, <2>2 DEF Tick, IInv, TypeOK
  <2>. QED
    BY <1>1, <2>1, <2>2 DEF Next
<1>. QED
  BY <1>1, InitInv, NextInv, PTL DEF Spec, CleanAfterOperation

-----------------------------------------------------------------------------

(* What a data packet removes, among the live entries, is what it answers. *)
LEMMA RemovedByData ==
    ASSUME IInv, NEW f, NEW k, NEW p, NEW i, ProcessOut(f, k, p, i)
    PROVE  Removed = Answered(f, k, p, i)
<1>1. Answered(f, k, p, i) \subseteq Live
  BY AnsweredAreOthers DEF Others, Matching
<1>. QED
  BY <1>1, LiveIsUnexpired DEF ProcessOut, Consume, Removed, IInv

(* Data never satisfies an interest of the face it came from, and nothing  *)
(* but data of its name removes a live interest.                           *)
THEOREM ArrivalFace == Spec => ArrivalFaceKept
<1>1. ASSUME IInv, [Next]_vars
      PROVE  [Removed # {} =>
                \E f \in RemoteFaces, k \in Keys, p \in Ports, i \in 0..clock :
                    /\ ProcessOut(f, k, p, i)
                    /\ \A e \in Removed : e.ifid # f /\ e.key = k]_vars
  <2>1. Live = {e \in byName : e.time > clock}
    BY <1>1, LiveIsUnexpired DEF IInv
  <2>2. ASSUME NEW f \in RemoteFaces, NEW k \in Keys, NEW p \in Ports,
               NEW i \in 0..clock, ProcessOut(f, k, p, i)
        PROVE  \A e \in Removed : e.ifid # f /\ e.key = k
    BY <1>1, <2>2, RemovedByData, AnsweredAreOthers DEF Others, Matching
  <2>3. ASSUME Live \subseteq byName'
        PROVE  Removed = {}
    BY <2>1, <2>3 DEF Removed
  <2>4. ASSUME NEW f, NEW k, NEW p, NEW i, RecordRemote(f, k, p, i)
        PROVE  Live \subseteq byName'
    BY <2>4
       DEF RecordRemote, RecordRemoteForward, RecordRemoteFiltered, Forward, Insert
  <2>5. ASSUME NEW k, RecordDownload(k)
        PROVE  Live \subseteq byName'
    BY <2>5 DEF RecordDownload, Forward, Insert
  <2>6. ASSUME NEW k, NEW p, RecordSocket(k, p)
        PROVE  Live \subseteq byName'
    BY <2>6 DEF RecordSocket, RecordSocketForward, RecordSocketSuppressed,
                Forward, Insert
  <2>7. ASSUME UNCHANGED byName
        PROVE  Removed = {}
    BY <2>7 DEF Removed
  <2>. QED
    BY <1>1, <2>2, <2>3, <2>4, <2>5, <2>6, <2>7 DEF Next, Operation, Tick, vars
<1>. QED
  BY <1>1, InitInv, NextInv, PTL DEF Spec, ArrivalFaceKept

-----------------------------------------------------------------------------

(* Among the entries of a set, the one recorded first exists and is unique. *)
LEMMA OldestExists ==
    ASSUME IndexAgreement, TypeOK, NEW S \in SUBSET byName, S # {}
    PROVE  \E e \in S : Oldest(S) = {e}
<1> DEFINE ids == {e.id : e \in S}
           less == {ss \in Nat \X Nat : ss[1] < ss[2]}
<1>1. ids \subseteq Nat /\ ids # {}
  BY DEF TypeOK, Entry
<1>2. IsWellFoundedOn(less, Nat)
  BY NatLessThanWellFounded, Zenon DEF OpToRel
<1>3. PICK n \in ids : \A m \in ids : ~ (<<m, n>> \in less)
  <2> HIDE DEF less, ids
  <2>. QED
    BY <1>1, <1>2, WFMin
<1>4. ASSUME NEW m \in ids
      PROVE  n <= m
  <2>1. m \in Nat /\ n \in Nat
    BY <1>1
  <2>2. <<m, n>> \in less <=> m < n
    BY <2>1
  <2>3. ~(m < n)
    BY <1>3, <2>2
  <2> HIDE DEF ids
  <2>. QED
    BY <2>1, <2>3
<1>5. PICK e \in S : e.id = n
  BY <1>3
<1>6. e \in Oldest(S)
  BY <1>4, <1>5 DEF Oldest
<1>7. ASSUME NEW g \in Oldest(S)
      PROVE  g = e
  <2>1. g \in byName /\ e \in byName /\ e.id \in Nat /\ g.id \in Nat
    BY DEF Oldest, TypeOK, Entry
  <2>2. g.id <= e.id /\ e.id <= g.id
    BY <1>6 DEF Oldest
  <2>. QED
    BY <2>1, <2>2 DEF IndexAgreement
<1>. QED
  BY <1>6, <1>7

(* A chunk that arrives with filtering on is passed to every neighbour that *)
(* waits for it unless a local socket ended the walk, and to one local     *)
(* socket at most.                                                         *)
THEOREM Neighbours == Spec => NeighboursServed
<1>1. ASSUME IInv, NEW f \in RemoteFaces, NEW k \in Keys \ InfoKeys,
             NEW p \in Ports, NEW i \in 0..clock,
             ProcessOut(f, k, p, i), Filtering,
             NEW locals, locals = {e \in Removed : e.ifid = Local}
      PROVE  /\ \A e, g \in locals : e = g
             /\ locals = {} => \A e \in byName' : e.key = k => e.ifid \in {f, Local}
  <2>1. Removed = FilteredOut(f, k, p)
    BY <1>1, RemovedByData DEF Answered
  <2>2. LocalOf(f, k, p) \subseteq byName
    BY DEF LocalOf, Others, Matching, Live
  <2>3. locals = Oldest(LocalOf(f, k, p))
    BY <1>1, <2>1 DEF FilteredOut, Oldest, LocalOf
  <2>4. CASE LocalOf(f, k, p) = {}
    <3>1. locals = {}
      BY <2>3, <2>4 DEF Oldest
    <3>2. ASSUME NEW e \in byName', e.key = k
          PROVE  e.ifid \in {f, Local}
      <4>1. Answered(f, k, p, i) = FilteredOut(f, k, p)
        BY <1>1 DEF Answered
      <4>2. e \in Live /\ e \notin FilteredOut(f, k, p)
        BY <1>1, <4>1 DEF ProcessOut, Consume
      <4>. QED
        BY <2>4, <3>2, <4>2 DEF FilteredOut, Others, Matching
    <3>. QED
      BY <3>1, <3>2
  <2>5. CASE LocalOf(f, k, p) # {}
    <3>1. PICK l \in LocalOf(f, k, p) : Oldest(LocalOf(f, k, p)) = {l}
      BY <1>1, <2>2, <2>5, OldestExists DEF IInv
    <3>. QED
      BY <2>3, <3>1
  <2>. QED
    BY <2>4, <2>5
<1>2. ASSUME IInv
      PROVE  \A f \in RemoteFaces, k \in Keys \ InfoKeys, p \in Ports, i \in 0..clock :
               ProcessOut(f, k, p, i) /\ Filtering =>
                 LET locals == {e \in Removed : e.ifid = Local} IN
                 /\ \A e, g \in locals : e = g
                 /\ locals = {} =>
                      \A e \in byName' : e.key = k => e.ifid \in {f, Local}
  BY <1>1, <1>2
<1>. QED
  BY <1>2, InitInv, NextInv, PTL DEF Spec, NeighboursServed

-----------------------------------------------------------------------------

(* A second request of a socket for a chunk is suppressed while the first  *)
(* is pending.                                                             *)
THEOREM SocketRequests == Spec => []OneRequestPerSocket
<1>1. Init => OneRequestPerSocket
  BY DEF Init, OneRequestPerSocket
<1>2. ASSUME IInv, IInv', OneRequestPerSocket, [Next]_vars
      PROVE  OneRequestPerSocket'
  <2>1. Live = {e \in byName : e.time > clock}
    BY <1>2, LiveIsUnexpired DEF IInv
  <2>2. ASSUME clock' = clock, byName' \subseteq Live
        PROVE  OneRequestPerSocket'
    BY <1>2, <2>1, <2>2 DEF OneRequestPerSocket
  <2>3. ASSUME clock' = clock, NEW n, byName' = Live \cup {n},
               \/ n.ifid # Local
               \/ n.key \in InfoKeys
               \/ \A e \in Live : e.key = n.key => e.port # n.port
        PROVE  OneRequestPerSocket'
    BY <1>2, <2>1, <2>3 DEF OneRequestPerSocket
  <2>4. ASSUME NEW f \in RemoteFaces, NEW k, NEW p, NEW i, RecordRemote(f, k, p, i)
        PROVE  OneRequestPerSocket'
    <3>1. clock' = clock /\ \E x : Insert(f, k, p, i, x)
      BY <2>4 DEF RecordRemote, RecordRemoteForward, RecordRemoteFiltered, Forward
    <3>2. PICK x : Insert(f, k, p, i, x)
      BY <3>1
    <3>. QED
      BY <2>3, <3>1, <3>2, FacesAssumption DEF Insert
  <2>5. ASSUME NEW k, RecordDownload(k)
        PROVE  OneRequestPerSocket'
    BY <2>3, <2>5 DEF RecordDownload, Forward, Insert
  <2>6. ASSUME NEW k, NEW p, RecordSocket(k, p)
        PROVE  OneRequestPerSocket'
    <3>1. CASE RecordSocketForward(k, p)
      BY <2>3, <3>1 DEF RecordSocketForward, PortTaken, Matching, Forward, Insert
    <3>2. CASE RecordSocketSuppressed(k, p)
      BY <2>2, <3>2 DEF RecordSocketSuppressed
    <3>. QED
      BY <2>6, <3>1, <3>2 DEF RecordSocket
  <2>7. ASSUME NEW f, NEW k, NEW p, NEW i, ProcessOut(f, k, p, i)
        PROVE  OneRequestPerSocket'
    BY <2>2, <2>7 DEF ProcessOut, Consume
  <2>8. CASE Tick
    <3>1. \A e \in byName : e.time \in Nat
      BY <1>2 DEF IInv, TypeOK, Entry
    <3>2. clock \in Nat /\ clock' = clock + 1 /\ byName' = byName
      BY <1>2, <2>8 DEF IInv, TypeOK, Tick
    <3>. QED
      BY <1>2, <3>1, <3>2 DEF OneRequestPerSocket
  <2>9. CASE UNCHANGED vars
    BY <1>2, <2>9 DEF vars, OneRequestPerSocket
  <2>. QED
    BY <1>2, <2>4, <2>5, <2>6, <2>7, <2>8, <2>9 DEF Next, Operation
<1>. QED
  BY <1>1, <1>2, InitInv, NextInv, PTL DEF Spec
=============================================================================
