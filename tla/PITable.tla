------------------------------ MODULE PITable ------------------------------
(***************************************************************************)
(* The Pending Interest Table of a node (src/PITable.cc).  Two mutually    *)
(* linked indexes hold one entry per recorded interest: an unordered       *)
(* multimap by packet name (content/chunk) and a multimap by expiry time.  *)
(* Every operation first removes the expired entries (PIT_clean).          *)
(*                                                                         *)
(* The simulator runs one event at a time, so an operation is one action;  *)
(* the order of operations and the moments at which data comes back are    *)
(* left open.  Equal names are iterated in insertion order, which is the   *)
(* order of the field id.                                                  *)
(***************************************************************************)
EXTENDS Integers, FiniteSets

CONSTANTS
    RemoteFaces,  \* the interfaces towards neighbours (ifid # 0)
    Local,        \* ifid 0: the applications of this node
    Keys,         \* packet names, content/chunk
    InfoKeys,     \* the packet names whose chunk is 0
    Ports,        \* port numbers carried by interests
    DownloadPort, \* the port of the chunk 0 interest of download_content
    Timer,        \* m_timer, in time units
    Filtering,    \* m_filtering = FILTERING_ON
    MaxClock,     \* bound on the simulated time
    MaxInterests, \* bound on the entries ever recorded
    MaxAge        \* bound on the age of an interest that arrives

ASSUME FacesAssumption == Local \notin RemoteFaces
ASSUME KeysAssumption == InfoKeys \subseteq Keys
ASSUME PortAssumption == DownloadPort \in Ports
ASSUME TimerAssumption == Timer \in Nat \ {0}
ASSUME FilteringAssumption == Filtering \in BOOLEAN
ASSUME BoundsAssumption == MaxClock \in Nat /\ MaxInterests \in Nat /\ MaxAge \in Nat

VARIABLES
    clock,    \* Sim::clock()
    byName,   \* m_store_by_name_PIT, the entries
    byTime,   \* m_store_by_time_PIT, expiry times linked to entries
    nextId,   \* the insertion number of the next entry
    upstream  \* history: per name, the expiry of the last interest sent on

vars == <<clock, byName, byTime, nextId, upstream>>

Faces == RemoteFaces \cup {Local}

Entry == [id : Nat, ifid : Faces, time : Nat, key : Keys,
          port : Ports, issue : Nat]

Link(e) == [time |-> e.time, id |-> e.id]

-----------------------------------------------------------------------------
(* PIT_clean: the walk of the time index stops at the first live entry.    *)

Expired == {t \in byTime : t.time <= clock}

ExpiredNames == {t.id : t \in Expired}

Live == {e \in byName : e.id \notin ExpiredNames}
LiveTime == byTime \ Expired

(* lookup: the live entries of a name.                                     *)
Matching(k) == {e \in Live : e.key = k}

Oldest(S) == {e \in S : \A g \in S : e.id <= g.id}

-----------------------------------------------------------------------------
(* record_interest.  The entry goes into both indexes.                     *)

InsertFreshTimer(f, k, p, i, expiry) ==
    /\ nextId <= MaxInterests
    /\ byName' = Live \cup {[id |-> nextId, ifid |-> f, time |-> clock + Timer,
                             key |-> k, port |-> p, issue |-> i]}
    /\ byTime' = LiveTime \cup {[time |-> clock + Timer, id |-> nextId]}
    /\ nextId' = nextId + 1

InsertWrongLink(f, k, p, i, expiry) ==
    /\ nextId <= MaxInterests
    /\ byName' = Live \cup {[id |-> nextId, ifid |-> f, time |-> expiry,
                             key |-> k, port |-> p, issue |-> i]}
    /\ byTime' = LiveTime \cup {[time |-> clock + Timer, id |-> nextId]}
    /\ nextId' = nextId + 1

Insert(f, k, p, i, expiry) ==
    /\ nextId <= MaxInterests
    /\ byName' = Live \cup {[id |-> nextId, ifid |-> f, time |-> expiry,
                             key |-> k, port |-> p, issue |-> i]}
    /\ byTime' = LiveTime \cup {[time |-> expiry, id |-> nextId]}
    /\ nextId' = nextId + 1

(* An interest without a match keeps the node's own timer, and the caller  *)
(* sends it on.                                                            *)
Forward(f, k, p, i) ==
    /\ Insert(f, k, p, i, clock + Timer)
    /\ upstream' = [upstream EXCEPT ![k] = clock + Timer]
    /\ UNCHANGED clock

(* Only chunks are filtered, never the chunk 0 interest.                   *)
Aggregates(k) == Filtering /\ k \notin InfoKeys /\ Matching(k) # {}

(* process_interest: an interest from a neighbour, socket = NULL.          *)
RecordRemoteForward(f, k, p, i) ==
    /\ ~Aggregates(k)
    /\ Forward(f, k, p, i)

(* The filtered interest takes the expiry of the first matching entry.     *)
RecordRemoteFiltered(f, k, p, i) ==
    /\ Aggregates(k)
    /\ \E e \in Oldest(Matching(k)) : Insert(f, k, p, i, e.time)
    /\ UNCHANGED <<clock, upstream>>

(* download_content: the chunk 0 interest of a new download, socket = NULL. *)
RecordDownload(k) ==
    /\ k \in InfoKeys
    /\ Forward(Local, k, DownloadPort, clock)

(* set_outgoing_interests: the request of an open socket for a chunk.  A   *)
(* match on the port, whatever its interface, suppresses the request.      *)
PortTakenNever(k, p) == FALSE
PortTaken(k, p) == \E e \in Matching(k) : e.port = p

RecordSocketForward(k, p) ==
    /\ k \notin InfoKeys
    /\ ~PortTaken(k, p)
    /\ Forward(Local, k, p, clock)

RecordSocketSuppressed(k, p) ==
    /\ k \notin InfoKeys
    /\ PortTaken(k, p)
    /\ byName' = Live
    /\ byTime' = LiveTime
    /\ UNCHANGED <<clock, nextId, upstream>>

-----------------------------------------------------------------------------
(* process_out: the entries that data k, received on f for the interest    *)
(* <<p, i>>, answers.                                                      *)

Others(f, k) == {e \in Matching(k) : e.ifid # f}

(* Without filtering, and for chunk 0: the first entry of that interest.   *)
Exact(f, k, p, i) ==
    Oldest({e \in Others(f, k) : e.issue = i /\ e.port = p})

(* With filtering: neighbours in insertion order up to and including the   *)
(* first local entry with the port of the data, where the walk breaks.     *)
LocalOf(f, k, p) == {e \in Others(f, k) : e.ifid = Local /\ e.port = p}

FilteredNoBreak(f, k, p) ==
    LocalOf(f, k, p) \cup {e \in Others(f, k) : e.ifid # Local}

FilteredOldest(f, k, p) == Oldest(FilteredNoBreak(f, k, p))

FilteredOut(f, k, p) ==
    {e \in Others(f, k) :
        IF e.ifid = Local
        THEN e \in Oldest(LocalOf(f, k, p))
        ELSE \A l \in LocalOf(f, k, p) : e.id < l.id}

Answered(f, k, p, i) ==
    IF k \in InfoKeys \/ ~Filtering THEN Exact(f, k, p, i)
                                    ELSE FilteredOut(f, k, p)

(* consume_PIT_entry for each of them, in both indexes.                    *)
Consume(S) ==
    /\ byName' = Live \ S
    /\ byTime' = LiveTime \ {Link(e) : e \in S}

ProcessOut(f, k, p, i) ==
    /\ Consume(Answered(f, k, p, i))
    /\ UNCHANGED <<clock, nextId, upstream>>

-----------------------------------------------------------------------------

Tick ==
    /\ clock < MaxClock
    /\ clock' = clock + 1
    /\ UNCHANGED <<byName, byTime, nextId, upstream>>

Init ==
    /\ clock = 0
    /\ byName = {}
    /\ byTime = {}
    /\ nextId = 1
    /\ upstream = [k \in Keys |-> 0]

RecordRemote(f, k, p, i) ==
    RecordRemoteForward(f, k, p, i) \/ RecordRemoteFiltered(f, k, p, i)

RecordSocket(k, p) == RecordSocketForward(k, p) \/ RecordSocketSuppressed(k, p)

Operation ==
    \/ \E f \in RemoteFaces, k \in Keys, p \in Ports, i \in 0..clock :
          \/ clock - i <= MaxAge /\ RecordRemote(f, k, p, i)
          \/ ProcessOut(f, k, p, i)
    \/ \E k \in Keys : RecordDownload(k)
    \/ \E k \in Keys, p \in Ports : RecordSocket(k, p)

Next == Operation \/ Tick

Spec == Init /\ [][Next]_vars

-----------------------------------------------------------------------------
(* Types; no entry is issued in the future or waits for more than m_timer. *)
TypeOK ==
    /\ clock \in Nat
    /\ nextId \in Nat \ {0}
    /\ byName \subseteq Entry
    /\ byTime \subseteq [time : Nat, id : Nat]
    /\ upstream \in [Keys -> Nat]
    /\ \A e \in byName :
          e.id < nextId /\ e.issue <= clock /\ e.time <= clock + Timer

(* The two indexes are "mutually linked" (wiki/Simulator_structure.wiki):  *)
(* each entry has its own expiry record and each expiry record its entry,  *)
(* whatever sequence of filtering, consuming and cleaning happened.  A     *)
(* stale link is a dangling iterator in the code.                          *)
IndexAgreement ==
    /\ byTime = {Link(e) : e \in byName}
    /\ \A e, g \in byName : e.id = g.id => e = g

(* An interest that was filtered never waits longer than one this node did *)
(* send on for the same name: otherwise a face would wait, and filter its  *)
(* own retransmissions, for data that nobody asked for.                    *)
AggregationBounded == \A e \in byName : e.time <= upstream[e.key]

(* A socket has at most one pending request per chunk: the port comparison *)
(* in record_interest is all that keeps a download from asking twice.      *)
OneRequestPerSocket ==
    \A e, g \in byName :
        /\ e.ifid = Local /\ g.ifid = Local
        /\ e.key = g.key /\ e.key \notin InfoKeys /\ e.port = g.port
        => e = g \/ e.time <= clock \/ g.time <= clock

(* Entries a step removes although they are still live.                    *)
Removed == {e \in byName : e.time > clock} \ byName'

(* After any operation no expired entry is left in either index.           *)
CleanAfterOperation ==
    [][clock' = clock =>
        /\ \A e \in byName' : e.time > clock
        /\ \A t \in byTime' : t.time > clock]_vars

(* Data coming from a face never satisfies an interest of that same face,  *)
(* and only data removes a live interest.                                  *)
ArrivalFaceKept ==
    [][Removed # {} =>
        \E f \in RemoteFaces, k \in Keys, p \in Ports, i \in 0..clock :
            /\ ProcessOut(f, k, p, i)
            /\ \A e \in Removed : e.ifid # f /\ e.key = k]_vars

(* With filtering one data packet reaches every neighbour that waits for   *)
(* it, unless the walk broke at a local socket; and it reaches at most one *)
(* local socket.                                                           *)
NeighboursServed ==
    [][\A f \in RemoteFaces, k \in Keys \ InfoKeys, p \in Ports, i \in 0..clock :
        ProcessOut(f, k, p, i) /\ Filtering =>
            LET locals == {e \in Removed : e.ifid = Local} IN
            /\ \A e, g \in locals : e = g
            /\ locals = {} =>
                 \A e \in byName' : e.key = k => e.ifid \in {f, Local}]_vars
=============================================================================
