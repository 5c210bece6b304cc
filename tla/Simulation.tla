----------------------------- MODULE Simulation -----------------------------
(***************************************************************************)
(* The processes that run a simulation: the driver hands the events of the *)
(* workload to the nodes, the data collector polls the nodes at intervals, *)
(* the killer process stops the simulation, and the delivery oracle keeps  *)
(* count of the messages that should arrive.  The kernel (ssim) executes   *)
(* the scheduled events in the order of their times, equal times in any    *)
(* order.                                                                  *)
(*                                                                         *)
(* Of a node there is what these processes see: its predicate, the local   *)
(* delivery of messages (nothing else is sent of them, CBCBNode.cc:181),   *)
(* the contents that it serves, and the counts of hits, misses and filtered*)
(* interests that a download of a content gives rise to somewhere.  No code*)
(* gives m_power_left of a node a value: a node where it happens to be     *)
(* negative handles neither predicates nor messages.                       *)
(***************************************************************************)
EXTENDS Workload

CONSTANTS
    Node,
    Classes,   \* m_options.classes, the popularity classes with statistics
    Configs,   \* the inputs: workload file and options
    Delays     \* from a download to the interests it gives rise to

(* text is the workload file, meant what its author, or the input of the   *)
(* generator, asks for.  forced is the length given on the command line, or*)
(* 0; dci the interval of the data collection, in halves of the time unit; *)
(* startup the period without statistics, in seconds; drained are the nodes*)
(* where m_power_left is negative.                                         *)
ASSUME NodeAssumption == IsFiniteSet(Node)
ASSUME ConfigsAssumption == \A c \in Configs :
    /\ c.meant \in Seq(ToSet(c.meant))
    /\ \A i \in DOMAIN c.meant : LET e == c.meant[i] IN
          /\ e.kind \in DOMAIN Parsers /\ e.node \in Node \cup {-1}
          /\ {e.time, e.class} \subseteq Nat
          /\ e.kind = "publish_content" => e.class > 0
    /\ \A i, j \in DOMAIN c.meant : i <= j => c.meant[i].time <= c.meant[j].time
    /\ c.text \in Seq(ToSet(c.text))
    /\ \A k \in DOMAIN c.text : c.text[k][1] = "DOUBLE" => c.text[k][2] \in Nat
    /\ {c.forced, c.dci, c.startup} \subseteq Nat
    /\ c.drained \subseteq Node
ASSUME DelaysAssumption == Delays \subseteq Nat /\ Classes \in Nat

VARIABLES
    config,      \* workload and options of this run
    times,       \* m_time_unit and m_sim_length of the parser
    events,      \* what next_event returns, one call after the other
    now,         \* Sim::clock
    agenda,      \* the events that are scheduled
    next,        \* m_next_event of the driver, by its place in events, or 0
    predicate,   \* m_route_table[0]: node -> the filters that it has set
    served,      \* m_served_contents: node -> name -> class
    oracle,      \* predicate_map, fwd_table, dirty and windows
    counts,      \* m_hit, m_miss, m_filter: node -> counts since the last poll
    totals,      \* m_hit_tot, m_miss_tot, m_filter_tot of the data collector
    phase,       \* "running", "stopped", "final", or "failed" after an
                 \* exception or a failed assertion
    handled,     \* history: workload events handled by nodes, with their times
    counted,     \* history: node -> what it saw to count, with its times
    delivered,   \* history: messages delivered as expected
    aged         \* history: deliveries that fell out of the last window

input == <<config, times, events>>
vars == <<input, now, agenda, next, predicate, served, oracle, counts, totals,
          phase, handled, counted, delivered, aged>>

Index == DOMAIN events
NextEvent(i) == IF i \in Index THEN i ELSE 0
Fails(i) == i # 0 /\ events[i] = Failure

\* A filter matches a message that meets all its constraints.
Matches(p, m) == \E f \in p : f \subseteq UNION m
Covers(p, q) == \A f \in q : \E g \in p : g \subseteq f

\* rint, which rounds halves to the even number
Timeout == LET h == config.dci \div 2 IN
           IF config.dci % 2 = 1 /\ h % 2 = 1 THEN h + 1 ELSE h

\* DataCollector::init does nothing without an interval.
Collects == Timeout # 0

EndTime == IF config.forced # 0 THEN config.forced ELSE times.length
Startup == config.startup * times.second
FinalPoll == config.dci = 0 \/ (2 * EndTime) % config.dci # 0

Event(to, t, i) == [to |-> to, time |-> t, id |-> i, class |-> 0]
Interest(t, i, c) == [to |-> "interest", time |-> t, id |-> i, class |-> c]

-----------------------------------------------------------------------------
(* The delivery oracle.                                                    *)

Windows == 1..3   \* ORACLE_WINDOW_SIZE
NewWindow == [sent |-> [i \in Index |-> 0], delivered |-> 0, false |-> 0]

\* A mutant: the forwarding table is not made anew.
SetOracleClean(o, n, p) == [o EXCEPT !.predicate_map[n] = p]

SetOracle(o, n, p) == [o EXCEPT !.predicate_map[n] = p, !.dirty = TRUE]

FwdTable(o) == IF o.dirty THEN o.predicate_map ELSE o.fwd_table

(* One entry of the newest window for each node that the message matches.  *)
Sent(o, i, m) ==
    LET t == FwdTable(o)
    IN  [o EXCEPT !.fwd_table = t, !.dirty = FALSE,
                  !.windows[1].sent[i] = Cardinality({n \in Node : Matches(t[n], m)})]

Holding(o, i) == {w \in Windows : o.windows[w].sent[i] > 0}

TrueDelivery(o, i) ==
    LET ws == Holding(o, i)
        c  == [o EXCEPT !.windows[1].delivered = @ + 1]
    IN  IF ws = {} THEN [c EXCEPT !.windows[1].false = @ + 1]
        ELSE [c EXCEPT !.windows[Min(ws)].sent[i] = @ - 1]

\* A mutant: the windows are copied from the newest on.
UpdateUpwards(o) ==
    [o EXCEPT !.windows = [w \in Windows |-> IF w = 1 THEN NewWindow ELSE o.windows[1]]]

UpdateWindows(o) ==
    [o EXCEPT !.windows = [w \in Windows |-> IF w = 1 THEN NewWindow ELSE o.windows[w - 1]]]

-----------------------------------------------------------------------------
Statistic == {"hit", "miss", "filtered"} \X (1..Classes)
Zero == [n \in Node |-> [s \in Statistic |-> 0]]

Init ==
    /\ config \in Configs
    /\ times = ParseTimes(config.text) /\ times.ok
    /\ events = Events(config.text)
    /\ now = 0
    /\ next = NextEvent(1)
    /\ phase = IF Fails(next) THEN "failed" ELSE "running"
    /\ agenda = {Event("killer", times.length, 0)}
         \cup (IF next = 0 THEN {} ELSE {Event("driver", events[next].time, 0)})
         \cup (IF ~Collects THEN {} ELSE {Event("collector", 0, 0)})
    /\ predicate = [n \in Node |-> {}] /\ served = [n \in Node |-> <<>>]
    /\ LET none == [n \in Node |-> {}]
       IN  oracle = [predicate_map |-> none, fwd_table |-> none, dirty |-> FALSE,
                     windows |-> [w \in Windows |-> NewWindow]]
    /\ counts = Zero /\ totals = Zero
    /\ handled = {} /\ counted = [n \in Node |-> {}]
    /\ delivered = {} /\ aged = [i \in Index |-> 0]

(* The kernel takes e off the agenda and executes it.  It stops at the     *)
(* time given on the command line; whether events of that time are still   *)
(* executed is left open.                                                  *)
Execute(e, scheduled) ==
    /\ phase = "running"
    /\ e \in agenda /\ \A f \in agenda : e.time <= f.time
    /\ config.forced # 0 => e.time <= config.forced
    /\ now' = e.time
    /\ agenda' = (agenda \ {e}) \cup scheduled

-----------------------------------------------------------------------------
(* Driver::process_event hands over all workload events of this time and   *)
(* tells the oracle of them; nodes handle them later.                      *)

\* A mutant: the event that ends the batch is handed over with it.
InBatchAlso(t, i) == events[i].time <= t + 1

InBatch(t, i) == events[i].time = t

(* The events from next on, up to the first of another time.               *)
Batch(t) == {i \in Index : i >= next /\ \A j \in next + 1 .. i : InBatch(t, j)}

Tell(o, i) ==
    LET e == events[i]
    IN  CASE e.kind = "set_predicate" -> SetOracle(o, e.node, e.arg)
          [] e.kind = "send_message" -> Sent(o, i, e.arg)
          [] OTHER -> o

(* The oracle when it was told of the events from next to last.            *)
Told(last) ==
    LET told[i \in next - 1 .. last] == IF i < next THEN oracle ELSE Tell(told[i - 1], i)
    IN  told[last]

Drive(e) ==
    /\ e.to = "driver"
    /\ LET batch == Batch(e.time)
           after == NextEvent(Max(batch) + 1)
       IN  /\ next' = after
           /\ oracle' = Told(Max(batch))
           /\ \A i \in batch : events[i].node \in Node
           /\ phase' = IF Fails(after) THEN "failed" ELSE phase
           /\ Execute(e, {Event("node", e.time, i) : i \in batch}
                \cup (IF after = 0 THEN {}
                      ELSE {Event("driver", e.time + (events[after].time - e.time), 0)}))
    /\ UNCHANGED <<input, predicate, served, counts, totals, handled,
                   counted, delivered, aged>>

\* The assertion on the node's number fails.
DriveNobody(e) ==
    /\ e.to = "driver" /\ Execute(e, {})
    /\ \E i \in Batch(e.time) : events[i].node \notin Node
    /\ phase' = "failed"
    /\ UNCHANGED <<input, next, predicate, served, oracle, counts, totals,
                   handled, counted, delivered, aged>>

-----------------------------------------------------------------------------
(* A node handles an event of the driver.  What set_multipath announces is *)
(* in module Routing; here it changes nothing.                             *)

Name(arg) == UNION arg

\* m_served_contents.insert keeps what is there.
RecordContent(s, e) ==
    IF Name(e.arg) \in DOMAIN s THEN s
    ELSE [name \in DOMAIN s \cup {Name(e.arg)} |-> IF name = Name(e.arg) THEN e.class ELSE s[name]]

Handle(e) ==
    /\ e.to = "node"
    /\ handled' = handled \cup {<<e.id, e.time>>}
    /\ LET w == events[e.id]
           works == w.node \notin config.drained
           matches == works /\ Matches(predicate[w.node], w.arg)
       IN
       \/ /\ w.kind = "set_predicate"
          /\ predicate' = IF works /\ ~Covers(predicate[w.node], w.arg)
                          THEN [predicate EXCEPT ![w.node] = @ \cup w.arg]
                          ELSE predicate
          /\ Execute(e, {})
          /\ UNCHANGED <<oracle, delivered, served>>
       \/ /\ w.kind = "send_message"
          /\ oracle' = IF matches THEN TrueDelivery(oracle, e.id) ELSE oracle
          /\ delivered' = IF matches /\ Holding(oracle, e.id) # {}
                          THEN delivered \cup {e.id} ELSE delivered
          /\ Execute(e, {})
          /\ UNCHANGED <<predicate, served>>
       \/ /\ w.kind = "publish_content"
          /\ served' = [served EXCEPT ![w.node] = RecordContent(@, w)]
          /\ Execute(e, {})
          /\ UNCHANGED <<predicate, oracle, delivered>>
       \/ /\ w.kind = "download_content"
          /\ LET servers == {n \in Node : Name(w.arg) \in DOMAIN served[n]}
             IN  \/ servers = {} /\ Execute(e, {})
                 \/ \E n \in servers, d \in Delays :
                       Execute(e, {Interest(e.time + d, e.id, served[n][Name(w.arg)])})
          /\ UNCHANGED <<predicate, served, oracle, delivered>>
       \/ /\ w.kind = "set_multipath"
          /\ Execute(e, {})
          /\ UNCHANGED <<predicate, served, oracle, delivered>>
    /\ UNCHANGED <<input, next, counts, totals, phase, counted, aged>>

(* Some node counts an interest, unless that is in the start-up period,    *)
(* for which it takes the seconds for time units.  A hit of the last class *)
(* is not counted.                                                         *)
Counts(t, s) ==
    /\ t > config.startup
    /\ s \in Statistic /\ (s[1] = "hit" => s[2] < Classes)

Outcomes == {{"hit"}, {"miss"}, {"miss", "filtered"}}

SearchInCache(e) ==
    /\ e.to = "interest"
    /\ Execute(e, {})
    /\ \E n \in Node, outcome \in Outcomes :
          LET seen == outcome \X {e.class}
          IN  /\ counts' = [counts EXCEPT ![n] = [s \in Statistic |->
                    IF s \in seen /\ Counts(e.time, s) THEN @[s] + 1 ELSE @[s]]]
              /\ counted' = [counted EXCEPT ![n] = @ \cup {<<e.id, e.time, s>> : s \in seen}]
    /\ UNCHANGED <<input, next, predicate, served, oracle, totals, phase, handled,
                   delivered, aged>>

-----------------------------------------------------------------------------
(* The data collector adds up what the nodes counted, after the start-up   *)
(* period, and resets their counters.                                      *)

Polled(t) ==
    IF t <= Startup THEN totals
    ELSE [n \in Node |-> [s \in Statistic |-> totals[n][s] + counts[n][s]]]

\* A mutant: the nodes keep their counters.
ResetNothing(cs) == cs

Reset(cs) == Zero

Poll(e) ==
    /\ e.to = "collector"
    /\ totals' = Polled(e.time) /\ counts' = Reset(counts)
    /\ aged' = [i \in Index |-> aged[i] + oracle.windows[3].sent[i]]
    /\ oracle' = UpdateWindows(oracle)
    /\ Execute(e, {Event("collector", e.time + Timeout, 0)})
    /\ UNCHANGED <<input, next, predicate, served, phase, handled, counted, delivered>>

Kill(e) ==
    /\ e.to = "killer"
    /\ Execute(e, {})
    /\ phase' = "stopped"
    /\ UNCHANGED <<input, next, predicate, served, oracle, counts, totals, handled,
                   counted, delivered, aged>>

(* set_stop_time of the kernel                                             *)
StopTime ==
    /\ phase = "running" /\ config.forced # 0
    /\ \A e \in agenda : e.time >= config.forced
    /\ phase' = "stopped"
    /\ UNCHANGED <<input, now, agenda, next, predicate, served, oracle, counts, totals,
                   handled, counted, delivered, aged>>

(* The end of CBNSimulation::run                                           *)
Finish ==
    /\ phase = "stopped" /\ phase' = "final"
    /\ IF FinalPoll THEN totals' = Polled(EndTime) /\ counts' = Reset(counts)
       ELSE UNCHANGED <<totals, counts>>
    /\ UNCHANGED <<input, now, agenda, next, predicate, served, oracle, handled,
                   counted, delivered, aged>>

Next ==
    \/ \E e \in agenda : Drive(e) \/ DriveNobody(e) \/ Handle(e) \/ SearchInCache(e) \/ Poll(e) \/ Kill(e)
    \/ StopTime
    \/ Finish

Spec == Init /\ [][Next]_vars

-----------------------------------------------------------------------------
Filters == UNION {events[i].arg : i \in Index}
Predicate == [Node -> SUBSET Filters]
Window == [sent : [Index -> Nat], delivered : Nat, false : Nat]

Oracle == [predicate_map : Predicate, fwd_table : Predicate, dirty : BOOLEAN,
           windows : [Windows -> Window]]

(* Times of scheduled events are natural numbers; only that of the event   *)
(* that the parser fails on is not.                                        *)
TypeOK ==
    /\ config \in Configs /\ times.ok /\ {times.length, times.second} \subseteq Nat
    /\ events \in Seq(ToSet(events)) /\ now \in Nat /\ next \in Index \cup {0}
    /\ agenda \subseteq [to : {"killer", "driver", "collector", "node", "interest"},
                         time : Nat \cup {-1}, id : Nat, class : Nat]
    /\ predicate \in Predicate
    /\ oracle \in Oracle
    /\ DOMAIN served = Node
    /\ \A n \in Node : \A name \in DOMAIN served[n] : served[n][name] \in Nat
    /\ {counts, totals} \subseteq [Node -> [Statistic -> Nat]]
    /\ phase \in {"running", "stopped", "final", "failed"}
    /\ handled \subseteq Index \X Nat
    /\ counted \in [Node -> SUBSET (Index \X Nat \X ({"hit", "miss", "filtered"} \X Nat))]
    /\ delivered \subseteq Index /\ aged \in [Index -> Nat]

(* The parser returns what its author, or the input of the generator, asks *)
(* for, or the beginning of it and then fails: no event gets a name, a time*)
(* or an order of its own by the way it is written and read.               *)
ParsedAsMeant ==
    \/ events = config.meant
    \/ \E k \in 0..Len(config.meant) : events = Append(SubSeq(config.meant, 1, k), Failure)

(* From the generator's input, or the author of a workload, to the nodes:  *)
(* every event that is meant is handled once, with what was meant, and at  *)
(* its time, and none from before the stop is left out, although events are*)
(* written and parsed as text, read one ahead and scheduled by differences.*)
Stop == IF config.forced # 0 THEN Min({config.forced, times.length}) ELSE times.length

EventsOnTime ==
    /\ \A h \in handled : h[1] \in DOMAIN config.meant
          /\ events[h[1]] = config.meant[h[1]] /\ h[2] = config.meant[h[1]].time
    /\ phase \in {"stopped", "final"} => \A i \in DOMAIN config.meant :
          config.meant[i].time < Stop => <<i, config.meant[i].time>> \in handled

(* The final statistics: what a node counts is in them if it is polled     *)
(* after the start-up period, and then once.  A poll at the time of the    *)
(* stop may come too late; when the interval divides the length there is   *)
(* no other.                                                               *)
PollTimes(last) ==
    IF Timeout = 0 THEN {} ELSE {p \in 0..last : p % Timeout = 0}

Surely(t) ==
    /\ \A p \in PollTimes(Stop) : t <= p => p > Startup
    /\ (FinalPoll /\ EndTime > Startup) \/ \E p \in PollTimes(Stop - 1) : t < p
Never(t) == \E p \in PollTimes(Stop - 1) : t < p /\ p <= Startup

Seen(n, s) == {c \in counted[n] : c[3] = s /\ Counts(c[2], s)}

StatsExact ==
    phase = "final" => \A n \in Node, s \in Statistic :
        /\ totals[n][s] >= Cardinality({c \in Seen(n, s) : Surely(c[2])})
        /\ totals[n][s] <= Cardinality({c \in Seen(n, s) : ~Never(c[2])})

(* Each delivery that the oracle expects is in one of its windows, or was  *)
(* made, or has grown too old.                                             *)
Awaited(i) ==
    oracle.windows[1].sent[i] + oracle.windows[2].sent[i] + oracle.windows[3].sent[i]

Expects(i) ==
    {n \in Node : \E j \in Index :
        /\ j < i /\ events[j].node = n /\ events[j].kind = "set_predicate"
        /\ Matches(events[j].arg, events[i].arg)
        /\ \A k \in j + 1 .. i - 1 : events[k].kind # "set_predicate" \/ events[k].node # n}

OracleAccounts ==
    \A i \in Index : events[i].kind = "send_message" =>
        Awaited(i) + aged[i] + Cardinality(delivered \cap {i})
          = IF next = 0 \/ i < next THEN Cardinality(Expects(i)) ELSE 0

(* DeliveryOracle.h:44-47: the oracle "maintains instantaneous predicate   *)
(* knowledge for the system": unless a node gets two events at a time, or  *)
(* sets its predicate twice, it takes no delivery for a false one.         *)
Orderly == \A i, j \in Index : i # j /\ events[i].node = events[j].node =>
    /\ events[i].time # events[j].time
    /\ {events[i].kind, events[j].kind} # {"set_predicate"}

NoFalseAlarm == Orderly => \A w \in Windows : oracle.windows[w].false = 0
=============================================================================
