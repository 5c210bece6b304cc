------------------------- MODULE SimulationProofs -------------------------
(***************************************************************************)
(* Proofs about Simulation, for any workload that the parser returns as it *)
(* was meant, any nodes and options.                                       *)
(***************************************************************************)
EXTENDS Simulation, DataLemmas

(* What the driver has read; all, when there is no next event.             *)
Read(i) == next = 0 \/ i < next
Handled(i) == \E h \in handled : h[1] = i
NodeEvent(i) == Event("node", events[i].time, i)

(* The agenda, while the simulation has not failed: each kind of event is  *)
(* scheduled when it should be, and those of nodes are for now.            *)
Scheduled ==
    /\ \A e \in agenda : e.time >= now
    /\ \A e \in agenda : e.to = "killer" => e = Event("killer", times.length, 0)
    /\ \A e \in agenda : e.to = "driver" =>
          next # 0 /\ e = Event("driver", events[next].time, 0)
    /\ next # 0 => events[next] # Failure /\ Event("driver", events[next].time, 0) \in agenda
    /\ \A e \in agenda : e.to = "node" =>
          /\ e.id \in Index /\ e = NodeEvent(e.id) /\ e.time = now /\ events[e.id].node \in Node
          /\ Read(e.id) /\ ~Handled(e.id)
    /\ \A e \in agenda : e.to = "interest" =>
          /\ e.id \in Index /\ Handled(e.id)
          /\ \A n \in Node : \A c \in counted[n] : c[1] # e.id
          /\ \A f \in agenda : f.to = "interest" /\ f.id = e.id => f = e

(* What is read was meant, and is handled or will be now.                  *)
Driven ==
    \A i \in Index : Read(i) =>
        events[i] # Failure /\ (<<i, events[i].time>> \in handled \/ NodeEvent(i) \in agenda)

Past ==
    /\ \A h \in handled : h[1] \in Index /\ Read(h[1]) /\ h[2] = events[h[1]].time /\ h[2] <= now
    /\ \A n \in Node : \A c \in counted[n] : Handled(c[1]) /\ c[2] <= now
    /\ \A n \in Node : \A f \in predicate[n] : \E i \in Index :
          /\ Handled(i) /\ f \in events[i].arg
          /\ events[i].kind = "set_predicate" /\ events[i].node = n

(* The simulation ends in time.                                            *)
Ends ==
    /\ now <= Stop
    /\ phase = "running" => Event("killer", times.length, 0) \in agenda
    /\ phase \in {"stopped", "final"} => \A e \in agenda : e.time >= Stop

TimeInv == phase # "failed" => Scheduled /\ Driven /\ Past /\ Ends

(* Also after a failure, what was handled was meant.                       *)
AsMeant ==
    \A h \in handled : h[1] \in DOMAIN config.meant
       /\ events[h[1]] = config.meant[h[1]] /\ h[2] = config.meant[h[1]].time

-----------------------------------------------------------------------------
Polls == {e \in agenda : e.to = "collector"}
NextPoll == (CHOOSE e \in Polls : TRUE).time
LastPoll == IF Collects THEN NextPoll - Timeout ELSE -1

(* One event of the collector is scheduled, and it is not long overdue.    *)
Polling ==
    IF Collects
    THEN /\ Polls = {Event("collector", NextPoll, 0)}
         /\ NextPoll % Timeout = 0 /\ LastPoll <= now
    ELSE Polls = {}

Done(p) == p \in Nat /\ p <= LastPoll /\ p % Timeout = 0

(* What a node saw to count is still in its counters, in U, or was polled  *)
(* into the totals, in T, or in the start-up period.                       *)
Apart(S, U, T) ==
    /\ IsFiniteSet(S) /\ U \subseteq S /\ T \subseteq S /\ U \cap T = {}
    /\ \A x \in U : x[2] >= LastPoll
    /\ \A x \in T : \E p \in 0..now : Done(p) /\ p > Startup /\ p - Timeout <= x[2] /\ x[2] <= p
    /\ \A x \in S \ (U \cup T) : \E p \in 0..now : Done(p) /\ p <= Startup /\ x[2] <= p

Accounted ==
    \A n \in Node, s \in Statistic : \E U \in SUBSET Seen(n, s) : \E T \in SUBSET Seen(n, s) :
        /\ Apart(Seen(n, s), U, T)
        /\ counts[n][s] = Cardinality(U) /\ totals[n][s] = Cardinality(T)

StatsInv ==
    /\ phase # "failed" => Polling
    /\ phase \in {"running", "stopped"} => Accounted
    /\ StatsExact

-----------------------------------------------------------------------------
(* The oracle o when it was told of the events up to k: it has the         *)
(* predicate that each node has set last, and awaits the deliveries that   *)
(* the events up to k give rise to.                                        *)
SetsPredicate(n, j) == events[j].kind = "set_predicate" /\ events[j].node = n
LastSet(n, p, k) ==
    \/ \E j \in Index : /\ j <= k /\ SetsPredicate(n, j) /\ p = events[j].arg
                        /\ \A m \in Index : j < m /\ m <= k => ~SetsPredicate(n, m)
    \/ p = {} /\ \A m \in Index : m <= k => ~SetsPredicate(n, m)

SentIn(o, i) == o.windows[1].sent[i] + o.windows[2].sent[i] + o.windows[3].sent[i]

OracleAt(o, k) ==
    /\ ~o.dirty => o.fwd_table = o.predicate_map
    /\ \A n \in Node : LastSet(n, o.predicate_map[n], k)
    /\ \A i \in Index : i > k => \A w \in Windows : o.windows[w].sent[i] = 0
    /\ \A i \in Index : events[i].kind = "send_message" =>
          SentIn(o, i) + aged[i] + Cardinality(delivered \cap {i})
            = IF i <= k THEN Cardinality(Expects(i)) ELSE 0

UpTo == IF next = 0 THEN Len(events) ELSE next - 1

OracleInv ==
    /\ OracleAt(oracle, UpTo)
    /\ \A i \in Index : i > UpTo => aged[i] = 0 /\ i \notin delivered
    /\ \A i \in delivered : Handled(i)

(* What is to be delivered now is in one of the first two windows.         *)
WindowsInv ==
    phase # "failed" =>
    \A e \in agenda : e.to = "node" =>
        /\ aged[e.id] = 0 /\ oracle.windows[3].sent[e.id] = 0
        /\ Collects /\ NextPoll = now => oracle.windows[2].sent[e.id] = 0

IInv == TypeOK /\ ParsedAsMeant /\ TimeInv /\ AsMeant /\ StatsInv /\ OracleInv /\ WindowsInv /\ NoFalseAlarm

-----------------------------------------------------------------------------
(* Numbers.                                                                *)

LEMMA SmallestIs ==
    ASSUME NEW S, S \subseteq Nat, S # {}
    PROVE  Min(S) \in S /\ \A x \in S : Min(S) <= x
<1>1. \E x \in S : \A y \in S : x <= y
  BY LeastOf
<1> QED BY <1>1 DEF Min

LEMMA LatestIs ==
    ASSUME NEW S, S \subseteq Nat, S # {}, NEW b \in Nat, \A x \in S : x <= b
    PROVE  Max(S) \in S /\ \A x \in S : x <= Max(S)
<1> DEFINE T == {b - x : x \in S}
<1>0. \A x \in S : b - x \in Nat
  OBVIOUS
<1>1. T \subseteq Nat /\ T # {}
  BY <1>0
<1>2. PICK d \in T : \A m \in T : d <= m
  BY <1>1, LeastOf
<1>3. PICK x \in S : d = b - x
  OBVIOUS
<1>4. \A y \in S : x >= y
  <2> SUFFICES ASSUME NEW y \in S PROVE x >= y
    OBVIOUS
  <2>1. b - x <= b - y
    BY <1>2, <1>3
  <2> QED BY <2>1
<1>5. \E z \in S : \A y \in S : z >= y
  BY <1>4
<1> HIDE DEF T
<1>6. Max(S) \in S /\ \A y \in S : Max(S) >= y
  BY <1>5 DEF Max
<1>7. Max(S) \in Nat
  BY <1>6
<1> QED BY <1>6, <1>7

(* Two polls are an interval apart.                                        *)
LEMMA MultiplesApart ==
    ASSUME NEW d \in Nat \ {0}, NEW p \in Nat, NEW q \in Nat, p % d = 0, q % d = 0, p < q
    PROVE  p + d <= q
<1>1. PICK i \in Nat : p = d * i
  <2>1. p = d * (p \div d) + (p % d) /\ p \div d \in Nat
    OBVIOUS
  <2> QED BY <2>1
<1>2. PICK j \in Nat : q = d * j
  <2>1. q = d * (q \div d) + (q % d) /\ q \div d \in Nat
    OBVIOUS
  <2> QED BY <2>1
<1>3. j >= i + 1
  <2>1. ASSUME j <= i PROVE FALSE
    <3>1. d * j <= d * i
      BY <2>1
    <3> QED BY <3>1, <1>1, <1>2
  <2> QED BY <2>1
<1>4. d * j >= d * (i + 1)
  BY <1>3
<1>5. d * (i + 1) = d * i + d
  OBVIOUS
<1> QED BY <1>1, <1>2, <1>4, <1>5

LEMMA NextMultiple ==
    ASSUME NEW d \in Nat \ {0}, NEW p \in Nat, p % d = 0
    PROVE  (p + d) % d = 0 /\ 0 % d = 0
<1>1. p = d * (p \div d) + (p % d) /\ p \div d \in Nat
  OBVIOUS
<1>2. p + d = d * ((p \div d) + 1)
  BY <1>1
<1>3. \A k \in Nat : (d * k) % d = 0
  OBVIOUS
<1>4. (p \div d) + 1 \in Nat /\ d * 0 = 0
  BY <1>1
<1>5. (p + d) % d = 0
  BY <1>2, <1>3, <1>4
<1>6. (d * 0) % d = 0
  BY <1>3
<1> QED BY <1>4, <1>5, <1>6

-----------------------------------------------------------------------------
(* The workload.                                                           *)

Valid(i) == i \in Index /\ events[i] # Failure

LEMMA MeantAre ==
    ASSUME config \in Configs
    PROVE  /\ Len(config.meant) \in Nat /\ DOMAIN config.meant = 1..Len(config.meant)
           /\ config.meant \in Seq(ToSet(config.meant))
           /\ \A i \in DOMAIN config.meant :
                 /\ config.meant[i].time \in Nat /\ config.meant[i].class \in Nat
                 /\ config.meant[i].node \in Node \cup {-1}
                 /\ config.meant[i] # Failure /\ config.meant[i] \in ToSet(config.meant)
           /\ \A i, j \in DOMAIN config.meant :
                 i <= j => config.meant[i].time <= config.meant[j].time
<1>1. config.meant \in Seq(ToSet(config.meant))
  BY ConfigsAssumption
<1>2. Len(config.meant) \in Nat /\ DOMAIN config.meant = 1..Len(config.meant)
  BY <1>1, LenProperties
<1>3. ASSUME NEW i \in DOMAIN config.meant
      PROVE  /\ config.meant[i].time \in Nat /\ config.meant[i].class \in Nat
             /\ config.meant[i].node \in Node \cup {-1}
             /\ config.meant[i] # Failure /\ config.meant[i] \in ToSet(config.meant)
  <2>1. /\ config.meant[i].time \in Nat /\ config.meant[i].class \in Nat
        /\ config.meant[i].node \in Node \cup {-1}
    BY ConfigsAssumption
  <2>2. config.meant[i] # Failure
    BY <2>1 DEF Failure
  <2>3. config.meant[i] \in ToSet(config.meant)
    BY DEF ToSet
  <2> QED BY <2>1, <2>2, <2>3
<1>4. \A i, j \in DOMAIN config.meant : i <= j => config.meant[i].time <= config.meant[j].time
  BY ConfigsAssumption
<1> QED BY <1>1, <1>2, <1>3, <1>4

LEMMA EventsAre ==
    ASSUME config \in Configs, ParsedAsMeant
    PROVE  /\ Len(events) \in Nat /\ Index = 1..Len(events) /\ events \in Seq(ToSet(events))
           /\ \A i \in Index : Valid(i) \/ (events[i] = Failure /\ i = Len(events))
           /\ \A i \in Index : Valid(i) => i \in DOMAIN config.meant /\ events[i] = config.meant[i]
           /\ \A i \in DOMAIN config.meant :
                 \/ Valid(i)
                 \/ Len(events) \in Index /\ events[Len(events)] = Failure /\ i >= Len(events)
<1> DEFINE mt == config.meant
           n == Len(mt)
<1> USE MeantAre
<1>1. CASE events = mt
  <2>1. Len(events) = n /\ Index = 1..n
    BY <1>1 DEF Index
  <2>2. \A i \in Index : Valid(i) /\ events[i] = mt[i]
    BY <1>1, <2>1 DEF Valid
  <2> QED BY <1>1, <2>1, <2>2
<1>2. ASSUME NEW k \in 0..n, events = Append(SubSeq(mt, 1, k), Failure)
      PROVE  /\ Len(events) = k + 1 /\ Index = 1..k + 1 /\ events \in Seq(ToSet(events))
             /\ \A i \in 1..k : events[i] = mt[i]
             /\ events[k + 1] = Failure
  <2>1. SubSeq(mt, 1, k) \in Seq(ToSet(mt)) /\ Len(SubSeq(mt, 1, k)) = k
        /\ \A i \in 1..k : SubSeq(mt, 1, k)[i] = mt[i]
    BY <1>2
  <2> DEFINE s == SubSeq(mt, 1, k)
             X == ToSet(mt) \cup {Failure}
  <2> HIDE DEF s
  <2>2. s \in Seq(X)
    BY <2>1 DEF s
  <2>3. events = Append(s, Failure)
    BY <1>2 DEF s
  <2>4. events \in Seq(X)
    BY <2>2, <2>3
  <2>5. Len(events) = k + 1 /\ Index = 1..k + 1
    BY <2>1, <2>2, <2>3 DEF Index, s
  <2>6. \A i \in 1..k : events[i] = mt[i]
    BY <2>1, <2>2, <2>3 DEF s
  <2>7. events[k + 1] = Failure
    BY <2>1, <2>2, <2>3 DEF s
  <2>8. events \in Seq(ToSet(events))
    <3>1. \A i \in 1..Len(events) : events[i] \in ToSet(events)
      BY <2>5 DEF ToSet, Index
    <3> QED BY <2>4, <3>1
  <2> QED BY <2>5, <2>6, <2>7, <2>8
<1>3. CASE \E k \in 0..n : events = Append(SubSeq(mt, 1, k), Failure)
  <2>1. PICK k \in 0..n : events = Append(SubSeq(mt, 1, k), Failure)
    BY <1>3
  <2>2. /\ Len(events) = k + 1 /\ Index = 1..k + 1 /\ events \in Seq(ToSet(events))
        /\ \A i \in 1..k : events[i] = mt[i]
        /\ events[k + 1] = Failure
    BY <2>1, <1>2
  <2>3. \A i \in 1..k : i \in DOMAIN mt /\ Valid(i)
    BY <2>2 DEF Valid
  <2>4. ~Valid(k + 1)
    BY <2>2 DEF Valid
  <2>5. \A i \in Index : i \in 1..k \/ i = k + 1
    BY <2>2
  <2>6. \A i \in DOMAIN mt : i \in 1..k \/ i >= k + 1
    OBVIOUS
  <2> QED BY <2>2, <2>3, <2>4, <2>5, <2>6
<1> QED BY <1>1, <1>3 DEF ParsedAsMeant

LEMMA ValidEvents ==
    ASSUME config \in Configs, ParsedAsMeant
    PROVE  /\ \A i \in Index : Valid(i) =>
                 events[i].time \in Nat /\ events[i].class \in Nat /\ events[i].node \in Node \cup {-1}
           /\ \A i, j \in Index : i <= j /\ Valid(i) /\ Valid(j) => events[i].time <= events[j].time
           /\ \A i, j \in Index : i < j => Valid(i)
           /\ \A i \in Index : ~Valid(i) => events[i].time = -1
<1>1. \A i \in Index : ~Valid(i) => events[i].time = -1
  BY DEF Valid, Failure
<1> QED BY <1>1, EventsAre, MeantAre

(* Numbers of the options and of the file.                                 *)
LEMMA OptionsAre ==
    ASSUME config \in Configs, times = ParseTimes(config.text), times.ok
    PROVE  /\ {times.length, times.second, config.forced, config.dci, config.startup} \subseteq Nat
<1> DEFINE text == config.text
           head == [k \in 1..Min({6, Len(text)}) |-> text[k][1]]
           line == <<"TIME_UNIT", "DOUBLE", "SEMICOLON", "SIM_LENGTH", "DOUBLE", "SEMICOLON">>
<1>1. text \in Seq(ToSet(text)) /\ Len(text) \in Nat /\ DOMAIN text = 1..Len(text)
  BY ConfigsAssumption, LenProperties
<1>a. head # line => times = [ok |-> FALSE]
  BY DEF ParseTimes
<1>b. head = line => times = [ok |-> TRUE, second |-> text[2][2], length |-> text[5][2]]
  BY DEF ParseTimes
<1>c. DOMAIN head = 1..Min({6, Len(text)}) /\ \A k \in DOMAIN head : head[k] = text[k][1]
  OBVIOUS
<1>d. DOMAIN line = 1..6 /\ line[2] = "DOUBLE" /\ line[5] = "DOUBLE"
  OBVIOUS
<1> HIDE DEF head, line
<1>2. head = line /\ times = [ok |-> TRUE, second |-> text[2][2], length |-> text[5][2]]
  BY <1>a, <1>b
<1>3. DOMAIN head = 1..6
  BY <1>2, <1>d
<1>4. Min({6, Len(text)}) \in {6, Len(text)} /\ Min({6, Len(text)}) <= Len(text)
  <2>1. {6, Len(text)} \subseteq Nat /\ {6, Len(text)} # {}
    BY <1>1
  <2> QED BY <2>1, SmallestIs
<1>5. Len(text) >= 6 /\ text[2][1] = "DOUBLE" /\ text[5][1] = "DOUBLE"
  <2>1. 2 \in DOMAIN head /\ 5 \in DOMAIN head /\ 6 \in DOMAIN head
    BY <1>3
  <2>2. head[2] = "DOUBLE" /\ head[5] = "DOUBLE"
    BY <1>2, <1>d
  <2>3. Min({6, Len(text)}) >= 6
    BY <1>c, <1>4, <1>1, <2>1
  <2> QED BY <1>1, <1>4, <1>c, <2>1, <2>2, <2>3
<1>6. text[2][2] \in Nat /\ text[5][2] \in Nat
  BY <1>1, <1>5, ConfigsAssumption
<1>7. {config.forced, config.dci, config.startup} \subseteq Nat
  BY ConfigsAssumption
<1> QED BY <1>2, <1>6, <1>7

LEMMA TimesAre ==
    ASSUME {times.length, times.second, config.forced, config.dci, config.startup} \subseteq Nat
    PROVE  /\ Timeout \in Nat /\ EndTime \in Nat /\ Startup \in Nat
           /\ Stop \in Nat /\ Stop <= times.length /\ (config.forced # 0 => Stop <= config.forced)
           /\ Stop = times.length \/ (config.forced # 0 /\ Stop = config.forced)
<1>1. Timeout \in Nat
  BY DEF Timeout
<1>2. config.forced # 0 =>
        /\ Min({config.forced, times.length}) \in {config.forced, times.length}
        /\ Min({config.forced, times.length}) <= config.forced
        /\ Min({config.forced, times.length}) <= times.length
  BY SmallestIs
<1>3. config.startup * times.second \in Nat
  OBVIOUS
<1> QED BY <1>1, <1>2, <1>3 DEF Stop, EndTime, Startup


(* The driver hands over a stretch of events of one time.                  *)
LEMMA BatchIs ==
    ASSUME config \in Configs, ParsedAsMeant, NEW t, Valid(next), t = events[next].time,
           NEW b, b = Max(Batch(t))
    PROVE  /\ b \in Index /\ next <= b /\ Batch(t) = next..b
           /\ \A i \in next..b : Valid(i) /\ events[i].time = t
           /\ NextEvent(b + 1) = IF b + 1 \in Index THEN b + 1 ELSE 0
           /\ b + 1 \in Index => events[b + 1].time # t
<1>1. /\ Len(events) \in Nat /\ Index = 1..Len(events) /\ next \in Index /\ t \in Nat
      /\ \A i \in Index : ~Valid(i) => events[i].time = -1
  BY EventsAre, ValidEvents DEF Valid
<1>2. next \in Batch(t) /\ Batch(t) \subseteq Index
  BY <1>1 DEF Batch
<1>3. b \in Batch(t) /\ \A x \in Batch(t) : x <= b
  <2>1. Batch(t) \subseteq Nat /\ Batch(t) # {} /\ \A x \in Batch(t) : x <= Len(events)
    BY <1>1, <1>2
  <2> QED BY <1>1, <2>1, LatestIs
<1>4. b \in Index /\ next <= b /\ \A j \in next + 1 .. b : events[j].time = t
  BY <1>2, <1>3 DEF Batch, InBatch
<1>5. \A i \in next..b : i \in Index /\ events[i].time = t
  <2>1. \A i \in next..b : i = next \/ i \in next + 1 .. b
    BY <1>1, <1>4
  <2> QED BY <1>1, <1>4, <2>1
<1>6. \A i \in next..b : Valid(i)
  BY <1>1, <1>5
<1>7. next..b \subseteq Batch(t)
  <2> SUFFICES ASSUME NEW i \in next..b PROVE i \in Batch(t)
    OBVIOUS
  <2>1. \A j \in next + 1 .. i : j \in next + 1 .. b
    BY <1>1, <1>4
  <2> QED BY <1>1, <1>4, <1>5, <2>1 DEF Batch, InBatch
<1>8. Batch(t) \subseteq next..b
  BY <1>1, <1>2, <1>3, <1>4 DEF Batch
<1>9. ASSUME b + 1 \in Index, events[b + 1].time = t PROVE FALSE
  <2>1. \A j \in next + 1 .. b + 1 : j = b + 1 \/ j \in next + 1 .. b
    BY <1>1, <1>4
  <2>2. b + 1 >= next /\ \A j \in next + 1 .. b + 1 : InBatch(t, j)
    BY <1>1, <1>4, <1>9, <2>1 DEF InBatch
  <2>3. b + 1 \in Batch(t)
    BY <1>9, <2>2 DEF Batch
  <2> QED BY <1>1, <1>3, <1>4, <2>3
<1> QED BY <1>4, <1>5, <1>6, <1>7, <1>8, <1>9 DEF NextEvent

(* The oracle is told of these events, one after the other.                *)
ToldAt(f, i) == IF i < next THEN oracle ELSE Tell(f[i - 1], i)

LEMMA ToldIs ==
    ASSUME NEW last \in Nat, next \in Nat, next <= last
    PROVE  \E f : /\ DOMAIN f = next - 1 .. last
                  /\ f[next - 1] = oracle
                  /\ \A i \in next .. last : f[i] = Tell(f[i - 1], i)
                  /\ Told(last) = f[last]
<1> DEFINE D == next - 1 .. last
           Upto(n) == \E f : f = [i \in D |-> f[i]]
                             /\ \A i \in D : i < next + n => f[i] = ToldAt(f, i)
           T == {n \in Nat : ~Upto(n)}
           Rec(f) == f = [i \in D |-> ToldAt(f, i)]
<1>0. D \subseteq Int
  OBVIOUS
<1>1. Upto(0)
  <2> DEFINE f == [i \in D |-> oracle]
  <2>1. f = [i \in D |-> f[i]]
    OBVIOUS
  <2>2. \A i \in D : i < next + 0 => f[i] = ToldAt(f, i)
    BY DEF ToldAt
  <2> HIDE DEF f
  <2> QED BY <2>1, <2>2
<1>2. ASSUME NEW n \in Nat, Upto(n) PROVE Upto(n + 1)
  <2>1. PICK f : f = [i \in D |-> f[i]] /\ \A i \in D : i < next + n => f[i] = ToldAt(f, i)
    BY <1>2
  <2> DEFINE g == [i \in D |-> IF i = next + n THEN Tell(f[i - 1], i) ELSE f[i]]
  <2>2. g = [i \in D |-> g[i]]
    OBVIOUS
  <2>3. ASSUME NEW i \in D, i < next + (n + 1) PROVE g[i] = ToldAt(g, i)
    <3>1. CASE i = next + n
      <4>1. i - 1 \in D /\ i - 1 # next + n
        BY <3>1
      <4>2. g[i - 1] = f[i - 1] /\ g[i] = Tell(f[i - 1], i)
        BY <3>1, <4>1
      <4> HIDE DEF g
      <4> QED BY <3>1, <4>2 DEF ToldAt
    <3>2. CASE i # next + n
      <4>1. i < next + n /\ g[i] = f[i] /\ f[i] = ToldAt(f, i)
        BY <2>1, <2>3, <3>2
      <4>2. ~(i < next) => i - 1 \in D /\ i - 1 # next + n
        BY <4>1
      <4>3. ~(i < next) => g[i - 1] = f[i - 1]
        BY <4>2
      <4> HIDE DEF g
      <4> QED BY <4>1, <4>3 DEF ToldAt
    <3> QED BY <3>1, <3>2
  <2> HIDE DEF g
  <2> QED BY <2>2, <2>3
<1>3. ASSUME T # {} PROVE FALSE
  <2> HIDE DEF Upto
  <2>1. PICK n \in T : \A k \in T : n <= k
    BY <1>3, LeastOf
  <2>2. n # 0 /\ n - 1 \in Nat
    BY <1>1, <2>1
  <2>3. Upto(n - 1)
    BY <2>1, <2>2
  <2>4. Upto((n - 1) + 1)
    BY <1>2, <2>2, <2>3
  <2> QED BY <2>1, <2>2, <2>4
<1>4. Upto(last + 1)
  <2> HIDE DEF Upto
  <2> QED BY <1>3
<1>5. \E f : Rec(f)
  <2>1. PICK f : f = [i \in D |-> f[i]] /\ \A i \in D : i < next + (last + 1) => f[i] = ToldAt(f, i)
    BY <1>4
  <2>2. \A i \in D : f[i] = ToldAt(f, i)
    BY <2>1
  <2>3. [i \in D |-> f[i]] = [i \in D |-> ToldAt(f, i)]
    BY <2>2
  <2> QED BY <2>1, <2>3
<1> DEFINE told == CHOOSE f : Rec(f)
<1>6. Told(last) = told[last]
  BY DEF Told, ToldAt
<1> HIDE DEF Rec
<1>7. Rec(told)
  BY <1>5
<1> HIDE DEF told
<1>8. told = [i \in D |-> ToldAt(told, i)]
  BY <1>7 DEF Rec
<1> DEFINE R == [i \in D |-> ToldAt(told, i)]
<1>9. DOMAIN R = D /\ \A i \in D : R[i] = ToldAt(told, i)
  OBVIOUS
<1> HIDE DEF R
<1>10. DOMAIN told = D /\ \A i \in D : told[i] = ToldAt(told, i)
  BY <1>8, <1>9 DEF R
<1>11. told[next - 1] = oracle
  BY <1>10 DEF ToldAt
<1>12. \A i \in next .. last : told[i] = Tell(told[i - 1], i)
  BY <1>10 DEF ToldAt
<1> QED BY <1>6, <1>10, <1>11, <1>12

-----------------------------------------------------------------------------
(* Types.                                                                  *)

LEMMA InitTypes == ASSUME Init, ParsedAsMeant PROVE TypeOK
<1>1. /\ config \in Configs /\ times.ok /\ {times.length, times.second} \subseteq Nat
      /\ {config.forced, config.dci, config.startup} \subseteq Nat
  BY OptionsAre DEF Init
<1>2. events \in Seq(ToSet(events)) /\ Index = 1..Len(events) /\ Len(events) \in Nat
      /\ \A i \in Index : events[i].time \in Nat \cup {-1}
  BY <1>1, EventsAre, ValidEvents DEF Init
<1>3. now \in Nat /\ next \in Index \cup {0}
  BY DEF Init, NextEvent
<1>4. agenda \subseteq [to : {"killer", "driver", "collector", "node", "interest"},
                     time : Nat \cup {-1}, id : Nat, class : Nat]
  BY <1>1, <1>2, <1>3 DEF Init, Event
<1>5. predicate \in Predicate /\ [n \in Node |-> {}] \in Predicate
  BY DEF Init, Predicate
<1>6. [w \in Windows |-> NewWindow] \in [Windows -> Window]
  BY DEF NewWindow, Window
<1>7. oracle \in Oracle
  BY <1>5, <1>6 DEF Init, Oracle
<1>8. DOMAIN served = Node /\ \A n \in Node : \A name \in DOMAIN served[n] : served[n][name] \in Nat
  BY DEF Init
<1>9. {counts, totals} \subseteq [Node -> [Statistic -> Nat]]
  BY DEF Init, Zero
<1>10. phase \in {"running", "stopped", "final", "failed"}
  BY DEF Init
<1>11. /\ handled \subseteq Index \X Nat
       /\ counted \in [Node -> SUBSET (Index \X Nat \X ({"hit", "miss", "filtered"} \X Nat))]
       /\ delivered \subseteq Index /\ aged \in [Index -> Nat]
  BY DEF Init
<1> QED BY <1>1, <1>2, <1>3, <1>4, <1>5, <1>7, <1>8, <1>9, <1>10, <1>11 DEF TypeOK

LEMMA OptionsTyped ==
    ASSUME TypeOK
    PROVE  {times.length, times.second, config.forced, config.dci, config.startup} \subseteq Nat
BY ConfigsAssumption DEF TypeOK

(* What stays as it is with the inputs.                                    *)
LEMMA SameInput ==
    ASSUME UNCHANGED input
    PROVE  /\ config' = config /\ times' = times /\ events' = events /\ Index' = Index
           /\ Filters' = Filters /\ Predicate' = Predicate /\ Window' = Window /\ Oracle' = Oracle
           /\ Timeout' = Timeout /\ Collects' = Collects /\ EndTime' = EndTime
           /\ FinalPoll' = FinalPoll /\ Startup' = Startup /\ Stop' = Stop
           /\ ParsedAsMeant' = ParsedAsMeant /\ Orderly' = Orderly
           /\ NewWindow' = NewWindow
<1>1. config' = config /\ times' = times /\ events' = events
  BY DEF input
<1>2. Index' = Index /\ Timeout' = Timeout
  BY <1>1 DEF Index, Timeout
<1>3. Filters' = Filters /\ Window' = Window /\ NewWindow' = NewWindow
  BY <1>1, <1>2 DEF Filters, Window, NewWindow
<1>4. Predicate' = Predicate
  BY <1>3 DEF Predicate
<1>5. Oracle' = Oracle
  BY <1>3, <1>4 DEF Oracle
<1>6. Collects' = Collects /\ EndTime' = EndTime /\ Startup' = Startup /\ Stop' = Stop
  BY <1>1, <1>2 DEF Collects, EndTime, Startup, Stop
<1>7. FinalPoll' = FinalPoll
  BY <1>1, <1>6 DEF FinalPoll
<1>8. ParsedAsMeant' = ParsedAsMeant
  BY <1>1 DEF ParsedAsMeant
<1>9. Orderly' = Orderly
  BY <1>1, <1>2 DEF Orderly
<1> QED BY <1>1, <1>2, <1>3, <1>4, <1>5, <1>6, <1>7, <1>8, <1>9

LEMMA ExecuteTypes ==
    ASSUME TypeOK, NEW e \in agenda, NEW S, Execute(e, S),
           S \subseteq [to : {"killer", "driver", "collector", "node", "interest"},
                        time : Nat \cup {-1}, id : Nat, class : Nat],
           e.time >= 0
    PROVE  /\ now' \in Nat /\ now' = e.time
           /\ agenda' \subseteq [to : {"killer", "driver", "collector", "node", "interest"},
                              time : Nat \cup {-1}, id : Nat, class : Nat]
<1>1. e.time \in Nat
  BY DEF TypeOK
<1> QED BY <1>1 DEF Execute, TypeOK

(* What the oracle does keeps its form.                                    *)
LEMMA TellTypes ==
    ASSUME NEW o \in Oracle, NEW i \in Index, events[i].node \in Node
    PROVE  Tell(o, i) \in Oracle
<1> DEFINE w == events[i]
<1>1. w.arg \in SUBSET Filters
  BY DEF Filters
<1>2. SetOracle(o, w.node, w.arg) \in Oracle
  <2>1. [o.predicate_map EXCEPT ![w.node] = w.arg] \in Predicate
    BY <1>1 DEF Oracle, Predicate
  <2> QED BY <2>1 DEF Oracle, SetOracle
<1>3. Sent(o, i, w.arg) \in Oracle
  <2> DEFINE t == FwdTable(o)
             N == {n \in Node : Matches(t[n], w.arg)}
  <2>1. t \in Predicate
    BY DEF FwdTable, Oracle
  <2>2. Cardinality(N) \in Nat
    BY NodeAssumption, FS_Subset, FS_CardinalityType
  <2> HIDE DEF N, t
  <2>3. [o.windows EXCEPT ![1].sent[i] = Cardinality(N)] \in [Windows -> Window]
    BY <2>2 DEF Oracle, Window, Windows
  <2>4. Sent(o, i, w.arg) = [o EXCEPT !.fwd_table = t, !.dirty = FALSE,
                                      !.windows = [o.windows EXCEPT ![1].sent[i] = Cardinality(N)]]
    BY DEF Sent, N, t
  <2> QED BY <2>1, <2>3, <2>4 DEF Oracle
<1> QED BY <1>2, <1>3 DEF Tell

LEMMA DriverEvent ==
    ASSUME TypeOK, ParsedAsMeant, TimeInv, phase = "running", NEW e \in agenda, e.to = "driver"
    PROVE  /\ Valid(next) /\ next \in Index /\ next # 0 /\ next \in Nat
           /\ e = Event("driver", events[next].time, 0) /\ e.time = events[next].time
           /\ e.time \in Nat /\ e.time >= now
<1>1. /\ next # 0 /\ e = Event("driver", events[next].time, 0) /\ e.time >= now
      /\ events[next] # Failure
  BY DEF TimeInv, Scheduled
<1>2. next \in Index /\ Index \subseteq Nat
  BY <1>1, EventsAre DEF TypeOK
<1>3. Valid(next)
  BY <1>1, <1>2 DEF Valid
<1>4. e.time = events[next].time
  BY <1>1 DEF Event
<1> QED BY <1>1, <1>2, <1>3, <1>4, ValidEvents DEF TypeOK

(* The same facts of the batch that a driver event hands over.             *)
LEMMA DriveBatch ==
    ASSUME TypeOK, ParsedAsMeant, TimeInv, NEW e \in agenda, Drive(e),
           NEW b, b = Max(Batch(e.time))
    PROVE  /\ b \in Index /\ next <= b /\ b \in Nat /\ Batch(e.time) = next..b /\ phase = "running"
           /\ \A i \in next..b : Valid(i) /\ i \in Index /\ events[i].time = e.time /\ events[i].node \in Node
           /\ next' = (IF b + 1 \in Index THEN b + 1 ELSE 0)
           /\ b + 1 \in Index => events[b + 1].time # e.time
           /\ oracle' = Told(b)
           /\ phase' = IF Fails(next') THEN "failed" ELSE "running"
           /\ now' = e.time
           /\ agenda' = (agenda \ {e}) \cup {NodeEvent(i) : i \in next..b}
                \cup (IF next' = 0 THEN {} ELSE {Event("driver", events[next'].time, 0)})
<1>1. phase = "running" /\ e.to = "driver"
  BY DEF Drive, Execute
<1>2. Valid(next) /\ next \in Index /\ e.time = events[next].time /\ e.time \in Nat
  BY <1>1, DriverEvent
<1>3. config \in Configs
  BY DEF TypeOK
<1>4. /\ b \in Index /\ next <= b /\ Batch(e.time) = next..b
      /\ \A i \in next..b : Valid(i) /\ events[i].time = e.time
      /\ NextEvent(b + 1) = IF b + 1 \in Index THEN b + 1 ELSE 0
      /\ b + 1 \in Index => events[b + 1].time # e.time
  BY <1>2, <1>3, BatchIs
<1>5. /\ next' = NextEvent(b + 1) /\ oracle' = Told(b)
      /\ \A i \in next..b : events[i].node \in Node
      /\ phase' = IF Fails(next') THEN "failed" ELSE phase
      /\ Execute(e, {Event("node", e.time, i) : i \in next..b}
            \cup (IF next' = 0 THEN {} ELSE {Event("driver", e.time + (events[next'].time - e.time), 0)}))
  BY <1>4 DEF Drive
<1>6. {Event("node", e.time, i) : i \in next..b} = {NodeEvent(i) : i \in next..b}
  BY <1>4 DEF NodeEvent
<1>7. next' # 0 => events[next'].time \in Int /\ e.time + (events[next'].time - e.time) = events[next'].time
  <2>1. next' # 0 => next' \in Index
    BY <1>4, <1>5
  <2>2. \A i \in Index : events[i].time \in Int
    BY <1>3, ValidEvents
  <2> QED BY <1>2, <2>1, <2>2
<1>8. now' = e.time
      /\ agenda' = (agenda \ {e}) \cup ({NodeEvent(i) : i \in next..b}
            \cup (IF next' = 0 THEN {} ELSE {Event("driver", e.time + (events[next'].time - e.time), 0)}))
  BY <1>5, <1>6 DEF Execute
<1>9. agenda' = (agenda \ {e}) \cup {NodeEvent(i) : i \in next..b}
            \cup (IF next' = 0 THEN {} ELSE {Event("driver", events[next'].time, 0)})
  BY <1>7, <1>8
<1>10. \A i \in next..b : i \in Index
  BY <1>4 DEF Valid
<1>11. b \in Nat
  BY <1>3, <1>4, EventsAre
<1> QED BY <1>1, <1>4, <1>5, <1>8, <1>9, <1>10, <1>11

LEMMA ToldTypes ==
    ASSUME oracle \in Oracle, NEW b \in Nat, next \in Nat, next <= b,
           NEW f, f[next - 1] = oracle, \A i \in next .. b : f[i] = Tell(f[i - 1], i),
           \A i \in next .. b : i \in Index /\ events[i].node \in Node
    PROVE  \A i \in next - 1 .. b : f[i] \in Oracle
<1> DEFINE T == {n \in Nat : next - 1 + n <= b /\ f[next - 1 + n] \notin Oracle}
<1>1. ASSUME T # {} PROVE FALSE
  <2>1. PICK n \in T : \A m \in T : n <= m
    BY <1>1, LeastOf
  <2>2. n # 0
    BY <2>1
  <2>3. n - 1 \in Nat /\ n - 1 \notin T
    BY <2>1, <2>2
  <2>4. f[(next - 1 + n) - 1] \in Oracle
    BY <2>1, <2>3
  <2>5. next - 1 + n \in next .. b
    BY <2>1, <2>2
  <2>6. f[next - 1 + n] = Tell(f[(next - 1 + n) - 1], next - 1 + n)
    BY <2>5
  <2> QED BY <2>1, <2>4, <2>5, <2>6, TellTypes
<1>2. ASSUME NEW i \in next - 1 .. b, f[i] \notin Oracle PROVE FALSE
  <2>1. i - (next - 1) \in Nat /\ next - 1 + (i - (next - 1)) = i
    OBVIOUS
  <2>2. i - (next - 1) \in T
    BY <2>1, <1>2
  <2> QED BY <2>2, <1>1
<1> QED BY <1>2

LEMMA DriveTypesOK ==
    ASSUME TypeOK, ParsedAsMeant, TimeInv, NEW e \in agenda, Drive(e)
    PROVE  TypeOK'
<1> DEFINE b == Max(Batch(e.time))
<1>1. UNCHANGED <<input, predicate, served, counts, totals, handled, counted, delivered, aged>>
  BY DEF Drive
<1>2. /\ b \in Nat /\ next <= b /\ b \in Index
      /\ \A i \in next..b : Valid(i) /\ i \in Index /\ events[i].time = e.time /\ events[i].node \in Node
      /\ next' = (IF b + 1 \in Index THEN b + 1 ELSE 0)
      /\ oracle' = Told(b)
      /\ phase' = IF Fails(next') THEN "failed" ELSE "running"
      /\ now' = e.time
      /\ agenda' = (agenda \ {e}) \cup {NodeEvent(i) : i \in next..b}
           \cup (IF next' = 0 THEN {} ELSE {Event("driver", events[next'].time, 0)})
  BY DriveBatch
<1>3. e.time \in Nat /\ next \in Nat
  <2>1. phase = "running" /\ e.to = "driver"
    BY DEF Drive, Execute
  <2> QED BY <2>1, DriverEvent
<1> HIDE DEF b
<1>4. oracle' \in Oracle
  <2>1. PICK f : f[next - 1] = oracle /\ (\A i \in next .. b : f[i] = Tell(f[i - 1], i)) /\ Told(b) = f[b]
    BY <1>2, <1>3, ToldIs
  <2>2. \A i \in next - 1 .. b : f[i] \in Oracle
    BY <1>2, <1>3, <2>1, ToldTypes DEF TypeOK
  <2> QED BY <1>2, <1>3, <2>1, <2>2
<1>5. \A i \in Index : events[i].time \in Nat \cup {-1}
  BY ValidEvents DEF TypeOK
<1>6. next' \in Index \cup {0}
  BY <1>2
<1>7. agenda' \subseteq [to : {"killer", "driver", "collector", "node", "interest"},
                     time : Nat \cup {-1}, id : Nat, class : Nat]
  <2>1. Index \subseteq Nat
    BY EventsAre DEF TypeOK
  <2>2. {NodeEvent(i) : i \in next..b} \subseteq
          [to : {"killer", "driver", "collector", "node", "interest"},
           time : Nat \cup {-1}, id : Nat, class : Nat]
    BY <1>2, <1>3, <2>1 DEF NodeEvent, Event
  <2>3. next' # 0 => Event("driver", events[next'].time, 0) \in
          [to : {"killer", "driver", "collector", "node", "interest"},
           time : Nat \cup {-1}, id : Nat, class : Nat]
    BY <1>5, <1>6 DEF Event
  <2> QED BY <1>2, <2>2, <2>3 DEF TypeOK
<1>8. phase' \in {"running", "stopped", "final", "failed"}
  BY <1>2
<1> QED BY <1>1, <1>2, <1>3, <1>4, <1>6, <1>7, <1>8, SameInput DEF TypeOK

LEMMA HandledEvent ==
    ASSUME TypeOK, TimeInv, NEW e \in agenda, Handle(e)
    PROVE  /\ phase = "running" /\ e.id \in Index /\ e = NodeEvent(e.id) /\ e.to = "node"
           /\ e.time = now /\ e.time = events[e.id].time /\ e.time \in Nat /\ Read(e.id)
           /\ ~Handled(e.id) /\ events[e.id].node \in Node /\ now' = now
           /\ UNCHANGED <<input, next, counts, totals, phase, counted, aged>>
           /\ handled' = handled \cup {<<e.id, e.time>>}
           /\ \/ agenda' = agenda \ {e}
              \/ \E n \in Node, d \in Delays :
                    /\ Name(events[e.id].arg) \in DOMAIN served[n]
                    /\ agenda' = (agenda \ {e})
                         \cup {Interest(e.time + d, e.id, served[n][Name(events[e.id].arg)])}
           /\ \/ UNCHANGED predicate
              \/ /\ events[e.id].kind = "set_predicate"
                 /\ predicate' = [predicate EXCEPT ![events[e.id].node] = @ \cup events[e.id].arg]
           /\ \/ UNCHANGED served
              \/ served' = [served EXCEPT ![events[e.id].node] = RecordContent(@, events[e.id])]
           /\ \/ UNCHANGED <<oracle, delivered>>
              \/ /\ events[e.id].kind = "send_message"
                 /\ Matches(predicate[events[e.id].node], events[e.id].arg)
                 /\ oracle' = TrueDelivery(oracle, e.id)
                 /\ delivered' = IF Holding(oracle, e.id) # {} THEN delivered \cup {e.id} ELSE delivered
<1> DEFINE w == events[e.id]
<1>1. phase = "running" /\ e.to = "node" /\ now' = e.time
  BY DEF Handle, Execute
<1>2. /\ e.id \in Index /\ e = NodeEvent(e.id) /\ e.time = now /\ Read(e.id) /\ ~Handled(e.id)
      /\ w.node \in Node
  BY <1>1 DEF TimeInv, Scheduled
<1>3. e.time = w.time
  BY <1>2 DEF NodeEvent, Event
<1>4. e.time \in Nat
  BY <1>2 DEF TypeOK
<1>5. /\ UNCHANGED <<input, next, counts, totals, phase, counted, aged>>
      /\ handled' = handled \cup {<<e.id, e.time>>}
  BY DEF Handle
<1>6. /\ \/ agenda' = agenda \ {e}
         \/ \E n \in Node, d \in Delays :
              /\ Name(w.arg) \in DOMAIN served[n]
              /\ agenda' = (agenda \ {e}) \cup {Interest(e.time + d, e.id, served[n][Name(w.arg)])}
      /\ \/ UNCHANGED predicate
         \/ w.kind = "set_predicate" /\ predicate' = [predicate EXCEPT ![w.node] = @ \cup w.arg]
      /\ \/ UNCHANGED served
         \/ served' = [served EXCEPT ![w.node] = RecordContent(@, w)]
      /\ \/ UNCHANGED <<oracle, delivered>>
         \/ /\ w.kind = "send_message" /\ Matches(predicate[w.node], w.arg)
            /\ oracle' = TrueDelivery(oracle, e.id)
            /\ delivered' = IF Holding(oracle, e.id) # {} THEN delivered \cup {e.id} ELSE delivered
  <2>1. CASE w.kind = "set_predicate" /\ Execute(e, {}) /\ UNCHANGED <<oracle, delivered, served>>
             /\ predicate' = IF w.node \notin config.drained /\ ~Covers(predicate[w.node], w.arg)
                             THEN [predicate EXCEPT ![w.node] = @ \cup w.arg] ELSE predicate
    BY <2>1 DEF Execute
  <2>2. CASE /\ w.kind = "send_message" /\ Execute(e, {}) /\ UNCHANGED <<predicate, served>>
             /\ LET matches == w.node \notin config.drained /\ Matches(predicate[w.node], w.arg)
                IN  /\ oracle' = IF matches THEN TrueDelivery(oracle, e.id) ELSE oracle
                    /\ delivered' = IF matches /\ Holding(oracle, e.id) # {}
                                    THEN delivered \cup {e.id} ELSE delivered
    BY <2>2 DEF Execute
  <2>3. CASE Execute(e, {}) /\ UNCHANGED <<predicate, oracle, delivered>>
             /\ served' = [served EXCEPT ![w.node] = RecordContent(@, w)]
    BY <2>3 DEF Execute
  <2>4. CASE /\ UNCHANGED <<predicate, served, oracle, delivered>>
             /\ \/ Execute(e, {})
                \/ \E n \in {n \in Node : Name(w.arg) \in DOMAIN served[n]}, d \in Delays :
                      Execute(e, {Interest(e.time + d, e.id, served[n][Name(w.arg)])})
    BY <2>4 DEF Execute
  <2> QED BY <2>1, <2>2, <2>3, <2>4 DEF Handle
<1> QED BY <1>1, <1>2, <1>3, <1>4, <1>5, <1>6

LEMMA HoldingIs ==
    ASSUME oracle \in Oracle, NEW i \in Index
    PROVE  /\ Holding(oracle, i) \subseteq Windows
           /\ Holding(oracle, i) # {} => Min(Holding(oracle, i)) \in Windows
                                         /\ oracle.windows[Min(Holding(oracle, i))].sent[i] > 0
<1>1. Holding(oracle, i) \subseteq Windows /\ Windows \subseteq Nat
  BY DEF Holding, Windows
<1>2. Holding(oracle, i) # {} => Min(Holding(oracle, i)) \in Holding(oracle, i)
  BY <1>1, SmallestIs
<1> QED BY <1>1, <1>2 DEF Holding

LEMMA DeliveryTypes ==
    ASSUME oracle \in Oracle, NEW i \in Index
    PROVE  TrueDelivery(oracle, i) \in Oracle
<1> DEFINE ws == Holding(oracle, i)
           k == Min(ws)
           c == [oracle EXCEPT !.windows[1].delivered = @ + 1]
<1>1. ws # {} => k \in Windows /\ oracle.windows[k].sent[i] > 0
  BY HoldingIs
<1>2. c \in Oracle /\ 1 \in Windows
  BY DEF Oracle, Window, Windows
<1>3. \A w \in Windows : c.windows[w].sent = oracle.windows[w].sent
  BY <1>2 DEF Oracle, Window
<1>4. TrueDelivery(oracle, i) = IF ws = {} THEN [c EXCEPT !.windows[1].false = @ + 1]
                                ELSE [c EXCEPT !.windows[k].sent[i] = @ - 1]
  BY DEF TrueDelivery
<1> HIDE DEF c, ws, k
<1>5. [c EXCEPT !.windows[1].false = @ + 1] \in Oracle
  <2>1. c.windows[1].false + 1 \in Nat
    BY <1>2 DEF Oracle, Window
  <2>2. [c.windows EXCEPT ![1].false = @ + 1] \in [Windows -> Window]
    BY <1>2, <2>1 DEF Oracle, Window
  <2> QED BY <1>2, <2>2 DEF Oracle
<1>6. ASSUME ws # {} PROVE [c EXCEPT !.windows[k].sent[i] = @ - 1] \in Oracle
  <2>1. k \in Windows /\ c.windows[k].sent[i] > 0
    BY <1>1, <1>3, <1>6
  <2>2. c.windows[k].sent[i] - 1 \in Nat
    BY <1>2, <2>1 DEF Oracle, Window
  <2>3. [c.windows EXCEPT ![k].sent[i] = @ - 1] \in [Windows -> Window]
    BY <1>2, <2>1, <2>2 DEF Oracle, Window
  <2> QED BY <1>2, <2>3 DEF Oracle
<1> QED BY <1>4, <1>5, <1>6

LEMMA HandleTypesOK ==
    ASSUME TypeOK, ParsedAsMeant, TimeInv, NEW e \in agenda, Handle(e)
    PROVE  TypeOK'
<1> DEFINE w == events[e.id]
           E == [to : {"killer", "driver", "collector", "node", "interest"},
                 time : Nat \cup {-1}, id : Nat, class : Nat]
<1>1. /\ e.id \in Index /\ e.time \in Nat /\ w.node \in Node /\ now' = now /\ now' \in Nat
      /\ UNCHANGED <<input, next, counts, totals, phase, counted, aged>>
      /\ phase = "running" /\ Read(e.id) /\ handled' = handled \cup {<<e.id, e.time>>}
  BY HandledEvent DEF TypeOK
<1>2. e.id \in Nat /\ w.class \in Nat
  <2>1. Valid(e.id)
    BY <1>1 DEF TimeInv, Driven, Valid
  <2> QED BY <1>1, <2>1, EventsAre, ValidEvents DEF TypeOK
<1>3. agenda' \subseteq E
  <2>1. CASE agenda' = agenda \ {e}
    BY <2>1 DEF TypeOK
  <2>2. CASE \E n \in Node, d \in Delays :
               /\ Name(w.arg) \in DOMAIN served[n]
               /\ agenda' = (agenda \ {e}) \cup {Interest(e.time + d, e.id, served[n][Name(w.arg)])}
    <3>1. PICK n \in Node, d \in Delays :
               /\ Name(w.arg) \in DOMAIN served[n]
               /\ agenda' = (agenda \ {e}) \cup {Interest(e.time + d, e.id, served[n][Name(w.arg)])}
      BY <2>2
    <3>2. served[n][Name(w.arg)] \in Nat
      BY <3>1 DEF TypeOK
    <3>3. e.time + d \in Nat
      BY <1>1, DelaysAssumption
    <3>4. Interest(e.time + d, e.id, served[n][Name(w.arg)]) \in E
      BY <3>2, <3>3, <1>2 DEF Interest
    <3> HIDE DEF E
    <3> QED BY <3>1, <3>4 DEF TypeOK, E
  <2>3. \/ agenda' = agenda \ {e}
        \/ \E n \in Node, d \in Delays :
              /\ Name(w.arg) \in DOMAIN served[n]
              /\ agenda' = (agenda \ {e})
                   \cup {Interest(e.time + d, e.id, served[n][Name(w.arg)])}
    BY HandledEvent, Zenon
  <2> HIDE DEF E
  <2> QED BY <2>1, <2>2, <2>3
<1>4. predicate' \in Predicate
  <2>1. w.arg \in SUBSET Filters
    BY <1>1 DEF Filters
  <2>2. UNCHANGED predicate \/ predicate' = [predicate EXCEPT ![w.node] = @ \cup w.arg]
    BY HandledEvent
  <2>3. predicate \in [Node -> SUBSET Filters]
    BY DEF TypeOK, Predicate
  <2>4. w.node \in Node /\ predicate[w.node] \cup w.arg \in SUBSET Filters
    BY <1>1, <2>1, <2>3
  <2>5. [predicate EXCEPT ![w.node] = @ \cup w.arg] \in [Node -> SUBSET Filters]
    <3> HIDE DEF w
    <3> QED BY <2>3, <2>4
  <2> QED BY <2>2, <2>3, <2>5 DEF Predicate
<1>5. DOMAIN served' = Node
      /\ \A n \in Node : \A name \in DOMAIN served'[n] : served'[n][name] \in Nat
  <2>1. CASE UNCHANGED served
    BY <2>1 DEF TypeOK
  <2>2. CASE served' = [served EXCEPT ![w.node] = RecordContent(@, w)]
    <3>1. \A name \in DOMAIN RecordContent(served[w.node], w) :
             RecordContent(served[w.node], w)[name] \in Nat
      BY <1>1, <1>2 DEF RecordContent, TypeOK
    <3>2. DOMAIN served' = Node
          /\ \A n \in Node : served'[n] = IF n = w.node THEN RecordContent(served[w.node], w) ELSE served[n]
      BY <2>2 DEF TypeOK
    <3> QED BY <3>1, <3>2 DEF TypeOK
  <2>3. UNCHANGED served \/ served' = [served EXCEPT ![w.node] = RecordContent(@, w)]
    BY HandledEvent, Zenon
  <2> QED BY <2>1, <2>2, <2>3
<1>6. oracle' \in Oracle /\ delivered' \subseteq Index
  <2>1. TrueDelivery(oracle, e.id) \in Oracle
    BY <1>1, DeliveryTypes DEF TypeOK
  <2>2. \/ UNCHANGED <<oracle, delivered>>
        \/ /\ oracle' = TrueDelivery(oracle, e.id)
           /\ delivered' = delivered \cup {e.id} \/ delivered' = delivered
    BY HandledEvent
  <2> QED BY <1>1, <2>1, <2>2 DEF TypeOK
<1>7. handled' \subseteq Index \X Nat
  BY <1>1 DEF TypeOK
<1> QED BY <1>1, <1>3, <1>4, <1>5, <1>6, <1>7, SameInput DEF TypeOK

(* What a poll or a search changes.                                        *)
LEMMA PollEvent ==
    ASSUME TypeOK, ParsedAsMeant, TimeInv, NEW e \in agenda, Poll(e)
    PROVE  /\ phase = "running" /\ e.to = "collector" /\ e.time \in Nat /\ e.time >= now
           /\ now' = e.time /\ agenda' = (agenda \ {e}) \cup {Event("collector", e.time + Timeout, 0)}
           /\ totals' = Polled(e.time) /\ counts' = Zero /\ oracle' = UpdateWindows(oracle)
           /\ aged' = [i \in Index |-> aged[i] + oracle.windows[3].sent[i]]
           /\ UNCHANGED <<input, next, predicate, served, phase, handled, counted, delivered>>
<1>1. phase = "running" /\ e.to = "collector" /\ now' = e.time
      /\ agenda' = (agenda \ {e}) \cup {Event("collector", e.time + Timeout, 0)}
  BY DEF Poll, Execute
<1>2. e.time >= now
  BY <1>1 DEF TimeInv, Scheduled
<1>3. e.time \in Nat
  BY <1>2 DEF TypeOK
<1> QED BY <1>1, <1>2, <1>3 DEF Poll, Reset

LEMMA UpdateTypes ==
    ASSUME oracle \in Oracle
    PROVE  /\ UpdateWindows(oracle) \in Oracle
           /\ UpdateWindows(oracle).predicate_map = oracle.predicate_map
           /\ UpdateWindows(oracle).fwd_table = oracle.fwd_table
           /\ UpdateWindows(oracle).dirty = oracle.dirty
           /\ UpdateWindows(oracle).windows[1] = NewWindow
           /\ UpdateWindows(oracle).windows[2] = oracle.windows[1]
           /\ UpdateWindows(oracle).windows[3] = oracle.windows[2]
<1>1. NewWindow \in Window
  BY DEF NewWindow, Window
<1> DEFINE W == [w \in Windows |-> IF w = 1 THEN NewWindow ELSE oracle.windows[w - 1]]
<1>2. W \in [Windows -> Window]
  <2>1. \A w \in Windows : w # 1 => w - 1 \in Windows
    BY DEF Windows
  <2> QED BY <1>1, <2>1 DEF Oracle
<1>3. W[1] = NewWindow /\ W[2] = oracle.windows[1] /\ W[3] = oracle.windows[2]
  BY DEF Windows
<1>4. UpdateWindows(oracle) = [oracle EXCEPT !.windows = W]
  BY DEF UpdateWindows
<1> HIDE DEF W
<1> QED BY <1>2, <1>3, <1>4 DEF Oracle

LEMMA PolledTypes ==
    ASSUME {counts, totals} \subseteq [Node -> [Statistic -> Nat]], NEW t
    PROVE  /\ {Polled(t), Zero} \subseteq [Node -> [Statistic -> Nat]]
           /\ \A n \in Node, s \in Statistic :
                 /\ Zero[n][s] = 0
                 /\ Polled(t)[n][s] = IF t <= Startup THEN totals[n][s] ELSE totals[n][s] + counts[n][s]
<1>1. \A n \in Node, s \in Statistic : totals[n][s] + counts[n][s] \in Nat
  OBVIOUS
<1>2. [n \in Node |-> [s \in Statistic |-> totals[n][s] + counts[n][s]]]
        \in [Node -> [Statistic -> Nat]]
  BY <1>1
<1>3. Polled(t) = IF t <= Startup THEN totals
                  ELSE [n \in Node |-> [s \in Statistic |-> totals[n][s] + counts[n][s]]]
  BY DEF Polled, Startup
<1> QED BY <1>2, <1>3 DEF Zero

LEMMA PollTypesOK ==
    ASSUME TypeOK, ParsedAsMeant, TimeInv, NEW e \in agenda, Poll(e)
    PROVE  TypeOK'
<1> DEFINE E == [to : {"killer", "driver", "collector", "node", "interest"},
                 time : Nat \cup {-1}, id : Nat, class : Nat]
<1>1. Timeout \in Nat
  BY OptionsTyped, TimesAre
<1>2. agenda' \subseteq E
  <2>1. Event("collector", e.time + Timeout, 0) \in E
    BY <1>1, PollEvent DEF Event
  <2>2. agenda \subseteq E
    BY DEF TypeOK
  <2> HIDE DEF E
  <2> QED BY <2>1, <2>2, PollEvent
<1>3. {counts', totals'} \subseteq [Node -> [Statistic -> Nat]]
  BY PolledTypes, PollEvent DEF TypeOK
<1>4. aged' \in [Index -> Nat]
  <2>a. aged \in [Index -> Nat] /\ oracle \in Oracle
    BY DEF TypeOK
  <2>b. oracle.windows[3] \in Window
    BY <2>a DEF Oracle, Windows
  <2>c. oracle.windows[3].sent \in [Index -> Nat]
    BY <2>b DEF Window
  <2>1. \A i \in Index : aged[i] + oracle.windows[3].sent[i] \in Nat
    BY <2>a, <2>c
  <2> QED BY <2>1, PollEvent
<1>5. oracle' \in Oracle
  BY UpdateTypes, PollEvent DEF TypeOK
<1>6. /\ now' \in Nat
      /\ UNCHANGED <<input, next, predicate, served, phase, handled, counted, delivered>>
  BY PollEvent
<1> QED BY <1>2, <1>3, <1>4, <1>5, <1>6, SameInput DEF TypeOK

LEMMA SearchEvent ==
    ASSUME TypeOK, ParsedAsMeant, TimeInv, NEW e \in agenda, SearchInCache(e)
    PROVE  /\ phase = "running" /\ e.to = "interest" /\ e.time \in Nat /\ e.time >= now
           /\ e.id \in Index /\ now' = e.time /\ agenda' = agenda \ {e}
           /\ UNCHANGED <<input, next, predicate, served, oracle, totals, phase, handled,
                          delivered, aged>>
           /\ \E n \in Node, outcome \in Outcomes :
                 /\ counts' = [counts EXCEPT ![n] = [s \in Statistic |->
                       IF s \in outcome \X {e.class} /\ Counts(e.time, s) THEN @[s] + 1 ELSE @[s]]]
                 /\ counted' = [counted EXCEPT ![n] =
                       @ \cup {<<e.id, e.time, s>> : s \in outcome \X {e.class}}]
<1>1. phase = "running" /\ e.to = "interest" /\ now' = e.time /\ agenda' = agenda \ {e}
  BY DEF SearchInCache, Execute
<1>2. e.time >= now /\ e.id \in Index
  BY <1>1 DEF TimeInv, Scheduled
<1>3. e.time \in Nat
  BY <1>2 DEF TypeOK
<1> QED BY <1>1, <1>2, <1>3 DEF SearchInCache

LEMMA SearchTypesOK ==
    ASSUME TypeOK, ParsedAsMeant, TimeInv, NEW e \in agenda, SearchInCache(e)
    PROVE  TypeOK'
<1>1. PICK n \in Node, outcome \in Outcomes :
         /\ counts' = [counts EXCEPT ![n] = [s \in Statistic |->
               IF s \in outcome \X {e.class} /\ Counts(e.time, s) THEN @[s] + 1 ELSE @[s]]]
         /\ counted' = [counted EXCEPT ![n] =
               @ \cup {<<e.id, e.time, s>> : s \in outcome \X {e.class}}]
  BY SearchEvent
<1>2. outcome \subseteq {"hit", "miss", "filtered"} /\ e.class \in Nat
  BY DEF Outcomes, TypeOK
<1>3. counts' \in [Node -> [Statistic -> Nat]]
  <2> DEFINE c == [s \in Statistic |-> IF s \in outcome \X {e.class} /\ Counts(e.time, s)
                                       THEN counts[n][s] + 1 ELSE counts[n][s]]
  <2>1. counts \in [Node -> [Statistic -> Nat]]
    BY DEF TypeOK
  <2>2. c \in [Statistic -> Nat]
    BY <2>1
  <2>3. counts' = [counts EXCEPT ![n] = c]
    BY <1>1
  <2> HIDE DEF c
  <2> QED BY <2>1, <2>2, <2>3
<1>4. {<<e.id, e.time, s>> : s \in outcome \X {e.class}}
        \subseteq Index \X Nat \X ({"hit", "miss", "filtered"} \X Nat)
  <2>1. e.id \in Index /\ e.time \in Nat
    BY SearchEvent
  <2>2. \A s \in outcome \X {e.class} : s \in {"hit", "miss", "filtered"} \X Nat
    BY <1>2
  <2> QED BY <2>1, <2>2
<1>5. counted' \in [Node -> SUBSET (Index \X Nat \X ({"hit", "miss", "filtered"} \X Nat))]
  BY <1>1, <1>4 DEF TypeOK
<1>6. /\ now' \in Nat /\ agenda' \subseteq agenda
      /\ UNCHANGED <<input, next, predicate, served, oracle, totals, phase, handled, delivered, aged>>
  BY SearchEvent
<1> QED BY <1>3, <1>5, <1>6, SameInput DEF TypeOK

LEMMA FinishTypesOK ==
    ASSUME TypeOK, Finish
    PROVE  TypeOK'
<1>1. {counts', totals'} \subseteq [Node -> [Statistic -> Nat]]
  <2>1. {counts, totals} \subseteq [Node -> [Statistic -> Nat]]
    BY DEF TypeOK
  <2>2. {Polled(EndTime), Zero} \subseteq [Node -> [Statistic -> Nat]]
    BY <2>1, PolledTypes
  <2> QED BY <2>1, <2>2 DEF Finish, Reset
<1>2. /\ phase' = "final"
      /\ UNCHANGED <<input, now, agenda, next, predicate, served, oracle, handled,
                     counted, delivered, aged>>
  BY DEF Finish
<1> QED BY <1>1, <1>2, SameInput DEF TypeOK

(* A step that takes an event off the agenda, or none, and otherwise stops *)
(* or fails.                                                               *)
LEMMA EndEvent ==
    ASSUME TypeOK, ParsedAsMeant, TimeInv,
           \/ \E e \in agenda : DriveNobody(e) \/ Kill(e)
           \/ StopTime
    PROVE  /\ phase = "running" /\ now' \in Nat /\ agenda' \subseteq agenda
           /\ phase' \in {"stopped", "failed"}
           /\ UNCHANGED <<input, next, predicate, served, oracle, counts, totals, handled,
                          counted, delivered, aged>>
<1>1. CASE \E e \in agenda : DriveNobody(e) \/ Kill(e)
  <2>1. PICK e \in agenda : DriveNobody(e) \/ Kill(e)
    BY <1>1
  <2>2. Execute(e, {}) /\ phase' \in {"stopped", "failed"}
        /\ UNCHANGED <<input, next, predicate, served, oracle, counts, totals, handled,
                       counted, delivered, aged>>
    BY <2>1 DEF DriveNobody, Kill
  <2>3. phase = "running" /\ now' = e.time /\ agenda' = agenda \ {e}
    BY <2>2 DEF Execute
  <2>4. e.time >= now
    BY <2>3 DEF TimeInv, Scheduled
  <2>5. e.time \in Nat
    BY <2>4 DEF TypeOK
  <2> QED BY <2>2, <2>3, <2>5
<1>2. CASE StopTime
  BY <1>2 DEF StopTime, TypeOK
<1> QED BY <1>1, <1>2

LEMMA EndTypesOK ==
    ASSUME TypeOK, ParsedAsMeant, TimeInv,
           \/ \E e \in agenda : DriveNobody(e) \/ Kill(e)
           \/ StopTime
    PROVE  TypeOK'
<1>1. /\ now' \in Nat /\ agenda' \subseteq agenda /\ phase' \in {"stopped", "failed"}
      /\ UNCHANGED <<input, next, predicate, served, oracle, counts, totals, handled,
                     counted, delivered, aged>>
  BY EndEvent
<1> QED BY <1>1, SameInput DEF TypeOK

-----------------------------------------------------------------------------
(* The schedule.                                                           *)

LEMMA SameEvents ==
    ASSUME UNCHANGED input
    PROVE  \A i : /\ NodeEvent(i)' = NodeEvent(i) /\ Valid(i)' = Valid(i) /\ events[i]' = events[i]
                  /\ NodeEvent(i).to = "node" /\ NodeEvent(i).id = i /\ NodeEvent(i).time = events[i].time
BY DEF input, NodeEvent, Event, Valid, Index

LEMMA ExecuteInTime ==
    ASSUME TypeOK, ParsedAsMeant, TimeInv, phase = "running", NEW e \in agenda, NEW S, Execute(e, S)
    PROVE  /\ now' = e.time /\ agenda' = (agenda \ {e}) \cup S
           /\ e.time \in Nat /\ now \in Nat /\ now <= e.time /\ e.time <= Stop /\ Stop \in Nat
           /\ \A f \in agenda : e.time <= f.time /\ f.time \in Nat
           /\ Event("killer", times.length, 0) \in agenda
           /\ \A f \in agenda : f.to = "node" => e.time = now
           /\ Scheduled /\ Driven /\ Past /\ Ends
<1>1. Scheduled /\ Driven /\ Past /\ Ends /\ now \in Nat
  BY DEF TimeInv, TypeOK
<1>2. /\ now' = e.time /\ agenda' = (agenda \ {e}) \cup S /\ \A f \in agenda : e.time <= f.time
      /\ config.forced # 0 => e.time <= config.forced
  BY DEF Execute
<1>3. \A f \in agenda : f.time \in Nat
  <2>1. \A f \in agenda : f.time \in Nat \cup {-1} /\ f.time >= now
    BY <1>1 DEF Scheduled, TypeOK
  <2> QED BY <1>1, <2>1
<1>4. Event("killer", times.length, 0) \in agenda /\ Event("killer", times.length, 0).time = times.length
  BY <1>1 DEF Ends, Event
<1>5. Stop \in Nat /\ (Stop = times.length \/ (config.forced # 0 /\ Stop = config.forced))
  BY OptionsTyped, TimesAre
<1>6. e.time <= Stop
  BY <1>2, <1>4, <1>5
<1>7. now <= e.time
  BY <1>1 DEF Scheduled
<1>8. \A f \in agenda : f.to = "node" => e.time = now
  <2>1. \A f \in agenda : f.to = "node" => f.time = now
    BY <1>1 DEF Scheduled
  <2> QED BY <1>1, <1>2, <1>3, <1>7, <2>1
<1> QED BY <1>1, <1>2, <1>3, <1>4, <1>5, <1>6, <1>7, <1>8

LEMMA InitTime == ASSUME Init, ParsedAsMeant PROVE TimeInv
<1> SUFFICES ASSUME phase # "failed" PROVE Scheduled /\ Driven /\ Past /\ Ends
  BY DEF TimeInv
<1>1. TypeOK
  BY InitTypes
<1>2. /\ now = 0 /\ next = NextEvent(1) /\ phase = "running" /\ ~Fails(next)
      /\ agenda = {Event("killer", times.length, 0)}
           \cup (IF next = 0 THEN {} ELSE {Event("driver", events[next].time, 0)})
           \cup (IF ~Collects THEN {} ELSE {Event("collector", 0, 0)})
      /\ handled = {} /\ counted = [n \in Node |-> {}] /\ predicate = [n \in Node |-> {}]
  BY DEF Init
<1>3. times.length \in Nat /\ Stop \in Nat
  BY <1>1, OptionsTyped, TimesAre
<1>4. Index = 1..Len(events) /\ Len(events) \in Nat
  BY <1>1, EventsAre DEF TypeOK
<1>5. next = (IF 1 \in Index THEN 1 ELSE 0) /\ \A i \in Index : i >= 1 /\ ~Read(i)
  BY <1>2, <1>4 DEF NextEvent, Read
<1>6. next # 0 => events[next].time \in Nat /\ events[next] # Failure
  <2>1. next # 0 => next \in Index /\ events[next] # Failure
    BY <1>2, <1>5 DEF Fails
  <2> QED BY <1>1, <2>1, ValidEvents DEF TypeOK, Valid
<1>7. \A e \in agenda : \/ e.to = "killer" /\ e = Event("killer", times.length, 0)
                        \/ e.to = "driver" /\ next # 0 /\ e = Event("driver", events[next].time, 0)
                        \/ e.to = "collector" /\ e = Event("collector", 0, 0)
  BY <1>2 DEF Event
<1>8. \A e \in agenda : e.time >= now
  BY <1>2, <1>3, <1>6, <1>7 DEF Event
<1>9. Scheduled
  BY <1>2, <1>6, <1>7, <1>8 DEF Scheduled
<1>10. Driven
  BY <1>5 DEF Driven
<1>11. Past
  BY <1>2 DEF Past
<1>12. Ends
  BY <1>2, <1>3 DEF Ends
<1> QED BY <1>9, <1>10, <1>11, <1>12

(* Steps that touch only the events of the killer or the collector.        *)
LEMMA OthersSame ==
    ASSUME Scheduled, Driven, Past, now \in Nat, now' \in Nat, now <= now',
           UNCHANGED <<input, next, handled, counted, predicate>>, handled \subseteq Index \X Nat,
           counted \in [Node -> SUBSET (Index \X Nat \X ({"hit", "miss", "filtered"} \X Nat))],
           \A f \in agenda' : f.time >= now',
           \A f : f.to \notin {"killer", "collector"} => (f \in agenda' <=> f \in agenda),
           \A f \in agenda' : f.to = "killer" => f \in agenda,
           \A f \in agenda' : f.to = "node" => now' = now
    PROVE  (Scheduled /\ Driven /\ Past)'
<1>1. /\ events' = events /\ times' = times /\ Index' = Index /\ next' = next /\ handled' = handled
      /\ counted' = counted /\ predicate' = predicate
  BY DEF input, Index
<1>2. \A i : /\ NodeEvent(i)' = NodeEvent(i) /\ NodeEvent(i).to = "node"
             /\ Handled(i)' = Handled(i) /\ Read(i)' = Read(i)
  BY <1>1, SameEvents DEF Handled, Read
<1>3. Scheduled'
  <2>1. \A e \in agenda' : e.to = "killer" => e = Event("killer", times'.length, 0)
    BY <1>1 DEF Scheduled
  <2>2. \A e \in agenda' : e.to = "driver" => next' # 0 /\ e = Event("driver", events'[next'].time, 0)
    BY <1>1 DEF Scheduled
  <2>3. next' # 0 => events'[next'] # Failure /\ Event("driver", events'[next'].time, 0) \in agenda'
    BY <1>1 DEF Scheduled, Event
  <2>4. \A e \in agenda' : e.to = "node" =>
          /\ e.id \in Index' /\ e = NodeEvent(e.id)' /\ e.time = now' /\ events'[e.id].node \in Node
          /\ Read(e.id)' /\ ~Handled(e.id)'
    BY <1>1, <1>2 DEF Scheduled
  <2>5. \A e \in agenda' : e.to = "interest" =>
          /\ e.id \in Index' /\ Handled(e.id)'
          /\ \A n \in Node : \A c \in counted'[n] : c[1] # e.id
          /\ \A f \in agenda' : f.to = "interest" /\ f.id = e.id => f = e
    BY <1>1, <1>2 DEF Scheduled
  <2> QED BY <2>1, <2>2, <2>3, <2>4, <2>5 DEF Scheduled
<1>4. Driven'
  BY <1>1, <1>2 DEF Driven
<1>5. Past'
  <2>1. \A h \in handled : h[2] \in Nat
    OBVIOUS
  <2>2. \A n \in Node : \A c \in counted[n] : c[2] \in Nat
    OBVIOUS
  <2>3. \A h \in handled' : h[1] \in Index' /\ Read(h[1])' /\ h[2] = events'[h[1]].time /\ h[2] <= now'
    BY <1>1, <1>2, <2>1 DEF Past
  <2>4. \A n \in Node : \A c \in counted'[n] : Handled(c[1])' /\ c[2] <= now'
    BY <1>1, <1>2, <2>2 DEF Past
  <2>5. \A n \in Node : \A f \in predicate'[n] : \E i \in Index' :
          /\ Handled(i)' /\ f \in events'[i].arg
          /\ events'[i].kind = "set_predicate" /\ events'[i].node = n
    BY <1>1, <1>2 DEF Past
  <2> QED BY <2>3, <2>4, <2>5 DEF Past
<1> QED BY <1>3, <1>4, <1>5

(* The driver's turn.                                                      *)
LEMMA DriveTime ==
    ASSUME TypeOK, ParsedAsMeant, TimeInv, NEW e \in agenda, Drive(e)
    PROVE  TimeInv'
<1> SUFFICES ASSUME phase' # "failed" PROVE (Scheduled /\ Driven /\ Past /\ Ends)'
  BY DEF TimeInv
<1> DEFINE b == Max(Batch(e.time))
<1>1. /\ b \in Nat /\ next <= b /\ b \in Index /\ phase = "running" /\ e.to = "driver"
      /\ \A i \in next..b : Valid(i) /\ i \in Index /\ events[i].time = e.time /\ events[i].node \in Node
      /\ next' = (IF b + 1 \in Index THEN b + 1 ELSE 0)
      /\ phase' = IF Fails(next') THEN "failed" ELSE "running"
      /\ agenda' = (agenda \ {e}) \cup {NodeEvent(i) : i \in next..b}
           \cup (IF next' = 0 THEN {} ELSE {Event("driver", events[next'].time, 0)})
  BY DriveBatch DEF Drive
<1> HIDE DEF b
<1>2. Valid(next) /\ next \in Index /\ next # 0 /\ next \in Nat /\ e = Event("driver", events[next].time, 0)
  BY <1>1, DriverEvent
<1>3. UNCHANGED <<input, predicate, served, counts, totals, handled, counted, delivered, aged>>
      /\ \E S : Execute(e, S)
  BY DEF Drive
<1>4. /\ events' = events /\ times' = times /\ Index' = Index /\ handled' = handled /\ Stop' = Stop
      /\ counted' = counted /\ predicate' = predicate /\ UNCHANGED input
  BY <1>3, SameInput DEF input
<1>5. /\ now' = e.time /\ e.time \in Nat /\ now \in Nat /\ now <= e.time /\ e.time <= Stop
      /\ \A f \in agenda : e.time <= f.time /\ f.time \in Nat
      /\ Event("killer", times.length, 0) \in agenda
      /\ \A f \in agenda : f.to = "node" => e.time = now
      /\ Scheduled /\ Driven /\ Past /\ Ends
  BY <1>1, <1>3, ExecuteInTime
<1>6. \A i : /\ NodeEvent(i)' = NodeEvent(i) /\ NodeEvent(i).to = "node" /\ NodeEvent(i).id = i
             /\ NodeEvent(i).time = events[i].time /\ Handled(i)' = Handled(i)
  BY <1>4, SameEvents DEF Handled
<1>7. Index \subseteq Nat /\ \A i \in Index : i <= Len(events)
  BY EventsAre DEF TypeOK
<1>8. \A i \in Index : Read(i)' <=> i <= b
  <2>1. CASE b + 1 \in Index
    BY <2>1, <1>1, <1>7 DEF Read
  <2>2. CASE b + 1 \notin Index
    <3>1. \A i \in Index : i <= b
      BY <2>2, <1>1, <1>7, EventsAre DEF TypeOK
    <3> QED BY <2>2, <3>1, <1>1 DEF Read
  <2> QED BY <2>1, <2>2
<1>9. \A i \in Index : /\ Read(i) <=> i < next
                       /\ Read(i)' <=> (Read(i) \/ i \in next..b)
  BY <1>1, <1>2, <1>7, <1>8 DEF Read
<1>10. next' # 0 => /\ Valid(next') /\ events[next'].time \in Nat /\ events[next'].time >= e.time
                    /\ events[next'] # Failure
  <2> SUFFICES ASSUME next' # 0
               PROVE  /\ Valid(next') /\ events[next'].time \in Nat /\ events[next'].time >= e.time
                      /\ events[next'] # Failure
    OBVIOUS
  <2>1. next' = b + 1 /\ next' \in Index /\ ~Fails(next')
    BY <1>1
  <2>2. events[next'] # Failure
    BY <2>1 DEF Fails
  <2>3. Valid(next')
    BY <2>1, <2>2, <1>4 DEF Valid
  <2>4. next <= next' /\ events[next].time = e.time
    BY <1>1, <1>2, <2>1
  <2> QED BY <2>1, <2>3, <2>4, <1>2, ValidEvents DEF TypeOK, Valid
<1>11. Scheduled'
  <2>1. \A f \in agenda' : \/ f \in agenda /\ f # e
                           \/ \E i \in next..b : f = NodeEvent(i)
                           \/ next' # 0 /\ f = Event("driver", events[next'].time, 0)
    BY <1>1
  <2>2. \A f \in agenda' : f.time >= now'
    BY <2>1, <1>1, <1>5, <1>6, <1>10 DEF Event
  <2>3. \A f \in agenda' : f.to = "killer" => f = Event("killer", times'.length, 0)
    BY <2>1, <1>4, <1>5, <1>6 DEF Scheduled, Event
  <2>4. \A f \in agenda' : f.to = "driver" => next' # 0 /\ f = Event("driver", events'[next'].time, 0)
    BY <2>1, <1>2, <1>4, <1>5, <1>6 DEF Scheduled
  <2>5. next' # 0 => events'[next'] # Failure /\ Event("driver", events'[next'].time, 0) \in agenda'
    BY <1>1, <1>4, <1>10
  <2>6. ASSUME NEW f \in agenda', f.to = "node"
        PROVE  /\ f.id \in Index' /\ f = NodeEvent(f.id)' /\ f.time = now' /\ events'[f.id].node \in Node
               /\ Read(f.id)' /\ ~Handled(f.id)'
    <3>1. CASE f \in agenda /\ f # e
      <4>1. /\ f.id \in Index /\ f = NodeEvent(f.id) /\ f.time = now /\ events[f.id].node \in Node
            /\ Read(f.id) /\ ~Handled(f.id)
        BY <3>1, <2>6, <1>5 DEF Scheduled
      <4>2. now' = now
        BY <3>1, <2>6, <1>5
      <4> QED BY <4>1, <4>2, <1>4, <1>6, <1>9
    <3>2. CASE \E i \in next..b : f = NodeEvent(i)
      <4>1. PICK i \in next..b : f = NodeEvent(i)
        BY <3>2
      <4>2. f.id = i /\ f.time = e.time /\ i \in Index /\ events[i].node \in Node
        BY <4>1, <1>1, <1>6
      <4>3. ~Read(i)
        BY <4>2, <1>9, <1>2
      <4>4. ~Handled(i)
        BY <4>3, <1>5 DEF Past, Handled
      <4> QED BY <4>1, <4>2, <4>4, <1>4, <1>5, <1>6, <1>9
    <3> QED BY <2>1, <2>6, <3>1, <3>2 DEF Event
  <2>7. ASSUME NEW f \in agenda', f.to = "interest"
        PROVE  /\ f.id \in Index' /\ Handled(f.id)'
               /\ \A n \in Node : \A c \in counted'[n] : c[1] # f.id
               /\ \A g \in agenda' : g.to = "interest" /\ g.id = f.id => g = f
    <3>1. \A g \in agenda' : g.to = "interest" => g \in agenda
      BY <2>1, <1>6 DEF Event
    <3> QED BY <3>1, <2>7, <1>4, <1>5, <1>6 DEF Scheduled
  <2> QED BY <2>2, <2>3, <2>4, <2>5, <2>6, <2>7 DEF Scheduled
<1>12. Driven'
  <2> SUFFICES ASSUME NEW i \in Index, Read(i)'
               PROVE  events[i] # Failure /\ (<<i, events[i].time>> \in handled \/ NodeEvent(i) \in agenda')
    BY <1>4, <1>6 DEF Driven
  <2>1. CASE Read(i)
    <3>1. events[i] # Failure /\ (<<i, events[i].time>> \in handled \/ NodeEvent(i) \in agenda)
      BY <2>1, <1>5 DEF Driven
    <3>2. NodeEvent(i) # e
      BY <1>1, <1>6
    <3> QED BY <3>1, <3>2, <1>1
  <2>2. CASE i \in next..b
    <3>1. NodeEvent(i) \in agenda' /\ Valid(i)
      BY <2>2, <1>1
    <3> QED BY <3>1 DEF Valid
  <2> QED BY <2>1, <2>2, <1>9
<1>13. Past'
  <2>1. \A h \in handled : h[1] \in Index /\ Read(h[1]) /\ h[2] = events[h[1]].time /\ h[2] <= now /\ h[2] \in Nat
    BY <1>5 DEF Past, TypeOK
  <2>2. \A h \in handled' : h[1] \in Index' /\ Read(h[1])' /\ h[2] = events'[h[1]].time /\ h[2] <= now'
    BY <2>1, <1>4, <1>5, <1>9
  <2>3. \A n \in Node : \A c \in counted[n] : Handled(c[1]) /\ c[2] <= now /\ c[2] \in Nat
    BY <1>5 DEF Past, TypeOK
  <2>4. \A n \in Node : \A c \in counted'[n] : Handled(c[1])' /\ c[2] <= now'
    BY <2>3, <1>4, <1>5, <1>6
  <2>5. \A n \in Node : \A f \in predicate'[n] : \E i \in Index' :
          /\ Handled(i)' /\ f \in events'[i].arg
          /\ events'[i].kind = "set_predicate" /\ events'[i].node = n
    BY <1>4, <1>5, <1>6 DEF Past
  <2> QED BY <2>2, <2>4, <2>5 DEF Past
<1>14. Ends'
  <2>1. phase' = "running"
    BY <1>1
  <2>2. Event("killer", times.length, 0) \in agenda'
    BY <1>1, <1>5 DEF Event
  <2> QED BY <2>1, <2>2, <1>4, <1>5 DEF Ends
<1> QED BY <1>11, <1>12, <1>13, <1>14

(* A node's turn.                                                          *)
LEMMA HandleTime ==
    ASSUME TypeOK, ParsedAsMeant, TimeInv, NEW e \in agenda, Handle(e)
    PROVE  TimeInv'
<1> DEFINE w == events[e.id]
<1>1. /\ phase = "running" /\ e.id \in Index /\ e = NodeEvent(e.id) /\ e.to = "node"
      /\ e.time = now /\ e.time = w.time /\ e.time \in Nat /\ Read(e.id)
      /\ ~Handled(e.id) /\ w.node \in Node /\ now' = now
      /\ UNCHANGED <<input, next, counts, totals, phase, counted, aged>>
      /\ handled' = handled \cup {<<e.id, e.time>>}
  BY HandledEvent
<1>2. Scheduled /\ Driven /\ Past /\ Ends
  BY <1>1 DEF TimeInv
<1>3. /\ events' = events /\ times' = times /\ Index' = Index /\ next' = next /\ Stop' = Stop
      /\ counted' = counted /\ UNCHANGED input
  BY <1>1, SameInput DEF input
<1>4. \A i : /\ NodeEvent(i)' = NodeEvent(i) /\ NodeEvent(i).to = "node" /\ NodeEvent(i).id = i
             /\ Read(i)' = Read(i) /\ (Handled(i)' <=> (Handled(i) \/ i = e.id))
  <2> DEFINE x == <<e.id, e.time>>
  <2>1. x[1] = e.id
    OBVIOUS
  <2>2. handled' = handled \cup {x}
    BY <1>1
  <2> HIDE DEF x
  <2>3. \A i : Handled(i)' <=> (Handled(i) \/ i = e.id)
    BY <2>1, <2>2 DEF Handled
  <2> QED BY <1>3, <2>3, SameEvents DEF Read
<1>5. /\ \A f \in agenda' : \/ f \in agenda /\ f # e
                            \/ /\ f.to = "interest" /\ f.id = e.id /\ f.time >= now
                               /\ \A i \in agenda' : i.to = "interest" => i \in agenda \/ i = f
      /\ agenda \ {e} \subseteq agenda'
  <2>1. CASE agenda' = agenda \ {e}
    BY <2>1
  <2>2. CASE \E n \in Node, d \in Delays :
               agenda' = (agenda \ {e}) \cup {Interest(e.time + d, e.id, served[n][Name(w.arg)])}
    <3>1. PICK n \in Node, d \in Delays :
               agenda' = (agenda \ {e}) \cup {Interest(e.time + d, e.id, served[n][Name(w.arg)])}
      BY <2>2
    <3>2. e.time + d >= now
      BY <1>1, DelaysAssumption
    <3> QED BY <3>1, <3>2 DEF Interest
  <2>3. \/ agenda' = agenda \ {e}
        \/ \E n \in Node, d \in Delays :
              agenda' = (agenda \ {e})
                 \cup {Interest(e.time + d, e.id, served[n][Name(w.arg)])}
    BY HandledEvent, Zenon
  <2> QED BY <2>1, <2>2, <2>3
<1>6. now \in Nat /\ now' = now
  BY <1>1 DEF TypeOK
<1>7. Scheduled'
  <2>1. \A f \in agenda' : f.time >= now'
    BY <1>2, <1>5, <1>6 DEF Scheduled
  <2>2. \A f \in agenda' : f.to = "killer" => f = Event("killer", times'.length, 0)
    BY <1>2, <1>3, <1>5 DEF Scheduled
  <2>3. \A f \in agenda' : f.to = "driver" => next' # 0 /\ f = Event("driver", events'[next'].time, 0)
    BY <1>2, <1>3, <1>5 DEF Scheduled
  <2>4. next' # 0 => events'[next'] # Failure /\ Event("driver", events'[next'].time, 0) \in agenda'
    <3>1. Event("driver", events[next].time, 0) # e
      BY <1>1 DEF Event
    <3>2. next # 0 => events[next] # Failure /\ Event("driver", events[next].time, 0) \in agenda
      BY <1>2 DEF Scheduled
    <3> QED BY <3>1, <3>2, <1>3, <1>5
  <2>5. ASSUME NEW f \in agenda', f.to = "node"
        PROVE  /\ f.id \in Index' /\ f = NodeEvent(f.id)' /\ f.time = now' /\ events'[f.id].node \in Node
               /\ Read(f.id)' /\ ~Handled(f.id)'
    <3>1. f \in agenda /\ f # e
      BY <1>5, <2>5
    <3>2. /\ f.id \in Index /\ f = NodeEvent(f.id) /\ f.time = now /\ events[f.id].node \in Node
          /\ Read(f.id) /\ ~Handled(f.id)
      BY <3>1, <2>5, <1>2 DEF Scheduled
    <3>3. f.id # e.id
      BY <3>1, <3>2, <1>1
    <3> QED BY <3>2, <3>3, <1>3, <1>4, <1>6
  <2>6. ASSUME NEW f \in agenda', f.to = "interest"
        PROVE  /\ f.id \in Index' /\ Handled(f.id)'
               /\ \A n \in Node : \A c \in counted'[n] : c[1] # f.id
               /\ \A i \in agenda' : i.to = "interest" /\ i.id = f.id => i = f
    <3>1. CASE f \in agenda /\ f # e
      <4>1. /\ f.id \in Index /\ Handled(f.id)
            /\ \A n \in Node : \A c \in counted[n] : c[1] # f.id
            /\ \A i \in agenda : i.to = "interest" /\ i.id = f.id => i = f
        BY <3>1, <2>6, <1>2 DEF Scheduled
      <4>2. f.id # e.id
        BY <4>1, <1>1
      <4>3. \A i \in agenda' : i.to = "interest" /\ i.id = f.id => i \in agenda
        BY <4>2, <1>5
      <4> QED BY <4>1, <4>3, <1>3, <1>4
    <3>2. CASE /\ f.to = "interest" /\ f.id = e.id /\ f.time >= now
               /\ \A i \in agenda' : i.to = "interest" => i \in agenda \/ i = f
      <4>1. \A n \in Node : \A c \in counted[n] : c[1] # e.id
        BY <1>1, <1>2 DEF Past
      <4>2. \A i \in agenda : i.to = "interest" => i.id # e.id
        BY <1>1, <1>2 DEF Scheduled
      <4> QED BY <3>2, <4>1, <4>2, <1>1, <1>3, <1>4
    <3> QED BY <1>5, <3>1, <3>2
  <2> QED BY <2>1, <2>2, <2>3, <2>4, <2>5, <2>6 DEF Scheduled
<1>8. Driven'
  <2> SUFFICES ASSUME NEW i \in Index, Read(i)
               PROVE  events[i] # Failure /\ (<<i, events[i].time>> \in handled' \/ NodeEvent(i) \in agenda')
    BY <1>3, <1>4 DEF Driven
  <2>1. events[i] # Failure /\ (<<i, events[i].time>> \in handled \/ NodeEvent(i) \in agenda)
    BY <1>2 DEF Driven
  <2>2. CASE <<i, events[i].time>> \in handled
    BY <2>1, <2>2, <1>1
  <2>3. CASE NodeEvent(i) = e
    <3>1. i = e.id
      BY <2>3, <1>4
    <3>2. <<i, events[i].time>> \in handled'
      BY <3>1, <1>1
    <3> QED BY <2>1, <3>2
  <2>4. CASE NodeEvent(i) \in agenda \ {e}
    BY <2>1, <2>4, <1>5
  <2> QED BY <2>1, <2>2, <2>3, <2>4
<1>9. Past'
  <2>1. ASSUME NEW h \in handled'
        PROVE  h[1] \in Index' /\ Read(h[1])' /\ h[2] = events'[h[1]].time /\ h[2] <= now'
    <3>1. CASE h \in handled
      <4>1. h[1] \in Index /\ Read(h[1]) /\ h[2] = events[h[1]].time /\ h[2] <= now
        BY <3>1, <1>2 DEF Past
      <4>2. Read(h[1])'
        BY <4>1, <1>4
      <4>3. h[1] \in Index' /\ h[2] = events'[h[1]].time
        BY <4>1, <1>3
      <4>4. h[2] <= now'
        BY <4>1, <1>6
      <4> QED BY <4>2, <4>3, <4>4
    <3>2. CASE h = <<e.id, e.time>>
      <4>1. h[1] = e.id /\ h[2] = e.time
        BY <3>2
      <4>2. Read(h[1])'
        BY <4>1, <1>1, <1>4
      <4>3. h[1] \in Index' /\ h[2] = events'[h[1]].time
        BY <4>1, <1>1, <1>3
      <4>4. h[2] = now
        BY <4>1, <1>1
      <4>5. h[2] <= now'
        BY <4>4, <1>6
      <4> QED BY <4>2, <4>3, <4>5
    <3> QED BY <3>1, <3>2, <1>1
  <2>2. \A n \in Node : \A c \in counted'[n] : Handled(c[1])' /\ c[2] <= now'
    BY <1>2, <1>3, <1>4, <1>6 DEF Past
  <2>3. ASSUME NEW n \in Node, NEW f \in predicate'[n]
        PROVE  \E i \in Index' :
          /\ Handled(i)' /\ f \in events'[i].arg
          /\ events'[i].kind = "set_predicate" /\ events'[i].node = n
    <3>1. CASE f \in predicate[n]
      BY <3>1, <1>2, <1>3, <1>4 DEF Past
    <3>2. CASE f \notin predicate[n]
      <4>1. w.kind = "set_predicate" /\ predicate' = [predicate EXCEPT ![w.node] = @ \cup w.arg]
        BY <3>2, HandledEvent
      <4>2. n = w.node /\ f \in w.arg
        BY <3>2, <4>1 DEF TypeOK, Predicate
      <4> QED BY <4>1, <4>2, <1>1, <1>3, <1>4
    <3> QED BY <3>1, <3>2
  <2> QED BY <2>1, <2>2, <2>3 DEF Past
<1>10. Ends'
  <2>1. Event("killer", times.length, 0) \in agenda'
    <3>1. Event("killer", times.length, 0) # e
      BY <1>1 DEF Event
    <3>2. Event("killer", times.length, 0) \in agenda
      BY <1>1, <1>2 DEF Ends
    <3> QED BY <3>1, <3>2, <1>5
  <2>2. phase' = "running"
    BY <1>1
  <2> QED BY <2>1, <2>2, <1>2, <1>3, <1>6 DEF Ends
<1> QED BY <1>7, <1>8, <1>9, <1>10 DEF TimeInv

(* An interest is searched for in a cache.                                 *)
LEMMA SearchTime ==
    ASSUME TypeOK, ParsedAsMeant, TimeInv, NEW e \in agenda, SearchInCache(e)
    PROVE  TimeInv'
<1>1. /\ phase = "running" /\ e.to = "interest" /\ e.time \in Nat /\ e.id \in Index
      /\ agenda' = agenda \ {e}
      /\ UNCHANGED <<input, next, predicate, served, oracle, totals, phase, handled, delivered, aged>>
  BY SearchEvent
<1>2. /\ now' = e.time /\ now \in Nat /\ now <= e.time /\ e.time <= Stop
      /\ \A f \in agenda : e.time <= f.time /\ f.time \in Nat
      /\ Event("killer", times.length, 0) \in agenda
      /\ \A f \in agenda : f.to = "node" => e.time = now
      /\ Scheduled /\ Driven /\ Past /\ Ends
  <2>1. Execute(e, {})
    BY DEF SearchInCache
  <2> QED BY <1>1, <2>1, ExecuteInTime
<1>3. /\ events' = events /\ times' = times /\ Index' = Index /\ next' = next /\ Stop' = Stop
      /\ handled' = handled /\ predicate' = predicate /\ UNCHANGED input
  BY <1>1, SameInput DEF input
<1>4. \A i : /\ NodeEvent(i)' = NodeEvent(i) /\ NodeEvent(i).to = "node"
             /\ Read(i)' = Read(i) /\ Handled(i)' = Handled(i)
  BY <1>3, SameEvents DEF Read, Handled
<1>5. \A n \in Node : \A c \in counted'[n] : c \in counted[n] \/ (c[1] = e.id /\ c[2] = e.time)
  <2>1. PICK n \in Node, outcome \in Outcomes :
           counted' = [counted EXCEPT ![n] = @ \cup {<<e.id, e.time, s>> : s \in outcome \X {e.class}}]
    BY SearchEvent
  <2>2. \A x \in {<<e.id, e.time, s>> : s \in outcome \X {e.class}} : x[1] = e.id /\ x[2] = e.time
    OBVIOUS
  <2>3. \A m \in Node : counted'[m] \subseteq
           counted[m] \cup {<<e.id, e.time, s>> : s \in outcome \X {e.class}}
    BY <2>1 DEF TypeOK
  <2> QED BY <2>2, <2>3
<1>6. Handled(e.id) /\ \A f \in agenda : f.to = "interest" /\ f.id = e.id => f = e
  BY <1>1, <1>2 DEF Scheduled
<1>7. Scheduled'
  <2>1. \A f \in agenda' : f.time >= now'
    BY <1>1, <1>2
  <2>2. \A f \in agenda' : f.to = "killer" => f = Event("killer", times'.length, 0)
    BY <1>1, <1>2, <1>3 DEF Scheduled
  <2>3. \A f \in agenda' : f.to = "driver" => next' # 0 /\ f = Event("driver", events'[next'].time, 0)
    BY <1>1, <1>2, <1>3 DEF Scheduled
  <2>4. next' # 0 => events'[next'] # Failure /\ Event("driver", events'[next'].time, 0) \in agenda'
    <3>1. Event("driver", events[next].time, 0) # e
      BY <1>1 DEF Event
    <3> QED BY <3>1, <1>1, <1>2, <1>3 DEF Scheduled
  <2>5. \A f \in agenda' : f.to = "node" =>
           /\ f.id \in Index' /\ f = NodeEvent(f.id)' /\ f.time = now' /\ events'[f.id].node \in Node
           /\ Read(f.id)' /\ ~Handled(f.id)'
    BY <1>1, <1>2, <1>3, <1>4 DEF Scheduled
  <2>6. ASSUME NEW f \in agenda', f.to = "interest"
        PROVE  /\ f.id \in Index' /\ Handled(f.id)'
               /\ \A n \in Node : \A c \in counted'[n] : c[1] # f.id
               /\ \A g \in agenda' : g.to = "interest" /\ g.id = f.id => g = f
    <3>1. f \in agenda /\ f # e
      BY <1>1
    <3>2. /\ f.id \in Index /\ Handled(f.id)
          /\ \A n \in Node : \A c \in counted[n] : c[1] # f.id
          /\ \A g \in agenda : g.to = "interest" /\ g.id = f.id => g = f
      BY <3>1, <2>6, <1>2 DEF Scheduled
    <3>3. f.id # e.id
      BY <3>1, <2>6, <1>6
    <3> QED BY <3>2, <3>3, <1>1, <1>3, <1>4, <1>5
  <2> QED BY <2>1, <2>2, <2>3, <2>4, <2>5, <2>6 DEF Scheduled
<1>8. Driven'
  <2>1. \A i : NodeEvent(i) \in agenda => NodeEvent(i) \in agenda'
    BY <1>1, <1>4
  <2> QED BY <2>1, <1>2, <1>3, <1>4 DEF Driven
<1>9. Past'
  <2>1. \A h \in handled : h[1] \in Index /\ Read(h[1]) /\ h[2] = events[h[1]].time /\ h[2] <= now /\ h[2] \in Nat
    BY <1>2 DEF Past, TypeOK
  <2>2. \A h \in handled' : h[1] \in Index' /\ Read(h[1])' /\ h[2] = events'[h[1]].time /\ h[2] <= now'
    BY <2>1, <1>2, <1>3, <1>4
  <2>3. \A n \in Node : \A c \in counted[n] : Handled(c[1]) /\ c[2] <= now /\ c[2] \in Nat
    BY <1>2 DEF Past, TypeOK
  <2>4. \A n \in Node : \A c \in counted'[n] : Handled(c[1])' /\ c[2] <= now'
    BY <2>3, <1>2, <1>4, <1>5, <1>6
  <2>5. \A n \in Node : \A f \in predicate'[n] : \E i \in Index' :
          /\ Handled(i)' /\ f \in events'[i].arg
          /\ events'[i].kind = "set_predicate" /\ events'[i].node = n
    BY <1>2, <1>3, <1>4 DEF Past
  <2> QED BY <2>2, <2>4, <2>5 DEF Past
<1>10. Ends'
  <2>1. Event("killer", times.length, 0) \in agenda'
    BY <1>1, <1>2 DEF Event
  <2>2. phase' = "running"
    BY <1>1
  <2> QED BY <2>1, <2>2, <1>2, <1>3 DEF Ends
<1> QED BY <1>7, <1>8, <1>9, <1>10 DEF TimeInv

(* The collector's turn.                                                   *)
LEMMA PollTime ==
    ASSUME TypeOK, ParsedAsMeant, TimeInv, NEW e \in agenda, Poll(e)
    PROVE  TimeInv'
<1>1. /\ phase = "running" /\ e.to = "collector" /\ e.time \in Nat
      /\ agenda' = (agenda \ {e}) \cup {Event("collector", e.time + Timeout, 0)}
      /\ UNCHANGED <<input, next, predicate, served, phase, handled, counted, delivered>>
  BY PollEvent
<1>2. /\ now' = e.time /\ now \in Nat /\ now <= e.time /\ e.time <= Stop
      /\ \A f \in agenda : e.time <= f.time /\ f.time \in Nat
      /\ Event("killer", times.length, 0) \in agenda
      /\ \A f \in agenda : f.to = "node" => e.time = now
      /\ Scheduled /\ Driven /\ Past /\ Ends
  <2>1. \E S : Execute(e, S)
    BY DEF Poll
  <2> QED BY <1>1, <2>1, ExecuteInTime
<1>3. Timeout \in Nat
  BY OptionsTyped, TimesAre
<1> DEFINE c == Event("collector", e.time + Timeout, 0)
<1>4. c.to = "collector" /\ c.time = e.time + Timeout /\ c.time >= e.time
  BY <1>1, <1>3 DEF Event
<1>5. agenda' = (agenda \ {e}) \cup {c}
  BY <1>1
<1> HIDE DEF c
<1>6. (Scheduled /\ Driven /\ Past)'
  <2>1. \A f \in agenda' : f.time >= now'
    BY <1>2, <1>4, <1>5
  <2>2. \A f : f.to \notin {"killer", "collector"} => (f \in agenda' <=> f \in agenda)
    BY <1>1, <1>4, <1>5
  <2>3. \A f \in agenda' : f.to = "killer" => f \in agenda
    BY <1>4, <1>5
  <2>4. \A f \in agenda' : f.to = "node" => now' = now
    BY <1>2, <1>4, <1>5
  <2>5. now' \in Nat /\ now <= now'
    BY <1>1, <1>2
  <2>6. /\ handled \subseteq Index \X Nat
        /\ counted \in [Node -> SUBSET (Index \X Nat \X ({"hit", "miss", "filtered"} \X Nat))]
    BY DEF TypeOK
  <2> QED BY <1>1, <1>2, <2>1, <2>2, <2>3, <2>4, <2>5, <2>6, OthersSame
<1>7. Ends'
  <2>1. times' = times /\ Stop' = Stop /\ phase' = "running"
    BY <1>1, SameInput
  <2>2. Event("killer", times.length, 0) # e
    BY <1>1 DEF Event
  <2>3. Event("killer", times.length, 0) \in agenda'
    BY <1>2, <1>5, <2>2
  <2> QED BY <1>2, <2>1, <2>3 DEF Ends
<1> QED BY <1>6, <1>7 DEF TimeInv

(* The end of the simulation.                                              *)
LEMMA KillTime ==
    ASSUME TypeOK, ParsedAsMeant, TimeInv, NEW e \in agenda, Kill(e)
    PROVE  TimeInv'
<1>1. /\ Execute(e, {}) /\ e.to = "killer" /\ phase' = "stopped" /\ phase = "running"
      /\ UNCHANGED <<input, next, predicate, served, oracle, counts, totals, handled,
                     counted, delivered, aged>>
  BY DEF Kill, Execute
<1>2. /\ now' = e.time /\ agenda' = agenda \ {e} /\ e.time \in Nat
      /\ now \in Nat /\ now <= e.time /\ e.time <= Stop
      /\ \A f \in agenda : e.time <= f.time /\ f.time \in Nat
      /\ \A f \in agenda : f.to = "node" => e.time = now
      /\ Scheduled /\ Driven /\ Past /\ Ends
  BY <1>1, ExecuteInTime
<1>3. e.time = times.length /\ e.time >= Stop
  <2>1. e = Event("killer", times.length, 0)
    BY <1>1, <1>2 DEF Scheduled
  <2> QED BY <2>1, OptionsTyped, TimesAre DEF Event
<1>4. (Scheduled /\ Driven /\ Past)'
  <2>1. \A f \in agenda' : f.time >= now' /\ f \in agenda
    BY <1>2
  <2>2. \A f : f.to \notin {"killer", "collector"} => (f \in agenda' <=> f \in agenda)
    BY <1>1, <1>2
  <2>3. \A f \in agenda' : f.to = "node" => now' = now
    BY <1>2
  <2>4. now' \in Nat /\ now <= now'
    BY <1>2
  <2>5. /\ handled \subseteq Index \X Nat
        /\ counted \in [Node -> SUBSET (Index \X Nat \X ({"hit", "miss", "filtered"} \X Nat))]
    BY DEF TypeOK
  <2> QED BY <1>1, <1>2, <2>1, <2>2, <2>3, <2>4, <2>5, OthersSame
<1>5. Ends'
  <2>1. Stop' = Stop /\ Stop \in Nat
    BY <1>1, SameInput, OptionsTyped, TimesAre
  <2>2. \A f \in agenda' : f.time >= Stop
    BY <1>2, <1>3, <2>1
  <2> QED BY <1>1, <1>2, <2>1, <2>2 DEF Ends
<1> QED BY <1>4, <1>5 DEF TimeInv

LEMMA StopTimeTime ==
    ASSUME TypeOK, ParsedAsMeant, TimeInv, StopTime
    PROVE  TimeInv'
<1>1. /\ phase = "running" /\ config.forced # 0 /\ \A e \in agenda : e.time >= config.forced
      /\ phase' = "stopped"
      /\ UNCHANGED <<input, now, agenda, next, predicate, served, oracle, counts, totals,
                     handled, counted, delivered, aged>>
  BY DEF StopTime
<1>2. Scheduled /\ Driven /\ Past /\ Ends /\ now \in Nat
  BY <1>1 DEF TimeInv, TypeOK
<1>3. (Scheduled /\ Driven /\ Past)'
  <2>1. /\ handled \subseteq Index \X Nat
        /\ counted \in [Node -> SUBSET (Index \X Nat \X ({"hit", "miss", "filtered"} \X Nat))]
    BY DEF TypeOK
  <2>2. now' = now /\ agenda' = agenda /\ \A f \in agenda : f.time >= now
    BY <1>1, <1>2 DEF Scheduled
  <2> QED BY <1>1, <1>2, <2>1, <2>2, OthersSame
<1>4. Ends'
  <2>1. Stop' = Stop /\ Stop \in Nat /\ Stop <= config.forced /\ config.forced \in Nat
    BY <1>1, SameInput, OptionsTyped, TimesAre
  <2>2. \A f \in agenda : f.time \in Nat
    <3>1. \A f \in agenda : f.time >= now /\ f.time \in Nat \cup {-1}
      BY <1>2 DEF Scheduled, TypeOK
    <3> QED BY <3>1, <1>2
  <2>3. \A f \in agenda' : f.time >= Stop
    BY <1>1, <2>1, <2>2
  <2> QED BY <1>1, <1>2, <2>1, <2>3 DEF Ends
<1> QED BY <1>3, <1>4 DEF TimeInv

LEMMA FinishTime ==
    ASSUME TypeOK, ParsedAsMeant, TimeInv, Finish
    PROVE  TimeInv'
<1>1. /\ phase = "stopped" /\ phase' = "final"
      /\ UNCHANGED <<input, now, agenda, next, predicate, served, oracle, handled,
                     counted, delivered, aged>>
  BY DEF Finish
<1>2. Scheduled /\ Driven /\ Past /\ Ends /\ now \in Nat
  BY <1>1 DEF TimeInv, TypeOK
<1>3. (Scheduled /\ Driven /\ Past)'
  <2>1. /\ handled \subseteq Index \X Nat
        /\ counted \in [Node -> SUBSET (Index \X Nat \X ({"hit", "miss", "filtered"} \X Nat))]
    BY DEF TypeOK
  <2>2. now' = now /\ agenda' = agenda /\ \A f \in agenda : f.time >= now
    BY <1>1, <1>2 DEF Scheduled
  <2> QED BY <1>1, <1>2, <2>1, <2>2, OthersSame
<1>4. Ends'
  BY <1>1, <1>2, SameInput DEF Ends
<1> QED BY <1>3, <1>4 DEF TimeInv

(* Every event before the stop is handled when the simulation ends.        *)
LEMMA OnTime ==
    ASSUME TypeOK, ParsedAsMeant, TimeInv, AsMeant
    PROVE  EventsOnTime
<1> SUFFICES ASSUME phase # "failed" PROVE EventsOnTime
  BY DEF AsMeant, EventsOnTime
<1>1. Scheduled /\ Driven /\ Past /\ Ends /\ now \in Nat
  BY DEF TimeInv, TypeOK
<1>2. config \in Configs /\ next \in Index \cup {0}
  BY DEF TypeOK
<1>3. ASSUME phase \in {"stopped", "final"}, NEW i \in DOMAIN config.meant,
             config.meant[i].time < Stop
      PROVE  <<i, config.meant[i].time>> \in handled
  <2>1. \A e \in agenda : e.time >= Stop
    BY <1>1, <1>3 DEF Ends
  <2>2. Stop \in Nat /\ config.meant[i].time \in Nat
    BY <1>2, <1>3, MeantAre, OptionsTyped, TimesAre
  <2>3. ASSUME next # 0 PROVE Valid(next) /\ next \in DOMAIN config.meant /\ config.meant[next].time >= Stop
    <3>1. events[next] # Failure /\ Event("driver", events[next].time, 0) \in agenda
      BY <1>1, <2>3 DEF Scheduled
    <3>2. Valid(next)
      BY <1>2, <2>3, <3>1 DEF Valid
    <3>3. next \in DOMAIN config.meant /\ events[next] = config.meant[next]
      BY <1>2, <2>3, <3>2, EventsAre
    <3>4. Event("driver", events[next].time, 0).time >= Stop
      BY <2>1, <3>1
    <3> QED BY <3>2, <3>3, <3>4 DEF Event
  <2>4. CASE Valid(i) /\ Read(i)
    <3>1. i \in Index /\ events[i] = config.meant[i]
      BY <1>2, <2>4, EventsAre DEF Valid
    <3>2. NodeEvent(i) \notin agenda
      BY <2>1, <2>2, <3>1, <1>3 DEF NodeEvent, Event
    <3> QED BY <1>1, <2>4, <3>1, <3>2 DEF Driven
  <2>5. CASE next # 0 /\ i >= next
    <3>1. config.meant[next].time <= config.meant[i].time /\ config.meant[next].time \in Nat
      BY <1>2, <2>3, <2>5, MeantAre
    <3> QED BY <2>2, <2>3, <2>5, <3>1, <1>3
  <2>6. CASE ~Valid(i)
    <3>1. Len(events) \in Index /\ events[Len(events)] = Failure /\ i >= Len(events)
      BY <1>2, <2>6, EventsAre
    <3>2. ~Read(Len(events))
      BY <1>1, <3>1 DEF Driven
    <3>3. next # 0 /\ Len(events) >= next /\ next \in Nat /\ i \in Nat /\ Len(events) \in Nat
      BY <1>2, <3>1, <3>2, EventsAre, MeantAre DEF Read
    <3>4. i >= next
      BY <3>1, <3>3
    <3> QED BY <2>5, <3>3, <3>4
  <2>7. next # 0 => next \in Nat
    BY <1>2, EventsAre
  <2>8. i \in Nat
    BY <1>2, MeantAre
  <2> QED BY <2>4, <2>5, <2>6, <2>7, <2>8 DEF Read
<1> QED BY <1>3 DEF EventsOnTime, AsMeant

LEMMA HandleAsMeant ==
    ASSUME TypeOK, ParsedAsMeant, TimeInv, AsMeant, NEW e \in agenda, Handle(e)
    PROVE  AsMeant'
<1>1. /\ e.id \in Index /\ Read(e.id) /\ e.time = events[e.id].time /\ phase = "running"
      /\ handled' = handled \cup {<<e.id, e.time>>} /\ config' = config /\ events' = events
  BY HandledEvent, SameInput
<1>2. Valid(e.id)
  BY <1>1 DEF TimeInv, Driven, Valid
<1>3. e.id \in DOMAIN config.meant /\ events[e.id] = config.meant[e.id]
  BY <1>1, <1>2, EventsAre DEF TypeOK
<1> DEFINE x == <<e.id, e.time>>
<1>4. x[1] = e.id /\ x[2] = e.time /\ handled' = handled \cup {x}
  BY <1>1
<1> HIDE DEF x
<1>5. \A h \in handled' : h \in handled \/ h = x
  BY <1>4
<1> QED BY <1>1, <1>3, <1>4, <1>5 DEF AsMeant

-----------------------------------------------------------------------------
(* Each step keeps types and schedule.                                     *)

LEMMA StepTypes ==
    ASSUME TypeOK, ParsedAsMeant, TimeInv, AsMeant, [Next]_vars
    PROVE  TypeOK' /\ ParsedAsMeant' /\ TimeInv' /\ AsMeant'
<1>1. ASSUME NEW e \in agenda, Drive(e)
      PROVE  TypeOK' /\ TimeInv' /\ UNCHANGED <<input, handled>>
  <2>1. UNCHANGED <<input, handled>>
    BY <1>1 DEF Drive
  <2> QED BY <1>1, <2>1, DriveTypesOK, DriveTime
<1>2. ASSUME NEW e \in agenda, DriveNobody(e)
      PROVE  TypeOK' /\ TimeInv' /\ UNCHANGED <<input, handled>>
  <2>1. phase' = "failed" /\ UNCHANGED <<input, handled>>
    BY <1>2 DEF DriveNobody
  <2> QED BY <1>2, <2>1, EndTypesOK DEF TimeInv
<1>3. ASSUME NEW e \in agenda, Handle(e)
      PROVE  TypeOK' /\ TimeInv' /\ UNCHANGED input /\ AsMeant'
  BY <1>3, HandleTypesOK, HandleTime, HandleAsMeant, HandledEvent
<1>4. ASSUME NEW e \in agenda, SearchInCache(e)
      PROVE  TypeOK' /\ TimeInv' /\ UNCHANGED <<input, handled>>
  BY <1>4, SearchTypesOK, SearchTime, SearchEvent
<1>5. ASSUME NEW e \in agenda, Poll(e)
      PROVE  TypeOK' /\ TimeInv' /\ UNCHANGED <<input, handled>>
  BY <1>5, PollTypesOK, PollTime, PollEvent
<1>6. ASSUME NEW e \in agenda, Kill(e)
      PROVE  TypeOK' /\ TimeInv' /\ UNCHANGED <<input, handled>>
  BY <1>6, EndTypesOK, KillTime, EndEvent
<1>7. ASSUME StopTime
      PROVE  TypeOK' /\ TimeInv' /\ UNCHANGED <<input, handled>>
  BY <1>7, EndTypesOK, StopTimeTime, EndEvent
<1>8. ASSUME Finish
      PROVE  TypeOK' /\ TimeInv' /\ UNCHANGED <<input, handled>>
  <2>1. UNCHANGED <<input, handled>>
    BY <1>8 DEF Finish
  <2> QED BY <1>8, <2>1, FinishTypesOK, FinishTime
<1>9. ASSUME UNCHANGED vars
      PROVE  TypeOK' /\ TimeInv' /\ UNCHANGED <<input, handled>>
  <2>1. /\ UNCHANGED <<input, now, agenda, next, predicate, served, oracle, counts, totals,
                       phase, handled, counted, delivered, aged>>
    BY <1>9 DEF vars
  <2>2. TypeOK'
    BY <2>1, SameInput DEF TypeOK
  <2>3. Scheduled' = Scheduled /\ Driven' = Driven /\ Past' = Past /\ Ends' = Ends
    BY <2>1, SameInput DEF Scheduled, Driven, Past, Ends, Read, Handled, NodeEvent, input
  <2> QED BY <2>1, <2>2, <2>3, Zenon DEF TimeInv
<1>10. TypeOK' /\ TimeInv' /\ UNCHANGED input /\ (UNCHANGED handled \/ AsMeant')
  BY <1>1, <1>2, <1>3, <1>4, <1>5, <1>6, <1>7, <1>8, <1>9 DEF Next, vars
<1>11. UNCHANGED handled => AsMeant'
  BY <1>10, SameInput DEF AsMeant
<1> QED BY <1>10, <1>11, SameInput

LEMMA InitAsMeant == ASSUME Init PROVE AsMeant
BY DEF Init, AsMeant


-----------------------------------------------------------------------------
(* The statistics.                                                         *)

LEMMA SamePolls ==
    ASSUME NEW e, e.to # "collector", NEW S, \A f \in S : f.to # "collector",
           agenda' = (agenda \ {e}) \cup S
    PROVE  Polls' = Polls
<1>1. \A f : f \in Polls' <=> f \in agenda' /\ f.to = "collector"
  BY DEF Polls
<1>2. \A f : f \in Polls <=> f \in agenda /\ f.to = "collector"
  BY DEF Polls
<1>3. \A f : f \in Polls' <=> f \in Polls
  BY <1>1, <1>2
<1> QED BY <1>3

LEMMA SameLastPoll ==
    ASSUME UNCHANGED input, Polls' = Polls
    PROVE  NextPoll' = NextPoll /\ LastPoll' = LastPoll
BY SameInput DEF NextPoll, LastPoll

LEMMA SameSeen ==
    ASSUME UNCHANGED input, counted' = counted
    PROVE  \A n, s : Seen(n, s)' = Seen(n, s)
BY DEF Seen, Counts, input

LEMMA PollingIs ==
    ASSUME TypeOK, TimeInv, phase # "failed", Polling
    PROVE  /\ Timeout \in Nat /\ Startup \in Nat /\ now \in Nat /\ LastPoll \in Int /\ LastPoll <= now
           /\ Collects <=> Timeout # 0
           /\ Collects => /\ NextPoll \in Nat /\ NextPoll >= now /\ NextPoll % Timeout = 0
                          /\ Event("collector", NextPoll, 0) \in agenda
                          /\ LastPoll = NextPoll - Timeout
           /\ ~Collects => LastPoll = -1
           /\ \A e \in agenda : e.to = "collector" => Collects /\ e.time = NextPoll
<1>1. Timeout \in Nat /\ Startup \in Nat /\ now \in Nat
  BY OptionsTyped, TimesAre DEF TypeOK
<1>2. Collects <=> Timeout # 0
  BY DEF Collects
<1>3. CASE Collects
  <2>1. Polls = {Event("collector", NextPoll, 0)} /\ NextPoll % Timeout = 0 /\ LastPoll <= now
    BY <1>3 DEF Polling
  <2>2. Event("collector", NextPoll, 0) \in agenda
    BY <2>1 DEF Polls
  <2>3. Event("collector", NextPoll, 0).time = NextPoll
    BY DEF Event
  <2>4. NextPoll >= now /\ NextPoll \in Nat \cup {-1}
    BY <2>2, <2>3 DEF TimeInv, Scheduled, TypeOK
  <2>5. NextPoll \in Nat
    BY <2>4, <1>1
  <2>6. \A e \in agenda : e.to = "collector" => e = Event("collector", NextPoll, 0)
    BY <2>1 DEF Polls
  <2>7. LastPoll = NextPoll - Timeout
    BY <1>3 DEF LastPoll
  <2> QED BY <1>1, <1>2, <1>3, <2>1, <2>2, <2>3, <2>4, <2>5, <2>6, <2>7
<1>4. CASE ~Collects
  <2>1. Polls = {} /\ LastPoll = -1
    BY <1>4 DEF Polling, LastPoll
  <2>2. \A e \in agenda : e.to # "collector"
    BY <2>1 DEF Polls
  <2> QED BY <1>1, <1>2, <1>4, <2>1, <2>2
<1> QED BY <1>3, <1>4

LEMMA OnePoll ==
    ASSUME NEW c
    PROVE  (CHOOSE e \in {Event("collector", c, 0)} : TRUE).time = c
<1>1. (CHOOSE e \in {Event("collector", c, 0)} : TRUE) = Event("collector", c, 0)
  OBVIOUS
<1> QED BY <1>1 DEF Event

LEMMA InitStats == ASSUME Init, ParsedAsMeant PROVE StatsInv
<1>1. TypeOK /\ phase # "final" /\ now = 0
  BY InitTypes DEF Init
<1>2. Timeout \in Nat
  BY <1>1, OptionsTyped, TimesAre
<1>3. Polling
  <2>1. agenda = {Event("killer", times.length, 0)}
           \cup (IF next = 0 THEN {} ELSE {Event("driver", events[next].time, 0)})
           \cup (IF ~Collects THEN {} ELSE {Event("collector", 0, 0)})
    BY DEF Init
  <2>2. Polls = IF Collects THEN {Event("collector", 0, 0)} ELSE {}
    BY <2>1 DEF Polls, Event
  <2>3. CASE Collects
    <3>1. NextPoll = 0
      BY <2>2, <2>3, OnePoll DEF NextPoll
    <3>2. 0 % Timeout = 0
      BY <1>2, <2>3, NextMultiple DEF Collects
    <3>3. LastPoll = 0 - Timeout
      BY <2>3, <3>1 DEF LastPoll
    <3> QED BY <1>1, <1>2, <2>2, <2>3, <3>1, <3>2, <3>3 DEF Polling
  <2>4. CASE ~Collects
    BY <2>2, <2>4 DEF Polling
  <2> QED BY <2>3, <2>4
<1>4. Accounted
  <2> SUFFICES ASSUME NEW n \in Node, NEW s \in Statistic
               PROVE  \E U \in SUBSET Seen(n, s) : \E T \in SUBSET Seen(n, s) :
                         /\ Apart(Seen(n, s), U, T)
                         /\ counts[n][s] = Cardinality(U) /\ totals[n][s] = Cardinality(T)
    BY DEF Accounted
  <2>1. Seen(n, s) = {}
    BY DEF Init, Seen
  <2>2. counts[n][s] = 0 /\ totals[n][s] = 0
    BY DEF Init, Zero
  <2>3. Apart({}, {}, {})
    BY FS_EmptySet DEF Apart
  <2> QED BY <2>1, <2>2, <2>3, FS_EmptySet
<1> QED BY <1>1, <1>3, <1>4 DEF StatsInv, StatsExact

(* Steps that neither count nor poll.                                      *)
LEMMA OthersPolling ==
    ASSUME Polling, UNCHANGED input, Polls' = Polls, now \in Nat, now' \in Nat, now <= now',
           Collects => NextPoll \in Nat, Timeout \in Nat
    PROVE  Polling'
<1>1. NextPoll' = NextPoll /\ LastPoll' = LastPoll /\ Timeout' = Timeout /\ Collects' = Collects
  BY SameLastPoll, SameInput
<1>2. CASE Collects
  <2>1. LastPoll = NextPoll - Timeout /\ LastPoll <= now
    BY <1>2 DEF LastPoll, Polling
  <2>2. LastPoll' <= now'
    BY <1>1, <1>2, <2>1
  <2> QED BY <1>1, <1>2, <2>2 DEF Polling
<1>3. CASE ~Collects
  BY <1>1, <1>3 DEF Polling
<1> QED BY <1>2, <1>3

LEMMA OthersAccounted ==
    ASSUME Accounted, UNCHANGED <<input, counts, totals, counted>>, Polls' = Polls,
           now \in Nat, now' \in Nat, now <= now'
    PROVE  Accounted'
<1>1. LastPoll' = LastPoll /\ Timeout' = Timeout /\ Startup' = Startup /\ counts' = counts
      /\ totals' = totals /\ \A n, s : Seen(n, s)' = Seen(n, s)
  BY SameLastPoll, SameInput, SameSeen
<1>2. \A p : Done(p)' = Done(p)
  BY <1>1 DEF Done
<1>3. ASSUME NEW S, NEW U, NEW T, Apart(S, U, T)
      PROVE  Apart(S, U, T)'
  <2>1. \A p \in 0..now : p \in 0..now'
    OBVIOUS
  <2> QED BY <1>1, <1>2, <1>3, <2>1 DEF Apart
<1>4. ASSUME NEW n \in Node, NEW s \in Statistic
      PROVE  \E U \in SUBSET Seen(n, s)' : \E T \in SUBSET Seen(n, s)' :
                /\ Apart(Seen(n, s), U, T)'
                /\ counts'[n][s] = Cardinality(U) /\ totals'[n][s] = Cardinality(T)
  <2>1. PICK U \in SUBSET Seen(n, s) : \E T \in SUBSET Seen(n, s) :
                /\ Apart(Seen(n, s), U, T)
                /\ counts[n][s] = Cardinality(U) /\ totals[n][s] = Cardinality(T)
    BY DEF Accounted
  <2>2. PICK T \in SUBSET Seen(n, s) :
                /\ Apart(Seen(n, s), U, T)
                /\ counts[n][s] = Cardinality(U) /\ totals[n][s] = Cardinality(T)
    BY <2>1
  <2>3. PICK S : S = Seen(n, s)
    OBVIOUS
  <2>4. Apart(S, U, T)' /\ Seen(n, s)' = S
    BY <1>1, <1>3, <2>2, <2>3
  <2>5. Apart(Seen(n, s), U, T)'
    BY <2>4 DEF Apart
  <2> QED BY <1>1, <2>2, <2>5
<1> QED BY <1>4 DEF Accounted

(* What a search adds to what a node saw to count.                         *)
LEMMA SearchSeen ==
    ASSUME TypeOK, ParsedAsMeant, TimeInv, NEW e \in agenda, SearchInCache(e)
    PROVE  \E n0 \in Node, seen \in SUBSET ({"hit", "miss", "filtered"} \X Nat) :
              \A n \in Node, s \in Statistic :
                 LET hits == n = n0 /\ s \in seen /\ Counts(e.time, s)
                 IN  /\ Seen(n, s)' = IF hits THEN Seen(n, s) \cup {<<e.id, e.time, s>>} ELSE Seen(n, s)
                     /\ counts'[n][s] = IF hits THEN counts[n][s] + 1 ELSE counts[n][s]
<1> DEFINE i == e.id
           t == e.time
<1>1. UNCHANGED input /\ e.class \in Nat
  BY SearchEvent DEF TypeOK
<1>2. PICK n0 \in Node, outcome \in Outcomes :
         /\ counts' = [counts EXCEPT ![n0] = [s \in Statistic |->
               IF s \in outcome \X {e.class} /\ Counts(e.time, s) THEN @[s] + 1 ELSE @[s]]]
         /\ counted' = [counted EXCEPT ![n0] =
               @ \cup {<<e.id, e.time, s>> : s \in outcome \X {e.class}}]
  BY SearchEvent
<1> DEFINE seen == outcome \X {e.class}
<1>3. seen \in SUBSET ({"hit", "miss", "filtered"} \X Nat)
  BY <1>1 DEF Outcomes
<1>4. ASSUME NEW n \in Node, NEW s \in Statistic
      PROVE  LET hits == n = n0 /\ s \in seen /\ Counts(e.time, s)
             IN  /\ Seen(n, s)' = IF hits THEN Seen(n, s) \cup {<<e.id, e.time, s>>} ELSE Seen(n, s)
                 /\ counts'[n][s] = IF hits THEN counts[n][s] + 1 ELSE counts[n][s]
  <2> DEFINE X == {<<i, t, z>> : z \in seen}
             M(c) == c[3] = s /\ Counts(c[2], s)
  <2>1. \A c : Counts(c[2], s)' = Counts(c[2], s)
    BY <1>1 DEF Counts, input
  <2>2. Seen(n, s)' = {c \in counted'[n] : M(c)}
    BY <2>1 DEF Seen
  <2>3. Seen(n, s) = {c \in counted[n] : M(c)}
    BY DEF Seen
  <2>4. counted'[n] = IF n = n0 THEN counted[n] \cup X ELSE counted[n]
    BY <1>2 DEF TypeOK
  <2>5. \A c \in X : M(c) <=> c = <<i, t, s>> /\ Counts(t, s)
    <3> SUFFICES ASSUME NEW z \in seen
                 PROVE  M(<<i, t, z>>) <=> <<i, t, z>> = <<i, t, s>> /\ Counts(t, s)
      OBVIOUS
    <3>1. M(<<i, t, z>>) <=> z = s /\ Counts(t, s)
      OBVIOUS
    <3> QED BY <3>1
  <2>6. <<i, t, s>> \in X <=> s \in seen
    OBVIOUS
  <2>7. counts'[n][s] = IF n = n0 /\ s \in seen /\ Counts(t, s) THEN counts[n][s] + 1 ELSE counts[n][s]
    BY <1>2 DEF TypeOK
  <2> HIDE DEF X, M, seen
  <2>8. Seen(n, s)' = IF n = n0 /\ s \in seen /\ Counts(t, s)
                      THEN Seen(n, s) \cup {<<i, t, s>>} ELSE Seen(n, s)
    BY <2>2, <2>3, <2>4, <2>5, <2>6
  <2> QED BY <2>7, <2>8
<1> HIDE DEF seen
<1> QED BY <1>3, <1>4

LEMMA SearchAccounted ==
    ASSUME TypeOK, ParsedAsMeant, TimeInv, Polling, Accounted, NEW e \in agenda, SearchInCache(e)
    PROVE  Polling' /\ Accounted'
<1>1. /\ phase = "running" /\ e.to = "interest" /\ e.time \in Nat /\ e.id \in Index /\ e.class \in Nat
      /\ now' = e.time /\ now <= e.time /\ now \in Nat /\ agenda' = agenda \ {e}
      /\ UNCHANGED <<input, totals>>
  BY SearchEvent DEF TypeOK
<1>2. PICK n0 \in Node, seen \in SUBSET ({"hit", "miss", "filtered"} \X Nat) :
         \A n \in Node, s \in Statistic :
            LET hits == n = n0 /\ s \in seen /\ Counts(e.time, s)
            IN  /\ Seen(n, s)' = IF hits THEN Seen(n, s) \cup {<<e.id, e.time, s>>} ELSE Seen(n, s)
                /\ counts'[n][s] = IF hits THEN counts[n][s] + 1 ELSE counts[n][s]
  BY SearchSeen
<1>3. Polls' = Polls
  <2> DEFINE S == {}
  <2>1. agenda' = (agenda \ {e}) \cup S
    BY <1>1
  <2>2. \A f \in S : f.to # "collector"
    OBVIOUS
  <2>3. e.to # "collector"
    BY <1>1
  <2> HIDE DEF S
  <2> QED BY <2>1, <2>2, <2>3, SamePolls
<1>4. LastPoll' = LastPoll /\ Timeout' = Timeout /\ Startup' = Startup
  BY <1>1, <1>3, SameLastPoll, SameInput
<1>5. LastPoll \in Int /\ LastPoll <= now /\ Timeout \in Nat /\ (Collects => NextPoll \in Nat)
  BY <1>1, PollingIs
<1>6. Polling'
  BY <1>1, <1>3, <1>5, OthersPolling
<1>7. \A p : Done(p)' = Done(p)
  BY <1>4 DEF Done
<1>8. ASSUME NEW n \in Node, NEW s \in Statistic
      PROVE  \E U \in SUBSET Seen(n, s)' : \E T \in SUBSET Seen(n, s)' :
                /\ Apart(Seen(n, s), U, T)'
                /\ counts'[n][s] = Cardinality(U) /\ totals'[n][s] = Cardinality(T)
  <2>1. PICK U \in SUBSET Seen(n, s) : \E T \in SUBSET Seen(n, s) :
                /\ Apart(Seen(n, s), U, T)
                /\ counts[n][s] = Cardinality(U) /\ totals[n][s] = Cardinality(T)
    BY DEF Accounted
  <2>2. PICK T \in SUBSET Seen(n, s) :
                /\ Apart(Seen(n, s), U, T)
                /\ counts[n][s] = Cardinality(U) /\ totals[n][s] = Cardinality(T)
    BY <2>1
  <2>3. PICK S : S = Seen(n, s)
    OBVIOUS
  <2> DEFINE x == <<e.id, e.time, s>>
             hits == n = n0 /\ s \in seen /\ Counts(e.time, s)
  <2>4. Seen(n, s)' = IF hits THEN S \cup {x} ELSE S
    BY <1>2, <2>3
  <2>5. counts'[n][s] = IF hits THEN counts[n][s] + 1 ELSE counts[n][s]
    BY <1>2
  <2>6. totals'[n][s] = totals[n][s]
    BY <1>1
  <2>7. x \notin S
    <3>1. \A c \in counted[n] : c[1] # e.id
      BY <1>1 DEF TimeInv, Scheduled
    <3>2. \A c \in S : c[1] # e.id
      BY <3>1, <2>3 DEF Seen
    <3> QED BY <3>2
  <2>8. x[2] = now'
    BY <1>1
  <2>9. /\ IsFiniteSet(S) /\ U \subseteq S /\ T \subseteq S /\ U \cap T = {}
        /\ \A y \in U : y[2] >= LastPoll
        /\ \A y \in T : \E p \in 0..now : Done(p) /\ p > Startup /\ p - Timeout <= y[2] /\ y[2] <= p
        /\ \A y \in S \ (U \cup T) : \E p \in 0..now : Done(p) /\ p <= Startup /\ y[2] <= p
    BY <2>2, <2>3 DEF Apart
  <2> HIDE DEF x
  <2>10. \A p \in 0..now : p \in 0..now'
    BY <1>1
  <2>11. CASE hits
    <3> DEFINE V == U \cup {x}
    <3>1. IsFiniteSet(S \cup {x}) /\ IsFiniteSet(U) /\ Cardinality(V) = Cardinality(U) + 1
      BY <2>7, <2>9, FS_Subset, FS_AddElement
    <3>2. V \subseteq S \cup {x} /\ T \subseteq S \cup {x} /\ V \cap T = {}
          /\ (S \cup {x}) \ (V \cup T) = S \ (U \cup T)
      BY <2>7, <2>9
    <3>3. \A y \in V : y[2] >= LastPoll
      <4>1. x[2] >= LastPoll
        BY <2>8, <1>1, <1>5
      <4> QED BY <4>1, <2>9
    <3> HIDE DEF V
    <3>4. Apart(S \cup {x}, V, T)'
      BY <1>4, <1>7, <2>9, <2>10, <3>1, <3>2, <3>3 DEF Apart
    <3>5. Seen(n, s)' = S \cup {x}
      BY <2>4, <2>11
    <3>6. Apart(Seen(n, s), V, T)'
      BY <3>4, <3>5 DEF Apart
    <3> QED BY <2>2, <2>5, <2>6, <2>11, <3>1, <3>2, <3>5, <3>6
  <2>12. CASE ~hits
    <3>1. Seen(n, s)' = S
      BY <2>4, <2>12
    <3>2. Apart(S, U, T)'
      BY <1>4, <1>7, <2>9, <2>10 DEF Apart
    <3>3. Apart(Seen(n, s), U, T)'
      BY <3>1, <3>2 DEF Apart
    <3> QED BY <2>2, <2>3, <2>5, <2>6, <2>12, <3>1, <3>3
  <2> QED BY <2>11, <2>12
<1> QED BY <1>6, <1>8 DEF Accounted

(* A poll schedules the next one.                                          *)
LEMMA PollsNext ==
    ASSUME TypeOK, ParsedAsMeant, TimeInv, Polling, NEW e \in agenda, Poll(e)
    PROVE  /\ Collects /\ e.time = NextPoll /\ Timeout \in Nat /\ Timeout # 0 /\ Startup \in Nat
           /\ e.time % Timeout = 0 /\ LastPoll = e.time - Timeout /\ Collects' = Collects
           /\ Timeout' = Timeout /\ Startup' = Startup
           /\ Polls' = {Event("collector", e.time + Timeout, 0)}
           /\ NextPoll' = e.time + Timeout /\ LastPoll' = e.time
<1>1. /\ phase = "running" /\ e.to = "collector" /\ e.time \in Nat /\ e.time >= now /\ now \in Nat
      /\ now' = e.time /\ agenda' = (agenda \ {e}) \cup {Event("collector", e.time + Timeout, 0)}
      /\ totals' = Polled(e.time) /\ counts' = Zero
      /\ UNCHANGED <<input, counted>>
  BY PollEvent DEF TypeOK
<1>2. /\ Collects /\ e.time = NextPoll /\ Timeout \in Nat /\ Timeout # 0 /\ Startup \in Nat
      /\ e.time % Timeout = 0 /\ LastPoll = e.time - Timeout /\ Collects' = Collects
      /\ Timeout' = Timeout /\ Startup' = Startup /\ Polls = {Event("collector", e.time, 0)}
  <2>1. Collects
    BY <1>1, PollingIs
  <2> QED BY <1>1, <2>1, PollingIs, SameInput DEF Polling
<1>3. Polls' = {Event("collector", e.time + Timeout, 0)}
  <2>1. \A f \in agenda : f.to = "collector" <=> f = Event("collector", e.time, 0)
    BY <1>2 DEF Polls, Event
  <2>2. e = Event("collector", e.time, 0)
    BY <1>1, <2>1
  <2>3. \A f : f \in agenda' /\ f.to = "collector" <=> f = Event("collector", e.time + Timeout, 0)
    BY <1>1, <2>1, <2>2 DEF Event
  <2> QED BY <2>3 DEF Polls
<1>4. NextPoll' = e.time + Timeout /\ LastPoll' = e.time
  <2>1. NextPoll' = e.time + Timeout
    BY <1>3, OnePoll DEF NextPoll
  <2> QED BY <2>1, <1>1, <1>2 DEF LastPoll
<1> QED BY <1>2, <1>3, <1>4

LEMMA PollAccounted ==
    ASSUME TypeOK, ParsedAsMeant, TimeInv, Polling, Accounted, NEW e \in agenda, Poll(e)
    PROVE  Polling' /\ Accounted'
<1>1. /\ phase = "running" /\ e.to = "collector" /\ e.time \in Nat /\ e.time >= now /\ now \in Nat
      /\ now' = e.time /\ agenda' = (agenda \ {e}) \cup {Event("collector", e.time + Timeout, 0)}
      /\ totals' = Polled(e.time) /\ counts' = Zero
      /\ UNCHANGED <<input, counted>>
  BY PollEvent DEF TypeOK
<1>2. /\ Collects /\ e.time = NextPoll /\ Timeout \in Nat /\ Timeout # 0 /\ Startup \in Nat
      /\ e.time % Timeout = 0 /\ LastPoll = e.time - Timeout /\ Collects' = Collects
      /\ Timeout' = Timeout /\ Startup' = Startup
  BY PollsNext
<1>3. Polls' = {Event("collector", e.time + Timeout, 0)}
  BY PollsNext
<1>4. NextPoll' = e.time + Timeout /\ LastPoll' = e.time
  BY PollsNext
<1>5. Polling'
  <2>1. (e.time + Timeout) % Timeout = 0
    BY <1>1, <1>2, NextMultiple
  <2> QED BY <1>1, <1>2, <1>3, <1>4, <2>1 DEF Polling
<1>6. \A p : Done(p)' <=> p \in Nat /\ p <= e.time /\ p % Timeout = 0
  BY <1>2, <1>4 DEF Done
<1>7. \A p : Done(p) => Done(p)'
  BY <1>1, <1>2, <1>6 DEF Done
<1>8. ASSUME NEW n \in Node, NEW s \in Statistic
      PROVE  \E U \in SUBSET Seen(n, s)' : \E T \in SUBSET Seen(n, s)' :
                /\ Apart(Seen(n, s), U, T)'
                /\ counts'[n][s] = Cardinality(U) /\ totals'[n][s] = Cardinality(T)
  <2>1. PICK U \in SUBSET Seen(n, s) : \E T \in SUBSET Seen(n, s) :
                /\ Apart(Seen(n, s), U, T)
                /\ counts[n][s] = Cardinality(U) /\ totals[n][s] = Cardinality(T)
    BY DEF Accounted
  <2>2. PICK T \in SUBSET Seen(n, s) :
                /\ Apart(Seen(n, s), U, T)
                /\ counts[n][s] = Cardinality(U) /\ totals[n][s] = Cardinality(T)
    BY <2>1
  <2>3. PICK S : S = Seen(n, s)
    OBVIOUS
  <2>4. Seen(n, s)' = S
    BY <1>1, <2>3, SameSeen
  <2>5. /\ IsFiniteSet(S) /\ U \subseteq S /\ T \subseteq S /\ U \cap T = {}
        /\ \A y \in U : y[2] >= LastPoll
        /\ \A y \in T : \E p \in 0..now : Done(p) /\ p > Startup /\ p - Timeout <= y[2] /\ y[2] <= p
        /\ \A y \in S \ (U \cup T) : \E p \in 0..now : Done(p) /\ p <= Startup /\ y[2] <= p
    BY <2>2, <2>3 DEF Apart
  <2>6. \A y \in S : y[2] <= e.time /\ y[2] \in Nat
    <3>1. \A c \in counted[n] : c[2] <= now /\ c[2] \in Nat
      BY <1>1 DEF TimeInv, Past, TypeOK
    <3>2. \A y \in S : y[2] <= now /\ y[2] \in Nat
      BY <2>3, <3>1 DEF Seen
    <3> QED BY <3>2, <1>1
  <2>7. \A p \in 0..now : p \in 0..now'
    BY <1>1
  <2>8. e.time \in 0..now' /\ Done(e.time)'
    BY <1>1, <1>2, <1>6
  <2>9. counts'[n][s] = 0
        /\ totals'[n][s] = IF e.time <= Startup THEN totals[n][s] ELSE totals[n][s] + counts[n][s]
    BY <1>1, PolledTypes DEF TypeOK
  <2>10. Cardinality({}) = 0
    BY FS_EmptySet
  <2>11. CASE e.time <= Startup
    <3>1. \A y \in T : \E p \in 0..now' : Done(p)' /\ p > Startup /\ p - Timeout <= y[2] /\ y[2] <= p
      BY <1>7, <2>5, <2>7
    <3>2. ASSUME NEW y \in S \ T
          PROVE  \E p \in 0..now' : Done(p)' /\ p <= Startup /\ y[2] <= p
      <4>1. CASE y \in U
        BY <2>6, <2>8, <2>11
      <4>2. CASE y \notin U
        BY <4>2, <1>7, <2>5, <2>7
      <4> QED BY <4>1, <4>2
    <3>3. Apart(S, {}, T)'
      BY <1>2, <2>5, <3>1, <3>2 DEF Apart
    <3>4. Apart(Seen(n, s), {}, T)'
      BY <3>3, <2>4 DEF Apart
    <3> QED BY <2>2, <2>4, <2>5, <2>9, <2>10, <2>11, <3>4
  <2>12. CASE e.time > Startup
    <3> DEFINE V == U \cup T
    <3>1. IsFiniteSet(U) /\ IsFiniteSet(T)
      BY <2>5, FS_Subset
    <3>2. Cardinality(V) = Cardinality(U) + Cardinality(T)
      <4>1. Cardinality(V) = Cardinality(U) + Cardinality(T) - Cardinality(U \cap T)
        BY <3>1, FS_Union
      <4>2. Cardinality(U \cap T) = 0
        BY <2>5, <2>10
      <4>3. Cardinality(U) \in Nat /\ Cardinality(T) \in Nat
        BY <3>1, FS_CardinalityType
      <4> HIDE DEF V
      <4> QED BY <4>1, <4>2, <4>3
    <3>3. \A y \in V : \E p \in 0..now' : Done(p)' /\ p > Startup /\ p - Timeout <= y[2] /\ y[2] <= p
      <4>1. \A y \in U : e.time - Timeout <= y[2] /\ y[2] <= e.time
        BY <1>1, <1>2, <2>5, <2>6
      <4>2. \A y \in U : \E p \in 0..now' : Done(p)' /\ p > Startup /\ p - Timeout <= y[2] /\ y[2] <= p
        BY <4>1, <2>8, <2>12
      <4>3. \A y \in T : \E p \in 0..now' : Done(p)' /\ p > Startup /\ p - Timeout <= y[2] /\ y[2] <= p
        BY <1>7, <2>5, <2>7
      <4> QED BY <4>2, <4>3
    <3>4. \A y \in S \ V : \E p \in 0..now' : Done(p)' /\ p <= Startup /\ y[2] <= p
      BY <1>7, <2>5, <2>7
    <3>5. V \subseteq S
      BY <2>5
    <3> HIDE DEF V
    <3>6. Apart(S, {}, V)'
      BY <1>2, <2>5, <3>3, <3>4, <3>5 DEF Apart
    <3>7. Apart(Seen(n, s), {}, V)'
      BY <3>6, <2>4 DEF Apart
    <3>8. totals'[n][s] = Cardinality(V)
      <4>1. totals'[n][s] = totals[n][s] + counts[n][s]
        BY <1>1, <1>2, <2>9, <2>12
      <4>2. Cardinality(U) \in Nat /\ Cardinality(T) \in Nat
        BY <3>1, FS_CardinalityType
      <4> QED BY <4>1, <4>2, <2>2, <3>2
    <3> QED BY <2>4, <2>9, <2>10, <3>5, <3>7, <3>8
  <2> QED BY <1>1, <1>2, <2>11, <2>12
<1> QED BY <1>5, <1>8 DEF Accounted

(* The final statistics.  A poll that is in time for what a node counted   *)
(* put it into the totals, or is the last one.                             *)
LEMMA FinishExact ==
    ASSUME TypeOK, ParsedAsMeant, TimeInv, Polling, Accounted, Finish
    PROVE  StatsExact'
<1>1. /\ phase = "stopped" /\ UNCHANGED input /\ UNCHANGED counted
      /\ totals' = IF FinalPoll THEN Polled(EndTime) ELSE totals
  BY DEF Finish
<1>2. /\ Timeout' = Timeout /\ Stop' = Stop /\ FinalPoll' = FinalPoll /\ EndTime' = EndTime
      /\ config' = config /\ Startup' = Startup /\ counted' = counted
  BY <1>1, SameInput
<1>3. /\ Timeout \in Nat /\ Startup \in Nat /\ EndTime \in Nat /\ Stop \in Nat /\ now \in Nat /\ now <= Stop
  BY <1>1, OptionsTyped, TimesAre DEF TypeOK, TimeInv, Ends
<1>4. Collects => /\ NextPoll \in Nat /\ NextPoll % Timeout = 0 /\ LastPoll = NextPoll - Timeout
                  /\ NextPoll >= Stop /\ Timeout # 0
  <2>1. \A f \in agenda : f.time >= Stop
    BY <1>1 DEF TimeInv, Ends
  <2>2. Collects => Event("collector", NextPoll, 0) \in agenda
    BY <1>1, PollingIs
  <2>3. Collects => NextPoll >= Stop
    BY <2>1, <2>2 DEF Event
  <2> QED BY <1>1, <2>3, PollingIs
<1>5. \A p : Done(p) => Collects /\ p \in Nat /\ p % Timeout = 0 /\ p <= LastPoll
  <2>1. ~Collects => LastPoll = -1
    BY DEF LastPoll
  <2> QED BY <2>1 DEF Done
<1>6. \A last \in Int : \A p : p \in PollTimes(last) <=> Collects /\ p \in 0..last /\ p % Timeout = 0
  BY DEF PollTimes, Collects
<1>7. Stop - 1 \in Int /\ Stop \in Int
  BY <1>3
(* A poll before the stop was made.                                        *)
<1>8. ASSUME NEW p \in PollTimes(Stop - 1) PROVE Collects /\ p \in Nat /\ p <= LastPoll /\ p % Timeout = 0
  <2>1. Collects /\ p \in 0..Stop - 1 /\ p % Timeout = 0
    BY <1>6, <1>7
  <2>2. p < NextPoll /\ p \in Nat
    BY <2>1, <1>3, <1>4
  <2>3. p + Timeout <= NextPoll
    BY <2>1, <2>2, <1>3, <1>4, MultiplesApart
  <2> QED BY <2>1, <2>2, <2>3, <1>3, <1>4
<1> SUFFICES ASSUME NEW n \in Node, NEW s \in Statistic
             PROVE  /\ totals'[n][s] >= Cardinality({c \in Seen(n, s) : Surely(c[2])})
                    /\ totals'[n][s] <= Cardinality({c \in Seen(n, s) : ~Never(c[2])})
  <2>1. \A t : (Surely(t)' <=> Surely(t)) /\ (Never(t)' <=> Never(t))
    BY <1>2 DEF Surely, Never, PollTimes
  <2>2. \A m, z : Seen(m, z)' = Seen(m, z)
    BY <1>1, SameSeen
  <2> QED BY <1>2, <2>1, <2>2 DEF StatsExact
<1> DEFINE S == Seen(n, s)
           must == {c \in S : Surely(c[2])}
           may == {c \in S : ~Never(c[2])}
           final == FinalPoll /\ EndTime > Startup
<1>9. PICK U \in SUBSET S : \E T \in SUBSET S :
         Apart(S, U, T) /\ counts[n][s] = Cardinality(U) /\ totals[n][s] = Cardinality(T)
  BY <1>1 DEF Accounted
<1>10. PICK T \in SUBSET S :
          Apart(S, U, T) /\ counts[n][s] = Cardinality(U) /\ totals[n][s] = Cardinality(T)
  BY <1>9
<1>11. /\ IsFiniteSet(S) /\ U \cap T = {}
       /\ \A y \in U : y[2] >= LastPoll
       /\ \A y \in T : \E p \in 0..now : Done(p) /\ p > Startup /\ p - Timeout <= y[2] /\ y[2] <= p
       /\ \A y \in S \ (U \cup T) : \E p \in 0..now : Done(p) /\ p <= Startup /\ y[2] <= p
  BY <1>10 DEF Apart
<1>12. \A y \in S : y[2] \in Nat
  BY DEF Seen, TypeOK
<1>13. ASSUME NEW y \in must PROVE y \in T \/ (y \in U /\ final)
  <2>1. y \in S /\ Surely(y[2])
    OBVIOUS
  <2>2. CASE y \notin U \cup T
    <3>1. PICK p \in 0..now : Done(p) /\ p <= Startup /\ y[2] <= p
      BY <1>11, <2>1, <2>2
    <3>2. p \in PollTimes(Stop)
      BY <3>1, <1>3, <1>5, <1>6, <1>7
    <3>3. p > Startup
      BY <2>1, <3>1, <3>2 DEF Surely
    <3> QED BY <3>1, <3>3, <1>3
  <2>3. CASE y \in U /\ ~final
    <3>1. PICK p \in PollTimes(Stop - 1) : y[2] < p
      BY <2>1, <2>3 DEF Surely
    <3>2. p <= LastPoll /\ p \in Nat /\ LastPoll \in Int
      BY <1>3, <1>4, <1>8
    <3>3. y[2] >= LastPoll /\ y[2] \in Nat
      BY <1>11, <1>12, <2>3
    <3> QED BY <3>1, <3>2, <3>3
  <2> QED BY <2>2, <2>3
<1>14. ASSUME NEW y \in T PROVE y \in may
  <2>1. PICK q \in 0..now : Done(q) /\ q > Startup /\ q - Timeout <= y[2] /\ y[2] <= q
    BY <1>11
  <2>2. ASSUME NEW p \in PollTimes(Stop - 1), y[2] < p, p <= Startup PROVE FALSE
    <3>1. p \in Nat /\ q \in Nat /\ p % Timeout = 0 /\ q % Timeout = 0 /\ Timeout \in Nat \ {0}
      BY <1>3, <1>4, <1>5, <1>8, <2>1
    <3>2. p < q
      BY <1>3, <2>1, <2>2, <3>1
    <3>3. p + Timeout <= q
      BY <3>1, <3>2, MultiplesApart
    <3> QED BY <1>12, <2>1, <2>2, <3>1, <3>3
  <2> QED BY <2>2 DEF Never
<1>15. ASSUME NEW y \in U PROVE y \in may
  <2>1. ASSUME NEW p \in PollTimes(Stop - 1), y[2] < p PROVE FALSE
    <3>1. p <= LastPoll /\ p \in Nat /\ LastPoll \in Int
      BY <1>3, <1>4, <1>8
    <3>2. y[2] >= LastPoll /\ y[2] \in Nat
      BY <1>11, <1>12
    <3> QED BY <2>1, <3>1, <3>2
  <2> QED BY <2>1 DEF Never
<1>16. must \subseteq S /\ may \subseteq S
  OBVIOUS
<1> HIDE DEF must, may
<1>18. IsFiniteSet(U) /\ IsFiniteSet(T) /\ IsFiniteSet(may) /\ IsFiniteSet(must)
  BY <1>11, <1>16, FS_Subset
<1>19. Cardinality(U) \in Nat /\ Cardinality(T) \in Nat /\ Cardinality(may) \in Nat /\ Cardinality(must) \in Nat
  BY <1>18, FS_CardinalityType
<1>20. totals'[n][s] = IF final THEN totals[n][s] + counts[n][s] ELSE totals[n][s]
  <2>1. Polled(EndTime)[n][s] = IF EndTime <= Startup THEN totals[n][s] ELSE totals[n][s] + counts[n][s]
    BY PolledTypes DEF TypeOK
  <2> QED BY <1>1, <1>3, <2>1
<1>21. totals'[n][s] >= Cardinality(must) /\ totals'[n][s] <= Cardinality(may)
  <2>1. CASE final
    <3> DEFINE V == U \cup T
    <3>1. Cardinality(V) = Cardinality(U) + Cardinality(T) - Cardinality(U \cap T) /\ IsFiniteSet(V)
      BY <1>18, FS_Union
    <3>2. Cardinality(U \cap T) = 0
      BY <1>11, FS_EmptySet
    <3>3. must \subseteq V /\ V \subseteq may
      BY <1>13, <1>14, <1>15
    <3> HIDE DEF V
    <3>4. Cardinality(must) <= Cardinality(V) /\ Cardinality(V) <= Cardinality(may)
      BY <3>1, <3>3, <1>18, FS_Subset
    <3>5. totals'[n][s] = Cardinality(V)
      BY <1>10, <1>19, <1>20, <2>1, <3>1, <3>2
    <3> QED BY <3>4, <3>5, <1>19
  <2>2. CASE ~final
    <3>1. must \subseteq T /\ T \subseteq may
      BY <1>13, <1>14, <2>2
    <3>2. Cardinality(must) <= Cardinality(T) /\ Cardinality(T) <= Cardinality(may)
      BY <3>1, <1>18, FS_Subset
    <3>3. totals'[n][s] = Cardinality(T)
      BY <1>10, <1>20, <2>2
    <3> QED BY <3>2, <3>3, <1>19
  <2> QED BY <2>1, <2>2
<1> QED BY <1>21 DEF must, may

LEMMA QuietStats ==
    ASSUME TypeOK, TimeInv, StatsInv, phase \in {"running", "stopped"},
           phase' \in {"running", "stopped", "failed"},
           UNCHANGED <<input, counts, totals, counted>>, Polls' = Polls \/ phase' = "failed",
           now' \in Nat, now <= now'
    PROVE  StatsInv'
<1>1. Polling /\ Accounted /\ UNCHANGED input
  BY DEF StatsInv
<1>2. now \in Nat /\ Timeout \in Nat /\ (Collects => NextPoll \in Nat)
  BY <1>1, PollingIs
<1>3. CASE phase' = "failed"
  BY <1>3 DEF StatsInv, StatsExact
<1>4. CASE phase' # "failed"
  <2>1. Polling'
    BY <1>1, <1>2, <1>4, OthersPolling
  <2>2. Accounted'
    BY <1>1, <1>2, <1>4, OthersAccounted
  <2> QED BY <2>1, <2>2 DEF StatsInv, StatsExact
<1> QED BY <1>3, <1>4

LEMMA DrivePolls ==
    ASSUME TypeOK, ParsedAsMeant, TimeInv, NEW e \in agenda, Drive(e)
    PROVE  Polls' = Polls
<1> DEFINE b == Max(Batch(e.time))
           S == {NodeEvent(i) : i \in next..b}
                  \cup (IF next' = 0 THEN {} ELSE {Event("driver", events[next'].time, 0)})
<1>1. agenda' = (agenda \ {e}) \cup S
  BY DriveBatch
<1>2. e.to = "driver"
  BY DEF Drive
<1>3. \A f \in S : f.to # "collector"
  BY DEF NodeEvent, Event
<1> HIDE DEF S
<1> QED BY <1>1, <1>2, <1>3, SamePolls

LEMMA HandlePolls ==
    ASSUME TypeOK, TimeInv, NEW e \in agenda, Handle(e)
    PROVE  Polls' = Polls
<1>1. e.to = "node"
  BY DEF Handle
<1>2. \/ agenda' = agenda \ {e}
      \/ \E n \in Node, d \in Delays :
            agenda' = (agenda \ {e})
               \cup {Interest(e.time + d, e.id, served[n][Name(events[e.id].arg)])}
  BY HandledEvent, Zenon
<1>3. CASE agenda' = agenda \ {e}
  <2> DEFINE V == {}
  <2>1. agenda' = (agenda \ {e}) \cup V /\ \A f \in V : f.to # "collector"
    BY <1>3
  <2> HIDE DEF V
  <2> QED BY <1>1, <2>1, SamePolls
<1>4. ASSUME NEW n \in Node, NEW d \in Delays,
             agenda' = (agenda \ {e})
                \cup {Interest(e.time + d, e.id, served[n][Name(events[e.id].arg)])}
      PROVE  Polls' = Polls
  <2> DEFINE V == {Interest(e.time + d, e.id, served[n][Name(events[e.id].arg)])}
  <2>1. \A f \in V : f.to # "collector"
    BY DEF Interest
  <2>2. agenda' = (agenda \ {e}) \cup V
    BY <1>4
  <2> HIDE DEF V
  <2> QED BY <1>1, <2>1, <2>2, SamePolls
<1> QED BY <1>2, <1>3, <1>4

LEMMA StepStats ==
    ASSUME TypeOK, ParsedAsMeant, TimeInv, StatsInv, TypeOK', [Next]_vars
    PROVE  StatsInv'
<1>0. now \in Nat /\ now' \in Nat
  BY DEF TypeOK
<1>1. ASSUME NEW e \in agenda, Drive(e)
      PROVE  StatsInv'
  <2>1. phase = "running" /\ phase' \in {"running", "failed"} /\ now' = e.time
    BY <1>1, DriveBatch
  <2>2. e.to = "driver" /\ UNCHANGED <<input, counts, totals, counted>>
    BY <1>1 DEF Drive
  <2>3. now <= now'
    BY <2>1, <2>2, DriverEvent
  <2>4. Polls' = Polls
    BY <1>1, DrivePolls
  <2> QED BY <1>0, <2>1, <2>2, <2>3, <2>4, QuietStats
<1>2. ASSUME NEW e \in agenda, Handle(e)
      PROVE  StatsInv'
  <2>1. /\ phase = "running" /\ phase' = "running" /\ now' = now
        /\ UNCHANGED <<input, counts, totals, counted>>
    BY <1>2, HandledEvent
  <2>2. Polls' = Polls
    BY <1>2, HandlePolls
  <2> QED BY <1>0, <2>1, <2>2, QuietStats
<1>3. ASSUME NEW e \in agenda, SearchInCache(e)
      PROVE  StatsInv'
  <2>1. phase = "running" /\ phase' = "running"
    BY <1>3, SearchEvent
  <2>2. Polling' /\ Accounted'
    BY <1>3, <2>1, SearchAccounted DEF StatsInv
  <2> QED BY <2>1, <2>2 DEF StatsInv, StatsExact
<1>4. ASSUME NEW e \in agenda, Poll(e)
      PROVE  StatsInv'
  <2>1. phase = "running" /\ phase' = "running"
    BY <1>4, PollEvent
  <2>2. Polling' /\ Accounted'
    BY <1>4, <2>1, PollAccounted DEF StatsInv
  <2> QED BY <2>1, <2>2 DEF StatsInv, StatsExact
<1>5. ASSUME NEW e \in agenda, DriveNobody(e)
      PROVE  StatsInv'
  BY <1>5 DEF DriveNobody, StatsInv, StatsExact
<1>6. ASSUME NEW e \in agenda, Kill(e)
      PROVE  StatsInv'
  <2>1. /\ Execute(e, {}) /\ e.to = "killer" /\ phase = "running" /\ phase' = "stopped"
        /\ UNCHANGED <<input, counts, totals, counted>>
    BY <1>6 DEF Kill, Execute
  <2>2. now <= now'
    BY <2>1, ExecuteInTime
  <2> DEFINE S == {}
  <2>3. agenda' = (agenda \ {e}) \cup S /\ \A f \in S : f.to # "collector"
    BY <2>1 DEF Execute
  <2> HIDE DEF S
  <2>4. Polls' = Polls
    BY <2>1, <2>3, SamePolls
  <2> QED BY <1>0, <2>1, <2>2, <2>4, QuietStats
<1>7. ASSUME StopTime
      PROVE  StatsInv'
  <2>1. /\ phase = "running" /\ phase' = "stopped" /\ now' = now /\ agenda' = agenda
        /\ UNCHANGED <<input, counts, totals, counted>>
    BY <1>7 DEF StopTime
  <2>2. Polls' = Polls
    BY <2>1 DEF Polls
  <2> QED BY <1>0, <2>1, <2>2, QuietStats
<1>8. ASSUME Finish
      PROVE  StatsInv'
  <2>1. /\ phase = "stopped" /\ phase' = "final" /\ now' = now /\ agenda' = agenda
        /\ UNCHANGED input
    BY <1>8 DEF Finish
  <2>2. Polls' = Polls
    BY <2>1 DEF Polls
  <2>3. Polling /\ Accounted
    BY <2>1 DEF StatsInv
  <2>4. Polling'
    BY <1>0, <2>1, <2>2, <2>3, PollingIs, OthersPolling
  <2>5. StatsExact'
    BY <1>8, <2>3, FinishExact
  <2> QED BY <2>1, <2>4, <2>5 DEF StatsInv
<1>9. ASSUME UNCHANGED vars
      PROVE  StatsInv'
  <2>1. /\ UNCHANGED <<input, now, agenda, counts, totals, phase, counted>>
    BY <1>9 DEF vars
  <2>2. Polls' = Polls
    BY <2>1 DEF Polls
  <2>3. CASE phase = "failed"
    BY <2>1, <2>3 DEF StatsInv, StatsExact
  <2>4. CASE phase = "final"
    <3>1. Polling'
      BY <1>0, <2>1, <2>2, <2>4, PollingIs, OthersPolling DEF StatsInv
    <3>2. StatsExact'
      <4>1. \A n, s : Seen(n, s)' = Seen(n, s)
        BY <2>1, SameSeen
      <4>2. \A t : (Surely(t)' <=> Surely(t)) /\ (Never(t)' <=> Never(t))
        BY <2>1, SameInput DEF Surely, Never, PollTimes
      <4> QED BY <2>1, <4>1, <4>2 DEF StatsInv, StatsExact
    <3> QED BY <2>1, <2>4, <3>1, <3>2 DEF StatsInv
  <2>5. CASE phase \in {"running", "stopped"}
    BY <1>0, <2>1, <2>2, <2>5, QuietStats
  <2> QED BY <2>3, <2>4, <2>5 DEF TypeOK
<1> QED BY <1>1, <1>2, <1>3, <1>4, <1>5, <1>6, <1>7, <1>8, <1>9 DEF Next

-----------------------------------------------------------------------------
(* The delivery oracle.                                                    *)

LEMMA UpToIs ==
    ASSUME TypeOK, ParsedAsMeant
    PROVE  /\ UpTo \in Nat /\ UpTo <= Len(events) /\ Len(events) \in Nat /\ Index = 1..Len(events)
           /\ \A i \in Index : Read(i) <=> i <= UpTo
<1>1. Len(events) \in Nat /\ Index = 1..Len(events) /\ next \in Index \cup {0}
  BY EventsAre DEF TypeOK
<1>2. UpTo \in Nat /\ UpTo <= Len(events)
  BY <1>1 DEF UpTo
<1>3. \A i \in Index : Read(i) <=> i <= UpTo
  BY <1>1 DEF UpTo, Read
<1> QED BY <1>1, <1>2, <1>3

LEMMA OracleCounts ==
    ASSUME TypeOK, ParsedAsMeant, OracleInv
    PROVE  OracleAccounts
<1>1. \A i \in Index : events[i].kind = "send_message" =>
         SentIn(oracle, i) + aged[i] + Cardinality(delivered \cap {i})
           = IF i <= UpTo THEN Cardinality(Expects(i)) ELSE 0
  BY DEF OracleInv, OracleAt
<1>2. \A i : SentIn(oracle, i) = Awaited(i)
  BY DEF SentIn, Awaited
<1>3. \A i \in Index : (next = 0 \/ i < next) <=> i <= UpTo
  BY UpToIs DEF Read
<1> QED BY <1>1, <1>2, <1>3 DEF OracleAccounts

(* The nodes whose predicate the oracle finds to match are those that      *)
(* should get the message.                                                 *)
Matching(pm, m) == {n \in Node : Matches(pm[n], m)}

LEMMA ExpectsIs ==
    ASSUME Len(events) \in Nat, Index = 1..Len(events), NEW k \in Nat, k + 1 \in Index, NEW pm,
           \A n \in Node : LastSet(n, pm[n], k)
    PROVE  Matching(pm, events[k + 1].arg) = Expects(k + 1)
<1> DEFINE m == events[k + 1].arg
<1> SUFFICES ASSUME NEW n \in Node PROVE Matches(pm[n], m) <=> n \in Expects(k + 1)
  BY DEF Expects, Matching
<1>1. n \in Expects(k + 1) <=> \E j \in Index :
         /\ j <= k /\ SetsPredicate(n, j) /\ Matches(events[j].arg, m)
         /\ \A l \in j + 1 .. k : ~SetsPredicate(n, l)
  <2>1. \A j \in Index : j < k + 1 <=> j <= k
    OBVIOUS
  <2>2. (k + 1) - 1 = k
    OBVIOUS
  <2> QED BY <2>1, <2>2 DEF Expects, SetsPredicate
<1>2. CASE \E j \in Index : /\ j <= k /\ SetsPredicate(n, j) /\ pm[n] = events[j].arg
                            /\ \A l \in Index : j < l /\ l <= k => ~SetsPredicate(n, l)
  <2>1. PICK j \in Index : /\ j <= k /\ SetsPredicate(n, j) /\ pm[n] = events[j].arg
                           /\ \A l \in Index : j < l /\ l <= k => ~SetsPredicate(n, l)
    BY <1>2
  <2>2. ASSUME Matches(pm[n], m) PROVE n \in Expects(k + 1)
    <3>1. \A l \in j + 1 .. k : ~SetsPredicate(n, l)
      <4> SUFFICES ASSUME NEW l \in j + 1 .. k, SetsPredicate(n, l) PROVE FALSE
        OBVIOUS
      <4>1. l \in Nat /\ j < l /\ l <= k
        OBVIOUS
      <4>2. l \in Index
        BY <4>1
      <4> QED BY <2>1, <4>1, <4>2
    <3> QED BY <1>1, <2>1, <2>2, <3>1
  <2>3. ASSUME n \in Expects(k + 1) PROVE Matches(pm[n], m)
    <3>1. PICK i \in Index : /\ i <= k /\ SetsPredicate(n, i) /\ Matches(events[i].arg, m)
                             /\ \A l \in i + 1 .. k : ~SetsPredicate(n, l)
      BY <1>1, <2>3
    <3>2. ~(i < j)
      BY <2>1, <3>1
    <3>3. ~(j < i)
      BY <2>1, <3>1
    <3>4. i = j
      BY <3>2, <3>3
    <3> QED BY <2>1, <3>1, <3>4
  <2> QED BY <2>2, <2>3
<1>3. CASE pm[n] = {} /\ \A l \in Index : l <= k => ~SetsPredicate(n, l)
  BY <1>1, <1>3 DEF Matches
<1> QED BY <1>2, <1>3 DEF LastSet

(* An event that the oracle is told of.                                    *)
LEMMA TellSets ==
    ASSUME NEW o \in Oracle, NEW i \in Index, events[i].node \in Node, events[i].kind = "set_predicate"
    PROVE  /\ Tell(o, i).windows = o.windows /\ Tell(o, i).dirty = TRUE
           /\ \A n \in Node : Tell(o, i).predicate_map[n] =
                 IF n = events[i].node THEN events[i].arg ELSE o.predicate_map[n]
<1> DEFINE c == Tell(o, i)
           pm == [o.predicate_map EXCEPT ![events[i].node] = events[i].arg]
<1>1. c = [o EXCEPT !.predicate_map = pm, !.dirty = TRUE]
  BY DEF Tell, SetOracle
<1>2. o.predicate_map \in [Node -> SUBSET Filters]
  BY DEF Oracle, Predicate
<1>3. \A n \in Node : pm[n] = IF n = events[i].node THEN events[i].arg ELSE o.predicate_map[n]
  BY <1>2
<1> HIDE DEF pm, c
<1>4. c.windows = o.windows /\ c.dirty = TRUE /\ c.predicate_map = pm
  BY <1>1 DEF Oracle
<1> QED BY <1>3, <1>4 DEF c

LEMMA TellSent ==
    ASSUME NEW o \in Oracle, NEW i \in Index, events[i].kind = "send_message",
           ~o.dirty => o.fwd_table = o.predicate_map
    PROVE  /\ Tell(o, i).dirty = FALSE /\ Tell(o, i).predicate_map = o.predicate_map
           /\ Tell(o, i).fwd_table = o.predicate_map
           /\ Tell(o, i).windows[2] = o.windows[2] /\ Tell(o, i).windows[3] = o.windows[3]
           /\ Tell(o, i).windows[1].false = o.windows[1].false
           /\ \A j \in Index : Tell(o, i).windows[1].sent[j] =
                 IF j = i THEN Cardinality(Matching(o.predicate_map, events[i].arg))
                 ELSE o.windows[1].sent[j]
<1> DEFINE c == Tell(o, i)
           x == Cardinality(Matching(o.predicate_map, events[i].arg))
           t == FwdTable(o)
<1>1. t = o.predicate_map
  BY DEF FwdTable, Oracle
<1>2. c = [o EXCEPT !.fwd_table = t, !.dirty = FALSE,
                      !.windows = [o.windows EXCEPT ![1].sent[i] = x]]
  BY <1>1 DEF Tell, Sent, Matching
<1> DEFINE ws == [o.windows EXCEPT ![1].sent[i] = x]
<1>0. ws = [o.windows EXCEPT ![1].sent[i] = x]
  OBVIOUS
<1>3. c = [o EXCEPT !.fwd_table = t, !.dirty = FALSE, !.windows = ws]
  BY <1>2
<1> HIDE DEF t, ws, x, c
<1>4. /\ c.dirty = FALSE /\ c.predicate_map = o.predicate_map /\ c.fwd_table = t
      /\ c.windows = ws
  BY <1>3 DEF Oracle
<1>5. o.windows \in [Windows -> Window] /\ Windows = 1..3
  BY DEF Oracle, Windows
<1>6. c.windows[1] = [o.windows[1] EXCEPT !.sent[i] = x]
      /\ c.windows[2] = o.windows[2] /\ c.windows[3] = o.windows[3]
  BY <1>0, <1>4, <1>5
<1>7. o.windows[1] \in Window
  BY <1>5
<1>8. c.windows[1].false = o.windows[1].false
      /\ \A j \in Index : c.windows[1].sent[j] = IF j = i THEN x ELSE o.windows[1].sent[j]
  BY <1>6, <1>7 DEF Window
<1> QED BY <1>1, <1>4, <1>6, <1>8 DEF c, x

LEMMA TellOther ==
    ASSUME NEW o, NEW i, events[i].kind \notin {"set_predicate", "send_message"}
    PROVE  Tell(o, i) = o
BY DEF Tell

LEMMA SentTypes ==
    ASSUME NEW o \in Oracle, NEW j \in Index
    PROVE  o.windows[1].sent[j] \in Nat /\ o.windows[2].sent[j] \in Nat /\ o.windows[3].sent[j] \in Nat
<1>1. o.windows \in [Windows -> Window] /\ 1 \in Windows /\ 2 \in Windows /\ 3 \in Windows
  BY DEF Oracle, Windows
<1>2. o.windows[1] \in Window /\ o.windows[2] \in Window /\ o.windows[3] \in Window
  BY <1>1
<1> QED BY <1>2 DEF Window

LEMMA TellAt ==
    ASSUME TypeOK, ParsedAsMeant, NEW k \in Nat, NEW i \in Index, i = k + 1, events[i].node \in Node,
           NEW o \in Oracle, OracleAt(o, k), aged[i] = 0, i \notin delivered, NEW c, c = Tell(o, i)
    PROVE  /\ OracleAt(c, i)
           /\ c.windows[2] = o.windows[2] /\ c.windows[3] = o.windows[3]
           /\ \A w \in Windows : c.windows[w].false = o.windows[w].false
<1>1. Len(events) \in Nat /\ Index = 1..Len(events)
  BY UpToIs
<1>2. /\ ~o.dirty => o.fwd_table = o.predicate_map
      /\ \A n \in Node : LastSet(n, o.predicate_map[n], k)
      /\ \A j \in Index : j > k => \A w \in Windows : o.windows[w].sent[j] = 0
      /\ \A j \in Index : events[j].kind = "send_message" =>
            SentIn(o, j) + aged[j] + Cardinality(delivered \cap {j})
              = IF j <= k THEN Cardinality(Expects(j)) ELSE 0
  BY DEF OracleAt
<1>3. ASSUME NEW n \in Node, NEW p, LastSet(n, p, k), ~SetsPredicate(n, i)
      PROVE  LastSet(n, p, i)
  <2>1. \A m \in Index : m <= i <=> m <= k \/ m = i
    BY <1>1
  <2>2. i > k
    OBVIOUS
  <2> QED BY <1>1, <1>3, <2>1, <2>2 DEF LastSet
<1>4. \A j \in Index : j > i => j > k
  BY <1>1
<1>5. \A j \in Index : j # i => (j <= i <=> j <= k)
  BY <1>1
<1>6. CASE events[i].kind = "set_predicate"
  <2>1. /\ c.windows = o.windows /\ c.dirty = TRUE
        /\ \A n \in Node : c.predicate_map[n] =
              IF n = events[i].node THEN events[i].arg ELSE o.predicate_map[n]
    <3>1. /\ Tell(o, i).windows = o.windows /\ Tell(o, i).dirty = TRUE
          /\ \A n \in Node : Tell(o, i).predicate_map[n] =
                IF n = events[i].node THEN events[i].arg ELSE o.predicate_map[n]
      BY <1>6, TellSets, Zenon
    <3> QED BY <3>1
  <2>2. ASSUME NEW n \in Node PROVE LastSet(n, c.predicate_map[n], i)
    <3>1. CASE n = events[i].node
      <4>1. SetsPredicate(n, i) /\ i <= i
        BY <1>1, <1>6, <3>1 DEF SetsPredicate
      <4>2. \A m \in Index : i < m /\ m <= i => ~SetsPredicate(n, m)
        BY <1>1
      <4> QED BY <2>1, <3>1, <4>1, <4>2 DEF LastSet
    <3>2. CASE n # events[i].node
      <4>1. ~SetsPredicate(n, i)
        BY <3>2 DEF SetsPredicate
      <4> QED BY <1>2, <1>3, <2>1, <3>2, <4>1
    <3> QED BY <3>1, <3>2
  <2>3. \A j \in Index : events[j].kind = "send_message" =>
            SentIn(c, j) + aged[j] + Cardinality(delivered \cap {j})
              = IF j <= i THEN Cardinality(Expects(j)) ELSE 0
    BY <1>2, <1>5, <1>6, <2>1 DEF SentIn
  <2> QED BY <1>2, <1>4, <2>1, <2>2, <2>3 DEF OracleAt
<1>7. CASE events[i].kind = "send_message"
  <2> DEFINE x == Cardinality(Matching(o.predicate_map, events[i].arg))
  <2>1. /\ c.dirty = FALSE /\ c.predicate_map = o.predicate_map /\ c.fwd_table = o.predicate_map
        /\ c.windows[2] = o.windows[2] /\ c.windows[3] = o.windows[3]
        /\ c.windows[1].false = o.windows[1].false
        /\ \A j \in Index : c.windows[1].sent[j] = IF j = i THEN x ELSE o.windows[1].sent[j]
    BY <1>2, <1>7, TellSent
  <2>2. x = Cardinality(Expects(i))
    BY <1>1, <1>2, ExpectsIs
  <2>3. x \in Nat
    BY NodeAssumption, FS_Subset, FS_CardinalityType DEF Matching
  <2> HIDE DEF x
  <2>4. \A n \in Node : LastSet(n, c.predicate_map[n], i)
    <3>1. \A n \in Node : ~SetsPredicate(n, i)
      BY <1>7 DEF SetsPredicate
    <3> QED BY <1>2, <1>3, <2>1, <3>1
  <2>5. ASSUME NEW j \in Index, j > i, NEW w \in Windows PROVE c.windows[w].sent[j] = 0
    <3>1. o.windows[w].sent[j] = 0
      BY <1>2, <1>4, <2>5
    <3>2. j # i /\ (w = 1 \/ w = 2 \/ w = 3)
      BY <1>1, <2>5 DEF Windows
    <3> QED BY <2>1, <3>1, <3>2
  <2>6. ASSUME NEW j \in Index, events[j].kind = "send_message"
        PROVE  SentIn(c, j) + aged[j] + Cardinality(delivered \cap {j})
                 = IF j <= i THEN Cardinality(Expects(j)) ELSE 0
    <3>1. CASE j # i
      <4>1. SentIn(c, j) = SentIn(o, j)
        BY <2>1, <3>1 DEF SentIn
      <4> QED BY <1>2, <1>5, <2>6, <3>1, <4>1
    <3>2. CASE j = i
      <4>1. i > k /\ i <= i
        BY <1>1
      <4>2. o.windows[2].sent[i] = 0 /\ o.windows[3].sent[i] = 0
        BY <1>2, <4>1 DEF Windows
      <4>3. SentIn(c, i) = x + 0 + 0
        BY <2>1, <4>2 DEF SentIn
      <4>4. Cardinality(delivered \cap {i}) = 0
        <5>1. delivered \cap {i} = {}
          OBVIOUS
        <5> QED BY <5>1, FS_EmptySet
      <4>5. SentIn(c, i) + aged[i] + Cardinality(delivered \cap {i}) = x
        BY <2>3, <4>3, <4>4
      <4> QED BY <2>2, <3>2, <4>1, <4>5
    <3> QED BY <3>1, <3>2
  <2>7. \A w \in Windows : c.windows[w].false = o.windows[w].false
    BY <2>1 DEF Windows
  <2> QED BY <2>1, <2>4, <2>5, <2>6, <2>7 DEF OracleAt
<1>8. CASE events[i].kind \notin {"set_predicate", "send_message"}
  <2>1. c = o
    BY <1>8, TellOther
  <2>2. \A n \in Node : LastSet(n, o.predicate_map[n], i)
    <3>1. \A n \in Node : ~SetsPredicate(n, i)
      BY <1>8 DEF SetsPredicate
    <3> QED BY <1>2, <1>3, <3>1
  <2>3. \A j \in Index : events[j].kind = "send_message" =>
            SentIn(o, j) + aged[j] + Cardinality(delivered \cap {j})
              = IF j <= i THEN Cardinality(Expects(j)) ELSE 0
    BY <1>2, <1>5, <1>8
  <2> QED BY <1>2, <1>4, <2>1, <2>2, <2>3 DEF OracleAt
<1> QED BY <1>6, <1>7, <1>8

(* The oracle when it was told of a batch.                                 *)
LEMMA ToldOf ==
    ASSUME TypeOK, ParsedAsMeant, OracleInv, NEW b \in Nat, next \in Nat, next # 0, next <= b,
           \A i \in next .. b : i \in Index /\ events[i].node \in Node
    PROVE  /\ OracleAt(Told(b), b)
           /\ Told(b).windows[2] = oracle.windows[2] /\ Told(b).windows[3] = oracle.windows[3]
           /\ \A w \in Windows : Told(b).windows[w].false = oracle.windows[w].false
<1>1. oracle \in Oracle
  BY DEF TypeOK
<1>2. UpTo = next - 1
  BY DEF UpTo
<1>3. PICK f : /\ f[next - 1] = oracle
               /\ \A i \in next .. b : f[i] = Tell(f[i - 1], i)
               /\ Told(b) = f[b]
  BY ToldIs
<1>4. \A i \in next - 1 .. b : f[i] \in Oracle
  BY <1>1, <1>3, ToldTypes
<1> DEFINE Good(k) ==
             /\ OracleAt(f[k], k)
             /\ f[k].windows[2] = oracle.windows[2] /\ f[k].windows[3] = oracle.windows[3]
             /\ \A w \in Windows : f[k].windows[w].false = oracle.windows[w].false
           T == {n \in Nat : next - 1 + n <= b /\ ~Good(next - 1 + n)}
<1>5. Good(next - 1)
  BY <1>2, <1>3 DEF OracleInv
<1>6. ASSUME NEW i \in next .. b, Good(i - 1) PROVE Good(i)
  <2>1. i \in Index /\ events[i].node \in Node /\ i - 1 \in Nat /\ i = (i - 1) + 1
    OBVIOUS
  <2>2. f[i - 1] \in Oracle /\ f[i] = Tell(f[i - 1], i)
    BY <1>3, <1>4
  <2>3. aged[i] = 0 /\ i \notin delivered
    BY <1>2, <2>1 DEF OracleInv
  <2>4. PICK o : o = f[i - 1]
    OBVIOUS
  <2>5. PICK c : c = f[i]
    OBVIOUS
  <2>6. PICK k : k = i - 1
    OBVIOUS
  <2>7. k \in Nat /\ i = k + 1 /\ o \in Oracle /\ c = Tell(o, i) /\ OracleAt(o, k)
    BY <1>6, <2>1, <2>2, <2>4, <2>5, <2>6
  <2>8. /\ OracleAt(c, i)
        /\ c.windows[2] = o.windows[2] /\ c.windows[3] = o.windows[3]
        /\ \A w \in Windows : c.windows[w].false = o.windows[w].false
    BY <2>1, <2>3, <2>7, TellAt
  <2> QED BY <1>6, <2>4, <2>5, <2>8
<1> HIDE DEF Good
<1>7. ASSUME T # {} PROVE FALSE
  <2>1. PICK n \in T : \A m \in T : n <= m
    BY <1>7, LeastOf
  <2>2. n # 0
    BY <1>5, <2>1
  <2>3. n - 1 \in Nat /\ n - 1 \notin T
    BY <2>1, <2>2
  <2>4. Good(next - 1 + (n - 1))
    BY <2>1, <2>3
  <2>5. next - 1 + n \in next .. b /\ next - 1 + (n - 1) = (next - 1 + n) - 1
    BY <2>1, <2>2
  <2> QED BY <1>6, <2>1, <2>4, <2>5
<1>8. Good(b)
  <2>1. b - (next - 1) \in Nat /\ next - 1 + (b - (next - 1)) = b
    OBVIOUS
  <2>2. ~Good(next - 1 + (b - (next - 1))) => b - (next - 1) \in T
    BY <2>1
  <2>3. Good(next - 1 + (b - (next - 1)))
    BY <1>7, <2>2
  <2> QED BY <2>1, <2>3
<1> QED BY <1>3, <1>8 DEF Good

(* Of what OracleAt tells about the oracle o, only the predicates, the     *)
(* windows and the tables matter, and what is counted outside.             *)
LEMMA SameExpects ==
    ASSUME UNCHANGED input
    PROVE  /\ \A i : Expects(i)' = Expects(i)
           /\ \A n, p, k : LastSet(n, p, k)' = LastSet(n, p, k)
           /\ \A o, i : SentIn(o, i)' = SentIn(o, i)
<1>1. UNCHANGED <<config, times, events>> /\ Index' = Index
  BY SameInput DEF input
<1>2. \A i : Expects(i)' = Expects(i)
  BY <1>1 DEF Expects
<1>3. \A n, p, k : LastSet(n, p, k)' = LastSet(n, p, k)
  BY <1>1 DEF LastSet, SetsPredicate
<1>4. \A o, i : SentIn(o, i)' = SentIn(o, i)
  BY DEF SentIn
<1> QED BY <1>2, <1>3, <1>4

LEMMA SameOracle ==
    ASSUME UNCHANGED <<input, delivered, aged>>, NEW o, NEW k, OracleAt(o, k)
    PROVE  OracleAt(o, k)'
<1>1. UNCHANGED <<config, times, events>> /\ Index' = Index
  BY SameInput DEF input
<1> QED BY <1>1, SameExpects DEF OracleAt

LEMMA DriveOracle ==
    ASSUME TypeOK, ParsedAsMeant, TimeInv, OracleInv, NEW e \in agenda, Drive(e)
    PROVE  OracleInv'
<1> DEFINE b == Max(Batch(e.time))
<1>1. UNCHANGED <<input, delivered, aged, handled>>
  BY DEF Drive
<1>2. /\ b \in Nat /\ next <= b /\ b \in Index /\ b <= Len(events)
      /\ \A i \in next..b : i \in Index /\ events[i].node \in Node
      /\ next' = (IF b + 1 \in Index THEN b + 1 ELSE 0)
      /\ oracle' = Told(b)
  BY DriveBatch, UpToIs
<1>3. next \in Nat /\ next # 0
  <2>1. phase = "running" /\ e.to = "driver"
    BY DEF Drive, Execute
  <2> QED BY <2>1, DriverEvent
<1> HIDE DEF b
<1>4. OracleAt(oracle', b)
  BY <1>2, <1>3, ToldOf
<1>5. UpTo' = b
  <2>1. Len(events) \in Nat /\ Index = 1..Len(events) /\ events' = events
    BY <1>1, UpToIs DEF input
  <2> QED BY <1>2, <2>1 DEF UpTo
<1>6. PICK o : o = oracle'
  OBVIOUS
<1>7. PICK k : k = b
  OBVIOUS
<1>8. OracleAt(o, k)'
  BY <1>1, <1>4, <1>6, <1>7, SameOracle
<1>9. OracleAt(oracle, UpTo)'
  BY <1>5, <1>6, <1>8, <1>7 DEF OracleAt
<1>10. Index' = Index /\ UpTo <= b
  BY <1>1, <1>2, <1>3, SameInput DEF UpTo
<1>11. \A i \in Index : i > b => aged[i] = 0 /\ i \notin delivered
  <2>1. \A i \in Index : i > b => i > UpTo
    BY <1>2, <1>10, UpToIs
  <2> QED BY <2>1 DEF OracleInv
<1>12. \A i \in delivered : Handled(i)
  BY DEF OracleInv
<1> QED BY <1>1, <1>5, <1>9, <1>10, <1>11, <1>12 DEF OracleInv, Handled

(* Steps that only take the oracle and the deliveries as they are.         *)
LEMMA OthersOracle ==
    ASSUME UNCHANGED <<input, next, oracle, delivered, aged>>, handled \subseteq handled', OracleInv
    PROVE  OracleInv'
<1>1. UNCHANGED <<config, times, events>> /\ Index' = Index
  BY SameInput DEF input
<1>2. UpTo' = UpTo
  BY <1>1 DEF UpTo
<1>3. PICK o : o = oracle
  OBVIOUS
<1>4. PICK k : k = UpTo
  OBVIOUS
<1>5. OracleAt(o, k)'
  BY <1>3, <1>4, SameOracle DEF OracleInv
<1>6. OracleAt(oracle, UpTo)'
  BY <1>2, <1>3, <1>4, <1>5 DEF OracleAt
<1> QED BY <1>1, <1>2, <1>6 DEF OracleInv, Handled

(* A delivery takes an entry out of the newest window that holds one.      *)
LEMMA DeliveryIs ==
    ASSUME oracle \in Oracle, NEW i \in Index
    PROVE  /\ TrueDelivery(oracle, i).predicate_map = oracle.predicate_map
           /\ TrueDelivery(oracle, i).fwd_table = oracle.fwd_table
           /\ TrueDelivery(oracle, i).dirty = oracle.dirty
           /\ \A w \in Windows, j \in Index : j # i =>
                 TrueDelivery(oracle, i).windows[w].sent[j] = oracle.windows[w].sent[j]
           /\ Holding(oracle, i) = {} => \A w \in Windows :
                 TrueDelivery(oracle, i).windows[w].sent = oracle.windows[w].sent
           /\ Holding(oracle, i) # {} =>
                 /\ \A w \in Windows :
                       TrueDelivery(oracle, i).windows[w].false = oracle.windows[w].false
                 /\ \A w \in Windows : TrueDelivery(oracle, i).windows[w].sent[i] =
                       IF w = Min(Holding(oracle, i)) THEN oracle.windows[w].sent[i] - 1
                       ELSE oracle.windows[w].sent[i]
<1> DEFINE ws == Holding(oracle, i)
           k == Min(ws)
           o == TrueDelivery(oracle, i)
           V == [oracle.windows EXCEPT ![1].delivered = @ + 1]
           c == [oracle EXCEPT !.windows = V]
           F == [V EXCEPT ![1].false = @ + 1]
           D == [V EXCEPT ![k].sent[i] = @ - 1]
<1>1. ws # {} => k \in Windows
  BY HoldingIs
<1>2. oracle.windows \in [Windows -> Window] /\ 1 \in Windows
  BY DEF Oracle, Windows
<1>3. V \in [Windows -> Window] /\ c \in Oracle
  <2>1. V \in [Windows -> Window]
    BY <1>2 DEF Window
  <2> HIDE DEF V
  <2> QED BY <2>1 DEF Oracle
<1>4. \A w \in Windows : V[w].sent = oracle.windows[w].sent /\ V[w].false = oracle.windows[w].false
  BY <1>2 DEF Window
<1>5. c.windows = V /\ c.predicate_map = oracle.predicate_map /\ c.fwd_table = oracle.fwd_table
      /\ c.dirty = oracle.dirty
  BY DEF Oracle
<1>6. ws = {} => o = [c EXCEPT !.windows = [c.windows EXCEPT ![1].false = @ + 1]]
  BY DEF TrueDelivery
<1>7. ws # {} => o = [c EXCEPT !.windows = [c.windows EXCEPT ![k].sent[i] = @ - 1]]
  BY DEF TrueDelivery
<1> HIDE DEF c, V
<1>8. ws = {} => o = [c EXCEPT !.windows = F]
  BY <1>5, <1>6
<1>9. ws # {} => o = [c EXCEPT !.windows = D]
  BY <1>5, <1>7
<1>10. \A w \in Windows : F[w].sent = V[w].sent
  BY <1>2, <1>3 DEF Window
<1>11. ASSUME ws # {}, NEW w \in Windows
       PROVE  /\ D[w].false = V[w].false
              /\ \A j \in Index : D[w].sent[j] = IF w = k /\ j = i THEN V[w].sent[j] - 1 ELSE V[w].sent[j]
  <2>1. D[w] = IF w = k THEN [V[k] EXCEPT !.sent[i] = @ - 1] ELSE V[w]
    BY <1>1, <1>3, <1>11
  <2>2. V[w] \in Window
    BY <1>3
  <2> QED BY <2>1, <2>2 DEF Window
<1> HIDE DEF F, D, o, ws, k
<1>12. ws = {} => /\ o.predicate_map = oracle.predicate_map /\ o.fwd_table = oracle.fwd_table
                  /\ o.dirty = oracle.dirty /\ o.windows = F
  BY <1>3, <1>5, <1>8 DEF Oracle
<1>13. ws # {} => /\ o.predicate_map = oracle.predicate_map /\ o.fwd_table = oracle.fwd_table
                  /\ o.dirty = oracle.dirty /\ o.windows = D
  BY <1>3, <1>5, <1>9 DEF Oracle
<1>14. CASE ws = {}
  BY <1>4, <1>10, <1>12, <1>14 DEF o, ws
<1>15. CASE ws # {}
  <2>1. \A w \in Windows : /\ o.windows[w].false = oracle.windows[w].false
                           /\ \A j \in Index : o.windows[w].sent[j] =
                                 IF w = k /\ j = i THEN oracle.windows[w].sent[j] - 1
                                 ELSE oracle.windows[w].sent[j]
    BY <1>4, <1>11, <1>13, <1>15
  <2> QED BY <1>13, <1>15, <2>1 DEF o, ws, k
<1> QED BY <1>14, <1>15

LEMMA HandleOracle ==
    ASSUME TypeOK, ParsedAsMeant, TimeInv, OracleInv, NEW e \in agenda, Handle(e)
    PROVE  OracleInv'
<1> DEFINE i == e.id
<1>1. /\ i \in Index /\ Read(i) /\ ~Handled(i) /\ oracle \in Oracle
      /\ UNCHANGED <<input, next, aged>> /\ handled' = handled \cup {<<i, e.time>>}
  BY HandledEvent DEF TypeOK
<1>2. CASE UNCHANGED <<oracle, delivered>>
  BY <1>1, <1>2, OthersOracle
<1>3. CASE /\ oracle' = TrueDelivery(oracle, i)
           /\ delivered' = IF Holding(oracle, i) # {} THEN delivered \cup {i} ELSE delivered
  <2>1. i <= UpTo /\ i \notin delivered /\ UpTo' = UpTo /\ Index' = Index /\ events' = events
    BY <1>1, UpToIs, SameInput DEF OracleInv, UpTo, input
  <2>2. /\ ~oracle.dirty => oracle.fwd_table = oracle.predicate_map
        /\ \A n \in Node : LastSet(n, oracle.predicate_map[n], UpTo)
        /\ \A j \in Index : j > UpTo => \A w \in Windows : oracle.windows[w].sent[j] = 0
        /\ \A j \in Index : events[j].kind = "send_message" =>
              SentIn(oracle, j) + aged[j] + Cardinality(delivered \cap {j})
                = IF j <= UpTo THEN Cardinality(Expects(j)) ELSE 0
    BY DEF OracleInv, OracleAt
  <2>3. PICK o : o = TrueDelivery(oracle, i)
    OBVIOUS
  <2>4. /\ o.predicate_map = oracle.predicate_map /\ o.fwd_table = oracle.fwd_table
        /\ o.dirty = oracle.dirty
        /\ \A w \in Windows, j \in Index : j # i => o.windows[w].sent[j] = oracle.windows[w].sent[j]
    BY <1>1, <2>3, DeliveryIs
  <2>5. \A j \in Index : j > UpTo => j # i
    BY <1>1, <2>1, UpToIs
  <2>6. ASSUME NEW j \in Index, events[j].kind = "send_message"
        PROVE  SentIn(o, j) + aged[j] + Cardinality(delivered' \cap {j})
                 = IF j <= UpTo THEN Cardinality(Expects(j)) ELSE 0
    <3>1. CASE j # i
      <4>1. delivered' \cap {j} = delivered \cap {j}
        BY <1>3, <3>1
      <4>2. SentIn(o, j) = SentIn(oracle, j)
        BY <2>4, <3>1 DEF SentIn, Windows
      <4> QED BY <2>2, <2>6, <4>1, <4>2
    <3>2. CASE j = i
      <4>1. delivered \cap {i} = {} /\ (delivered \cup {i}) \cap {i} = {i}
        BY <2>1
      <4>2. Cardinality(delivered \cap {i}) = 0 /\ Cardinality((delivered \cup {i}) \cap {i}) = 1
        BY <4>1, FS_EmptySet, FS_Singleton
      <4>3. oracle.windows[1].sent[i] \in Nat /\ oracle.windows[2].sent[i] \in Nat
            /\ oracle.windows[3].sent[i] \in Nat /\ aged[i] \in Nat
        BY <1>1, SentTypes DEF TypeOK
      <4>4. CASE Holding(oracle, i) = {}
        <5>1. SentIn(o, i) = SentIn(oracle, i)
          BY <1>1, <2>3, <4>4, DeliveryIs DEF SentIn, Windows
        <5> QED BY <1>3, <2>2, <2>6, <3>2, <4>4, <5>1
      <4>5. CASE Holding(oracle, i) # {}
        <5> DEFINE k == Min(Holding(oracle, i))
        <5>1. k \in Windows
          BY <1>1, <4>5, HoldingIs
        <5>2. \A w \in Windows : o.windows[w].sent[i] =
                 IF w = k THEN oracle.windows[w].sent[i] - 1 ELSE oracle.windows[w].sent[i]
          BY <1>1, <2>3, <4>5, DeliveryIs
        <5> HIDE DEF k
        <5>3. SentIn(o, i) = SentIn(oracle, i) - 1
          BY <4>3, <5>1, <5>2 DEF SentIn, Windows
        <5>4. SentIn(oracle, i) \in Nat
          BY <4>3 DEF SentIn
        <5>5. Cardinality(delivered' \cap {i}) = 1
          BY <1>3, <4>2, <4>5
        <5>6. SentIn(o, i) + aged[i] + 1 = SentIn(oracle, i) + aged[i] + 0
          BY <4>3, <5>3, <5>4
        <5> QED BY <2>2, <2>6, <3>2, <4>2, <5>5, <5>6
      <4> QED BY <4>4, <4>5
    <3> QED BY <3>1, <3>2
  <2>7. /\ ~o.dirty => o.fwd_table = o.predicate_map
        /\ \A n \in Node : LastSet(n, o.predicate_map[n], UpTo)
        /\ \A j \in Index : j > UpTo => \A w \in Windows : o.windows[w].sent[j] = 0
    BY <2>2, <2>4, <2>5
  <2>8. oracle' = o /\ aged' = aged
    BY <1>1, <1>3, <2>3
  <2>9. OracleAt(oracle, UpTo)'
    BY <1>1, <2>1, <2>6, <2>7, <2>8, SameExpects DEF OracleAt
  <2>10. \A j \in delivered' : \E h \in handled' : h[1] = j
    <3>1. <<i, e.time>>[1] = i
      OBVIOUS
    <3> QED BY <1>1, <1>3, <3>1 DEF OracleInv, Handled
  <2>11. \A j \in Index : j > UpTo => aged[j] = 0 /\ j \notin delivered'
    BY <1>3, <2>5 DEF OracleInv
  <2> QED BY <2>1, <2>8, <2>9, <2>10, <2>11 DEF OracleInv, Handled
<1> QED BY <1>2, <1>3, HandledEvent

LEMMA PollOracle ==
    ASSUME TypeOK, ParsedAsMeant, TimeInv, OracleInv, NEW e \in agenda, Poll(e)
    PROVE  OracleInv'
<1>1. /\ UNCHANGED <<input, next, handled, delivered>> /\ oracle' = UpdateWindows(oracle)
      /\ aged' = [i \in Index |-> aged[i] + oracle.windows[3].sent[i]]
  BY PollEvent
<1>2. oracle \in Oracle /\ aged \in [Index -> Nat]
  BY DEF TypeOK
<1>3. UpTo' = UpTo /\ Index' = Index /\ events' = events
  BY <1>1, SameInput DEF UpTo, input
<1>4. /\ ~oracle.dirty => oracle.fwd_table = oracle.predicate_map
      /\ \A n \in Node : LastSet(n, oracle.predicate_map[n], UpTo)
      /\ \A j \in Index : j > UpTo => \A w \in Windows : oracle.windows[w].sent[j] = 0
      /\ \A j \in Index : events[j].kind = "send_message" =>
            SentIn(oracle, j) + aged[j] + Cardinality(delivered \cap {j})
              = IF j <= UpTo THEN Cardinality(Expects(j)) ELSE 0
  BY DEF OracleInv, OracleAt
<1>5. PICK o : o = UpdateWindows(oracle)
  OBVIOUS
<1>6. /\ o.predicate_map = oracle.predicate_map /\ o.fwd_table = oracle.fwd_table
      /\ o.dirty = oracle.dirty /\ o.windows[1] = NewWindow
      /\ o.windows[2] = oracle.windows[1] /\ o.windows[3] = oracle.windows[2]
  BY <1>2, <1>5, UpdateTypes
<1>7. \A j \in Index : o.windows[1].sent[j] = 0
  BY <1>6 DEF NewWindow
<1>8. ASSUME NEW j \in Index, j > UpTo, NEW w \in Windows PROVE o.windows[w].sent[j] = 0
  <2>1. oracle.windows[1].sent[j] = 0 /\ oracle.windows[2].sent[j] = 0
    BY <1>4, <1>8 DEF Windows
  <2> QED BY <1>6, <1>7, <2>1 DEF Windows
<1>9. \A j \in Index : aged'[j] = aged[j] + oracle.windows[3].sent[j]
  BY <1>1
<1>10. ASSUME NEW j \in Index PROVE SentIn(o, j) + aged'[j] = SentIn(oracle, j) + aged[j]
  <2>1. oracle.windows[1].sent[j] \in Nat /\ oracle.windows[2].sent[j] \in Nat
        /\ oracle.windows[3].sent[j] \in Nat /\ aged[j] \in Nat
    BY <1>2, SentTypes
  <2>2. SentIn(o, j) = 0 + oracle.windows[1].sent[j] + oracle.windows[2].sent[j]
    BY <1>6, <1>7 DEF SentIn
  <2> QED BY <1>9, <2>1, <2>2 DEF SentIn
<1>11. ASSUME NEW j \in Index, j > UpTo PROVE aged'[j] = 0 /\ j \notin delivered
  <2>1. aged[j] = 0 /\ j \notin delivered /\ oracle.windows[3].sent[j] = 0
    BY <1>4, <1>11 DEF OracleInv, Windows
  <2> QED BY <1>9, <2>1
<1>12. oracle' = o /\ delivered' = delivered /\ handled' = handled
  BY <1>1, <1>5
<1>13. \A j \in Index : events[j].kind = "send_message" =>
            SentIn(o, j) + aged'[j] + Cardinality(delivered \cap {j})
              = IF j <= UpTo THEN Cardinality(Expects(j)) ELSE 0
  BY <1>4, <1>10
<1>14. OracleAt(oracle, UpTo)'
  BY <1>1, <1>3, <1>4, <1>6, <1>8, <1>12, <1>13, SameExpects DEF OracleAt
<1>15. \A j \in delivered : Handled(j)
  BY DEF OracleInv
<1> QED BY <1>3, <1>11, <1>12, <1>14, <1>15 DEF OracleInv, Handled

LEMMA StepOracle ==
    ASSUME TypeOK, ParsedAsMeant, TimeInv, OracleInv, [Next]_vars
    PROVE  OracleInv'
<1>1. ASSUME NEW e \in agenda, Drive(e) \/ Handle(e) \/ Poll(e)
      PROVE  OracleInv'
  BY <1>1, DriveOracle, HandleOracle, PollOracle
<1>2. ASSUME NEW e \in agenda, DriveNobody(e) \/ SearchInCache(e) \/ Kill(e)
      PROVE  UNCHANGED <<input, next, oracle, delivered, aged, handled>>
  BY <1>2 DEF DriveNobody, SearchInCache, Kill
<1>3. StopTime \/ Finish \/ UNCHANGED vars
        => UNCHANGED <<input, next, oracle, delivered, aged, handled>>
  BY DEF StopTime, Finish, vars
<1>4. OracleInv' \/ UNCHANGED <<input, next, oracle, delivered, aged, handled>>
  BY <1>1, <1>2, <1>3 DEF Next
<1> QED BY <1>4, OthersOracle

LEMMA InitOracle ==
    ASSUME Init, ParsedAsMeant
    PROVE  OracleInv
<1>1. TypeOK /\ next = NextEvent(1)
  BY InitTypes DEF Init
<1>2. Len(events) \in Nat /\ Index = 1..Len(events)
  BY <1>1, UpToIs
<1>3. UpTo = 0
  BY <1>1, <1>2 DEF UpTo, NextEvent
<1>4. aged = [i \in Index |-> 0] /\ delivered = {}
  BY DEF Init
<1> DEFINE none == [n \in Node |-> {}]
<1>5. oracle = [predicate_map |-> none, fwd_table |-> none, dirty |-> FALSE,
                windows |-> [w \in Windows |-> NewWindow]]
  BY DEF Init
<1>6. /\ oracle.predicate_map = none /\ oracle.fwd_table = none
      /\ \A w \in Windows : oracle.windows[w] = NewWindow
  BY <1>5
<1>7. \A w \in Windows, i \in Index : oracle.windows[w].sent[i] = 0
  BY <1>6 DEF NewWindow
<1>8. ASSUME NEW n \in Node PROVE LastSet(n, oracle.predicate_map[n], 0)
  <2>1. oracle.predicate_map[n] = {} /\ \A m \in Index : ~(m <= 0)
    BY <1>2, <1>6
  <2> QED BY <2>1 DEF LastSet
<1>9. ASSUME NEW i \in Index
      PROVE  SentIn(oracle, i) + aged[i] + Cardinality(delivered \cap {i}) = 0 /\ ~(i <= 0)
  <2>1. delivered \cap {i} = {}
    BY <1>4
  <2>2. Cardinality(delivered \cap {i}) = 0
    BY <2>1, FS_EmptySet
  <2>3. SentIn(oracle, i) = 0
    BY <1>7 DEF SentIn, Windows
  <2> QED BY <1>2, <1>4, <2>2, <2>3
<1>10. OracleAt(oracle, UpTo)
  BY <1>3, <1>6, <1>7, <1>8, <1>9 DEF OracleAt
<1> QED BY <1>4, <1>10 DEF OracleInv

-----------------------------------------------------------------------------
(* The windows: what is to be delivered now has not grown too old.         *)

LEMMA PollsLess ==
    ASSUME NEW e \in agenda, e.to # "collector", agenda' = agenda \ {e}
    PROVE  Polls' = Polls
BY DEF Polls

(* Steps that leave the windows and the time, if an event is pending.      *)
LEMMA SameWindows ==
    ASSUME phase # "failed", WindowsInv, UNCHANGED <<input, oracle, aged>>, Polls' = Polls,
           \A f \in agenda' : f.to = "node" => f \in agenda /\ now' = now
    PROVE  WindowsInv'
<1>1. NextPoll' = NextPoll /\ Collects' = Collects
  BY SameLastPoll, SameInput
<1> QED BY <1>1 DEF WindowsInv

LEMMA DriveWindows ==
    ASSUME TypeOK, ParsedAsMeant, TimeInv, OracleInv, WindowsInv, NEW e \in agenda, Drive(e)
    PROVE  WindowsInv' /\ \A w \in Windows : oracle'.windows[w].false = oracle.windows[w].false
<1> DEFINE b == Max(Batch(e.time))
<1>1. UNCHANGED <<input, aged>> /\ Polls' = Polls /\ e.to = "driver"
  BY DrivePolls DEF Drive
<1>2. /\ b \in Nat /\ next <= b /\ phase = "running"
      /\ \A i \in next..b : i \in Index /\ events[i].node \in Node
      /\ oracle' = Told(b)
      /\ agenda' = (agenda \ {e}) \cup {NodeEvent(i) : i \in next..b}
           \cup (IF next' = 0 THEN {} ELSE {Event("driver", events[next'].time, 0)})
  BY DriveBatch
<1>3. next \in Nat /\ next # 0
  BY <1>1, <1>2, DriverEvent
<1> HIDE DEF b
<1>4. /\ oracle'.windows[2] = oracle.windows[2] /\ oracle'.windows[3] = oracle.windows[3]
      /\ \A w \in Windows : oracle'.windows[w].false = oracle.windows[w].false
  BY <1>2, <1>3, ToldOf
<1>5. NextPoll' = NextPoll /\ Collects' = Collects
  BY <1>1, SameLastPoll, SameInput
<1>6. ASSUME NEW f \in agenda', f.to = "node"
      PROVE  /\ aged[f.id] = 0 /\ oracle.windows[3].sent[f.id] = 0
             /\ Collects /\ NextPoll = now' => oracle.windows[2].sent[f.id] = 0
  <2>1. CASE f \in agenda
    <3>1. e.time = now /\ now' = e.time
      <4>1. \E S : Execute(e, S)
        BY DEF Drive
      <4>2. PICK S : Execute(e, S)
        BY <4>1
      <4> QED BY <1>2, <1>6, <2>1, <4>2, ExecuteInTime
    <3> QED BY <1>2, <1>6, <2>1, <3>1 DEF WindowsInv
  <2>2. CASE f \in {NodeEvent(i) : i \in next..b}
    <3>1. PICK i \in next..b : f = NodeEvent(i)
      BY <2>2
    <3>2. f.id = i /\ i \in Index
      BY <1>2, <3>1 DEF NodeEvent, Event
    <3>3. i > UpTo
      BY <1>2, <1>3 DEF UpTo
    <3>4. 2 \in Windows /\ 3 \in Windows
      BY DEF Windows
    <3> QED BY <3>2, <3>3, <3>4 DEF OracleInv, OracleAt
  <2>3. CASE f = Event("driver", events[next'].time, 0)
    BY <1>6, <2>3 DEF Event
  <2> QED BY <1>2, <2>1, <2>2, <2>3
<1>7. WindowsInv'
  BY <1>1, <1>4, <1>5, <1>6 DEF WindowsInv
<1> QED BY <1>4, <1>7

LEMMA HandleWindows ==
    ASSUME TypeOK, ParsedAsMeant, TimeInv, OracleInv, WindowsInv, NEW e \in agenda, Handle(e)
    PROVE  WindowsInv'
<1>1. /\ phase = "running" /\ e.id \in Index /\ e = NodeEvent(e.id) /\ now' = now
      /\ UNCHANGED <<input, aged>> /\ oracle \in Oracle
      /\ oracle' = oracle \/ oracle' = TrueDelivery(oracle, e.id)
  BY HandledEvent DEF TypeOK
<1>2. NextPoll' = NextPoll /\ Collects' = Collects
  BY <1>1, HandlePolls, SameLastPoll, SameInput
<1>3. \A f \in agenda' : f.to = "node" => f \in agenda /\ f # e
  BY HandledEvent DEF Interest
<1>4. ASSUME NEW f \in agenda', f.to = "node"
      PROVE  /\ aged[f.id] = 0 /\ oracle'.windows[3].sent[f.id] = 0
             /\ Collects /\ NextPoll = now => oracle'.windows[2].sent[f.id] = 0
  <2>1. f \in agenda /\ f # e /\ f.id \in Index /\ f = NodeEvent(f.id)
    BY <1>1, <1>3, <1>4 DEF TimeInv, Scheduled
  <2>2. f.id # e.id
    BY <1>1, <2>1
  <2>3. 2 \in Windows /\ 3 \in Windows
    BY DEF Windows
  <2>4. /\ oracle'.windows[2].sent[f.id] = oracle.windows[2].sent[f.id]
        /\ oracle'.windows[3].sent[f.id] = oracle.windows[3].sent[f.id]
    BY <1>1, <2>1, <2>2, <2>3, DeliveryIs
  <2> QED BY <1>1, <1>4, <2>1, <2>4 DEF WindowsInv
<1> QED BY <1>1, <1>2, <1>4 DEF WindowsInv

LEMMA PollWindows ==
    ASSUME TypeOK, ParsedAsMeant, TimeInv, OracleInv, Polling, WindowsInv, NEW e \in agenda, Poll(e)
    PROVE  WindowsInv'
<1>1. /\ phase = "running" /\ now' = e.time /\ e.time \in Nat /\ e.to = "collector"
      /\ UNCHANGED input /\ oracle' = UpdateWindows(oracle)
      /\ agenda' = (agenda \ {e}) \cup {Event("collector", e.time + Timeout, 0)}
      /\ aged' = [i \in Index |-> aged[i] + oracle.windows[3].sent[i]]
  BY PollEvent
<1>2. Collects /\ e.time = NextPoll /\ NextPoll' = e.time + Timeout /\ Timeout \in Nat /\ Timeout # 0
  BY PollsNext
<1>3. NextPoll' # now'
  BY <1>1, <1>2
<1>4. oracle \in Oracle /\ aged \in [Index -> Nat]
  BY DEF TypeOK
<1>5. oracle'.windows[3] = oracle.windows[2]
  BY <1>1, <1>4, UpdateTypes
<1>6. ASSUME NEW f \in agenda', f.to = "node"
      PROVE  aged'[f.id] = 0 /\ oracle'.windows[3].sent[f.id] = 0
  <2>1. f \in agenda
    BY <1>1, <1>6 DEF Event
  <2>2. f.id \in Index
    BY <1>1, <1>6, <2>1 DEF TimeInv, Scheduled
  <2>3. e.time = now
    <3>1. PICK S : Execute(e, S)
      BY DEF Poll
    <3> QED BY <1>1, <1>6, <2>1, <3>1, ExecuteInTime
  <2>4. aged[f.id] = 0 /\ oracle.windows[3].sent[f.id] = 0 /\ oracle.windows[2].sent[f.id] = 0
    BY <1>1, <1>2, <1>6, <2>1, <2>3 DEF WindowsInv
  <2> QED BY <1>1, <1>5, <2>2, <2>4
<1> QED BY <1>3, <1>6 DEF WindowsInv

LEMMA StepWindows ==
    ASSUME TypeOK, ParsedAsMeant, TimeInv, StatsInv, OracleInv, WindowsInv, [Next]_vars
    PROVE  WindowsInv'
<1>1. ASSUME NEW e \in agenda, Drive(e) \/ Handle(e) \/ Poll(e)
      PROVE  WindowsInv'
  <2>1. Poll(e) => Polling
    BY PollEvent DEF StatsInv
  <2> QED BY <1>1, <2>1, DriveWindows, HandleWindows, PollWindows
<1>2. ASSUME NEW e \in agenda, DriveNobody(e)
      PROVE  WindowsInv'
  BY <1>2 DEF DriveNobody, WindowsInv
<1>3. ASSUME NEW e \in agenda, SearchInCache(e) \/ Kill(e)
      PROVE  WindowsInv'
  <2>1. /\ phase = "running" /\ e.to # "collector" /\ Execute(e, {})
        /\ UNCHANGED <<input, oracle, aged>>
    BY <1>3 DEF SearchInCache, Kill, Execute
  <2>2. agenda' = agenda \ {e}
    BY <2>1 DEF Execute
  <2>3. ASSUME NEW f \in agenda', f.to = "node" PROVE f \in agenda /\ now' = now
    <3>1. f \in agenda
      BY <2>2
    <3>2. PICK S : S = {}
      OBVIOUS
    <3>3. Execute(e, S)
      BY <2>1, <3>2
    <3> QED BY <2>1, <2>3, <3>1, <3>3, ExecuteInTime
  <2> QED BY <2>1, <2>2, <2>3, PollsLess, SameWindows
<1>4. ASSUME StopTime \/ Finish \/ UNCHANGED vars
      PROVE  WindowsInv'
  <2>1. UNCHANGED <<input, now, agenda, oracle, aged>> /\ (phase # "failed" \/ UNCHANGED phase)
    BY <1>4 DEF StopTime, Finish, vars
  <2>2. Polls' = Polls
    BY <2>1 DEF Polls
  <2>3. CASE phase = "failed"
    BY <2>1, <2>3 DEF WindowsInv
  <2>4. CASE phase # "failed"
    BY <2>1, <2>2, <2>4, SameWindows
  <2> QED BY <2>3, <2>4
<1> QED BY <1>1, <1>2, <1>3, <1>4 DEF Next

LEMMA InitWindows ==
    ASSUME Init
    PROVE  WindowsInv /\ NoFalseAlarm
<1>1. \A e \in agenda : e.to # "node"
  BY DEF Init, Event
<1>2. \A w \in Windows : oracle.windows[w] = NewWindow
  BY DEF Init
<1>3. \A w \in Windows : oracle.windows[w].false = 0
  BY <1>2 DEF NewWindow
<1> QED BY <1>1, <1>3 DEF WindowsInv, NoFalseAlarm

-----------------------------------------------------------------------------
(* No delivery is taken for a false one.                                   *)

(* The node of a message that matches is one that the oracle expects to    *)
(* get it: it handled one event that sets its predicate, and that was read *)
(* before the message.                                                     *)
LEMMA ReceiverExpected ==
    ASSUME TypeOK, ParsedAsMeant, TimeInv, Orderly, NEW e \in agenda, Handle(e),
           events[e.id].kind = "send_message",
           Matches(predicate[events[e.id].node], events[e.id].arg)
    PROVE  events[e.id].node \in Expects(e.id)
<1> DEFINE k == e.id
           n == events[k].node
<1>1. /\ phase = "running" /\ k \in Index /\ e.time = now /\ e.time = events[k].time /\ n \in Node
      /\ Read(k)
  BY HandledEvent
<1>2. Past /\ Driven
  BY <1>1 DEF TimeInv
<1>3. PICK f \in predicate[n] : f \subseteq UNION events[k].arg
  BY DEF Matches
<1>4. PICK i \in Index : /\ Handled(i) /\ f \in events[i].arg
                         /\ events[i].kind = "set_predicate" /\ events[i].node = n
  BY <1>1, <1>2, <1>3 DEF Past
<1>5. Read(i) /\ events[i].time <= now
  BY <1>2, <1>4 DEF Past, Handled
<1>6. Valid(i) /\ Valid(k)
  <2>1. events[i] # Failure /\ events[k] # Failure
    BY <1>1, <1>2, <1>5 DEF Driven
  <2> QED BY <1>1, <2>1 DEF Valid
<1>7. events[i].time # events[k].time
  <2>1. i # k
    BY <1>4
  <2> QED BY <1>1, <1>4, <2>1 DEF Orderly
<1>8. i \in Nat /\ k \in Nat /\ Index \subseteq Nat
  BY <1>1, UpToIs
<1>9. i < k
  <2>1. ASSUME k <= i PROVE FALSE
    <3>1. events[k].time <= events[i].time
      BY <1>1, <1>6, <2>1, ValidEvents DEF TypeOK
    <3>2. events[k].time \in Nat /\ events[i].time \in Nat
      BY <1>1, <1>6, ValidEvents DEF TypeOK
    <3> QED BY <1>1, <1>5, <1>7, <3>1, <3>2
  <2> QED BY <1>8, <2>1
<1>10. Matches(events[i].arg, events[k].arg)
  BY <1>3, <1>4 DEF Matches
<1>11. ASSUME NEW j \in i + 1 .. k - 1, events[j].kind = "set_predicate", events[j].node = n
       PROVE  FALSE
  <2>1. j \in Index /\ j # i
    BY <1>1, <1>8, UpToIs
  <2>2. {events[i].kind, events[j].kind} = {"set_predicate"}
    BY <1>4, <1>11
  <2> QED BY <1>4, <1>11, <2>1, <2>2 DEF Orderly
<1> QED BY <1>1, <1>4, <1>9, <1>10, <1>11 DEF Expects

(* A delivery that is expected is found in a window.                       *)
LEMMA ExpectedIsHeld ==
    ASSUME TypeOK, ParsedAsMeant, TimeInv, OracleInv, WindowsInv, NEW e \in agenda, Handle(e),
           events[e.id].kind = "send_message", NEW n \in Expects(e.id)
    PROVE  Holding(oracle, e.id) # {}
<1> DEFINE i == e.id
<1>1. /\ phase = "running" /\ i \in Index /\ Read(i) /\ ~Handled(i) /\ e.to = "node"
      /\ oracle \in Oracle
  BY HandledEvent DEF TypeOK
<1>2. i <= UpTo /\ i \notin delivered /\ aged[i] = 0
  BY <1>1, UpToIs DEF OracleInv, WindowsInv
<1>3. SentIn(oracle, i) + aged[i] + Cardinality(delivered \cap {i}) = Cardinality(Expects(i))
  BY <1>1, <1>2 DEF OracleInv, OracleAt
<1>4. Cardinality(delivered \cap {i}) = 0
  <2>1. delivered \cap {i} = {}
    BY <1>2
  <2> QED BY <2>1, FS_EmptySet
<1>5. Cardinality(Expects(i)) \in Nat /\ Cardinality(Expects(i)) # 0
  <2> DEFINE E == Expects(i)
  <2>1. E \subseteq Node
    BY DEF Expects
  <2>2. n \in E
    OBVIOUS
  <2> HIDE DEF E
  <2>3. IsFiniteSet(E)
    BY <2>1, NodeAssumption, FS_Subset
  <2>4. Cardinality(E) \in Nat /\ Cardinality(E) # 0
    BY <2>2, <2>3, FS_CardinalityType, FS_EmptySet
  <2> QED BY <2>4 DEF E
<1>6. /\ oracle.windows[1].sent[i] \in Nat /\ oracle.windows[2].sent[i] \in Nat
      /\ oracle.windows[3].sent[i] \in Nat
  BY <1>1, SentTypes
<1>7. SentIn(oracle, i) # 0
  <2>1. SentIn(oracle, i) \in Nat
    BY <1>6 DEF SentIn
  <2> QED BY <1>2, <1>3, <1>4, <1>5, <2>1
<1>8. \E w \in Windows : oracle.windows[w].sent[i] > 0
  <2>1. ASSUME \A w \in Windows : ~(oracle.windows[w].sent[i] > 0) PROVE FALSE
    <3>1. 1 \in Windows /\ 2 \in Windows /\ 3 \in Windows
      BY DEF Windows
    <3>2. oracle.windows[1].sent[i] = 0 /\ oracle.windows[2].sent[i] = 0
          /\ oracle.windows[3].sent[i] = 0
      BY <1>6, <2>1, <3>1
    <3> QED BY <1>7, <3>2 DEF SentIn
  <2> QED BY <2>1
<1> QED BY <1>8 DEF Holding

LEMMA StepNoFalse ==
    ASSUME TypeOK, ParsedAsMeant, TimeInv, OracleInv, WindowsInv, NoFalseAlarm, [Next]_vars
    PROVE  NoFalseAlarm'
<1> DEFINE Clean == \A w \in Windows : oracle.windows[w].false = 0
<1>1. UNCHANGED input => (Orderly' <=> Orderly)
  BY SameInput DEF Orderly, input
<1>2. ASSUME NEW e \in agenda, Drive(e)
      PROVE  NoFalseAlarm'
  <2>1. UNCHANGED input
    BY <1>2 DEF Drive
  <2> QED BY <1>1, <1>2, <2>1, DriveWindows DEF NoFalseAlarm
<1>3. ASSUME NEW e \in agenda, Handle(e), Orderly'
      PROVE  \A w \in Windows : oracle'.windows[w].false = 0
  <2>1. e.id \in Index /\ oracle \in Oracle /\ UNCHANGED input
    BY <1>3, HandledEvent DEF TypeOK
  <2>2. Orderly /\ Clean
    BY <1>1, <1>3, <2>1 DEF NoFalseAlarm
  <2>3. CASE oracle' = oracle
    BY <2>2, <2>3
  <2>4. CASE /\ events[e.id].kind = "send_message"
             /\ Matches(predicate[events[e.id].node], events[e.id].arg)
             /\ oracle' = TrueDelivery(oracle, e.id)
    <3>1. Holding(oracle, e.id) # {}
      BY <1>3, <2>2, <2>4, ReceiverExpected, ExpectedIsHeld
    <3>2. \A w \in Windows : oracle'.windows[w].false = oracle.windows[w].false
      BY <2>1, <2>4, <3>1, DeliveryIs
    <3> QED BY <2>2, <3>2
  <2> QED BY <1>3, <2>3, <2>4, HandledEvent
<1>4. ASSUME NEW e \in agenda, Handle(e)
      PROVE  NoFalseAlarm'
  BY <1>3, <1>4 DEF NoFalseAlarm
<1>5. ASSUME NEW e \in agenda, Poll(e)
      PROVE  NoFalseAlarm'
  <2>1. UNCHANGED input /\ oracle' = UpdateWindows(oracle) /\ oracle \in Oracle
    BY <1>5, PollEvent DEF TypeOK
  <2>2. /\ oracle'.windows[1].false = 0
        /\ oracle'.windows[2] = oracle.windows[1] /\ oracle'.windows[3] = oracle.windows[2]
    BY <2>1, UpdateTypes DEF NewWindow
  <2>3. Clean => \A w \in Windows : oracle'.windows[w].false = 0
    BY <2>2 DEF Windows
  <2> QED BY <1>1, <2>1, <2>3 DEF NoFalseAlarm
<1>6. ASSUME NEW e \in agenda, DriveNobody(e) \/ SearchInCache(e) \/ Kill(e)
      PROVE  UNCHANGED <<input, oracle>>
  BY <1>6 DEF DriveNobody, SearchInCache, Kill
<1>7. StopTime \/ Finish \/ UNCHANGED vars => UNCHANGED <<input, oracle>>
  BY DEF StopTime, Finish, vars
<1>8. UNCHANGED <<input, oracle>> => NoFalseAlarm'
  BY <1>1 DEF NoFalseAlarm
<1> QED BY <1>2, <1>4, <1>5, <1>6, <1>7, <1>8 DEF Next

-----------------------------------------------------------------------------
(* The results.  What is parsed does not change: ParsedAsMeant is a        *)
(* hypothesis about the workload file.                                     *)

LEMMA InvStarts == ParsedAsMeant /\ Init => IInv
BY InitTypes, InitTime, InitAsMeant, InitStats, InitOracle, InitWindows DEF IInv

LEMMA InvStep == IInv /\ [Next]_vars => IInv'
BY StepTypes, StepStats, StepOracle, StepWindows, StepNoFalse DEF IInv

(* When the parser returns what was meant, all variables keep their types: *)
(* scheduled times are natural numbers, and the next event exists.         *)
THEOREM SimulationTypeOK == ParsedAsMeant /\ Spec => []TypeOK
<1>1. IInv => TypeOK
  BY DEF IInv
<1> QED BY <1>1, InvStarts, InvStep, PTL DEF Spec

(* Every event that is meant, and before the stop, is handled once at its  *)
(* time, and as it is meant (Driver::process_event and the kernel).        *)
THEOREM DriverEventsOnTime == ParsedAsMeant /\ Spec => []EventsOnTime
<1>1. IInv => EventsOnTime
  BY OnTime DEF IInv
<1> QED BY <1>1, InvStarts, InvStep, PTL DEF Spec

(* What a node counts is in the collector's totals once, if a poll after   *)
(* the start-up period comes after it, and never if one in that period     *)
(* does (DataCollector::process_event, CBNSimulation::run).                *)
THEOREM FinalStatistics == ParsedAsMeant /\ Spec => []StatsExact
<1>1. IInv => StatsExact
  BY DEF IInv, StatsInv
<1> QED BY <1>1, InvStarts, InvStep, PTL DEF Spec

(* Each delivery that the oracle expects is in one window, or was made, or *)
(* grew too old (DeliveryOracle::sent, true_delivery, update_windows).     *)
THEOREM OracleIsExact == ParsedAsMeant /\ Spec => []OracleAccounts
<1>1. IInv => OracleAccounts
  BY OracleCounts DEF IInv
<1> QED BY <1>1, InvStarts, InvStep, PTL DEF Spec

(* If nodes do not get two events at a time nor set their predicates twice,*)
(* the oracle takes no delivery for a false one: it expects the delivery,  *)
(* and no poll in between has dropped it from the windows.                 *)
THEOREM NoFalseDelivery == ParsedAsMeant /\ Spec => []NoFalseAlarm
<1>1. IInv => NoFalseAlarm
  BY DEF IInv
<1> QED BY <1>1, InvStarts, InvStep, PTL DEF Spec
=============================================================================
