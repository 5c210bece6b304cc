------------------------------ MODULE Workload ------------------------------
(***************************************************************************)
(* The workload file: what cbnwlgen (WorkloadGenerator.cc) writes, and what*)
(* the parsers of the simulator read.  The text is a sequence of words,    *)
(* each with the token that WorkloadParser::advance takes it for; comments *)
(* are left out.                                                           *)
(*                                                                         *)
(* An input of the generator is a record of its options and files:         *)
(*   length, second   -l, and the time units in a second (an even number)  *)
(*   manual           -man_routing                                         *)
(*   files            lines of the contents' file: cumulative probability  *)
(*                    of the class and, in it, of the file, both in parts  *)
(*                    of One; size, node, and name                         *)
(*   prefixes         lines of the prefix file: node and name              *)
(*   clients          node -> rate (Poisson is the only law it accepts)    *)
(*   lambda0          the value that lambda_input has before it is summed  *)
(*   draws            the random numbers of each turn: delta, the interval,*)
(*                    and node, class and file in parts of One             *)
(* A name is a sequence of pairs, an attribute and its value.              *)
(***************************************************************************)
EXTENDS Integers, SequencesExt, FiniteSetsExt

One == 4

Semicolon == <<"SEMICOLON", ";">>
NameWords(name) ==
    FlattenSeq([k \in DOMAIN name |->
        << <<"ID", name[k][1]>>, <<"OP", "=">>, <<"STRING", name[k][2]>> >>])

-----------------------------------------------------------------------------
(* The generator                                                           *)

SimLength(in) == in.length * in.second

SetTimes(in) ==
    << <<"TIME_UNIT", "time_unit">>, <<"DOUBLE", in.second>>, Semicolon,
       <<"SIM_LENGTH", "sim_length">>, <<"DOUBLE", SimLength(in)>>, Semicolon >>

(* Classes are numbered by the changes of the class probability, from 0 on.*)
FileClass(files, k) ==
    Cardinality({j \in 1..k : files[j].class # IF j = 1 THEN 0 ELSE files[j - 1].class})

PublishingContent(in) ==
    FlattenSeq([k \in DOMAIN in.files |->
        << <<"ID", "publish_content">>, <<"INTEGER", in.files[k].node>>, <<"DOUBLE", 0>>,
           <<"INTEGER", in.files[k].size>>, <<"INTEGER", in.files[k].chunk>>,
           <<"INTEGER", FileClass(in.files, k)>>, <<"INTEGER", 0>>, <<"INTEGER", 0>> >>
          \o NameWords(in.files[k].name) \o <<Semicolon>>])

(* Every component of a prefix is written with a semicolon of its own.     *)
InitRouting(in) ==
    IF in.manual THEN <<>>
    ELSE FlattenSeq([k \in DOMAIN in.prefixes |->
        << <<"ID", "set_predicate">>, <<"INTEGER", in.prefixes[k].node>>,
           <<"DOUBLE", 0>>, <<"INTEGER", 0>> >>
          \o FlattenSeq([j \in DOMAIN in.prefixes[k].name |->
                 NameWords(<<in.prefixes[k].name[j]>>) \o <<Semicolon>>])])

\* random node (according to the rate of the poisson processes), or -1
Rates(in, nodes) == MapThenSumSet(LAMBDA n : in.clients[n], nodes)
DrawnNode(in, rnd) ==
    LET lambda == in.lambda0 + Rates(in, DOMAIN in.clients)
        reached == {n \in DOMAIN in.clients :
                      rnd * lambda < Rates(in, {m \in DOMAIN in.clients : m <= n}) * One}
    IN  IF reached = {} THEN -1 ELSE Min(reached)

(* The first line whose class is not below the draw, and the first from    *)
(* there on whose file is not; 0 if there is none.                         *)
DrawnFile(in, draw) ==
    LET r == SelectInSeq(in.files, LAMBDA f : draw.class <= f.class)
    IN  IF r = 0 THEN 0
        ELSE SelectInSubSeq(in.files, r, Len(in.files), LAMBDA f : draw.file <= f.file)

(* The time of each turn: the last is the one that is beyond the end.      *)
DrawTime(in, k) ==
    (IF in.manual THEN 0 ELSE in.second) + in.second \div 2
      + FoldLeft(LAMBDA t, d : t + d.delta, 0, SubSeq(in.draws, 1, k))
Turns(in) == {k \in DOMAIN in.draws : DrawTime(in, k) <= SimLength(in)}

CreateInputProcess(in) ==
    FlattenSeq([k \in 1..Cardinality(Turns(in)) |->
        LET r == DrawnFile(in, in.draws[k])
        IN  << <<"ID", "download_content">>, <<"INTEGER", DrawnNode(in, in.draws[k].node)>>,
               <<"DOUBLE", DrawTime(in, k)>>, <<"INTEGER", 0>> >>
              \o IF r = 0 THEN <<>> ELSE NameWords(in.files[r].name) \o <<Semicolon>>])

Generated(in) ==
    SetTimes(in) \o PublishingContent(in) \o InitRouting(in) \o CreateInputProcess(in)

-----------------------------------------------------------------------------
(* The parser.  Of a predicate and a message it makes a set of filters,    *)
(* that is sets of constraints; a message has one.                         *)

ParseTimes(text) ==
    LET head == [k \in 1..Min({6, Len(text)}) |-> text[k][1]]
    IN  IF head # <<"TIME_UNIT", "DOUBLE", "SEMICOLON", "SIM_LENGTH", "DOUBLE", "SEMICOLON">>
        THEN [ok |-> FALSE]
        ELSE [ok |-> TRUE, second |-> text[2][2], length |-> text[5][2]]

(* The event parsers: the tokens that each eats before it comes to the     *)
(* constraints, and whether these make a message or a predicate.           *)
SendMessageParser == [head |-> <<"ID", "INTEGER", "DOUBLE">>, message |-> TRUE]
\* A mutant: the name of a download is taken for a predicate.
DownloadPredicateParser ==
    [head |-> <<"ID", "INTEGER", "DOUBLE", "INTEGER">>, message |-> FALSE]

DownloadContentParser == [head |-> <<"ID", "INTEGER", "DOUBLE", "INTEGER">>, message |-> TRUE]
SetPredicateParser == [head |-> <<"ID", "INTEGER", "DOUBLE", "INTEGER">>, message |-> FALSE]
SetMultipathParser ==
    [head |-> <<"ID", "INTEGER", "INTEGER", "DOUBLE", "INTEGER">>, message |-> FALSE]
PublishContentParser ==
    [head |-> <<"ID", "INTEGER", "DOUBLE", "INTEGER", "INTEGER", "INTEGER", "INTEGER", "INTEGER">>,
     message |-> FALSE]

\* m_event_parsers, as CBCBSimulation fills it
Parsers == [send_message |-> SendMessageParser, download_content |-> DownloadContentParser,
            set_predicate |-> SetPredicateParser, set_multipath |-> SetMultipathParser,
            publish_content |-> PublishContentParser]

(* One token of the constraints.  A constraint opens a filter of its own   *)
(* unless it is joined to the one before by an ampersand.                  *)
Eat(s, word) ==
    LET tok == word[1]
        c == <<s.name, word[2]>>
    IN  CASE s.at \in {"filter", "id"} /\ tok = "ID" -> [s EXCEPT !.at = "op", !.name = word[2]]
          [] s.at = "filter" /\ tok = "PIPE" /\ ~s.message -> [s EXCEPT !.at = "id"]
          [] s.at = "filter" /\ tok = "AMP" /\ ~s.message /\ s.filters # <<>> ->
               [s EXCEPT !.at = "id", !.joined = TRUE]
          [] s.at = "op" /\ tok = "OP" -> [s EXCEPT !.at = "value"]
          [] s.at = "value" /\ tok \in {"BOOL", "DOUBLE", "INTEGER", "STRING"} ->
               [s EXCEPT !.at = "filter", !.joined = s.message,
                  !.filters = IF s.joined THEN Front(@) \o <<Last(@) \cup {c}>> ELSE Append(@, {c})]
          [] OTHER -> [s EXCEPT !.at = "error"]

Constraints(words, message) ==
    FoldLeft(Eat, [at |-> "filter", name |-> "", message |-> message, joined |-> message,
                   filters |-> IF message THEN << {} >> ELSE <<>>], words)

\* An exception, or for an event without a parser a loop at the end of the file.
Failure == [kind |-> "failure", node |-> -1, time |-> -1, class |-> 0, arg |-> {}]

ParseEvent(words) ==
    LET kind == words[1][2]
        head == Parsers[kind].head
        n    == Len(head)
        args == Constraints(SubSeq(words, n + 1, Len(words)), Parsers[kind].message)
    IN  IF Len(words) < n \/ (\E k \in 1..n : words[k][1] # head[k]) \/ args.at # "filter"
        THEN Failure
        ELSE [kind |-> kind, node |-> words[2][2],
              time |-> words[SelectInSeq(head, LAMBDA tok : tok = "DOUBLE")][2],
              class |-> IF kind = "publish_content" THEN words[6][2] ELSE 0,
              arg |-> ToSet(args.filters)]

(* The events that next_event returns, one call after the other.  The first*)
(* six words are the times.                                                *)
Events(text) ==
    LET from[pos \in 1 .. Len(text) + 1] ==
          LET end == SelectInSubSeq(text, pos, Len(text), LAMBDA w : w = Semicolon)
              event == ParseEvent(SubSeq(text, pos, end - 1))
          IN  IF pos > Len(text) THEN <<>>
              ELSE IF text[pos][1] # "ID" \/ end = 0 THEN <<Failure>>
              ELSE IF text[pos][2] \notin DOMAIN Parsers THEN from[end + 1]
              ELSE IF event = Failure THEN <<Failure>>
              ELSE <<event>> \o from[end + 1]
    IN  from[7]

-----------------------------------------------------------------------------
(* The reference: the events that the input of the generator asks for.  A  *)
(* client's share of the line from 0 to the sum of the rates is its rate;  *)
(* a draw beyond all shares asks for no client, -1.                        *)
Filter(name) == ToSet(name)
MeantClient(in, draw) ==
    LET all == in.lambda0 + Rates(in, DOMAIN in.clients)
        asked == {n \in DOMAIN in.clients :
            LET below == Rates(in, {m \in DOMAIN in.clients : m < n})
            IN  below * One <= draw.node * all /\ draw.node * all < (below + in.clients[n]) * One}
    IN  IF asked = {} THEN -1 ELSE CHOOSE n \in asked : TRUE
MeantFile(in, draw) ==
    LET class == Min({f.class : f \in {g \in ToSet(in.files) : g.class >= draw.class}})
        file  == Min({f.file : f \in {g \in ToSet(in.files) : g.class = class /\ g.file >= draw.file}})
    IN  CHOOSE f \in ToSet(in.files) : f.class = class /\ f.file = file
Meant(in) ==
    [k \in DOMAIN in.files |->
        [kind |-> "publish_content", node |-> in.files[k].node, time |-> 0,
         class |-> Cardinality({f.class : f \in ToSet(SubSeq(in.files, 1, k))}),
         arg |-> {{c} : c \in Filter(in.files[k].name)}]]
    \o (IF in.manual THEN <<>> ELSE [k \in DOMAIN in.prefixes |->
        [kind |-> "set_predicate", node |-> in.prefixes[k].node, time |-> 0, class |-> 0,
         arg |-> {Filter(in.prefixes[k].name)}]])
    \o [k \in 1..Cardinality(Turns(in)) |->
        [kind |-> "download_content", node |-> MeantClient(in, in.draws[k]),
         time |-> DrawTime(in, k), class |-> 0,
         arg |-> {Filter(MeantFile(in, in.draws[k]).name)}]]
=============================================================================
