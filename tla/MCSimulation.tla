---------------------------- MODULE MCSimulation ----------------------------
(***************************************************************************)
(* Workloads written by hand, all of up to three events for two nodes:     *)
(* predicates and messages with one setting, downloads with many.  And the *)
(* workloads that the generator makes of a few inputs and all draws.       *)
(***************************************************************************)
EXTENDS Simulation

MCNode == {1, 2}

(* The text of a workload as Workload_Syntax.wiki describes it: filters are*)
(* separated by |, constraints by &.                                       *)
FilterWords(f) == [k \in 1 .. 4 * Cardinality(f) - 1 |->
    LET c == SetToSeq(f)[k \div 4 + 1]
    IN  CASE k % 4 = 1 -> <<"ID", c[1]>> [] k % 4 = 2 -> <<"OP", "=">>
          [] k % 4 = 3 -> <<"STRING", c[2]>> [] k % 4 = 0 -> <<"AMP", "&">>]
MessageWords(f) == FlattenSeq([k \in 1..Cardinality(f) |-> NameWords(<<SetToSeq(f)[k]>>)])
ArgWords(e) ==
    IF e.kind \notin DOMAIN Parsers THEN <<>>
    ELSE IF Parsers[e.kind].message THEN MessageWords(UNION e.arg)
    ELSE LET fs == SetToSeq(e.arg)
         IN  FlattenSeq([k \in DOMAIN fs |->
               (IF k = 1 THEN <<>> ELSE << <<"PIPE", "|">> >>) \o FilterWords(fs[k])])
HeadWords(e) ==
    LET head == IF e.kind \in DOMAIN Parsers THEN Parsers[e.kind].head ELSE <<"ID", "INTEGER", "DOUBLE">>
    IN  [k \in DOMAIN head |-> <<head[k],
           CASE k = 1 -> e.kind [] k = 2 -> e.node [] k = 6 -> e.class
             [] head[k] = "DOUBLE" -> e.time [] OTHER -> 0>>]
Written(w, length, second) ==
    << <<"TIME_UNIT", "time_unit">>, <<"DOUBLE", second>>, Semicolon,
       <<"SIM_LENGTH", "sim_length">>, <<"DOUBLE", length>>, Semicolon >>
    \o FlattenSeq([k \in DOMAIN w |-> HeadWords(w[k]) \o ArgWords(w[k]) \o <<Semicolon>>])

MCEvent(kinds, nodes, args, classes, times0) ==
    [kind : kinds, node : nodes, arg : args, class : classes, time : times0]
MCWorkloads(evs, k) ==
    {w \in [1..k -> evs] : \A i \in 2..k : w[i - 1].time <= w[i].time}
ByHand(ws, lengths, seconds) ==
    {[text |-> Written(w, l, s), meant |-> SelectSeq(w, LAMBDA e : e.kind \in DOMAIN Parsers)] :
        w \in ws, l \in lengths, s \in seconds}

A == <<"A", "provider">>
B1 == <<"B", "video">>
B2 == <<"B", "audio">>

Joined(c, opts) == [text : {c.text}, meant : {c.meant}, forced : opts.forced, dci : opts.dci,
                    startup : opts.startup, drained : opts.drained]
With(cs, opts) == UNION {Joined(c, opts) : c \in cs}

MCMessaging == MCEvent({"set_predicate", "send_message"}, MCNode, {{{B1}}, {{B2}}}, {0}, 0..2)
MCOracle ==
    With(ByHand(MCWorkloads(MCMessaging, 3), {4}, {1}),
         [forced |-> {0}, dci |-> {2}, startup |-> {0}, drained |-> {{}, {1}}])

(* Two contents of two classes, then downloads, an event that no parser    *)
(* knows, and one of a third kind.                                         *)
Published == << [kind |-> "publish_content", node |-> 2, arg |-> {{A, B1}}, class |-> 1, time |-> 0],
                [kind |-> "publish_content", node |-> 2, arg |-> {{A}, {B2}}, class |-> 2, time |-> 0] >>
MCDownloads == MCEvent({"download_content"}, {1}, {{{A, B1}}, {{A, B2}}}, {0}, 0..2)
                 \cup MCEvent({"node_fail"}, {1}, {{}}, {0}, 0..2)
                 \cup MCEvent({"set_multipath"}, {1}, {{{A, B1}, {B2}}}, {0}, {1})
MCStatistics ==
    With(ByHand({Published \o w : w \in MCWorkloads(MCDownloads, 2)}, {3, 4}, {1, 2}),
         [forced |-> {0, 2, 5}, dci |-> {0, 1, 2, 3, 5}, startup |-> {0, 1}, drained |-> {{}}])

(* A class of one file and one of two; a client that asks twice as often   *)
(* as the other.  A draw of One for the node, or a sum of rates that does  *)
(* not start at 0, finds no client.                                        *)
MCFiles == << [class |-> 1, file |-> 4, size |-> 2, chunk |-> 8, node |-> 2, name |-> <<A, B1>>],
              [class |-> 4, file |-> 2, size |-> 1, chunk |-> 8, node |-> 2, name |-> <<A, B2>>],
              [class |-> 4, file |-> 4, size |-> 1, chunk |-> 8, node |-> 1, name |-> <<B1>>] >>
MCInput(length, manual, lambda0, draws) ==
    [length |-> length, second |-> 2, manual |-> manual, files |-> MCFiles,
     prefixes |-> << [node |-> 2, name |-> <<A>>], [node |-> 1, name |-> <<B1>>] >>,
     clients |-> [n \in MCNode |-> n], lambda0 |-> lambda0, draws |-> draws]
MCDraw == [delta : {1, 2}, node : {0, 2}, class : {1, 3}, file : {1, 2, 3}]
Beyond == [delta |-> 8, node |-> 0, class |-> 0, file |-> 0]
MCInputs ==
    {MCInput(2, manual, 0, <<d, e, Beyond>>) : manual \in BOOLEAN, d, e \in MCDraw}
      \cup {MCInput(2, TRUE, l, <<[d EXCEPT !.node = r], Beyond>>) :
              d \in MCDraw, l \in {0, 2}, r \in {2, One}}
MCGenerated ==
    With({[text |-> Generated(in), meant |-> Meant(in)] : in \in MCInputs},
         [forced |-> {0}, dci |-> {2}, startup |-> {0}, drained |-> {{}}])

MCConfigs == MCOracle \cup MCStatistics \cup MCGenerated
=============================================================================
