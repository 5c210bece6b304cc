----------------------------- MODULE MCRouting -----------------------------
(***************************************************************************)
(* A ring of four nodes, 0 - 1 - 3 - 2 - 0.  Two nodes set the same        *)
(* filter, one of them a second filter too, which it announces to the      *)
(* opposite node on the alternative path between them.  Trees and path are *)
(* those of the broadcast layer, written out; the assumption compares them.*)
(***************************************************************************)
EXTENDS Routing

CONSTANTS f1, f2

MCNode == 0 .. 3
MCNoNode == -1
MCFilter == {f1, f2}
MCNumbers == {2}

Tree(first, second, third) ==
    [n \in MCNode |-> IF n = first[1] THEN first[2] ELSE IF n = second[1] THEN second[2] ELSE third]
MCChildren == [r \in MCNode |->
    CASE r = 0 -> Tree(<<0, {1, 2}>>, <<2, {3}>>, {})
      [] r = 1 -> Tree(<<1, {0, 3}>>, <<3, {2}>>, {})
      [] r = 2 -> Tree(<<2, {0, 3}>>, <<3, {1}>>, {})
      [] r = 3 -> Tree(<<3, {1, 2}>>, <<2, {0}>>, {})]

\* Only the path between 0 and 3 is asked for.
MCNextNode == [p \in MCNode \X MCNode \X MCNumbers |-> [n \in MCNode |->
    CASE <<p, n>> \in {<<<<0, 3, 2>>, 0>>, <<<<3, 0, 2>>, 3>>} -> 1
      [] <<p, n>> = <<<<0, 3, 2>>, 1>> -> 3
      [] <<p, n>> = <<<<3, 0, 2>>, 1>> -> 0
      [] OTHER -> MCNoNode]]

MCPredicates == {<<0, {f1}>>, <<2, {f1}>>, <<0, {f2}>>}
MCMultipaths == {<<0, 3>>}

SPT == INSTANCE ShortestPaths WITH N <- 4, Infinite <- 100
Edges == <<<<0, 0>>, <<1, 1>>, <<2, 2>>, <<3, 3>>, <<0, 1>>, <<0, 2>>, <<1, 3>>, <<2, 3>>>>
ASSUME RingAssumption ==
    LET input == [k \in DOMAIN Edges |->
                    [from |-> Edges[k][1], to |-> Edges[k][2], len |-> IF k > 4 THEN 1 ELSE 0]]
        trees == SPT!Trees(input)
        paths == SPT!Alternatives(input, trees)
    IN  /\ \A r, n \in MCNode : MCChildren[r][n] = SPT!GetChildren(trees, r, n)
        /\ \A n \in MCNode : /\ MCNextNode[<<0, 3, 2>>][n] = SPT!GetNext(paths, 0, 3, n, 2)
                             /\ MCNextNode[<<3, 0, 2>>][n] = SPT!GetNext(paths, 3, 0, n, 2)
=============================================================================
