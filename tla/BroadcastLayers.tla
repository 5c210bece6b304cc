-------------------------- MODULE BroadcastLayers --------------------------
(***************************************************************************)
(* The two implementations of BroadcastLayer.h, driven by the same calls:  *)
(* addNode for nodes 0, 1, ..., then addLink in both directions for links  *)
(* in the order in which the topology holds them, then computePaths, as    *)
(* CBNSimulation::setup_node and setup_link do.                            *)
(***************************************************************************)
EXTENDS Integers, SequencesExt, FiniteSetsExt

CONSTANTS N, Infinite,
          Lengths      \* the lengths a link may have

ASSUME SizeAssumption == N \in Nat /\ Infinite \in Nat
ASSUME LengthAssumption == Lengths \subseteq Nat \ {0}

VARIABLES input,        \* input of one layer, m_nodes and m_links of the other
          computed,     \* computePaths has been called
          paths,        \* SPTsBroadcastLayer: paths,
          alternatives, \*   alternative_paths
          mst           \* MSTBroadcastLayer: m_mst
vars == <<input, computed, paths, alternatives, mst>>

SPT == INSTANCE ShortestPaths
Node == SPT!Nodes
Nil == SPT!Nil
MST == INSTANCE MinimumTree WITH NoNode <- Nil

Edge(f, t, l) == [from |-> f, to |-> t, len |-> l]
IsLink(e) == e.from # e.to
Links == SelectSeq(input, IsLink)

Init == input = <<>> /\ computed = FALSE /\ paths = <<>> /\ alternatives = <<>> /\ mst = <<>>

AddNode(p) ==
    /\ ~computed /\ p = Len(input)
    /\ input' = Append(input, Edge(p, p, 0))
    /\ UNCHANGED <<computed, paths, alternatives, mst>>

\* The links of a topology are a sorted set of pairs.
After(f, t) ==
    LET e == input[Len(input) - 1]
    IN  Len(input) = N \/ f > e.from \/ (f = e.from /\ t > e.to)

AddLink(f, t, l) ==
    /\ ~computed /\ Len(input) >= N /\ f < t /\ After(f, t)
    /\ input' = input \o <<Edge(f, t, l), Edge(t, f, l)>>
    /\ UNCHANGED <<computed, paths, alternatives, mst>>

ComputePaths ==
    /\ ~computed /\ Len(input) >= N
    /\ computed' = TRUE
    /\ paths' = SPT!Trees(input)
    /\ alternatives' = SPT!Alternatives(input, paths')
    /\ mst' = MST!Kruskal(Links)
    /\ UNCHANGED input

Next ==
    \/ \E p \in Node : AddNode(p)
    \/ \E f, t \in Node, l \in Lengths : AddLink(f, t, l)
    \/ ComputePaths

Spec == Init /\ [][Next]_vars

-----------------------------------------------------------------------------
(* The reference definitions: what the links say of the nodes.             *)

Neighbours(S) == {e.to : e \in {d \in ToSet(Links) : d.from \in S}}
Component(n) ==
    LET within[k \in 0 .. N] == IF k = 0 THEN {n} ELSE within[k - 1] \cup Neighbours(within[k - 1])
    IN  within[N]

Length(f, t) ==
    Min({Infinite} \cup {e.len : e \in {d \in ToSet(Links) : d.from = f /\ d.to = t}})
Distances(r) ==
    LET upto[k \in 0 .. N, n \in Node] ==
          IF k = 0 THEN IF n = r THEN 0 ELSE Infinite
          ELSE Min({upto[k - 1, n]} \cup {upto[k - 1, m] + Length(m, n) : m \in Node \ {n}})
    IN  [n \in Node |-> upto[N, n]]

(* The nodes on the way from one node to another, where next holds the node*)
(* that follows each one.                                                  *)
RECURSIVE Way(_, _, _, _)
Way(next, from, to, steps) ==
    IF from = to \/ steps = 0 \/ from \notin DOMAIN next THEN <<from>>
    ELSE <<from>> \o Way(next, next[from], to, steps - 1)

LinksOf(way) == {{way[k], way[k + 1]} : k \in 1 .. Len(way) - 1}
WayLength(way) == FoldLeft(+, 0, [k \in 1 .. Len(way) - 1 |-> Length(way[k], way[k + 1])])

-----------------------------------------------------------------------------
(* Children handed on by getChildren(root, .) reach each node that the     *)
(* links connect to root, each from one parent, the one getParent names.   *)
SpansOnce(r, children, parent) ==
    LET reached[k \in 0 .. N] ==
          IF k = 0 THEN {r} ELSE reached[k - 1] \cup UNION {children[n] : n \in reached[k - 1]}
    IN  /\ reached[N] = Component(r)
        /\ \A n \in Node : r \notin children[n]
        /\ \A n \in Component(r) \ {r} : {m \in Node : n \in children[m]} = {parent[n]}

(* Both layers: a predicate handed down the tree of its issuer, each node  *)
(* passing it to its children, reaches every node exactly once, although   *)
(* the rows of the smaller nodes decide parents in the trees of the others.*)
TreesSpan ==
    computed => \A r \in Node :
        /\ SpansOnce(r, [n \in Node |-> SPT!GetChildren(paths, r, n)],
                        [n \in Node |-> SPT!GetParent(paths, r, n)])
        /\ LET tree == MST!Rooted(mst, r) IN SpansOnce(r, tree.children, tree.parents)

(* Following the parents in the tree of a root is a shortest way to it.    *)
RoutesShortest ==
    computed => \A r \in Node : \A n \in Component(r) :
        LET way == Way([m \in Node |-> SPT!GetParent(paths, r, m)], n, r, N)
        IN  Last(way) = r /\ WayLength(way) = Distances(r)[n]

(* The alternative paths between two nodes, as getNext tells them, are     *)
(* ways of existing links that share none with each other nor with the     *)
(* tree of the smaller node; they are mirrored for the other direction; and*)
(* they stop only when the links that are left do not connect the two.     *)
AlternativesDisjoint ==
    computed => \A p \in DOMAIN alternatives :
        LET i == p[1]
            j == p[2]
            count == Len(alternatives[p])
            NextTo(f, t, k) == [n \in {m \in Node : SPT!GetNext(alternatives, f, t, m, k) # Nil} |->
                                  SPT!GetNext(alternatives, f, t, n, k)]
            way == [k \in 1 .. count + 1 |->
                      IF k = 1 THEN Reverse(Way([m \in Node |-> SPT!GetParent(paths, i, m)], j, i, N))
                      ELSE Way(NextTo(i, j, k), i, j, N)]
            used == UNION {LinksOf(way[k]) : k \in 1 .. count + 1}
            Free(S) == {n \in Node : \E m \in S : {m, n} \notin used /\ Length(m, n) < Infinite}
            left[k \in 0 .. N] == IF k = 0 THEN {i} ELSE left[k - 1] \cup Free(left[k - 1])
        IN  j \in Component(i) =>
            /\ \A k \in 1 .. count + 1 : Last(way[k]) = j /\ WayLength(way[k]) < Infinite
            /\ \A k, m \in 1 .. count + 1 : k < m => LinksOf(way[k]) \cap LinksOf(way[m]) = {}
            /\ \A k \in 2 .. count + 1 : Way(NextTo(j, i, k), j, i, N) = Reverse(way[k])
            /\ j \notin left[N]

(* The second layer's tree is as light as any set of links that connects   *)
(* what all links connect, and hop counts are those along its trees.       *)
Weight(S) == FoldSet(LAMBDA l, w : w + Length(Min(l), Max(l)), 0, S)
Connects(S, n) ==
    LET r[k \in 0 .. N] == IF k = 0 THEN {n} ELSE r[k - 1] \cup UNION {l \in S : l \cap r[k - 1] # {}}
    IN  r[N]
TreeMinimal ==
    computed =>
        LET all  == {{e.from, e.to} : e \in ToSet(Links)}
            tree == {{n, m} : <<n, m>> \in {q \in Node \X Node : q[2] \in mst[q[1]]}}
        IN  /\ \A S \in SUBSET all :
                 (\A n \in Node : Connects(S, n) = Component(n)) => Weight(tree) <= Weight(S)
            /\ \A n, r \in Node :
                 MST!GetHopCount(mst, n, r) =
                   IF n \notin Component(r) THEN -1
                   ELSE Len(Way(MST!Rooted(mst, r).parents, n, r, N)) - 1
=============================================================================
