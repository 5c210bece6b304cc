---------------------------- MODULE MinimumTree ----------------------------
(***************************************************************************)
(* MSTBroadcastLayer.cc: one minimum spanning tree (Kruskal), seen from    *)
(* every node of the graph.  Links are taken by length, and those of one   *)
(* length in the order in which they were added (a multimap).              *)
(***************************************************************************)
LOCAL INSTANCE Integers
LOCAL INSTANCE Sequences
LOCAL INSTANCE FiniteSets
LOCAL INSTANCE SequencesExt

CONSTANTS Node,   \* m_nodes
          NoNode  \* NULL_PROCESSID

(* m_links *)
ByLength(links) ==
  LET Before(j) == {i \in DOMAIN links : links[i].len < links[j].len
                                         \/ (links[i].len = links[j].len /\ i < j)}
  IN  [k \in DOMAIN links |->
         links[CHOOSE j \in DOMAIN links : Cardinality(Before(j)) = k - 1]]

\* Mutant: only the second node itself changes its root.
JoinOne(roots, n1, n2) == [roots EXCEPT ![n2] = roots[n1]]

(* Everyone with the root of the second node gets the root of the first.   *)
Join(roots, n1, n2) == [n \in Node |-> IF roots[n] = roots[n2] THEN roots[n1] ELSE roots[n]]

Consider(s, link) ==
  IF s.roots[link.from] = s.roots[link.to] THEN s
  ELSE [roots |-> Join(s.roots, link.from, link.to),
        mst |-> [s.mst EXCEPT ![link.from] = @ \cup {link.to}, ![link.to] = @ \cup {link.from}]]

Kruskal(links) ==
  FoldLeft(Consider, [roots |-> [n \in Node |-> n], mst |-> [n \in Node |-> {}]],
           ByLength(links)).mst

(* visit(): depth first over the neighbours, in their order; parents only  *)
(* has the nodes that were reached.                                        *)
RECURSIVE Visit(_, _, _)
Visit(mst, node, s) ==
  LET Next(t, m) ==
        IF m \in t.visited THEN t
        ELSE Visit(mst, m, [t EXCEPT !.parents[m] = node, !.children[node] = @ \cup {m}])
      Lower(a, b) == a < b
  IN  FoldLeft(Next, [s EXCEPT !.visited = @ \cup {node}], SetToSortSeq(mst[node], Lower))

(* m_parents and m_children of a root *)
Rooted(mst, root) ==
  Visit(mst, root, [visited |-> {},
                    parents |-> [n \in Node |-> IF n = root THEN root ELSE NoNode],
                    children |-> [n \in Node |-> {}]])

(* getHopCount: depth first from a node, a neighbour that is the goal first*)
RECURSIVE HopCount(_, _, _, _)
HopCount(mst, from, to, visited) ==
  LET Try(s, m) ==
        IF s.hops # -1 \/ m \in s.visited THEN s
        ELSE HopCount(mst, m, to, s.visited \cup {m})
      Lower(a, b) == a < b
      found == FoldLeft(Try, [hops |-> -1, visited |-> visited],
                        SetToSortSeq(mst[from], Lower))
  IN  IF from = to THEN [hops |-> 0, visited |-> visited]
      ELSE IF to \in mst[from] THEN [hops |-> 1, visited |-> visited]
      ELSE [found EXCEPT !.hops = IF @ = -1 THEN -1 ELSE @ + 1]

GetHopCount(mst, from, to) == HopCount(mst, from, to, {from}).hops
=============================================================================
