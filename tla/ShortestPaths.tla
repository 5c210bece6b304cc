--------------------------- MODULE ShortestPaths ---------------------------
(***************************************************************************)
(* SPTsBroadcastLayer.cc: the shortest-path trees of a set of links, one   *)
(* per node, and the alternative paths of every pair of nodes.             *)
(*                                                                         *)
(* The algorithm's choices among equally long paths decide what the trees  *)
(* look like, so the order of the adjacency lists and the binary heap are  *)
(* those of the code.  Nodes are numbered 0 .. N-1 in the order in which   *)
(* they were added, so that a node's number and its process id coincide,   *)
(* as computePaths assumes where it looks up alternative paths.            *)
(***************************************************************************)
LOCAL INSTANCE Integers
LOCAL INSTANCE Sequences
LOCAL INSTANCE SequencesExt

CONSTANTS N,        \* number of nodes
          Infinite  \* INFINITE_DISTANCE, larger than every path

Nodes == 0 .. (N - 1)
Nil == -1       \* NIL_NID and NULL_PROCESSID

(***************************************************************************)
(* The graph: a list of neighbours per node, the latest first, and for     *)
(* every neighbour the length given first.                                 *)
(***************************************************************************)
AddAdj(adj, n, m, len) ==
  IF \E k \in DOMAIN adj[n] : adj[n][k].node = m THEN adj
  ELSE [adj EXCEPT ![n] = <<[node |-> m, len |-> len]>> \o @]

AddEdge(adj, e) == AddAdj(AddAdj(adj, e.from, e.to, e.len), e.to, e.from, e.len)

Graph(edges) == FoldLeft(AddEdge, [n \in Nodes |-> <<>>], edges)

(***************************************************************************)
(* The binary heap: a sequence of [dist, node], h[i]'s parent at i \div 2. *)
(***************************************************************************)
Swap(h, i, j) == [h EXCEPT ![i] = h[j], ![j] = h[i]]

RECURSIVE SiftUp(_, _)
SiftUp(h, i) ==
  IF i > 1 /\ h[i].dist < h[i \div 2].dist THEN SiftUp(Swap(h, i, i \div 2), i \div 2)
  ELSE h

RECURSIVE Heapify(_, _)
Heapify(h, i) ==
  LET Lower(j, k) == IF k <= Len(h) /\ h[k].dist < h[j].dist THEN k ELSE j
      smallest == Lower(Lower(i, 2 * i), 2 * i + 1)
  IN  IF smallest = i THEN h ELSE Heapify(Swap(h, i, smallest), smallest)

Insert(h, n, dist) == SiftUp(Append(h, [dist |-> dist, node |-> n]), Len(h) + 1)

PopFirst(h) ==
  IF Len(h) > 1 THEN Heapify(<<h[Len(h)]>> \o SubSeq(h, 2, Len(h) - 1), 1) ELSE <<>>

DecreaseDist(h, n, dist) ==
  LET i == CHOOSE k \in DOMAIN h : h[k].node = n
  IN  IF dist < h[i].dist THEN SiftUp([h EXCEPT ![i].dist = dist], i) ELSE h

(***************************************************************************)
(* Dijkstra from root, until dest is removed from the queue (dest = Nil:   *)
(* until the queue is empty).  s.prev and s.dist are the root's row of the *)
(* predecessor table.                                                      *)
(***************************************************************************)
\* Mutant: the first way found to a node is kept.
RelaxFirst(s, lower, a) ==
  IF lower.dist < Infinite /\ s.dist[a.node] = Infinite
  THEN [heap |-> DecreaseDist(s.heap, a.node, lower.dist + a.len),
        prev |-> [s.prev EXCEPT ![a.node] = lower.node],
        dist |-> [s.dist EXCEPT ![a.node] = lower.dist + a.len]]
  ELSE s

Relax(s, lower, a) ==
  IF s.dist[a.node] > lower.dist + a.len
  THEN [heap |-> DecreaseDist(s.heap, a.node, lower.dist + a.len),
        prev |-> [s.prev EXCEPT ![a.node] = lower.node],
        dist |-> [s.dist EXCEPT ![a.node] = lower.dist + a.len]]
  ELSE s

RECURSIVE Settle(_, _, _)
Settle(adj, s, dest) ==
  LET lower  == s.heap[1]
      popped == [s EXCEPT !.heap = PopFirst(@)]
      RelaxFrom(t, a) == Relax(t, lower, a)
  IN  IF s.heap = <<>> \/ lower.node = dest THEN s
      ELSE Settle(adj, FoldLeft(RelaxFrom, popped, adj[lower.node]), dest)

Dijkstra(adj, root, dest) ==
  LET dist0 == [n \in Nodes |-> IF n = root THEN 0 ELSE Infinite]
      Queue(h, k) == Insert(h, k - 1, dist0[k - 1])
  IN  Settle(adj, [heap |-> FoldLeft(Queue, <<>>, [k \in 1 .. N |-> k]),
                   prev |-> [n \in Nodes |-> IF n = root THEN root ELSE Nil],
                   dist |-> dist0], dest)

\* The links from node back to root along a row of predecessors.
RECURSIVE Back(_, _, _)
Back(prev, root, node) ==
  IF node = root \/ prev[node] = Nil THEN <<>>
  ELSE <<[from |-> node, to |-> prev[node]]>> \o Back(prev, root, prev[node])

(***************************************************************************)
(* computePaths: T[root][node] holds the parent and the children of node in*)
(* the tree of root, and the number of hops between the two.  The row of   *)
(* the smaller of two nodes decides for both: the parent of the smaller    *)
(* one, in the other's tree, is its first hop on the way to the other.     *)
(***************************************************************************)
\* Mutant: the parent is taken from each node's own row, one hop too far.
ParentLastHop(P, root, node) ==
  IF root = node THEN root
  ELSE IF root < node THEN P[root][node]
  ELSE IF P[node][root] = Nil THEN Nil ELSE P[node][root]

Parent(P, root, node) ==
  IF root = node THEN root
  ELSE IF root < node THEN P[root][node]
  ELSE LET back == Back(P[node], node, root)
       IN  IF back = <<>> THEN Nil ELSE Last(back).from

Hops(P, root, node) ==
  IF root = node THEN 0
  ELSE LET low  == IF root < node THEN root ELSE node
           high == IF root < node THEN node ELSE root
       IN  IF P[low][high] = Nil THEN -1 ELSE Len(Back(P[low], low, high))

Trees(edges) ==
  LET adj  == Graph(edges)
      P    == [r \in Nodes |-> Dijkstra(adj, r, Nil).prev]
      prev == [r \in Nodes |-> [n \in Nodes |-> Parent(P, r, n)]]
  IN  [r \in Nodes |-> [n \in Nodes |->
         [prev |-> prev[r][n],
          next |-> {c \in Nodes \ {r} : prev[r][c] = n},
          hops |-> Hops(P, r, n)]]]

(***************************************************************************)
(* computeAlternativePaths: as long as the graph without the links explored*)
(* so far has a path between the two nodes, that path is stored in both    *)
(* directions, as [node |-> next node], under the next number.             *)
(***************************************************************************)
Explored(explored, e) ==
  \E k \in DOMAIN explored : {explored[k].from, explored[k].to} = {e.from, e.to}

NextOnPath(links, start, end) ==
  [n \in {links[k][start] : k \in DOMAIN links} |->
     links[CHOOSE k \in DOMAIN links : links[k][start] = n][end]]

RECURSIVE MorePaths(_, _, _, _, _)
MorePaths(edges, explored, from, to, found) ==
  LET Unexplored(e) == ~Explored(explored, e)
      s     == Dijkstra(Graph(SelectSeq(edges, Unexplored)), from, to)
      links == IF s.dist[to] = Infinite THEN <<>> ELSE Back(s.prev, from, to)
  IN  IF links = <<>> THEN found
      ELSE MorePaths(edges, explored \o links, from, to,
             Append(found, [there |-> NextOnPath(links, "to", "from"),
                            back  |-> NextOnPath(links, "from", "to")]))

\* Mutant: the path of the tree does not count as explored.
AlternativesFromStart(edges, T) ==
  [p \in {q \in Nodes \X Nodes : q[1] < q[2]} |-> MorePaths(edges, <<>>, p[1], p[2], <<>>)]

\* The alternative paths of every pair i < j: element k is path number k + 1.
Alternatives(edges, T) ==
  [p \in {q \in Nodes \X Nodes : q[1] < q[2]} |->
     LET prev == [n \in Nodes |-> T[p[1]][n].prev]
     IN  MorePaths(edges, Back(prev, p[1], p[2]), p[1], p[2], <<>>)]

(***************************************************************************)
(* The queries.                                                            *)
(***************************************************************************)
GetChildren(T, root, node) == T[root][node].next
GetParent(T, root, node) == T[root][node].prev
GetHopCount(T, from, to) == T[to][from].hops

GetNext(A, from, to, node, number) ==
  LET pair  == IF from < to THEN <<from, to>> ELSE <<to, from>>
      known == from # to /\ number - 1 \in DOMAIN A[pair]
      path  == IF from < to THEN A[pair][number - 1].there ELSE A[pair][number - 1].back
  IN  IF known /\ node \in DOMAIN path THEN path[node] ELSE Nil
=============================================================================
