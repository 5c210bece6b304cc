------------------------------ MODULE Routing ------------------------------
(***************************************************************************)
(* The control plane of the nodes (CBCBNode.cc): predicates set at a node  *)
(* are announced to all others by RA packets, which each node hands to its *)
(* children in the tree of the issuer, or to the next node of one of the   *)
(* issuer's alternative paths.  What a node learns from an RA it records   *)
(* for the interface the RA came from, in the route table from which the   *)
(* forwarding table is built when it is next used.                         *)
(*                                                                         *)
(* An interface is named by the node at its other end, interface 0 by the  *)
(* node itself.  RAs do not pass the output queues; on a link they all take*)
(* the link's delay, so that they keep their order.  Policies are those    *)
(* that cbcbsim runs with: PIP_IMMEDIATE, PRP_ALWAYS.                      *)
(***************************************************************************)
EXTENDS Integers, Sequences

CONSTANTS
    Node,
    NoNode,     \* NULL_PROCESSID, the destination of RAs that go down a tree
    Filter,     \* the filters a predicate is made of, none covering another
    Children,   \* Children[r][n]: getChildren(r, n)
    Numbers,    \* the numbers of alternative paths: 2, 3, ...
    NextNode,   \* NextNode[<<from, to, number>>][n]: getNext(from, to, n, number)
    Predicates, \* the set_predicate events of the workload, <<node, predicate>>
    Multipaths  \* its set_multipath events, <<node, destination>>

Route == Node \X (Node \cup {NoNode}) \X Numbers

ASSUME NodeAssumption == NoNode \notin Node
ASSUME NumberAssumption == Numbers \subseteq Nat /\ 2 \in Numbers
ASSUME TreeAssumption ==
    /\ Children \in [Node -> [Node -> SUBSET Node]]
    /\ \A r, n \in Node : r \notin Children[r][n] /\ n \notin Children[r][n]
    /\ \A r, m, n \in Node : Children[r][m] \cap Children[r][n] # {} => m = n
ASSUME PathAssumption ==
    /\ NextNode \in [Node \X Node \X Numbers -> [Node -> Node \cup {NoNode}]]
    /\ \A p \in Node \X Node \X Numbers, n \in Node : NextNode[p][n] \notin {p[1], n}

ASSUME WorkloadAssumption ==
    /\ Predicates \subseteq Node \X SUBSET Filter
    /\ Multipaths \subseteq Node \X Node

RA == [issuer : Node, dest : Node \cup {NoNode}, number : Numbers, pred : SUBSET Filter]

VARIABLES
    multipaths,    \* the set_multipath events to come
    routes,        \* m_route_table: node -> interface -> predicate
    issuePending,  \* m_issue_pending
    dirty,         \* m_route_table_dirty
    fwd,           \* m_fwd_table: node -> interface -> predicate
    split,         \* the load balancer's table: node -> filter -> interfaces
    links,         \* the RAs under way from one node to another
    heard          \* history: what a node was told down the trees, <<issuer, filter>>

vars == <<multipaths, routes, issuePending, dirty, fwd, split, links, heard>>

NoRoutes == [n \in Node |-> [m \in Node |-> {}]]

Init ==
    /\ multipaths = Multipaths
    /\ routes = NoRoutes
    /\ issuePending = [n \in Node |-> FALSE]
    /\ dirty = [n \in Node |-> FALSE]
    /\ fwd = NoRoutes
    /\ split = [n \in Node |-> [f \in Filter |-> {}]]
    /\ links = [n \in Node |-> [m \in Node |-> <<>>]]
    /\ heard = [n \in Node |-> {}]

-----------------------------------------------------------------------------
(* siena::covers *)
Covers(p, q) == q \subseteq p

(* The neighbours propagate_ra passes an RA to.                            *)
Receivers(n, ra) ==
    IF ra.dest = NoNode THEN Children[ra.issuer][n]
    ELSE IF ra.dest = n THEN {}
    ELSE {NextNode[<<ra.issuer, ra.dest, ra.number>>][n]} \ {NoNode}

PropagateRA(ls, n, ra) ==
    [ls EXCEPT ![n] = [m \in Node |->
        IF m \in Receivers(n, ra) THEN Append(ls[n][m], ra) ELSE ls[n][m]]]

Announcement(n, dest, number, pred) ==
    [issuer |-> n, dest |-> dest, number |-> number, pred |-> pred]

(* A set_predicate event; issue_predicate() follows at once.  A node whose *)
(* m_power_left, which no constructor sets, is negative ignores the event: *)
(* the step is not taken.                                                  *)
SetPredicate(n, p) ==
    /\ ~Covers(routes[n][n], p)
    /\ routes' = [routes EXCEPT ![n][n] = @ \cup p]
    /\ dirty' = [dirty EXCEPT ![n] = TRUE]
    /\ links' = PropagateRA(links, n, Announcement(n, NoNode, 2, routes'[n][n]))
    /\ issuePending' = [issuePending EXCEPT ![n] = FALSE]
    /\ UNCHANGED <<multipaths, fwd, split, heard>>

(* A set_multipath event: the loop over the alternative paths to a node    *)
(* calls issue_predicate for each, which issues only while the flag is set *)
(* and resets it, so that the first path alone is announced.               *)
SetMultipath(n, to) ==
    LET found == NextNode[<<n, to, 2>>][n] # NoNode
    IN  /\ <<n, to>> \in multipaths
        /\ multipaths' = multipaths \ {<<n, to>>}
        /\ issuePending' = [issuePending EXCEPT ![n] = ~found]
        /\ links' = IF found
                    THEN PropagateRA(links, n, Announcement(n, to, 2, routes[n][n]))
                    ELSE links
        /\ UNCHANGED <<routes, dirty, fwd, split, heard>>

\* Mutant: nothing if some interface's predicate covers it.
UpdateOnce(n, m, ra) ==
    IF Covers(UNION {routes[n][k] : k \in Node}, ra.pred)
    THEN UNCHANGED <<routes, split, dirty>>
    ELSE /\ routes' = [routes EXCEPT ![n][m] = @ \cup ra.pred]
         /\ split' = [split EXCEPT ![n] = [f \in Filter |->
                IF f \in ra.pred THEN split[n][f] \cup {m} ELSE split[n][f]]]
         /\ dirty' = [dirty EXCEPT ![n] = TRUE]

\* Mutant: the table is marked only when the interface had no predicate.
UpdateUnmarked(n, m, ra) ==
    IF Covers(routes[n][m], ra.pred) /\ ra.dest = NoNode
    THEN UNCHANGED <<routes, split, dirty>>
    ELSE /\ routes' = [routes EXCEPT ![n][m] = @ \cup ra.pred]
         /\ split' = [split EXCEPT ![n] = [f \in Filter |->
                IF f \in ra.pred THEN split[n][f] \cup {m} ELSE split[n][f]]]
         /\ dirty' = [dirty EXCEPT ![n] = routes[n][m] = {} \/ @]

(* update_route_table for an RA: nothing if what is known covers it and it *)
(* came down a tree.                                                       *)
Update(n, m, ra) ==
    IF Covers(routes[n][m], ra.pred) /\ ra.dest = NoNode
    THEN UNCHANGED <<routes, split, dirty>>
    ELSE /\ routes' = [routes EXCEPT ![n][m] = @ \cup ra.pred]
         /\ split' = [split EXCEPT ![n] = [f \in Filter |->
                IF f \in ra.pred THEN split[n][f] \cup {m} ELSE split[n][f]]]
         /\ dirty' = [dirty EXCEPT ![n] = TRUE]

Heard(n, ra) ==
    IF ra.dest = NoNode
    THEN [heard EXCEPT ![n] = @ \cup {<<ra.issuer, f>> : f \in ra.pred}]
    ELSE heard

\* Mutant: an RA that is not news goes no further.
ProcessRANews(n, m) ==
    /\ links[m][n] # <<>>
    /\ LET ra   == Head(links[m][n])
           rest == [links EXCEPT ![m][n] = Tail(@)]
       IN  /\ Update(n, m, ra)
           /\ links' = IF Covers(routes[n][m], ra.pred) THEN rest ELSE PropagateRA(rest, n, ra)
           /\ heard' = Heard(n, ra)
    /\ UNCHANGED <<multipaths, issuePending, fwd>>

(* process_ra: the RA is handed on whether or not it was news.             *)
ProcessRA(n, m) ==
    /\ links[m][n] # <<>>
    /\ LET ra   == Head(links[m][n])
           rest == [links EXCEPT ![m][n] = Tail(@)]
       IN  /\ Update(n, m, ra)
           /\ links' = PropagateRA(rest, n, ra)
           /\ heard' = Heard(n, ra)
    /\ UNCHANGED <<multipaths, issuePending, fwd>>

(* update_fwd_table, the first thing that an interest, a message or a      *)
(* download does at a node with a dirty table.                             *)
UpdateFwdTable(n) ==
    /\ dirty[n]
    /\ fwd' = [fwd EXCEPT ![n] = routes[n]]
    /\ dirty' = [dirty EXCEPT ![n] = FALSE]
    /\ UNCHANGED <<multipaths, routes, issuePending, split, links, heard>>

Next ==
    \/ \E e \in Predicates : SetPredicate(e[1], e[2])
    \/ \E e \in Multipaths : SetMultipath(e[1], e[2])
    \/ \E n, m \in Node : ProcessRA(n, m)
    \/ \E n \in Node : UpdateFwdTable(n)

(* Every RA that was signalled arrives.                                    *)
Fairness == WF_vars(\E n, m \in Node : ProcessRA(n, m))

Spec == Init /\ [][Next]_vars /\ Fairness

-----------------------------------------------------------------------------
TypeOK ==
    /\ multipaths \subseteq Multipaths
    /\ routes \in [Node -> [Node -> SUBSET Filter]]
    /\ issuePending \in [Node -> BOOLEAN]
    /\ dirty \in [Node -> BOOLEAN]
    /\ fwd \in [Node -> [Node -> SUBSET Filter]]
    /\ split \in [Node -> [Filter -> SUBSET Node]]
    /\ links \in [Node -> [Node -> Seq(RA)]]
    /\ heard \in [Node -> SUBSET (Node \X Filter)]

(* m passes announcements of a route to n.                                 *)
Hands(rt, m, n) ==
    n \in Receivers(m, [issuer |-> rt[1], dest |-> rt[2], number |-> rt[3], pred |-> {}])

(* m is the issuer of a route or has an entry for it.                      *)
LeadsOn(rt, m, f) == m = rt[1] \/ \E p \in Node : Hands(rt, p, m) /\ f \in routes[m][p]

(* No entry of a route table is made up or dangles: it is owed to a node   *)
(* that set the filter and to a route on which the interface's node hands  *)
(* announcements to this one, and that node is the issuer or has an entry  *)
(* for the route itself, however RAs of several issuers interleave.        *)
RoutesLead ==
    \A n, m \in Node : n # m =>
        \A f \in routes[n][m] : \E rt \in Route :
            f \in routes[rt[1]][rt[1]] /\ Hands(rt, m, n) /\ LeadsOn(rt, m, f)

(* What a node has set or was told down a tree its children in that tree   *)
(* were told as well, or an RA is under way to them; and what was told is  *)
(* in the route table.  An RA that the table covers already must be handed *)
(* on all the same: it may have been covered by another issuer's, whose    *)
(* tree has other children here.                                           *)
Told(n, r, f) == IF n = r THEN f \in routes[r][r] ELSE <<r, f>> \in heard[n]
UnderWay(m, n, r, f) ==
    \E i \in 1 .. Len(links[m][n]) :
        LET ra == links[m][n][i] IN ra.issuer = r /\ ra.dest = NoNode /\ f \in ra.pred
HandedOn ==
    \A r, m \in Node, f \in Filter : \A n \in Children[r][m] :
        /\ Told(m, r, f) => Told(n, r, f) \/ UnderWay(m, n, r, f)
        /\ <<r, f>> \in heard[n] => f \in routes[n][m]

(* The tables used for forwarding agree with the route table: the one the  *)
(* interests are matched with, unless it is marked as out of date, and the *)
(* one that lists the interfaces to choose from.                           *)
TablesAgree ==
    \A n \in Node :
        /\ dirty[n] \/ fwd[n] = routes[n]
        /\ \A f \in Filter : split[n][f] = {m \in Node \ {n} : f \in routes[n][m]}

(* In the end every node of a tree has an entry for what its root has set. *)
EveryNodeLearns ==
    <>[](\A r, p \in Node : \A n \in Children[r][p] : routes[r][r] \subseteq routes[n][p])
=============================================================================
