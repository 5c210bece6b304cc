--------------------------- MODULE RoutingProofs ---------------------------
(***************************************************************************)
(* Proofs about the control plane, for any trees in which a node has one   *)
(* parent and any alternative paths that do not return to their start.     *)
(***************************************************************************)
EXTENDS Routing, TLAPS

(* An RA is never passed to its issuer, nor to the node that passes it.    *)
LEMMA NeverBack ==
    ASSUME NEW n \in Node, NEW ra \in RA, NEW m \in Receivers(n, ra)
    PROVE  m \in Node /\ m # n /\ m # ra.issuer
<1>1. CASE ra.dest = NoNode
  BY <1>1, TreeAssumption DEF Receivers, RA
<1>2. CASE ra.dest # NoNode
  <2>1. <<ra.issuer, ra.dest, ra.number>> \in Node \X Node \X Numbers
    BY <1>2 DEF RA
  <2>2. m = NextNode[<<ra.issuer, ra.dest, ra.number>>][n] /\ m # NoNode
    BY <1>2 DEF Receivers
  <2> QED BY <2>1, <2>2, PathAssumption
<1> QED BY <1>1, <1>2

LEMMA PropagateType ==
    ASSUME NEW ls \in [Node -> [Node -> Seq(RA)]], NEW n \in Node, NEW ra \in RA
    PROVE  /\ PropagateRA(ls, n, ra) \in [Node -> [Node -> Seq(RA)]]
           /\ \A k, m \in Node : PropagateRA(ls, n, ra)[k][m] =
                IF k = n /\ m \in Receivers(n, ra) THEN Append(ls[k][m], ra) ELSE ls[k][m]
BY DEF PropagateRA

LEMMA AnnouncementType ==
    ASSUME NEW n \in Node, NEW d \in Node \cup {NoNode}, NEW p \in SUBSET Filter
    PROVE  Announcement(n, d, 2, p) \in RA
BY NumberAssumption DEF Announcement, RA

(* What an event does to the links, whatever handler it is.                *)
LEMMA ProcessedRA ==
    ASSUME TypeOK, NEW n \in Node, NEW m \in Node, ProcessRA(n, m)
    PROVE  /\ Head(links[m][n]) \in RA
           /\ links[m][n] # <<>>
           /\ [links EXCEPT ![m][n] = Tail(@)] \in [Node -> [Node -> Seq(RA)]]
           /\ Update(n, m, Head(links[m][n]))
           /\ links' = PropagateRA([links EXCEPT ![m][n] = Tail(@)], n, Head(links[m][n]))
           /\ heard' = Heard(n, Head(links[m][n]))
BY DEF TypeOK, ProcessRA

LEMMA UpdateType ==
    ASSUME TypeOK, NEW n \in Node, NEW m \in Node, NEW ra \in RA, Update(n, m, ra)
    PROVE  /\ routes' \in [Node -> [Node -> SUBSET Filter]]
           /\ split' \in [Node -> [Filter -> SUBSET Node]]
           /\ dirty' \in [Node -> BOOLEAN]
           /\ routes' = [routes EXCEPT ![n][m] = @ \cup ra.pred]
<1>1. CASE Covers(routes[n][m], ra.pred) /\ ra.dest = NoNode
  BY <1>1 DEF Update, Covers, TypeOK
<1>2. CASE ~(Covers(routes[n][m], ra.pred) /\ ra.dest = NoNode)
  <2>1. ra.pred \in SUBSET Filter
    BY DEF RA
  <2>2. /\ routes' = [routes EXCEPT ![n][m] = @ \cup ra.pred]
        /\ split' = [split EXCEPT ![n] = [f \in Filter |->
               IF f \in ra.pred THEN split[n][f] \cup {m} ELSE split[n][f]]]
        /\ dirty' = [dirty EXCEPT ![n] = TRUE]
    BY <1>2 DEF Update
  <2>3. routes' \in [Node -> [Node -> SUBSET Filter]]
    <3>1. routes \in [Node -> [Node -> SUBSET Filter]]
      BY DEF TypeOK
    <3>2. routes[n][m] \cup ra.pred \in SUBSET Filter
      BY <2>1, <3>1
    <3> QED BY <2>2, <3>1, <3>2
  <2>4. split' \in [Node -> [Filter -> SUBSET Node]]
    <3>1. \A f \in Filter : split[n][f] \in SUBSET Node
      BY DEF TypeOK
    <3>2. [f \in Filter |-> IF f \in ra.pred THEN split[n][f] \cup {m} ELSE split[n][f]]
            \in [Filter -> SUBSET Node]
      BY <3>1
    <3> QED BY <2>2, <3>2 DEF TypeOK
  <2>5. dirty' \in [Node -> BOOLEAN]
    BY <2>2 DEF TypeOK
  <2> QED BY <2>2, <2>3, <2>4, <2>5
<1> QED BY <1>1, <1>2

LEMMA TypeInit == Init => TypeOK
BY DEF Init, TypeOK, NoRoutes

LEMMA TypeStep == TypeOK /\ [Next]_vars => TypeOK'
<1> SUFFICES ASSUME TypeOK, [Next]_vars PROVE TypeOK'
  OBVIOUS
<1>1. ASSUME NEW e \in Predicates, SetPredicate(e[1], e[2]) PROVE TypeOK'
  <2>1. e[1] \in Node /\ e[2] \in SUBSET Filter
    BY WorkloadAssumption
  <2>2. /\ routes' \in [Node -> [Node -> SUBSET Filter]]
        /\ dirty' \in [Node -> BOOLEAN]
        /\ issuePending' \in [Node -> BOOLEAN]
    <3>1. routes' = [routes EXCEPT ![e[1]][e[1]] = @ \cup e[2]]
      BY <1>1 DEF SetPredicate
    <3>2. routes' \in [Node -> [Node -> SUBSET Filter]]
      BY <2>1, <3>1 DEF TypeOK
    <3>3. dirty' = [dirty EXCEPT ![e[1]] = TRUE] /\ issuePending' = [issuePending EXCEPT ![e[1]] = FALSE]
      BY <1>1 DEF SetPredicate
    <3>4. dirty' \in [Node -> BOOLEAN] /\ issuePending' \in [Node -> BOOLEAN]
      BY <2>1, <3>3 DEF TypeOK
    <3> QED BY <3>2, <3>4
  <2>3. links' \in [Node -> [Node -> Seq(RA)]]
    <3>1. routes'[e[1]][e[1]] \in SUBSET Filter
      BY <2>1, <2>2
    <3>2. Announcement(e[1], NoNode, 2, routes'[e[1]][e[1]]) \in RA
      BY <2>1, <3>1, AnnouncementType
    <3>3. links \in [Node -> [Node -> Seq(RA)]]
      BY DEF TypeOK
    <3> QED BY <1>1, <2>1, <3>2, <3>3, PropagateType DEF SetPredicate
  <2> QED BY <1>1, <2>2, <2>3 DEF SetPredicate, TypeOK
<1>2. ASSUME NEW e \in Multipaths, SetMultipath(e[1], e[2]) PROVE TypeOK'
  <2>1. e[1] \in Node /\ e[2] \in Node
    BY WorkloadAssumption
  <2>2. Announcement(e[1], e[2], 2, routes[e[1]][e[1]]) \in RA
    BY <2>1, AnnouncementType DEF TypeOK
  <2>3. links' \in [Node -> [Node -> Seq(RA)]]
    BY <1>2, <2>1, <2>2, PropagateType DEF SetMultipath, TypeOK
  <2>4. issuePending' \in [Node -> BOOLEAN]
    <3>1. PICK b \in BOOLEAN : issuePending' = [issuePending EXCEPT ![e[1]] = b]
      BY <1>2, Zenon DEF SetMultipath
    <3> QED BY <2>1, <3>1 DEF TypeOK
  <2> QED BY <1>2, <2>3, <2>4 DEF SetMultipath, TypeOK
<1>3. ASSUME NEW n \in Node, NEW m \in Node, ProcessRA(n, m) PROVE TypeOK'
  <2> DEFINE ra == Head(links[m][n])
  <2>0. ra \in RA /\ heard' = Heard(n, ra)
    BY <1>3, ProcessedRA
  <2>1. links' \in [Node -> [Node -> Seq(RA)]]
    <3>1. /\ [links EXCEPT ![m][n] = Tail(@)] \in [Node -> [Node -> Seq(RA)]]
          /\ links' = PropagateRA([links EXCEPT ![m][n] = Tail(@)], n, ra)
      BY <1>3, ProcessedRA
    <3> HIDE DEF ra
    <3> QED BY <2>0, <3>1, PropagateType
  <2>2. heard' \in [Node -> SUBSET (Node \X Filter)]
    <3> HIDE DEF ra
    <3>1. {<<ra.issuer, f>> : f \in ra.pred} \subseteq Node \X Filter
      BY <2>0 DEF RA
    <3> QED BY <2>0, <3>1 DEF Heard, TypeOK
  <2>3. /\ routes' \in [Node -> [Node -> SUBSET Filter]]
        /\ split' \in [Node -> [Filter -> SUBSET Node]]
        /\ dirty' \in [Node -> BOOLEAN]
    BY <1>3, ProcessedRA, UpdateType
  <2> QED BY <1>3, <2>1, <2>2, <2>3 DEF ProcessRA, TypeOK
<1>4. ASSUME NEW n \in Node, UpdateFwdTable(n) PROVE TypeOK'
  BY <1>4 DEF UpdateFwdTable, TypeOK
<1>5. CASE UNCHANGED vars
  BY <1>5 DEF vars, TypeOK
<1> QED BY <1>1, <1>2, <1>3, <1>4, <1>5 DEF Next

(* The tables and the links hold what their types say.                     *)
THEOREM TypeCorrect == Spec => []TypeOK
BY TypeInit, TypeStep, PTL DEF Spec

-----------------------------------------------------------------------------
(* What is under way: an RA is on its way to a receiver, its filters were  *)
(* set by its issuer, and the node it comes from is the issuer or has an   *)
(* entry for the route.                                                    *)
RouteOf(ra) == <<ra.issuer, ra.dest, ra.number>>
Leads(m, n, ra) ==
    /\ n \in Receivers(m, ra)
    /\ ra.pred \subseteq routes[ra.issuer][ra.issuer]
    /\ \A f \in ra.pred : LeadsOn(RouteOf(ra), m, f)
On(ls, m, n, ra) == \E i \in 1 .. Len(ls[m][n]) : ls[m][n][i] = ra
LinksLead ==
    \A m, n \in Node, ra \in RA : On(links, m, n, ra) => Leads(m, n, ra)

LEMMA HandsRA ==
    ASSUME NEW ra \in RA, NEW m, NEW n
    PROVE  Hands(RouteOf(ra), m, n) <=> n \in Receivers(m, ra)
BY DEF Hands, RouteOf, Receivers

LEMMA RouteType ==
    ASSUME NEW ra \in RA
    PROVE  RouteOf(ra) \in Route /\ RouteOf(ra)[1] = ra.issuer /\ ra.issuer \in Node
BY DEF RouteOf, Route, RA

(* What a handler leaves on the links: what was there, and the RA it passes*)
(* on to each of its receivers.                                            *)
LEMMA PropagateMembers ==
    ASSUME NEW ls \in [Node -> [Node -> Seq(RA)]], NEW n \in Node, NEW ra \in RA,
           NEW k \in Node, NEW m \in Node, NEW old \in RA,
           On(PropagateRA(ls, n, ra), k, m, old)
    PROVE  \/ k = n /\ m \in Receivers(n, ra) /\ old = ra
           \/ On(ls, k, m, old)
<1> PICK i \in 1 .. Len(PropagateRA(ls, n, ra)[k][m]) : PropagateRA(ls, n, ra)[k][m][i] = old
  BY DEF On
<1>1. ls[k][m] \in Seq(RA)
  OBVIOUS
<1>2. PropagateRA(ls, n, ra)[k][m] =
        IF k = n /\ m \in Receivers(n, ra) THEN Append(ls[k][m], ra) ELSE ls[k][m]
  BY DEF PropagateRA
<1>3. CASE k = n /\ m \in Receivers(n, ra)
  <2>1. PropagateRA(ls, n, ra)[k][m] = Append(ls[k][m], ra)
    BY <1>2, <1>3
  <2>2. /\ Len(Append(ls[k][m], ra)) = Len(ls[k][m]) + 1
        /\ \A j \in 1 .. Len(ls[k][m]) : Append(ls[k][m], ra)[j] = ls[k][m][j]
        /\ Append(ls[k][m], ra)[Len(ls[k][m]) + 1] = ra
    BY <1>1
  <2>3. i = Len(ls[k][m]) + 1 \/ i \in 1 .. Len(ls[k][m])
    BY <1>1, <2>1, <2>2
  <2> QED BY <1>3, <2>1, <2>2, <2>3 DEF On
<1>4. CASE ~(k = n /\ m \in Receivers(n, ra))
  BY <1>2, <1>4 DEF On
<1> QED BY <1>3, <1>4

LEMMA TailMembers ==
    ASSUME NEW ls \in [Node -> [Node -> Seq(RA)]], NEW n \in Node, NEW m \in Node,
           ls[m][n] # <<>>, NEW k \in Node, NEW j \in Node, NEW ra,
           On([ls EXCEPT ![m][n] = Tail(@)], k, j, ra)
    PROVE  On(ls, k, j, ra)
<1> PICK i \in 1 .. Len([ls EXCEPT ![m][n] = Tail(@)][k][j]) :
           [ls EXCEPT ![m][n] = Tail(@)][k][j][i] = ra
  BY DEF On
<1>1. CASE k = m /\ j = n
  <2>1. [ls EXCEPT ![m][n] = Tail(@)][k][j] = Tail(ls[m][n]) /\ ls[m][n] \in Seq(RA)
    BY <1>1
  <2>2. \A s \in Seq(RA) : s # <<>> =>
          \A h \in 1 .. Len(Tail(s)) : h + 1 \in 1 .. Len(s) /\ Tail(s)[h] = s[h + 1]
    OBVIOUS
  <2>3. i + 1 \in 1 .. Len(ls[m][n]) /\ Tail(ls[m][n])[i] = ls[m][n][i + 1]
    BY <2>1, <2>2
  <2> QED BY <1>1, <2>1, <2>3 DEF On
<1>2. CASE ~(k = m /\ j = n)
  <2>1. [ls EXCEPT ![m][n] = Tail(@)][k][j] = ls[k][j]
    BY <1>2
  <2> QED BY <2>1 DEF On
<1> QED BY <1>1, <1>2

(* Entries are never removed, so what leads on keeps leading on.           *)
Grown == \A k, j \in Node : routes[k][j] \subseteq routes'[k][j]

LEMMA LeadsStays ==
    ASSUME Grown, NEW m \in Node, NEW n \in Node, NEW ra \in RA, Leads(m, n, ra)
    PROVE  Leads(m, n, ra)'
<1>1. \A rt \in Route : \A f : LeadsOn(rt, m, f) => LeadsOn(rt, m, f)'
  BY DEF Grown, LeadsOn, Hands
<1> QED BY <1>1, RouteType DEF Grown, Leads, Receivers

LEMMA RoutesLeadStays ==
    ASSUME Grown, NEW rt \in Route, NEW m \in Node, NEW f, LeadsOn(rt, m, f)
    PROVE  LeadsOn(rt, m, f)'
BY DEF Grown, LeadsOn, Hands

(* Every RA that a handler leaves on a link was there or was passed on.    *)
LEMMA LinksLeadStays ==
    ASSUME TypeOK, Grown, LinksLead, NEW ls \in [Node -> [Node -> Seq(RA)]],
           NEW n \in Node, NEW ra \in RA,
           \A k, j \in Node, old \in RA : On(ls, k, j, old) => On(links, k, j, old),
           \A m \in Receivers(n, ra) : Leads(n, m, ra)',
           links' = PropagateRA(ls, n, ra)
    PROVE  LinksLead'
<1> SUFFICES ASSUME NEW k \in Node, NEW j \in Node, NEW old \in RA, On(links', k, j, old)
             PROVE  Leads(k, j, old)'
  BY DEF LinksLead, On
<1>1. CASE k = n /\ j \in Receivers(n, ra) /\ old = ra
  BY <1>1
<1>2. CASE On(ls, k, j, old)
  <2>1. Leads(k, j, old)
    BY <1>2 DEF LinksLead
  <2> QED BY <2>1, LeadsStays
<1> QED BY <1>1, <1>2, PropagateMembers

(* What a node announces of its own predicate leads.                       *)
LEMMA AnnouncementLeads ==
    ASSUME NEW n \in Node, NEW ra \in RA, ra.issuer = n,
           ra.pred \subseteq routes[n][n], NEW m \in Receivers(n, ra)
    PROVE  Leads(n, m, ra)
BY DEF Leads, LeadsOn, RouteOf

LEMMA SetPredicateGrows ==
    ASSUME TypeOK, NEW n \in Node, NEW p \in SUBSET Filter, SetPredicate(n, p)
    PROVE  /\ Grown
           /\ \A k, j \in Node : k # j => routes'[k][j] = routes[k][j]
           /\ routes'[n][n] \in SUBSET Filter
           /\ \A k \in Node : k # n => routes'[k][k] = routes[k][k]
<1>1. routes \in [Node -> [Node -> SUBSET Filter]]
  BY DEF TypeOK
<1>2. routes' = [routes EXCEPT ![n][n] = @ \cup p]
  BY DEF SetPredicate
<1> QED BY <1>1, <1>2 DEF Grown

LEMMA UpdateGrows ==
    ASSUME TypeOK, NEW n \in Node, NEW m \in Node, NEW ra \in RA, Update(n, m, ra)
    PROVE  Grown /\ ra.pred \subseteq routes'[n][m]
<1>1. routes' = [routes EXCEPT ![n][m] = @ \cup ra.pred]
  BY UpdateType
<1> QED BY <1>1 DEF Grown, TypeOK

(* RoutesLead is inductive together with what is under way.                *)
LEMMA SameRoutes ==
    ASSUME RoutesLead, routes' = routes
    PROVE  RoutesLead'
<1> SUFFICES ASSUME NEW k \in Node, NEW j \in Node, k # j, NEW f \in routes'[k][j]
             PROVE  \E rt \in Route : /\ f \in routes'[rt[1]][rt[1]]
                                      /\ Hands(rt, j, k)
                                      /\ LeadsOn(rt, j, f)'
  BY DEF RoutesLead, Hands, Receivers
<1>1. PICK rt \in Route : f \in routes[rt[1]][rt[1]] /\ Hands(rt, j, k) /\ LeadsOn(rt, j, f)
  BY DEF RoutesLead
<1>2. Grown
  BY DEF Grown
<1> QED BY <1>1, <1>2, RoutesLeadStays

LEMMA SameLinks ==
    ASSUME LinksLead, routes' = routes, links' = links
    PROVE  LinksLead'
<1> SUFFICES ASSUME NEW k \in Node, NEW j \in Node, NEW old \in RA, On(links', k, j, old)
             PROVE  Leads(k, j, old)'
  BY DEF LinksLead, On
<1>1. Grown
  BY DEF Grown
<1>2. Leads(k, j, old)
  BY DEF LinksLead
<1> QED BY <1>1, <1>2, LeadsStays

RoutesInv == TypeOK /\ LinksLead /\ RoutesLead

LEMMA RoutesInvInit == Init => RoutesInv
BY TypeInit DEF Init, NoRoutes, RoutesInv, RoutesLead, LinksLead, On

LEMMA RoutesInvStep == RoutesInv /\ [Next]_vars => RoutesInv'
<1> SUFFICES ASSUME RoutesInv, [Next]_vars PROVE RoutesInv'
  OBVIOUS
<1> TypeOK /\ LinksLead /\ RoutesLead
  BY DEF RoutesInv
<1>0. TypeOK'
  BY TypeStep
<1> links \in [Node -> [Node -> Seq(RA)]] /\ routes \in [Node -> [Node -> SUBSET Filter]]
  BY DEF TypeOK
<1>1. ASSUME NEW e \in Predicates, SetPredicate(e[1], e[2]) PROVE RoutesInv'
  <2>1. e[1] \in Node /\ e[2] \in SUBSET Filter
    BY WorkloadAssumption
  <2>2. /\ Grown
        /\ \A k, j \in Node : k # j => routes'[k][j] = routes[k][j]
        /\ routes'[e[1]][e[1]] \in SUBSET Filter
    BY <1>1, <2>1, SetPredicateGrows
  <2>3. PICK ra \in RA : ra = Announcement(e[1], NoNode, 2, routes'[e[1]][e[1]])
    BY <2>1, <2>2, AnnouncementType
  <2>4. \A m \in Receivers(e[1], ra) : Leads(e[1], m, ra)'
    BY <2>1, <2>3 DEF Announcement, Leads, LeadsOn, RouteOf, Receivers
  <2>5. LinksLead'
    <3>1. links' = PropagateRA(links, e[1], ra)
      BY <1>1, <2>3 DEF SetPredicate
    <3> QED BY <2>1, <2>2, <2>4, <3>1, LinksLeadStays
  <2>6. RoutesLead'
    <3> SUFFICES ASSUME NEW k \in Node, NEW j \in Node, k # j, NEW f \in routes'[k][j]
                 PROVE  \E rt \in Route : /\ f \in routes'[rt[1]][rt[1]]
                                          /\ Hands(rt, j, k)
                                          /\ LeadsOn(rt, j, f)'
      BY DEF RoutesLead, Hands, Receivers
    <3>1. PICK rt \in Route : f \in routes[rt[1]][rt[1]] /\ Hands(rt, j, k) /\ LeadsOn(rt, j, f)
      BY <2>2 DEF RoutesLead
    <3>2. rt[1] \in Node
      BY DEF Route
    <3> QED BY <2>2, <3>1, <3>2, RoutesLeadStays DEF Grown
  <2> QED BY <1>0, <2>5, <2>6 DEF RoutesInv
<1>2. ASSUME NEW e \in Multipaths, SetMultipath(e[1], e[2]) PROVE RoutesInv'
  <2>1. e[1] \in Node /\ e[2] \in Node
    BY WorkloadAssumption
  <2>2. routes' = routes /\ Grown
    BY <1>2 DEF SetMultipath, Grown
  <2>3. RoutesLead'
    BY <2>2, SameRoutes
  <2>4. PICK ra \in RA : ra = Announcement(e[1], e[2], 2, routes[e[1]][e[1]])
    BY <2>1, AnnouncementType
  <2>5. \A m \in Receivers(e[1], ra) : Leads(e[1], m, ra)'
    BY <2>1, <2>2, <2>4 DEF Announcement, Leads, LeadsOn, RouteOf, Receivers
  <2>6. links' = links \/ links' = PropagateRA(links, e[1], ra)
    BY <1>2, <2>4 DEF SetMultipath
  <2>7. CASE links' = links
    BY <1>0, <2>2, <2>3, <2>7, SameLinks DEF RoutesInv
  <2>8. CASE links' = PropagateRA(links, e[1], ra)
    BY <1>0, <2>1, <2>2, <2>3, <2>5, <2>8, LinksLeadStays DEF RoutesInv
  <2> QED BY <2>6, <2>7, <2>8
<1>3. ASSUME NEW n \in Node, NEW m \in Node, ProcessRA(n, m) PROVE RoutesInv'
  <2>1. PICK ra \in RA, ls \in [Node -> [Node -> Seq(RA)]] :
          /\ On(links, m, n, ra)
          /\ Update(n, m, ra)
          /\ links' = PropagateRA(ls, n, ra)
          /\ \A k, j \in Node, old \in RA : On(ls, k, j, old) => On(links, k, j, old)
    <3>1. links[m][n] # <<>> /\ On(links, m, n, Head(links[m][n]))
      BY <1>3, ProcessedRA DEF On
    <3>2. Head(links[m][n]) \in RA /\ [links EXCEPT ![m][n] = Tail(@)] \in [Node -> [Node -> Seq(RA)]]
      BY <1>3, ProcessedRA
    <3>3. \A k, j \in Node, old \in RA :
            On([links EXCEPT ![m][n] = Tail(@)], k, j, old) => On(links, k, j, old)
      BY <3>1, TailMembers
    <3>4. /\ Update(n, m, Head(links[m][n]))
          /\ links' = PropagateRA([links EXCEPT ![m][n] = Tail(@)], n, Head(links[m][n]))
      BY <1>3, ProcessedRA
    <3> QED BY <3>1, <3>2, <3>3, <3>4
  <2>2. Grown /\ ra.pred \subseteq routes'[n][m]
    BY <2>1, UpdateGrows
  <2>3. Leads(m, n, ra) /\ Leads(m, n, ra)'
    BY <2>1, <2>2, LeadsStays DEF LinksLead
  <2>4. \A k \in Receivers(n, ra) : Leads(n, k, ra)'
    BY <2>2, <2>3, HandsRA DEF Leads, LeadsOn, Receivers, Hands
  <2>5. LinksLead'
    BY <2>1, <2>2, <2>4, LinksLeadStays
  <2>a. Update(n, m, ra)
    BY <2>1
  <2>b. routes' = [routes EXCEPT ![n][m] = @ \cup ra.pred]
    BY <1>0, <2>a, UpdateType DEF RoutesInv
  <2>6. RoutesLead'
    <3> SUFFICES ASSUME NEW k \in Node, NEW j \in Node, k # j, NEW f \in routes'[k][j]
                 PROVE  \E rt \in Route : /\ f \in routes'[rt[1]][rt[1]]
                                          /\ Hands(rt, j, k)
                                          /\ LeadsOn(rt, j, f)'
      BY DEF RoutesLead, Hands, Receivers
    <3>1. CASE f \in routes[k][j]
      <4>1. PICK rt \in Route : f \in routes[rt[1]][rt[1]] /\ Hands(rt, j, k) /\ LeadsOn(rt, j, f)
        BY <3>1 DEF RoutesLead
      <4>2. rt[1] \in Node
        BY DEF Route
      <4> QED BY <2>2, <4>1, <4>2, RoutesLeadStays DEF Grown
    <3>2. CASE f \notin routes[k][j]
      <4>1. k = n /\ j = m /\ f \in ra.pred
        BY <2>b, <3>2
      <4> QED BY <2>3, <4>1, RouteType, HandsRA DEF Leads
    <3> QED BY <3>1, <3>2
  <2> QED BY <1>0, <2>5, <2>6 DEF RoutesInv
<1>4. ASSUME NEW n \in Node, UpdateFwdTable(n) PROVE RoutesInv'
  BY <1>0, <1>4, SameRoutes, SameLinks DEF UpdateFwdTable, RoutesInv
<1>5. CASE UNCHANGED vars
  BY <1>0, <1>5, SameRoutes, SameLinks DEF vars, RoutesInv
<1> QED BY <1>1, <1>2, <1>3, <1>4, <1>5 DEF Next

(* RoutesLead for all trees and workloads: no entry of a route table is    *)
(* made up or dangles.                                                     *)
THEOREM EntriesLead == Spec => []RoutesLead
<1>1. RoutesInv => RoutesLead
  BY DEF RoutesInv
<1> QED BY RoutesInvInit, <1>1, RoutesInvStep, PTL DEF Spec

-----------------------------------------------------------------------------
(* TablesAgree needs to know that RAs come from other nodes.               *)
TablesInv == RoutesInv /\ TablesAgree

LEMMA TablesInvStep == TablesInv /\ [Next]_vars => TablesInv'
<1> SUFFICES ASSUME TablesInv, [Next]_vars PROVE TablesAgree'
  BY RoutesInvStep DEF TablesInv
<1> TypeOK /\ LinksLead /\ TablesAgree
  BY DEF TablesInv, RoutesInv
<1> /\ routes \in [Node -> [Node -> SUBSET Filter]]
    /\ fwd \in [Node -> [Node -> SUBSET Filter]]
    /\ split \in [Node -> [Filter -> SUBSET Node]]
    /\ dirty \in [Node -> BOOLEAN]
  BY DEF TypeOK
<1>1. ASSUME NEW e \in Predicates, SetPredicate(e[1], e[2]) PROVE TablesAgree'
  <2>1. e[1] \in Node
    BY WorkloadAssumption
  <2>2. /\ routes' = [routes EXCEPT ![e[1]][e[1]] = @ \cup e[2]]
        /\ dirty' = [dirty EXCEPT ![e[1]] = TRUE]
        /\ fwd' = fwd /\ split' = split
    BY <1>1 DEF SetPredicate
  <2>3. \A n, m \in Node : n # m => routes'[n][m] = routes[n][m]
    BY <2>1, <2>2
  <2>4. \A n \in Node : dirty'[n] \/ (dirty'[n] = dirty[n] /\ routes'[n] = routes[n])
    BY <2>1, <2>2
  <2> QED BY <2>2, <2>3, <2>4 DEF TablesAgree
<1>2. ASSUME NEW e \in Multipaths, SetMultipath(e[1], e[2]) PROVE TablesAgree'
  BY <1>2 DEF SetMultipath, TablesAgree
<1>3. ASSUME NEW n \in Node, NEW m \in Node, ProcessRA(n, m) PROVE TablesAgree'
  <2>1. PICK ra \in RA : On(links, m, n, ra) /\ Update(n, m, ra) /\ fwd' = fwd
    <3>1. links[m][n] # <<>> /\ On(links, m, n, Head(links[m][n]))
      BY <1>3, ProcessedRA DEF On, TypeOK
    <3> QED BY <1>3, <3>1, ProcessedRA DEF ProcessRA
  <2>2. n # m
    BY <2>1, NeverBack DEF LinksLead, Leads
  <2>3. CASE Covers(routes[n][m], ra.pred) /\ ra.dest = NoNode
    BY <2>1, <2>3 DEF Update, TablesAgree
  <2>4. CASE ~(Covers(routes[n][m], ra.pred) /\ ra.dest = NoNode)
    <3>1. /\ routes' = [routes EXCEPT ![n][m] = @ \cup ra.pred]
          /\ split' = [split EXCEPT ![n] = [f \in Filter |->
                 IF f \in ra.pred THEN split[n][f] \cup {m} ELSE split[n][f]]]
          /\ dirty' = [dirty EXCEPT ![n] = TRUE]
      BY <2>1, <2>4 DEF Update
    <3>2. \A k \in Node : dirty'[k] \/ fwd'[k] = routes'[k]
      <4> TAKE k \in Node
      <4>1. CASE k = n
        BY <3>1, <4>1
      <4>2. CASE k # n
        BY <2>1, <3>1, <4>2 DEF TablesAgree
      <4> QED BY <4>1, <4>2
    <3>3. \A k \in Node, f \in Filter : split'[k][f] = {j \in Node \ {k} : f \in routes'[k][j]}
      <4> TAKE k \in Node, f \in Filter
      <4>0. split[k][f] = {j \in Node \ {k} : f \in routes[k][j]}
        BY DEF TablesAgree
      <4>1. CASE k = n
        <5>1. split'[k][f] = IF f \in ra.pred THEN split[k][f] \cup {m} ELSE split[k][f]
          BY <3>1, <4>1
        <5>2. \A j \in Node : routes'[k][j] = IF j = m THEN routes[k][j] \cup ra.pred ELSE routes[k][j]
          BY <3>1, <4>1
        <5>3. m \in Node \ {k}
          BY <2>2, <4>1
        <5>4. \A j \in Node : f \in routes'[k][j] <=> f \in routes[k][j] \/ (j = m /\ f \in ra.pred)
          BY <5>2
        <5>5. {j \in Node \ {k} : f \in routes'[k][j]} =
                IF f \in ra.pred THEN split[k][f] \cup {m} ELSE split[k][f]
          BY <4>0, <5>3, <5>4
        <5> QED BY <5>1, <5>5
      <4>2. CASE k # n
        <5>1. split'[k] = split[k] /\ routes'[k] = routes[k]
          BY <3>1, <4>2
        <5> QED BY <4>0, <5>1
      <4> QED BY <4>1, <4>2
    <3> QED BY <3>2, <3>3 DEF TablesAgree
  <2> QED BY <2>3, <2>4
<1>4. ASSUME NEW n \in Node, UpdateFwdTable(n) PROVE TablesAgree'
  BY <1>4 DEF UpdateFwdTable, TablesAgree
<1>5. CASE UNCHANGED vars
  BY <1>5 DEF vars, TablesAgree
<1> QED BY <1>1, <1>2, <1>3, <1>4, <1>5 DEF Next

(* TablesAgree for all trees and workloads: the tables that forwarding uses*)
(* say what the route table says.                                          *)
THEOREM TablesAgreeAlways == Spec => []TablesAgree
<1>1. Init => TablesInv
  BY RoutesInvInit DEF Init, NoRoutes, TablesInv, TablesAgree
<1>2. TablesInv => TablesAgree
  BY DEF TablesInv
<1> QED BY <1>1, <1>2, TablesInvStep, PTL DEF Spec

-----------------------------------------------------------------------------
(* HandedOn rests on the trees: an RA that comes down one reaches a child  *)
(* from its parent there.                                                  *)
LEMMA UnderWayOn ==
    ASSUME TypeOK, NEW m \in Node, NEW n \in Node, NEW r, NEW f
    PROVE  UnderWay(m, n, r, f) <=>
             \E ra \in RA : /\ On(links, m, n, ra)
                            /\ ra.issuer = r /\ ra.dest = NoNode /\ f \in ra.pred
<1>1. links[m][n] \in Seq(RA)
  BY DEF TypeOK
<1>2. \A i \in 1 .. Len(links[m][n]) : links[m][n][i] \in RA
  BY <1>1
<1> QED BY <1>2 DEF UnderWay, On

LEMMA UnderWayNext ==
    ASSUME TypeOK', NEW m \in Node, NEW n \in Node, NEW r, NEW f
    PROVE  UnderWay(m, n, r, f)' <=>
             \E ra \in RA : /\ On(links', m, n, ra)
                            /\ ra.issuer = r /\ ra.dest = NoNode /\ f \in ra.pred
<1>1. links'[m][n] \in Seq(RA)
  BY DEF TypeOK
<1>2. \A i \in 1 .. Len(links'[m][n]) : links'[m][n][i] \in RA
  BY <1>1
<1> QED BY <1>2 DEF UnderWay, On

LEMMA PropagateKeeps ==
    ASSUME NEW ls \in [Node -> [Node -> Seq(RA)]], NEW n \in Node, NEW ra \in RA,
           NEW k \in Node, NEW j \in Node, NEW old \in RA,
           On(ls, k, j, old) \/ (k = n /\ j \in Receivers(n, ra) /\ old = ra)
    PROVE  On(PropagateRA(ls, n, ra), k, j, old)
<1>1. ls[k][j] \in Seq(RA)
  OBVIOUS
<1>2. PropagateRA(ls, n, ra)[k][j] =
        IF k = n /\ j \in Receivers(n, ra) THEN Append(ls[k][j], ra) ELSE ls[k][j]
  BY DEF PropagateRA
<1>3. /\ Len(Append(ls[k][j], ra)) = Len(ls[k][j]) + 1
      /\ \A h \in 1 .. Len(ls[k][j]) : Append(ls[k][j], ra)[h] = ls[k][j][h]
      /\ Append(ls[k][j], ra)[Len(ls[k][j]) + 1] = ra
      /\ Len(ls[k][j]) \in Nat
  BY <1>1
<1>4. CASE k = n /\ j \in Receivers(n, ra)
  <2>1. PropagateRA(ls, n, ra)[k][j] = Append(ls[k][j], ra)
    BY <1>2, <1>4
  <2>2. CASE old = ra
    BY <1>3, <2>1, <2>2 DEF On
  <2>3. CASE On(ls, k, j, old)
    <3>1. PICK h \in 1 .. Len(ls[k][j]) : ls[k][j][h] = old
      BY <2>3 DEF On
    <3> QED BY <1>3, <2>1, <3>1 DEF On
  <2> QED BY <2>2, <2>3
<1>5. CASE ~(k = n /\ j \in Receivers(n, ra))
  BY <1>2, <1>5 DEF On
<1> QED BY <1>4, <1>5

LEMMA TailKeeps ==
    ASSUME NEW ls \in [Node -> [Node -> Seq(RA)]], NEW n \in Node, NEW m \in Node,
           ls[m][n] # <<>>, NEW k \in Node, NEW j \in Node, NEW ra, On(ls, k, j, ra)
    PROVE  \/ k = m /\ j = n /\ ra = Head(ls[m][n])
           \/ On([ls EXCEPT ![m][n] = Tail(@)], k, j, ra)
<1> PICK i \in 1 .. Len(ls[k][j]) : ls[k][j][i] = ra
  BY DEF On
<1>1. CASE k = m /\ j = n
  <2>1. [ls EXCEPT ![m][n] = Tail(@)][k][j] = Tail(ls[m][n]) /\ ls[m][n] \in Seq(RA)
    BY <1>1
  <2>2. \A s \in Seq(RA) : s # <<>> =>
          \A h \in 1 .. Len(s) : h # 1 => h - 1 \in 1 .. Len(Tail(s)) /\ Tail(s)[h - 1] = s[h]
    OBVIOUS
  <2>3. \A s \in Seq(RA) : s # <<>> => s[1] = Head(s)
    OBVIOUS
  <2>4. CASE i = 1
    BY <1>1, <2>1, <2>3, <2>4
  <2>5. CASE i # 1
    BY <1>1, <2>1, <2>2, <2>5 DEF On
  <2> QED BY <2>4, <2>5
<1>2. CASE ~(k = m /\ j = n)
  <2>1. [ls EXCEPT ![m][n] = Tail(@)][k][j] = ls[k][j]
    BY <1>2
  <2> QED BY <2>1 DEF On
<1> QED BY <1>1, <1>2

HandedInv == RoutesInv /\ HandedOn

LEMMA HandedInvStep == HandedInv /\ [Next]_vars => HandedInv'
<1> SUFFICES ASSUME HandedInv, [Next]_vars PROVE HandedOn'
  BY RoutesInvStep DEF HandedInv
<1> TypeOK /\ TypeOK' /\ LinksLead /\ HandedOn
  BY TypeStep DEF HandedInv, RoutesInv
<1> /\ links \in [Node -> [Node -> Seq(RA)]]
    /\ routes \in [Node -> [Node -> SUBSET Filter]]
    /\ heard \in [Node -> SUBSET (Node \X Filter)]
  BY DEF TypeOK
<1>0. ASSUME Grown, heard' = heard, 
             \A r \in Node, n \in Node : n # r => routes'[r][n] = routes[r][n],
             \A k, j \in Node, old \in RA : On(links, k, j, old) => On(links', k, j, old),
             \A r \in Node, f \in Filter, n \in Node :
                 f \in routes'[r][r] /\ f \notin routes[r][r] /\ n \in Children[r][r] =>
                     UnderWay(r, n, r, f)'
      PROVE  HandedOn'
  <2> SUFFICES ASSUME NEW r \in Node, NEW m \in Node, NEW f \in Filter, NEW n \in Children[r][m]
               PROVE  /\ Told(m, r, f)' => Told(n, r, f)' \/ UnderWay(m, n, r, f)'
                      /\ <<r, f>> \in heard'[n] => f \in routes'[n][m]
    BY DEF HandedOn
  <2>1. n \in Node /\ n # r
    BY TreeAssumption
  <2>2. <<r, f>> \in heard'[n] => f \in routes'[n][m]
    BY <1>0, <2>1 DEF HandedOn, Grown
  <2>3. UnderWay(m, n, r, f) => UnderWay(m, n, r, f)'
    BY <1>0, <2>1, UnderWayOn, UnderWayNext
  <2>4. Told(n, r, f) => Told(n, r, f)'
    BY <1>0, <2>1 DEF Told
  <2>5. Told(m, r, f)' => Told(m, r, f) \/ UnderWay(m, n, r, f)'
    BY <1>0, <2>1 DEF Told
  <2> QED BY <2>2, <2>3, <2>4, <2>5 DEF HandedOn
<1>1. ASSUME NEW e \in Predicates, SetPredicate(e[1], e[2]) PROVE HandedOn'
  <2>1. e[1] \in Node /\ e[2] \in SUBSET Filter
    BY WorkloadAssumption
  <2>2. /\ Grown
        /\ \A k, j \in Node : k # j => routes'[k][j] = routes[k][j]
        /\ routes'[e[1]][e[1]] \in SUBSET Filter
        /\ \A k \in Node : k # e[1] => routes'[k][k] = routes[k][k]
    BY <1>1, <2>1, SetPredicateGrows
  <2>3. PICK ra \in RA : ra = Announcement(e[1], NoNode, 2, routes'[e[1]][e[1]])
    BY <2>1, <2>2, AnnouncementType
  <2>4. links' = PropagateRA(links, e[1], ra) /\ heard' = heard
    BY <1>1, <2>3 DEF SetPredicate
  <2>5. \A n \in Children[e[1]][e[1]] : n \in Node /\ On(links', e[1], n, ra)
    <3>1. Receivers(e[1], ra) = Children[e[1]][e[1]]
      BY <2>3 DEF Announcement, Receivers
    <3>2. \A n \in Children[e[1]][e[1]] : n \in Node
      BY <2>1, TreeAssumption
    <3> QED BY <2>1, <2>4, <3>1, <3>2, PropagateKeeps
  <2>6. \A f \in routes'[e[1]][e[1]], n \in Children[e[1]][e[1]] : UnderWay(e[1], n, e[1], f)'
    <3>1. ra.issuer = e[1] /\ ra.dest = NoNode /\ ra.pred = routes'[e[1]][e[1]]
      BY <2>3 DEF Announcement
    <3> QED BY <2>1, <2>5, <3>1, UnderWayNext
  <2>7. \A r \in Node, n \in Node : n # r => routes'[r][n] = routes[r][n]
    BY <2>2
  <2>8. \A k, j \in Node, old \in RA : On(links, k, j, old) => On(links', k, j, old)
    BY <2>1, <2>4, PropagateKeeps
  <2>9. \A r \in Node, f \in Filter, n \in Node :
           f \in routes'[r][r] /\ f \notin routes[r][r] /\ n \in Children[r][r] =>
               UnderWay(r, n, r, f)'
    <3>1. \A r \in Node : r # e[1] => routes'[r][r] = routes[r][r]
      BY <1>1, <2>1 DEF SetPredicate
    <3> QED BY <2>6, <3>1
  <2> QED BY <1>0, <2>2, <2>4, <2>7, <2>8, <2>9
<1>2. ASSUME NEW e \in Multipaths, SetMultipath(e[1], e[2]) PROVE HandedOn'
  <2>1. e[1] \in Node /\ e[2] \in Node
    BY WorkloadAssumption
  <2>2. routes' = routes /\ heard' = heard /\ Grown
    BY <1>2 DEF SetMultipath, Grown
  <2>3. PICK ra \in RA : ra = Announcement(e[1], e[2], 2, routes[e[1]][e[1]])
    BY <2>1, AnnouncementType
  <2>4. links' = links \/ links' = PropagateRA(links, e[1], ra)
    BY <1>2, <2>3 DEF SetMultipath
  <2>5. \A k, j \in Node, old \in RA : On(links, k, j, old) => On(links', k, j, old)
    BY <2>1, <2>4, PropagateKeeps
  <2> QED BY <1>0, <2>2, <2>5
<1>3. ASSUME NEW n0 \in Node, NEW m0 \in Node, ProcessRA(n0, m0) PROVE HandedOn'
  <2>1. PICK ra \in RA, ls \in [Node -> [Node -> Seq(RA)]] :
          /\ On(links, m0, n0, ra)
          /\ Update(n0, m0, ra)
          /\ links' = PropagateRA(ls, n0, ra)
          /\ heard' = Heard(n0, ra)
          /\ \A k, j \in Node, old \in RA : On(links, k, j, old) =>
               (k = m0 /\ j = n0 /\ old = ra) \/ On(ls, k, j, old)
    <3>1. links[m0][n0] # <<>> /\ On(links, m0, n0, Head(links[m0][n0]))
      BY <1>3, ProcessedRA DEF On
    <3>2. /\ Head(links[m0][n0]) \in RA
          /\ [links EXCEPT ![m0][n0] = Tail(@)] \in [Node -> [Node -> Seq(RA)]]
      BY <1>3, ProcessedRA
    <3>3. \A k, j \in Node, old \in RA : On(links, k, j, old) =>
               (k = m0 /\ j = n0 /\ old = Head(links[m0][n0]))
               \/ On([links EXCEPT ![m0][n0] = Tail(@)], k, j, old)
      BY <3>1, TailKeeps
    <3>4. /\ Update(n0, m0, Head(links[m0][n0]))
          /\ links' = PropagateRA([links EXCEPT ![m0][n0] = Tail(@)], n0, Head(links[m0][n0]))
          /\ heard' = Heard(n0, Head(links[m0][n0]))
      BY <1>3, ProcessedRA
    <3> QED BY <3>1, <3>2, <3>3, <3>4
  <2>2. Grown /\ ra.pred \subseteq routes'[n0][m0]
    BY <2>1, UpdateGrows
  <2>3. n0 \in Receivers(m0, ra) /\ n0 # m0
    BY <2>1, NeverBack DEF LinksLead, Leads
  <2>4. routes' = [routes EXCEPT ![n0][m0] = @ \cup ra.pred]
    BY <2>1, UpdateType
  <2>5. \A r \in Node : routes'[r][r] = routes[r][r]
    BY <2>3, <2>4
  <2> SUFFICES ASSUME NEW r \in Node, NEW m \in Node, NEW f \in Filter, NEW n \in Children[r][m]
               PROVE  /\ Told(m, r, f)' => Told(n, r, f)' \/ UnderWay(m, n, r, f)'
                      /\ <<r, f>> \in heard'[n] => f \in routes'[n][m]
    BY DEF HandedOn
  <2>6. n \in Node /\ n # r
    BY TreeAssumption
  <2>7. ra.issuer \in Node /\ ra.pred \in SUBSET Filter
    BY DEF RA
  <2>8. \A k \in Node : <<r, f>> \in heard'[k] <=>
          <<r, f>> \in heard[k] \/ (k = n0 /\ ra.dest = NoNode /\ ra.issuer = r /\ f \in ra.pred)
    BY <2>1 DEF Heard
  <2>9. <<r, f>> \in heard'[n] => f \in routes'[n][m]
    <3>1. CASE <<r, f>> \in heard[n]
      BY <2>2, <2>6, <3>1 DEF HandedOn, Grown
    <3>2. CASE n = n0 /\ ra.dest = NoNode /\ ra.issuer = r /\ f \in ra.pred
      <4>1. n \in Children[r][m0]
        BY <2>3, <3>2 DEF Receivers
      <4>2. m = m0
        BY <4>1, TreeAssumption
      <4> QED BY <2>2, <3>2, <4>2
    <3> QED BY <2>6, <2>8, <3>1, <3>2
  <2>10. ASSUME Told(m, r, f)' PROVE Told(n, r, f)' \/ UnderWay(m, n, r, f)'
    <3>1. CASE Told(m, r, f)
      <4>1. CASE Told(n, r, f)
        BY <2>6, <2>8, <4>1 DEF Told
      <4>2. CASE UnderWay(m, n, r, f)
        <5>1. PICK old \in RA : /\ On(links, m, n, old)
                                /\ old.issuer = r /\ old.dest = NoNode /\ f \in old.pred
          BY <2>6, <4>2, UnderWayOn
        <5>2. CASE m = m0 /\ n = n0 /\ old = ra
          BY <2>6, <2>8, <5>1, <5>2 DEF Told
        <5>3. CASE On(ls, m, n, old)
          <6>1. On(links', m, n, old)
            BY <2>1, <2>6, <5>3, PropagateKeeps
          <6> QED BY <2>6, <5>1, <6>1, UnderWayNext
        <5> QED BY <2>1, <2>6, <5>1, <5>2, <5>3
      <4> QED BY <3>1, <4>1, <4>2 DEF HandedOn
    <3>2. CASE ~Told(m, r, f)
      <4>1. m = n0 /\ ra.dest = NoNode /\ ra.issuer = r /\ f \in ra.pred
        BY <2>5, <2>8, <2>10, <3>2 DEF Told
      <4>2. On(links', m, n, ra)
        BY <2>1, <2>6, <4>1, PropagateKeeps DEF Receivers
      <4> QED BY <2>6, <4>1, <4>2, UnderWayNext
    <3> QED BY <3>1, <3>2
  <2> QED BY <2>9, <2>10
<1>4. ASSUME NEW n \in Node, UpdateFwdTable(n) PROVE HandedOn'
  BY <1>4, <1>0 DEF UpdateFwdTable, Grown
<1>5. CASE UNCHANGED vars
  BY <1>5, <1>0 DEF vars, Grown
<1> QED BY <1>1, <1>2, <1>3, <1>4, <1>5 DEF Next

(* HandedOn for all trees and workloads: what a node was told down a tree  *)
(* its children are told, whoever else announces the same filters.         *)
THEOREM HandedOnAlways == Spec => []HandedOn
<1>1. Init => HandedInv
  <2> SUFFICES ASSUME Init PROVE HandedOn
    BY RoutesInvInit DEF HandedInv
  <2>1. \A n, m \in Node : routes[n][m] = {} /\ heard[n] = {}
    BY DEF Init, NoRoutes
  <2>2. \A m, r \in Node, f \in Filter : ~Told(m, r, f)
    BY <2>1 DEF Told
  <2>3. \A r, m \in Node : Children[r][m] \subseteq Node
    BY TreeAssumption
  <2> QED BY <2>1, <2>2, <2>3 DEF HandedOn
<1>2. HandedInv => HandedOn
  BY DEF HandedInv
<1> QED BY <1>1, <1>2, HandedInvStep, PTL DEF Spec
=============================================================================
