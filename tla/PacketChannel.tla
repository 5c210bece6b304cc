--------------------------- MODULE PacketChannel ---------------------------
(***************************************************************************)
(* What an output queue promises to the packets of each flow: those it     *)
(* accepts come out once each, in the order in which they went in, and     *)
(* none is kept forever.  A packet may be refused when it is sent, and a   *)
(* channel that pushes out may then lose packets from the tail of a flow.  *)
(***************************************************************************)
EXTENDS Integers, Sequences

CONSTANTS
    Packets,
    Flows,
    Flow,      \* Flow[p]: the flow of packet p
    PushesOut  \* may accepting a packet cost a flow its last packets?

VARIABLE contents   \* contents[f]: the packets of f on their way, oldest first

OnTheWay == UNION {{contents[f][i] : i \in DOMAIN contents[f]} : f \in Flows}

Cuttable(f) == IF PushesOut THEN 0..Len(contents[f]) + 1 ELSE {0}

Accepted(p) == [contents EXCEPT ![Flow[p]] = Append(@, p)]

Init == contents = [f \in Flows |-> <<>>]

Send(p) ==
    /\ p \notin OnTheWay
    /\ \E f \in Flows : \E lost \in Cuttable(f) :
          contents' = [Accepted(p) EXCEPT ![f] = SubSeq(@, 1, Len(@) - lost)]

Receive(f) ==
    /\ contents[f] # <<>>
    /\ contents' = [contents EXCEPT ![f] = Tail(@)]

Next == \/ \E p \in Packets : Send(p)
        \/ \E f \in Flows : Receive(f)

Safety == Init /\ [][Next]_contents

Spec == Safety /\ \A f \in Flows : WF_contents(Receive(f))
=============================================================================
