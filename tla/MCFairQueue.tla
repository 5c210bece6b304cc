---------------------------- MODULE MCFairQueue ----------------------------
(***************************************************************************)
(* Flows with packets below, at and above the quantum of 2 bits.           *)
(***************************************************************************)
EXTENDS FairQueue

MCFlows == {"a", "b", "c"}
MCTwoFlows == {"a", "b"}
MCTwo == {<<"a", 1>>, <<"a", 2>>, <<"b", 1>>, <<"b", 3>>}
MCLive == MCTwo \cup {<<"c", 2>>}
MCFull == MCTwo \cup {<<"b", 1>>, <<"a", 3>>}
(* One bucket for all flows, so that they come in any order, or one each.  *)
MCOneBucket == [f \in Flows |-> 0]
MCBuckets == [f \in Flows |-> CASE f = "a" -> 0 [] f = "b" -> 1 [] f = "c" -> 2]

MCFlow == [p \in Packets |-> p[1]]
MCSize == [p \in Packets |-> p[2]]
=============================================================================
