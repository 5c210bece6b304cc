----------------------------- MODULE MCNetwork -----------------------------
(***************************************************************************)
(* Four nodes: 3 and 4 serve the content, 1 and 2 download it.  1 asks for *)
(* it on two interfaces, that of 3 and that of 2; 2, which may ask for it  *)
(* too, passes the interests of 1 to 3 or to 4.                            *)
(***************************************************************************)
EXTENDS Network

MCNode == 1..4
MCRoutes == <<{2, 3}, {3, 4}, {3}, {4}>>
MCConsumers == {1, 2}
=============================================================================
