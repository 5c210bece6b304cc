----------------------------- MODULE MCReceiver -----------------------------
(***************************************************************************)
(* Small instances of Receiver: one or two interfaces, two or three chunks *)
(* and up to two downloads, after one another or at the same time.         *)
(***************************************************************************)
EXTENDS Receiver

MCOneFace == {1}
MCTwoFaces == {1, 2}
MCOnePort == {0}
MCTwoPorts == {0, 1}
=============================================================================
