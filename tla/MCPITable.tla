----------------------------- MODULE MCPITable -----------------------------
(***************************************************************************)
(* Small instances of PITable: two neighbours, the chunk 0 name and one    *)
(* chunk name of a content, two ports.                                     *)
(***************************************************************************)
EXTENDS PITable, TLC

CONSTANTS f1, f2, info, chunk, port0, port1

MCFaces == {f1, f2}
MCKeys == {info, chunk}
MCInfoKeys == {info}
MCPorts == {port0, port1}
MCSymmetry == Permutations(MCFaces)
=============================================================================
