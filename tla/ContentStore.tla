---------------------------- MODULE ContentStore ----------------------------
(***************************************************************************)
(* What a cache promises the node (include/cbcbsim/Cache.h), whatever its  *)
(* replacement policy: a bounded set of chunks; looking one up removes     *)
(* nothing; adding one makes it available, and gives up others only as far *)
(* as the room it needs requires.                                          *)
(***************************************************************************)
EXTENDS Integers, FiniteSetsExt

CONSTANTS
    Chunks,     \* all chunks, of any content
    Units(_),   \* the room a chunk takes
    Limit       \* m_cache_limit

VARIABLE cached

Room(S) == MapThenSumSet(Units, S)

Init == cached = {}

(* The chunks of victims can be removed one after the other so that only   *)
(* the last removal makes enough room for x.                               *)
JustEnough(victims, x) ==
    /\ Room(cached \ victims) + Units(x) <= Limit
    /\ victims # {} =>
          \E last \in victims :
              Room((cached \ victims) \cup {last}) + Units(x) > Limit

Add(x) ==
    /\ x \notin cached
    /\ \E victims \in SUBSET cached :
          /\ JustEnough(victims, x)
          /\ cached' = (cached \ victims) \cup {x}

Next == \E x \in Chunks : Add(x)

Spec == Init /\ [][Next]_cached
=============================================================================
