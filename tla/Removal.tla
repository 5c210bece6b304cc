------------------------------ MODULE Removal ------------------------------
(***************************************************************************)
(* What is left of a list, in its order, when others are erased.  (The     *)
(* standard SelectSeq is recursive in a way that cannot be reasoned about.)*)
(***************************************************************************)
EXTENDS Integers, Sequences, FiniteSets

(* The elements that do not belong to a set.                               *)
Without(s, S) ==
    LET upTo[i \in 0..Len(s)] ==
          IF i = 0 THEN <<>>
          ELSE IF s[i] \in S THEN upTo[i - 1]
          ELSE Append(upTo[i - 1], s[i])
    IN  upTo[Len(s)]

(* The elements at the positions of a set, in their order: the j-th is the *)
(* one before which there are j - 1 others.                                *)
Nth(at, j) == CHOOSE i \in at : Cardinality({k \in at : k < i}) = j - 1

Kept(s, at) == [j \in 1..Cardinality(at) |-> s[Nth(at, j)]]
=============================================================================
