---------------------------- MODULE MCLifecycle ----------------------------
(***************************************************************************)
(* Values for the constants of CardLifecycle.                              *)
(***************************************************************************)
EXTENDS CardLifecycle, TLC

CONSTANTS c1, c2, t1, t2, o1, o2, f1, f2

Same == Permutations(Card) \cup Permutations(Task) \cup Permutations(Op) \cup Permutations(Fee)
=============================================================================
