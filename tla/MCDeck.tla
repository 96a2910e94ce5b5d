------------------------------- MODULE MCDeck -------------------------------
(***************************************************************************)
(* Deck with two root cards.                                               *)
(***************************************************************************)
EXTENDS Deck
=============================================================================
