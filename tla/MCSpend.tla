------------------------------ MODULE MCSpend ------------------------------
(***************************************************************************)
(* Small instances of Spend: a root card and its sub-card, two or three    *)
(* requests, one card-network authorization.                               *)
(***************************************************************************)
EXTENDS SpendBook, TLC

CONSTANTS root, sub, p1, p2, p3, f1, k1

OneCard == {root}
TwoCards == {root, sub}
RootOnly == [c \in {root} |-> NoCard]
Family == root :> NoCard @@ sub :> root

NoTerm == <<>>
RootHas(n) == root :> n
SubHas(n) == sub :> n

One == RootHas(1)
Two == RootHas(2)
Three == RootHas(3)
Four == RootHas(4)
SubTwo == SubHas(2)
SubThree == SubHas(3)
WindowOrigin == SubHas(-1)

TwoCalls == Permutations({p1, p2})
ThreeCalls == Permutations({p1, p2, p3})
=============================================================================
