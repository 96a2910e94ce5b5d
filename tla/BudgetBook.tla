----------------------------- MODULE BudgetBook -----------------------------
(***************************************************************************)
(* What the spend pipeline promises, without its awaits, its mutex, its    *)
(* relayer and its sweeps: a book of charges.  A charge is approved in one *)
(* step, within the limits of every card of its chain; its money moves at  *)
(* most once and only while the charge is in the book; a charge is         *)
(* released only if its money has not moved and never will, and settled    *)
(* only if it has.  The card network's charges are firm: approved, they    *)
(* are never released.                                                     *)
(***************************************************************************)
EXTENDS CardTree

CONSTANT Charge

VARIABLES
    book,   \* [Charge -> Entry]
    paid    \* the charges whose money has moved

bookVars == <<book, paid>>

Entry == [state : {"free", "held", "firm", "settled", "released"},
          card : Card, weight : Nat, at : Nat]

Blank ==
    [state |-> "free", card |-> CHOOSE c \in Card : TRUE, weight |-> 0, at |-> 0]

\* The charges that hold budget of card c, and what they hold together.
Holders(b, c) ==
    {i \in Charge : /\ b[i].state \in {"held", "firm", "settled"}
                    /\ c \in AncestorChain[b[i].card]}

SameWindow(b, c, t) ==
    {i \in Holders(b, c) : PeriodWindowStart(c, b[i].at) = PeriodWindowStart(c, t)}

Weight(b, S) == Cardinality(UNION {{i} \X (1 .. b[i].weight) : i \in S})

InBudget(b) ==
    /\ \A c \in DOMAIN MaxUses : Cardinality(Holders(b, c)) <= MaxUses[c]
    /\ \A c \in DOMAIN LifetimeCap : Weight(b, Holders(b, c)) <= LifetimeCap[c]
    /\ \A c \in DOMAIN PeriodCap : \A i \in Holders(b, c) :
          Weight(b, SameWindow(b, c, b[i].at)) <= PeriodCap[c]

-----------------------------------------------------------------------------

BookInit ==
    /\ book = [i \in Charge |-> Blank]
    /\ paid = {}

\* Some charge is approved, as a whole and within every limit, or not at all.
Approve(i) ==
    /\ book[i].state = "free"
    /\ book'[i].state \in {"held", "firm"}
    /\ book' = [book EXCEPT ![i] = book'[i]]
    /\ InBudget(book')
    /\ UNCHANGED paid

\* The money of a charge in the book moves, once.
Pay(i) ==
    /\ book[i].state \in {"held", "firm"}
    /\ i \notin paid
    /\ paid' = paid \cup {i}
    /\ UNCHANGED book

\* The charges whose verdict is out.
Open == {i \in Charge : book[i].state = "held"}

\* Some charges turn out paid and some void.
Resolve(settled, released) ==
    /\ book' = [i \in Charge |->
                  IF i \in settled THEN [book[i] EXCEPT !.state = "settled"]
                  ELSE IF i \in released THEN [book[i] EXCEPT !.state = "released"]
                  ELSE book[i]]
    /\ UNCHANGED paid

\* The entry of a void charge is deleted, so that its request may be repeated.
Forget(i) ==
    /\ book[i].state = "released"
    /\ book' = [book EXCEPT ![i] = Blank]
    /\ UNCHANGED paid

BookNext ==
    \/ \E i \in Charge : Approve(i) \/ Pay(i) \/ Forget(i)
    \/ \E settled \in SUBSET (Open \cap paid), released \in SUBSET (Open \ paid) :
          Resolve(settled, released)

BookSpec == BookInit /\ [][BookNext]_bookVars
=============================================================================
