------------------------------ MODULE CardTree ------------------------------
(***************************************************************************)
(* The cards of one user and the limits their terms put on spending.       *)
(*                                                                         *)
(* Cards form a forest: a root card is delegated by the user, a sub-card   *)
(* by its parent card.  The chain enforces the caveats of EVERY ancestor   *)
(* on every spend, so the server's books work on two views of the forest:  *)
(* the ancestor chain of the spending card (store.ts, ancestorChain) and   *)
(* the subtree that shares a card's budget (store.ts, subtreeIds).         *)
(***************************************************************************)
EXTENDS Integers, FiniteSets

CONSTANTS
    Card,           \* the card ids
    NoCard,         \* parent_card_id = null
    Parent,         \* [Card -> Card \cup {NoCard}]
    LifetimeCap,    \* terms.pay.lifetime, of the cards that have one
    PeriodCap,      \* terms.pay.period.amount, of the cards that have one
    PeriodStart,    \* compiled.periodStartDate, of the same cards
    PeriodSeconds,  \* terms.pay.period.seconds, of the same cards
    MaxUses,        \* terms.maxUses, of the cards that have one
    PerTxMax,       \* carvePolicy.perTxMaxAtoms, of the cards that have one
    Expiry          \* terms.expiry, of the cards that have one

CardStatus == {"active", "frozen", "revoked", "nuked"}

\* The chain of c: the least set that holds c and the parent of its cards.
AncestorChain ==
    [c \in Card |->
        {a \in Card :
            \A S \in SUBSET Card :
                /\ c \in S
                /\ \A x \in S : Parent[x] # NoCard => Parent[x] \in S
                => a \in S}]

\* The subtree of c: the least set that holds c and the children of its cards.
SubtreeIds ==
    [c \in Card |->
        {d \in Card :
            \A S \in SUBSET Card :
                /\ c \in S
                /\ \A x \in Card : Parent[x] \in S => x \in S
                => d \in S}]

\* The key the server serialises a card's spends on: the last card of its chain.
SpendKey ==
    [c \in Card |-> CHOOSE a \in AncestorChain[c] : Parent[a] = NoCard]

\* Fixed windows: the start of the window of card c that holds instant `now`.
PeriodWindowStart(c, now) ==
    IF now < PeriodStart[c]
    THEN PeriodStart[c]
    ELSE now - ((now - PeriodStart[c]) % PeriodSeconds[c])

\* A card's parent exists before the card does, so that every chain ends.
\* compileCard starts the first window 300 s before the card exists, so no
\* charge is older than its card's first window: instant 0 is a safe origin.
TermsAssumption ==
    /\ Card # {} /\ NoCard \notin Card
    /\ Parent \in [Card -> Card \cup {NoCard}]
    /\ \A c \in Card : \E a \in AncestorChain[c] : Parent[a] = NoCard
    /\ DOMAIN LifetimeCap \subseteq Card
    /\ \A c \in DOMAIN LifetimeCap : LifetimeCap[c] \in Nat
    /\ DOMAIN PeriodCap \subseteq Card
    /\ \A c \in DOMAIN PeriodCap :
          /\ PeriodCap[c] \in Nat
          /\ PeriodStart[c] \in Int /\ PeriodStart[c] <= 0
          /\ PeriodSeconds[c] \in Nat \ {0}
    /\ DOMAIN MaxUses \subseteq Card
    /\ \A c \in DOMAIN MaxUses : MaxUses[c] \in Nat
    /\ \A c \in DOMAIN PerTxMax : PerTxMax[c] \in Nat
    /\ \A c \in DOMAIN Expiry : Expiry[c] \in Nat

ASSUME TermsAssumption
=============================================================================
