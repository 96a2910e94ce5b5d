---------------------------- MODULE SpendProofs -----------------------------
(***************************************************************************)
(* The pipeline's types, mutual exclusion, and what a card may spend, for  *)
(* every card tree, every set of requests and every bound.                 *)
(*                                                                         *)
(* First the lemmas about the card tree and the accounting: the two views  *)
(* of the tree agree, sums over charges are numbers that grow with the     *)
(* charges, and a charge the refusal engine let through keeps every limit  *)
(* of every card it weighs on.                                             *)
(*                                                                         *)
(* TypeOK is not inductive: a section that ends moves its tree's queue on, *)
(* which is only defined if the queue is not empty, and a verdict reads    *)
(* the log at a place the scan reported.  TypeInv adds both, and the first *)
(* of them is mutual exclusion.                                            *)
(*                                                                         *)
(* WithinLimits is not inductive: that the row a verdict touches is still  *)
(* the one that was booked, and not a deleted or failed one that would     *)
(* come back to life, depends on what each parked request and the sweep    *)
(* know of the table.  Books says that, for spends, settlements and        *)
(* card-network approvals.                                                 *)
(***************************************************************************)
EXTENDS Spend, FiniteSetTheorems, TLAPS

Table == [Charge -> ChargeRow]

-----------------------------------------------------------------------------
(* The card tree.                                                          *)

\* Whoever has c in its chain is in the subtree of c.
LEMMA ChainInSubtree ==
  ASSUME NEW c \in Card, NEW d \in Card, c \in AncestorChain[d]
  PROVE  d \in SubtreeIds[c]
<1> DEFINE T == {x \in Card : d \in SubtreeIds[x]}
<1>1. d \in T
  BY DEF SubtreeIds
<1>2. ASSUME NEW x \in T, Parent[x] # NoCard
      PROVE  Parent[x] \in T
  <2>1. Parent[x] \in Card
    BY <1>2, TermsAssumption DEF TermsAssumption
  <2>2. ASSUME NEW S \in SUBSET Card, Parent[x] \in S,
               \A y \in Card : Parent[y] \in S => y \in S
        PROVE  d \in S
    BY <2>2 DEF SubtreeIds
  <2> QED BY <2>1, <2>2 DEF SubtreeIds
<1>3. c \in T
  <2>1. T \in SUBSET Card
    OBVIOUS
  <2> QED BY <1>1, <1>2, <2>1 DEF AncestorChain
<1> QED BY <1>3

\* The last cards of the chain of c.
Roots(c) == {a \in AncestorChain[c] : Parent[a] = NoCard}

\* A card is in its own chain and in its own subtree.
LEMMA OwnChain ==
  ASSUME NEW c \in Card
  PROVE  c \in AncestorChain[c] /\ c \in SubtreeIds[c]
BY DEF AncestorChain, SubtreeIds

\* A child's chain is its own card and its parent's chain.
LEMMA ChainOfChild ==
  ASSUME NEW c \in Card, Parent[c] # NoCard
  PROVE  AncestorChain[c] = {c} \cup AncestorChain[Parent[c]]
<1> DEFINE b == Parent[c]
           T == {c} \cup AncestorChain[b]
<1>1. b \in Card
  BY TermsAssumption DEF TermsAssumption
<1>2. T \in SUBSET Card
  BY <1>1 DEF AncestorChain
<1>3. ASSUME NEW x \in T, Parent[x] # NoCard
      PROVE  Parent[x] \in T
  <2>1. CASE x = c
    BY <1>1, <2>1, OwnChain
  <2>2. CASE x \in AncestorChain[b]
    <3>1. Parent[x] \in Card
      BY <1>2, <1>3, TermsAssumption DEF TermsAssumption
    <3>2. ASSUME NEW S \in SUBSET Card, b \in S,
                 \A y \in S : Parent[y] # NoCard => Parent[y] \in S
          PROVE  Parent[x] \in S
      <4>1. x \in S
        BY <1>1, <2>2, <3>2 DEF AncestorChain
      <4> QED BY <1>3, <3>2, <4>1
    <3> QED BY <1>1, <3>1, <3>2 DEF AncestorChain
  <2> QED BY <2>1, <2>2
<1>4. AncestorChain[c] \subseteq T
  BY <1>2, <1>3 DEF AncestorChain
<1>5. ASSUME NEW x \in AncestorChain[b]
      PROVE  x \in AncestorChain[c]
  <2>1. x \in Card
    BY <1>1, <1>5 DEF AncestorChain
  <2>2. ASSUME NEW S \in SUBSET Card, c \in S,
               \A y \in S : Parent[y] # NoCard => Parent[y] \in S
        PROVE  x \in S
    <3>1. b \in S
      BY <2>2
    <3> QED BY <1>1, <1>5, <2>2, <3>1 DEF AncestorChain
  <2> QED BY <2>1, <2>2 DEF AncestorChain
<1> QED BY <1>4, <1>5, OwnChain

\* All cards of a subtree have the last cards of its top.
LEMMA SubtreeRoots ==
  ASSUME NEW c \in Card, NEW d \in SubtreeIds[c]
  PROVE  Roots(d) = Roots(c)
<1> DEFINE T == {x \in Card : Roots(x) = Roots(c)}
<1>1. c \in T
  OBVIOUS
<1>2. ASSUME NEW x \in Card, Parent[x] \in T
      PROVE  x \in T
  <2>1. Parent[x] # NoCard
    BY <1>2, TermsAssumption DEF TermsAssumption
  <2>2. Roots(x) = Roots(Parent[x])
    BY <2>1, ChainOfChild DEF Roots
  <2> QED BY <1>2, <2>2
<1>3. T \in SUBSET Card
  OBVIOUS
<1> HIDE DEF T
<1>4. d \in T
  BY <1>1, <1>2, <1>3 DEF SubtreeIds
<1> QED BY <1>4 DEF T

\* A chain has one last card, the one a tree is serialised on.
LEMMA OneRoot ==
  ASSUME NEW c \in Card
  PROVE  Roots(c) = {SpendKey[c]}
<1>1. PICK r \in AncestorChain[c] : Parent[r] = NoCard
  BY TermsAssumption DEF TermsAssumption
<1>2. r \in Card
  BY DEF AncestorChain
<1>3. Roots(r) = {r}
  <2>1. {r} \in SUBSET Card /\ \A x \in {r} : Parent[x] # NoCard => Parent[x] \in {r}
    BY <1>1, <1>2
  <2>2. AncestorChain[r] \subseteq {r}
    BY <1>2, <2>1 DEF AncestorChain
  <2> QED BY <1>1, <1>2, <2>2, OwnChain DEF Roots
<1>4. c \in SubtreeIds[r]
  BY <1>2, ChainInSubtree
<1>5. Roots(c) = {r}
  BY <1>2, <1>3, <1>4, SubtreeRoots
<1>6. SpendKey[c] = (CHOOSE a \in AncestorChain[c] : Parent[a] = NoCard)
  BY DEF SpendKey
<1>7. SpendKey[c] \in AncestorChain[c] /\ Parent[SpendKey[c]] = NoCard
  BY <1>1, <1>6
<1> QED BY <1>5, <1>7 DEF Roots

\* Whoever weighs on a card of a chain belongs to the chain's tree.
LEMMA SubtreeIsOneTree ==
  ASSUME NEW c \in Card, NEW a \in AncestorChain[c], NEW d \in SubtreeIds[a]
  PROVE  SpendKey[d] = SpendKey[c]
<1>1. a \in Card /\ d \in Card
  BY DEF AncestorChain, SubtreeIds
<1>2. c \in SubtreeIds[a]
  BY <1>1, ChainInSubtree
<1>3. Roots(d) = Roots(a) /\ Roots(c) = Roots(a)
  BY <1>1, <1>2, SubtreeRoots
<1> QED BY <1>1, <1>3, OneRoot
\* A window starts no later than the instants it holds.
LEMMA WindowStartBounds ==
  ASSUME NEW c \in DOMAIN PeriodCap, NEW x \in Nat
  PROVE  PeriodWindowStart(c, x) \in Int /\ PeriodWindowStart(c, x) <= x
<1>1. /\ PeriodStart[c] \in Int /\ PeriodStart[c] <= 0
      /\ PeriodSeconds[c] \in Nat \ {0}
  BY TermsAssumption DEF TermsAssumption
<1>2. (x - PeriodStart[c]) % PeriodSeconds[c] \in Nat
  BY <1>1
<1> QED BY <1>1, <1>2 DEF PeriodWindowStart

-----------------------------------------------------------------------------
(* Sums, counted atom by atom.                                             *)

\* There are finitely many charges.
LEMMA ChargeFinite == IsFiniteSet(Charge)
BY ChargesAssumption, FS_Union DEF ChargesAssumption, Charge

\* There are n atoms in an amount of n.
LEMMA UpTo ==
  ASSUME NEW n \in Nat
  PROVE  IsFiniteSet(1 .. n) /\ Cardinality(1 .. n) = n
<1>1. 1 \in Int /\ n \in Int
  OBVIOUS
<1>2. IsFiniteSet(1 .. n) /\ Cardinality(1 .. n) = IF 1 > n THEN 0 ELSE n - 1 + 1
  BY <1>1, FS_Interval
<1> QED BY <1>2

\* The atoms of the charges of S; Atoms counts them.
Grains(S, f) == UNION {{i} \X (1 .. f[i]) : i \in S}

\* Finitely many charges have finitely many atoms.
LEMMA GrainsFinite ==
  ASSUME NEW S \in SUBSET Charge, NEW f \in [Charge -> Nat]
  PROVE  IsFiniteSet(Grains(S, f))
<1> DEFINE B == {{i} \X (1 .. f[i]) : i \in S}
           g == [i \in S |-> {i} \X (1 .. f[i])]
<1>1. IsFiniteSet(S)
  BY ChargeFinite, FS_Subset
<1>2. g \in Surjection(S, B)
  BY DEF Surjection
<1>3. IsFiniteSet(B)
  BY <1>1, <1>2, FS_Surjection
<1>4. \A T \in B : IsFiniteSet(T)
  <2>1. ASSUME NEW i \in S
        PROVE  IsFiniteSet({i} \X (1 .. f[i]))
    <3>1. f[i] \in Nat
      OBVIOUS
    <3>2. IsFiniteSet({i}) /\ IsFiniteSet(1 .. f[i])
      BY <3>1, FS_Singleton, UpTo
    <3> QED BY <3>2, FS_Product
  <2> QED BY <2>1
<1>5. IsFiniteSet(UNION B)
  BY <1>3, <1>4, FS_UNION
<1> QED BY <1>5 DEF Grains

\* A sum is a number.
LEMMA AtomsType ==
  ASSUME NEW S \in SUBSET Charge, NEW f \in [Charge -> Nat]
  PROVE  Atoms(S, f) \in Nat
BY GrainsFinite, FS_CardinalityType DEF Atoms, Grains

\* Fewer charges, or charges of less, add up to no more.
LEMMA AtomsMonotone ==
  ASSUME NEW S \in SUBSET Charge, NEW T \in SUBSET Charge, S \subseteq T,
         NEW f \in [Charge -> Nat], NEW g \in [Charge -> Nat],
         \A i \in S : f[i] <= g[i]
  PROVE  Atoms(S, f) <= Atoms(T, g)
<1>1. ASSUME NEW i \in S
      PROVE  {i} \X (1 .. f[i]) \subseteq Grains(T, g)
  <2>1. 1 .. f[i] \subseteq 1 .. g[i]
    <3>1. f[i] \in Nat /\ g[i] \in Nat /\ f[i] <= g[i]
      OBVIOUS
    <3> QED BY <3>1
  <2> QED BY <2>1 DEF Grains
<1>2. Grains(S, f) \subseteq Grains(T, g)
  BY <1>1 DEF Grains
<1>3. IsFiniteSet(Grains(T, g))
  BY GrainsFinite
<1>4. Cardinality(Grains(S, f)) <= Cardinality(Grains(T, g))
  BY <1>2, <1>3, FS_Subset
<1> QED BY <1>4 DEF Atoms, Grains

\* One more charge adds its atoms and no more.
LEMMA AtomsAdd ==
  ASSUME NEW S \in SUBSET Charge, NEW i \in Charge, NEW f \in [Charge -> Nat]
  PROVE  Atoms(S \cup {i}, f) <= Atoms(S, f) + f[i]
<1> DEFINE X == {i} \X (1 .. f[i])
<1>1. Grains(S \cup {i}, f) = Grains(S, f) \cup X
  BY DEF Grains
<1>2. IsFiniteSet(Grains(S, f)) /\ IsFiniteSet({i}) /\ IsFiniteSet(1 .. f[i])
  <2>1. f[i] \in Nat
    OBVIOUS
  <2> QED BY <2>1, GrainsFinite, FS_Singleton, UpTo
<1>3. IsFiniteSet(X) /\ Cardinality(X) = f[i]
  <2>1. Cardinality({i}) = 1 /\ Cardinality(1 .. f[i]) = f[i]
    <3>1. f[i] \in Nat
      OBVIOUS
    <3> QED BY <3>1, FS_Singleton, UpTo
  <2>2. IsFiniteSet(X) /\ Cardinality(X) = Cardinality({i}) * Cardinality(1 .. f[i])
    BY <1>2, FS_Product
  <2>3. f[i] \in Nat
    OBVIOUS
  <2> QED BY <2>1, <2>2, <2>3
<1>4. Cardinality(Grains(S, f) \cup X)
        = Cardinality(Grains(S, f)) + Cardinality(X)
            - Cardinality(Grains(S, f) \cap X)
  BY <1>2, <1>3, FS_Union
<1>5. IsFiniteSet(Grains(S, f) \cap X)
  BY <1>2, FS_Intersection
<1>6. Cardinality(Grains(S, f) \cap X) \in Nat /\ Cardinality(Grains(S, f)) \in Nat
  BY <1>2, <1>5, FS_CardinalityType
<1>7. Cardinality(Grains(S \cup {i}, f)) <= Cardinality(Grains(S, f)) + f[i]
  <2> DEFINE all == Cardinality(Grains(S \cup {i}, f))
             old == Cardinality(Grains(S, f))
             both == Cardinality(Grains(S, f) \cap X)
             new == f[i]
  <2>1. new \in Nat /\ old \in Nat /\ both \in Nat
    BY <1>6
  <2>2. all = old + new - both
    BY <1>1, <1>3, <1>4, Zenon
  <2> HIDE DEF all, old, both, new
  <2>3. all <= old + new
    BY <2>1, <2>2
  <2> QED BY <2>3 DEF all, old, new
<1> QED BY <1>7 DEF Atoms, Grains

-----------------------------------------------------------------------------
(* Tables within the limits.                                               *)

Held(row) == row.status \notin {"absent", "failed"}

\* Every limit of every card, in every window.
Within(tab) ==
    /\ \A c \in DOMAIN MaxUses : UsesWithin(tab, c)
    /\ \A c \in DOMAIN LifetimeCap : LifetimeWithin(tab, c)
    /\ \A c \in DOMAIN PeriodCap : \A t \in Nat : PeriodWithin(tab, c, t)

\* Nothing new is held, and what is held was held before, for no less.
NoHeavier(old, new) ==
    \A i \in Charge :
        Held(new[i]) =>
            /\ Held(old[i])
            /\ new[i].card = old[i].card /\ new[i].created = old[i].created
            /\ Approved(new)[i] <= Approved(old)[i]

\* What was approved is a number, and no more than what is booked.
LEMMA ApprovedType ==
  ASSUME NEW tab \in Table
  PROVE  /\ Approved(tab) \in [Charge -> Nat]
         /\ Total(tab) \in [Charge -> Nat]
         /\ \A i \in Charge : Approved(tab)[i] <= Total(tab)[i]
<1>1. ASSUME NEW i \in Charge
      PROVE  tab[i].amount \in Nat /\ tab[i].fee \in Nat
  BY DEF Table, ChargeRow
<1> QED BY <1>1 DEF Approved, Total

\* Limits are numbers, and belong to cards.
LEMMA LimitTypes ==
  /\ DOMAIN MaxUses \subseteq Card /\ \A c \in DOMAIN MaxUses : MaxUses[c] \in Nat
  /\ DOMAIN LifetimeCap \subseteq Card
  /\ \A c \in DOMAIN LifetimeCap : LifetimeCap[c] \in Nat
  /\ DOMAIN PeriodCap \subseteq Card
  /\ \A c \in DOMAIN PeriodCap : PeriodCap[c] \in Nat
BY TermsAssumption DEF TermsAssumption

\* The store's query finds every charge that holds budget of c.
LEMMA ChargedIsCounted ==
  ASSUME NEW tab \in Table, NEW c \in Card
  PROVE  ChargedTo(tab, c) \subseteq SubtreeCharges(tab, c)
<1>1. \A i \in Charge : tab[i].card \in Card
  BY DEF Table, ChargeRow
<1> QED BY <1>1, ChainInSubtree DEF ChargedTo, SubtreeCharges

\* A table that holds nothing is within every limit.
LEMMA WithinEmpty ==
  ASSUME NEW tab, \A i \in Charge : ~Held(tab[i])
  PROVE  Within(tab)
<1>1. \A c : ChargedTo(tab, c) = {}
  BY DEF ChargedTo, Held
<1>2. \A c, t : WindowCharges(tab, c, t) = {}
  BY <1>1 DEF WindowCharges
<1>3. \A f : Atoms({}, f) = 0
  BY FS_EmptySet DEF Atoms
<1>4. \A c \in DOMAIN MaxUses : UsesWithin(tab, c)
  BY <1>1, LimitTypes, FS_EmptySet DEF UsesWithin
<1>5. \A c \in DOMAIN LifetimeCap : LifetimeWithin(tab, c)
  BY <1>1, <1>3, LimitTypes DEF LifetimeWithin
<1>6. \A c \in DOMAIN PeriodCap : \A t \in Nat : PeriodWithin(tab, c, t)
  BY <1>2, <1>3, LimitTypes DEF PeriodWithin
<1> QED BY <1>4, <1>5, <1>6 DEF Within

\* Releasing, re-labelling or cheapening charges keeps the limits.
LEMMA NoHeavierWithin ==
  ASSUME NEW old \in Table, NEW new \in Table, Within(old), NoHeavier(old, new)
  PROVE  Within(new)
<1>1. /\ Approved(old) \in [Charge -> Nat]
      /\ Approved(new) \in [Charge -> Nat]
  BY ApprovedType
<1>2. ASSUME NEW c \in Card
      PROVE  /\ ChargedTo(new, c) \subseteq ChargedTo(old, c)
             /\ ChargedTo(old, c) \in SUBSET Charge
             /\ ChargedTo(new, c) \in SUBSET Charge
             /\ \A i \in ChargedTo(new, c) : Approved(new)[i] <= Approved(old)[i]
  BY DEF ChargedTo, NoHeavier, Held
<1>3. ASSUME NEW c \in DOMAIN MaxUses PROVE UsesWithin(new, c)
  <2>1. IsFiniteSet(ChargedTo(old, c)) /\ IsFiniteSet(ChargedTo(new, c))
    BY <1>2, LimitTypes, ChargeFinite, FS_Subset
  <2>2. Cardinality(ChargedTo(new, c)) <= Cardinality(ChargedTo(old, c))
    BY <1>2, <2>1, LimitTypes, FS_Subset
  <2>3. Cardinality(ChargedTo(new, c)) \in Nat /\ Cardinality(ChargedTo(old, c)) \in Nat
    BY <2>1, FS_CardinalityType
  <2>4. Cardinality(ChargedTo(old, c)) <= MaxUses[c] /\ MaxUses[c] \in Nat
    BY LimitTypes DEF Within, UsesWithin
  <2> QED BY <2>2, <2>3, <2>4 DEF UsesWithin
<1>4. ASSUME NEW S \in SUBSET Charge, NEW T \in SUBSET Charge, S \subseteq T,
             \A i \in S : Approved(new)[i] <= Approved(old)[i],
             NEW n \in Nat, Atoms(T, Approved(old)) <= n
      PROVE  Atoms(S, Approved(new)) <= n
  <2>1. Atoms(S, Approved(new)) <= Atoms(T, Approved(old))
    BY <1>1, <1>4, AtomsMonotone
  <2>2. Atoms(S, Approved(new)) \in Nat /\ Atoms(T, Approved(old)) \in Nat
    BY <1>1, AtomsType
  <2> QED BY <1>4, <2>1, <2>2
<1>5. ASSUME NEW c \in DOMAIN LifetimeCap PROVE LifetimeWithin(new, c)
  <2>1. c \in Card /\ LifetimeCap[c] \in Nat
    BY LimitTypes
  <2>2. Atoms(ChargedTo(old, c), Approved(old)) <= LifetimeCap[c]
    BY DEF Within, LifetimeWithin
  <2> QED BY <1>2, <1>4, <2>1, <2>2 DEF LifetimeWithin
<1>6. ASSUME NEW c \in DOMAIN PeriodCap, NEW t \in Nat PROVE PeriodWithin(new, c, t)
  <2>1. c \in Card /\ PeriodCap[c] \in Nat
    BY LimitTypes
  <2>2. Atoms(WindowCharges(old, c, t), Approved(old)) <= PeriodCap[c]
    BY DEF Within, PeriodWithin
  <2>3. /\ WindowCharges(new, c, t) \subseteq WindowCharges(old, c, t)
        /\ WindowCharges(old, c, t) \in SUBSET Charge
        /\ WindowCharges(new, c, t) \in SUBSET Charge
        /\ \A i \in WindowCharges(new, c, t) : Approved(new)[i] <= Approved(old)[i]
    BY DEF WindowCharges, ChargedTo, NoHeavier, Held
  <2> QED BY <1>4, <2>1, <2>2, <2>3 DEF PeriodWithin
<1> QED BY <1>3, <1>5, <1>6 DEF Within

\* A charge the refusal engine let through, at the instant it is booked at,
\* keeps every limit of every card and window.
LEMMA BookedWithin ==
  ASSUME NEW old \in Table, Within(old), NEW i \in Charge, ~Held(old[i]),
         NEW row \in ChargeRow, NEW total \in Nat,
         total = IF row.kind = "fiat" THEN row.amount ELSE row.amount + row.fee,
         ValidateSpend(old, row.card, row.amount, total, row.created)
  PROVE  Within([old EXCEPT ![i] = row])
<1> DEFINE new == [old EXCEPT ![i] = row]
           A == AncestorChain[row.card]
<1>1. /\ new \in Table /\ new[i] = row
      /\ \A j \in Charge \ {i} : new[j] = old[j]
  BY DEF Table
<1>2. row.card \in Card /\ row.created \in Nat
  BY DEF ChargeRow
<1> HIDE DEF new
<1>3. /\ Approved(old) \in [Charge -> Nat] /\ Total(old) \in [Charge -> Nat]
      /\ Approved(new) \in [Charge -> Nat]
      /\ \A j \in Charge : Approved(old)[j] <= Total(old)[j]
  BY <1>1, ApprovedType
<1>4. Approved(new)[i] = total
  BY <1>1 DEF Approved
<1>5. \A j \in Charge \ {i} : Approved(new)[j] = Approved(old)[j]
  BY <1>1 DEF Approved
<1>6. ASSUME NEW c \in Card
      PROVE  /\ ChargedTo(new, c) \in SUBSET Charge
             /\ ChargedTo(old, c) \in SUBSET (Charge \ {i})
             /\ c \notin A => ChargedTo(new, c) \subseteq ChargedTo(old, c)
             /\ ChargedTo(new, c) \subseteq ChargedTo(old, c) \cup {i}
  BY <1>1 DEF ChargedTo, Held
<1>7. ASSUME NEW c \in DOMAIN MaxUses PROVE UsesWithin(new, c)
  <2>1. c \in Card /\ MaxUses[c] \in Nat
    BY LimitTypes
  <2>2. IsFiniteSet(ChargedTo(old, c)) /\ IsFiniteSet(SubtreeCharges(old, c))
    BY <1>6, <2>1, ChargeFinite, FS_Subset DEF SubtreeCharges
  <2>3. /\ Cardinality(ChargedTo(old, c)) \in Nat
        /\ Cardinality(ChargedTo(old, c)) <= MaxUses[c]
    BY <2>2, FS_CardinalityType DEF Within, UsesWithin
  <2>4. CASE c \notin A
    <3>1. Cardinality(ChargedTo(new, c)) <= Cardinality(ChargedTo(old, c))
      BY <1>6, <2>1, <2>2, <2>4, FS_Subset
    <3>2. Cardinality(ChargedTo(new, c)) \in Nat
      BY <1>6, <2>1, <2>2, <2>4, FS_Subset, FS_CardinalityType
    <3> QED BY <2>1, <2>3, <3>1, <3>2 DEF UsesWithin
  <2>5. CASE c \in A
    <3>1. SubtreeUsesCount(old, c) < MaxUses[c]
      BY <2>5 DEF ValidateSpend
    <3>2. /\ Cardinality(ChargedTo(old, c)) <= Cardinality(SubtreeCharges(old, c))
          /\ Cardinality(SubtreeCharges(old, c)) \in Nat
      BY <2>1, <2>2, ChargedIsCounted, FS_Subset, FS_CardinalityType
    <3>3. /\ IsFiniteSet(ChargedTo(old, c) \cup {i})
          /\ Cardinality(ChargedTo(old, c) \cup {i}) = Cardinality(ChargedTo(old, c)) + 1
      BY <1>6, <2>1, <2>2, FS_AddElement
    <3>4. Cardinality(ChargedTo(new, c)) <= Cardinality(ChargedTo(old, c)) + 1
      BY <1>6, <2>1, <3>3, FS_Subset
    <3>5. Cardinality(ChargedTo(new, c)) \in Nat
      BY <1>6, <2>1, <3>3, FS_Subset, FS_CardinalityType
    <3> QED BY <2>1, <2>3, <3>1, <3>2, <3>4, <3>5 DEF UsesWithin, SubtreeUsesCount
  <2> QED BY <2>4, <2>5
<1>8. ASSUME NEW S \in SUBSET Charge, NEW R \in SUBSET (Charge \ {i}), S \subseteq R,
             NEW n \in Nat, Atoms(R, Approved(old)) <= n
      PROVE  Atoms(S, Approved(new)) <= n
  <2>1. \A j \in S : Approved(new)[j] <= Approved(old)[j]
    BY <1>3, <1>5, <1>8
  <2>2. Atoms(S, Approved(new)) <= Atoms(R, Approved(old))
    BY <1>3, <1>8, <2>1, AtomsMonotone
  <2>3. Atoms(S, Approved(new)) \in Nat /\ Atoms(R, Approved(old)) \in Nat
    BY <1>3, AtomsType
  <2> QED BY <1>8, <2>2, <2>3
<1>9. ASSUME NEW S \in SUBSET Charge, NEW R \in SUBSET (Charge \ {i}),
             NEW T \in SUBSET Charge, S \subseteq R \cup {i}, R \subseteq T,
             NEW n \in Nat, Atoms(T, Total(old)) + total <= n
      PROVE  Atoms(S, Approved(new)) <= n
  <2>1. Atoms(S, Approved(new)) <= Atoms(R \cup {i}, Approved(new))
    <3>1. \A j \in S : Approved(new)[j] <= Approved(new)[j]
      BY <1>3
    <3> QED BY <1>3, <1>9, <3>1, AtomsMonotone
  <2>2. Atoms(R \cup {i}, Approved(new)) <= Atoms(R, Approved(new)) + total
    BY <1>3, <1>4, AtomsAdd
  <2>3. \A j \in R : Approved(new)[j] <= Total(old)[j]
    BY <1>3, <1>5
  <2>4. Atoms(R, Approved(new)) <= Atoms(T, Total(old))
    BY <1>3, <1>9, <2>3, AtomsMonotone
  <2>5. /\ Atoms(S, Approved(new)) \in Nat /\ Atoms(R \cup {i}, Approved(new)) \in Nat
        /\ Atoms(R, Approved(new)) \in Nat /\ Atoms(T, Total(old)) \in Nat
    BY <1>3, AtomsType
  <2> QED BY <1>9, <2>1, <2>2, <2>4, <2>5
<1>10. ASSUME NEW c \in DOMAIN LifetimeCap PROVE LifetimeWithin(new, c)
  <2>1. c \in Card /\ LifetimeCap[c] \in Nat
    BY LimitTypes
  <2>2. Atoms(ChargedTo(old, c), Approved(old)) <= LifetimeCap[c]
    BY DEF Within, LifetimeWithin
  <2>3. CASE c \notin A
    BY <1>6, <1>8, <2>1, <2>2, <2>3 DEF LifetimeWithin
  <2>4. CASE c \in A
    <3> DEFINE T == {j \in SubtreeCharges(old, c) : old[j].created >= 0}
    <3>1. Atoms(T, Total(old)) + total <= LifetimeCap[c]
      BY <2>4 DEF ValidateSpend, SubtreeSpentLifetime, SubtreeSpentSince
    <3>2. ChargedTo(old, c) \subseteq T
      <4>1. \A j \in Charge : old[j].created \in Nat
        BY DEF Table, ChargeRow
      <4> QED BY <2>1, <4>1, ChargedIsCounted DEF SubtreeCharges
    <3>3. T \in SUBSET Charge
      BY DEF SubtreeCharges
    <3> HIDE DEF T
    <3> QED BY <1>6, <1>9, <2>1, <3>1, <3>2, <3>3 DEF LifetimeWithin
  <2> QED BY <2>3, <2>4
<1>11. ASSUME NEW c \in DOMAIN PeriodCap, NEW t \in Nat PROVE PeriodWithin(new, c, t)
  <2>1. c \in Card /\ PeriodCap[c] \in Nat
    BY LimitTypes
  <2>2. Atoms(WindowCharges(old, c, t), Approved(old)) <= PeriodCap[c]
    BY DEF Within, PeriodWithin
  <2>3. /\ WindowCharges(new, c, t) \in SUBSET Charge
        /\ WindowCharges(old, c, t) \in SUBSET (Charge \ {i})
        /\ WindowCharges(new, c, t) \subseteq WindowCharges(old, c, t) \cup {i}
    BY <1>1, <1>6, <2>1 DEF WindowCharges
  <2>4. CASE i \notin WindowCharges(new, c, t)
    <3>1. WindowCharges(new, c, t) \subseteq WindowCharges(old, c, t)
      BY <2>3, <2>4
    <3> QED BY <1>8, <2>1, <2>2, <2>3, <3>1 DEF PeriodWithin
  <2>5. CASE i \in WindowCharges(new, c, t)
    <3> DEFINE start == PeriodWindowStart(c, row.created)
               T == {j \in SubtreeCharges(old, c) : old[j].created >= start}
    <3>1. c \in A /\ start = PeriodWindowStart(c, t)
      BY <1>1, <2>5 DEF WindowCharges, ChargedTo
    <3>2. Atoms(T, Total(old)) + total <= PeriodCap[c]
      BY <3>1 DEF ValidateSpend, SubtreeSpentSince
    <3>3. WindowCharges(old, c, t) \subseteq T
      <4>1. ASSUME NEW j \in WindowCharges(old, c, t)
            PROVE  j \in SubtreeCharges(old, c) /\ old[j].created >= start
        <5>1. j \in ChargedTo(old, c) /\ PeriodWindowStart(c, old[j].created) = start
          BY <3>1 DEF WindowCharges
        <5>2. old[j].created \in Nat
          BY <5>1 DEF ChargedTo, Table, ChargeRow
        <5>3. start <= old[j].created /\ start \in Int
          BY <5>1, <5>2, WindowStartBounds
        <5> HIDE DEF start
        <5> QED BY <2>1, <5>1, <5>2, <5>3, ChargedIsCounted
      <4> QED BY <4>1
    <3>4. T \in SUBSET Charge
      BY DEF SubtreeCharges
    <3> HIDE DEF T
    <3> QED BY <1>9, <2>1, <2>3, <3>2, <3>3, <3>4 DEF PeriodWithin
  <2> QED BY <2>4, <2>5
<1> QED BY <1>7, <1>10, <1>11 DEF Within, new

-----------------------------------------------------------------------------
(* What was validated stays valid.                                         *)

\* A charge that weighs no more on the cards of a chain than it did.
NoMoreOn(c, old, new) ==
    \A a \in AncestorChain[c] : \A i \in SubtreeCharges(new, a) :
        /\ i \in SubtreeCharges(old, a)
        /\ new[i].created = old[i].created
        /\ Total(new)[i] <= Total(old)[i]

\* What the refusal engine took, it takes from a table that weighs no more.
LEMMA LighterValidates ==
  ASSUME NEW old \in Table, NEW new \in Table, NEW c \in Card, NoMoreOn(c, old, new),
         NEW amount, NEW total \in Nat, NEW now \in Nat,
         ValidateSpend(old, c, amount, total, now)
  PROVE  ValidateSpend(new, c, amount, total, now)
<1> SUFFICES ASSUME NEW a \in AncestorChain[c]
             PROVE  /\ a \in DOMAIN PerTxMax => amount <= PerTxMax[a]
                    /\ a \in DOMAIN MaxUses => SubtreeUsesCount(new, a) < MaxUses[a]
                    /\ a \in DOMAIN PeriodCap =>
                          SubtreeSpentSince(new, a, PeriodWindowStart(a, now)) + total
                             <= PeriodCap[a]
                    /\ a \in DOMAIN LifetimeCap =>
                          SubtreeSpentLifetime(new, a) + total <= LifetimeCap[a]
  BY DEF ValidateSpend
<1>1. /\ a \in DOMAIN PerTxMax => amount <= PerTxMax[a]
      /\ a \in DOMAIN MaxUses => SubtreeUsesCount(old, a) < MaxUses[a]
      /\ a \in DOMAIN PeriodCap =>
            SubtreeSpentSince(old, a, PeriodWindowStart(a, now)) + total <= PeriodCap[a]
      /\ a \in DOMAIN LifetimeCap =>
            SubtreeSpentLifetime(old, a) + total <= LifetimeCap[a]
  BY DEF ValidateSpend
<1>2. /\ SubtreeCharges(new, a) \subseteq SubtreeCharges(old, a)
      /\ SubtreeCharges(old, a) \in SUBSET Charge
      /\ SubtreeCharges(new, a) \in SUBSET Charge
  BY DEF NoMoreOn, SubtreeCharges
<1>3. /\ Total(old) \in [Charge -> Nat] /\ Total(new) \in [Charge -> Nat]
  BY ApprovedType
<1>4. ASSUME NEW start
      PROVE  /\ SubtreeSpentSince(new, a, start) \in Nat
             /\ SubtreeSpentSince(old, a, start) \in Nat
             /\ SubtreeSpentSince(new, a, start) <= SubtreeSpentSince(old, a, start)
  <2> DEFINE S == {i \in SubtreeCharges(new, a) : new[i].created >= start}
             T == {i \in SubtreeCharges(old, a) : old[i].created >= start}
  <2>1. S \subseteq T /\ S \in SUBSET Charge /\ T \in SUBSET Charge
    BY <1>2 DEF NoMoreOn
  <2>2. \A i \in S : Total(new)[i] <= Total(old)[i]
    BY DEF NoMoreOn
  <2> HIDE DEF S, T
  <2>3. Atoms(S, Total(new)) <= Atoms(T, Total(old))
    BY <1>3, <2>1, <2>2, AtomsMonotone
  <2>4. Atoms(S, Total(new)) \in Nat /\ Atoms(T, Total(old)) \in Nat
    BY <1>3, <2>1, AtomsType
  <2> QED BY <2>3, <2>4 DEF SubtreeSpentSince, S, T
<1>5. /\ SubtreeUsesCount(new, a) \in Nat /\ SubtreeUsesCount(old, a) \in Nat
      /\ SubtreeUsesCount(new, a) <= SubtreeUsesCount(old, a)
  <2>1. IsFiniteSet(SubtreeCharges(old, a)) /\ IsFiniteSet(SubtreeCharges(new, a))
    BY <1>2, ChargeFinite, FS_Subset
  <2> QED BY <1>2, <2>1, FS_Subset, FS_CardinalityType DEF SubtreeUsesCount
<1>6. /\ a \in DOMAIN MaxUses => MaxUses[a] \in Nat
      /\ a \in DOMAIN LifetimeCap => LifetimeCap[a] \in Nat
      /\ a \in DOMAIN PeriodCap => PeriodCap[a] \in Nat
  BY LimitTypes
<1>7. a \in DOMAIN MaxUses => SubtreeUsesCount(new, a) < MaxUses[a]
  BY <1>1, <1>5, <1>6
<1>8. a \in DOMAIN PeriodCap =>
         SubtreeSpentSince(new, a, PeriodWindowStart(a, now)) + total <= PeriodCap[a]
  <2> DEFINE x == SubtreeSpentSince(new, a, PeriodWindowStart(a, now))
             y == SubtreeSpentSince(old, a, PeriodWindowStart(a, now))
  <2>1. x \in Nat /\ y \in Nat /\ x <= y
    BY <1>4
  <2>2. a \in DOMAIN PeriodCap => y + total <= PeriodCap[a]
    BY <1>1
  <2> HIDE DEF x, y
  <2>3. a \in DOMAIN PeriodCap => x + total <= PeriodCap[a]
    BY <1>6, <2>1, <2>2
  <2> QED BY <2>3 DEF x
<1>9. a \in DOMAIN LifetimeCap => SubtreeSpentLifetime(new, a) + total <= LifetimeCap[a]
  <2> DEFINE x == SubtreeSpentSince(new, a, 0)
             y == SubtreeSpentSince(old, a, 0)
  <2>1. x \in Nat /\ y \in Nat /\ x <= y
    BY <1>4
  <2>2. a \in DOMAIN LifetimeCap => y + total <= LifetimeCap[a]
    BY <1>1 DEF SubtreeSpentLifetime
  <2> HIDE DEF x, y
  <2>3. a \in DOMAIN LifetimeCap => x + total <= LifetimeCap[a]
    BY <1>6, <2>1, <2>2
  <2> QED BY <2>3 DEF x, SubtreeSpentLifetime
<1> QED BY <1>1, <1>7, <1>8, <1>9

-----------------------------------------------------------------------------
(* What is shown is what is checked.                                       *)

\* What is left of a cap covers a cost if the cap covers it on top of the rest.
LEMMA LeftCovers ==
  ASSUME NEW cap \in Nat, NEW used \in Nat, NEW cost \in Nat, cost > 0
  PROVE  /\ used + cost <= cap <=> cost <= Left(cap, used)
         /\ used < cap <=> Left(cap, used) > 0
BY DEF Left

\* The meters of a chain have room for a cost if the refusal engine takes it.
LEMMA MetersAreTheChecks ==
  ASSUME NEW tab \in Table, NEW sts, NEW card \in Card,
         NEW cost \in Nat, cost > 0, NEW now \in Nat
  PROVE  ChainSpendable(sts, card, now) /\ ValidateSpend(tab, card, 0, cost, now)
            <=> MetersAllow(tab, sts, card, cost, now)
<1>1. ASSUME NEW a, NEW start
      PROVE  SubtreeSpentSince(tab, a, start) \in Nat
  BY ApprovedType, AtomsType DEF SubtreeSpentSince, SubtreeCharges
<1>2. ASSUME NEW a \in DOMAIN MaxUses
      PROVE  SubtreeUsesCount(tab, a) < MaxUses[a] <=> UsesRemaining(tab, a) > 0
  <2>1. SubtreeCharges(tab, a) \subseteq Charge
    BY DEF SubtreeCharges
  <2>2. SubtreeUsesCount(tab, a) \in Nat
    BY <2>1, ChargeFinite, FS_Subset, FS_CardinalityType DEF SubtreeUsesCount
  <2> QED BY <2>2, LimitTypes, LeftCovers DEF UsesRemaining
<1>3. ASSUME NEW a \in DOMAIN PeriodCap
      PROVE  SubtreeSpentSince(tab, a, PeriodWindowStart(a, now)) + cost <= PeriodCap[a]
                <=> cost <= RemainingThisPeriod(tab, a, now)
  BY <1>1, LimitTypes, LeftCovers DEF RemainingThisPeriod, Metered
<1>4. ASSUME NEW a \in DOMAIN LifetimeCap
      PROVE  SubtreeSpentLifetime(tab, a) + cost <= LifetimeCap[a]
                <=> cost <= RemainingLifetime(tab, a)
  BY <1>1, LimitTypes, LeftCovers DEF RemainingLifetime, Metered, SubtreeSpentLifetime
<1>5. ASSUME NEW a
      PROVE  sts[a] = "active" /\ (a \in DOMAIN Expiry => now < Expiry[a])
                <=> ShownStatus(sts, a, now) = "active"
  BY TermsAssumption DEF TermsAssumption, ShownStatus
<1>6. \A a \in DOMAIN PerTxMax : 0 <= PerTxMax[a]
  BY TermsAssumption DEF TermsAssumption
<1> QED BY <1>2, <1>3, <1>4, <1>5, <1>6 DEF ChainSpendable, ValidateSpend, MetersAllow

-----------------------------------------------------------------------------
(* Types and mutual exclusion.                                             *)

\* Whoever is inside a section is at the head of its tree's queue.
HoldsMutex ==
    \A p \in Call :
        InSection(p) => queue[MyKey(p)] # <<>> /\ Head(queue[MyKey(p)]) = p

\* The scan of a sweep has not seen more than the chain holds.
ScanIsPast == sweep.phase = "apply" => sweep.upto <= Len(log)

TypeInv == TypeOK /\ HoldsMutex /\ ScanIsPast

-----------------------------------------------------------------------------

\* Every card has a key: its chain ends at a root.
LEMMA SpendKeyType == SpendKey \in [Card -> Card]
<1>1. ASSUME NEW c \in Card
      PROVE (CHOOSE a \in AncestorChain[c] : Parent[a] = NoCard) \in Card
  <2>1. AncestorChain[c] \subseteq Card
    BY DEF AncestorChain
  <2>2. \E a \in AncestorChain[c] : Parent[a] = NoCard
    BY TermsAssumption DEF TermsAssumption
  <2> QED BY <2>1, <2>2
<1> QED BY <1>1 DEF SpendKey

\* The row that stands for no row has the type of a row.
LEMMA NoRowType == NoRow \in ChargeRow
<1>1. (CHOOSE c \in Card : TRUE) \in Card
  BY TermsAssumption DEF TermsAssumption
<1> QED BY <1>1 DEF NoRow, ChargeRow, ChargeStatus

\* So has a request before it is made.
LEMMA IdleCallType == ASSUME NEW p \in Call PROVE IdleCall(p) \in CallState
<1>1. (CHOOSE c \in Card : TRUE) \in Card
  BY TermsAssumption DEF TermsAssumption
<1> QED BY <1>1 DEF IdleCall, CallState, Charge, Phase, Hint

\* The invariant holds of an empty server.
LEMMA InitTypeInv == Init => TypeInv
<1> SUFFICES ASSUME Init PROVE TypeInv
  OBVIOUS
<1>1. rows \in [Charge -> ChargeRow]
  BY NoRowType DEF Init
<1>2. call \in [Call -> CallState]
  BY IdleCallType DEF Init
<1>3. HoldsMutex
  BY DEF Init, HoldsMutex, InSection, IdleCall
<1> QED BY <1>1, <1>2, <1>3
      DEF Init, TypeInv, TypeOK, ScanIsPast, CardStatus, Wire, Sweep, IdleSweep

\* A request that leaves its section hands the mutex on.
LEMMA HandOver ==
  ASSUME TypeInv, NEW p \in Call, InSection(p) \/ MyTurn(p),
         queue' = Release(p), ~InSection(p)',
         \A q \in Call \ {p} : call'[q] = call[q]
  PROVE  queue' \in [Card -> Seq(Call)] /\ HoldsMutex'
<1> DEFINE k == MyKey(p)
<1>1. call \in [Call -> CallState] /\ queue \in [Card -> Seq(Call)]
  BY DEF TypeInv, TypeOK
<1>2. \A q \in Call : MyKey(q) \in Card
  BY <1>1, SpendKeyType DEF MyKey, CallState
<1>3. queue[k] # <<>> /\ Head(queue[k]) = p
  BY DEF TypeInv, HoldsMutex, MyTurn
<1>4. Tail(queue[k]) \in Seq(Call)
  BY <1>1, <1>2, <1>3
<1>5. queue' \in [Card -> Seq(Call)]
  BY <1>1, <1>2, <1>4 DEF Release
<1>6. ASSUME NEW q \in Call, InSection(q)'
      PROVE (queue[MyKey(q)] # <<>> /\ Head(queue[MyKey(q)]) = q)'
  <2>1. q # p /\ call'[q] = call[q]
    BY <1>6
  <2>2. InSection(q) /\ MyKey(q)' = MyKey(q)
    BY <1>6, <2>1 DEF InSection, MyKey
  <2>3. queue[MyKey(q)] # <<>> /\ Head(queue[MyKey(q)]) = q
    BY <2>2 DEF TypeInv, HoldsMutex
  <2>4. MyKey(q) # k
    BY <2>1, <2>3, <1>3
  <2>5. queue'[MyKey(q)] = queue[MyKey(q)]
    BY <2>4, <1>1, <1>2 DEF Release
  <2> QED BY <2>2, <2>3, <2>5
<1> QED BY <1>5, <1>6 DEF HoldsMutex

\* Leaving by a return or a throw ends the request and hands the mutex on.
LEMMA LeaveKeeps ==
  ASSUME TypeInv, NEW p \in Call, Leave(p), InSection(p) \/ MyTurn(p)
  PROVE  /\ call' \in [Call -> CallState]
         /\ queue' \in [Card -> Seq(Call)]
         /\ HoldsMutex'
<1>1. call \in [Call -> CallState]
  BY DEF TypeInv, TypeOK
<1>2. call' \in [Call -> CallState]
  <2>1. "done" \in Phase
    BY DEF Phase
  <2> QED BY <1>1, <2>1 DEF Leave, CallState
<1>3. ~InSection(p)' /\ \A q \in Call \ {p} : call'[q] = call[q]
  BY <1>1 DEF Leave, InSection, CallState
<1> QED BY <1>2, <1>3, HandOver DEF Leave

\* A step that moves no queue lets nobody in but the caller whose turn it is.
LEMMA QueueKept ==
  ASSUME TypeInv, queue' = queue,
         \A q \in Call : /\ call'[q].card = call[q].card
                         /\ InSection(q)' => InSection(q) \/ MyTurn(q)
  PROVE  HoldsMutex'
BY DEF TypeInv, HoldsMutex, MyTurn, MyKey

\* A request that joins a queue displaces nobody.
LEMMA EnterKeeps ==
  ASSUME TypeInv, NEW p \in Call, NEW c \in Card,
         queue' = [queue EXCEPT ![SpendKey[c]] = Append(@, p)],
         call'[p].phase = "queued",
         \A q \in Call \ {p} : call'[q] = call[q]
  PROVE  queue' \in [Card -> Seq(Call)] /\ HoldsMutex'
<1>1. call \in [Call -> CallState] /\ queue \in [Card -> Seq(Call)]
  BY DEF TypeInv, TypeOK
<1>2. queue' \in [Card -> Seq(Call)]
  BY <1>1, SpendKeyType
<1>3. ASSUME NEW q \in Call, InSection(q)'
      PROVE (queue[MyKey(q)] # <<>> /\ Head(queue[MyKey(q)]) = q)'
  <2>1. q # p /\ InSection(q) /\ MyKey(q)' = MyKey(q)
    BY <1>3 DEF InSection, MyKey
  <2>2. queue[MyKey(q)] # <<>> /\ Head(queue[MyKey(q)]) = q
    BY <2>1 DEF TypeInv, HoldsMutex
  <2>3. MyKey(q) \in Card
    BY <1>1, SpendKeyType DEF MyKey, CallState
  <2>4. CASE MyKey(q) = SpendKey[c]
    <3>1. queue'[MyKey(q)] = Append(queue[MyKey(q)], p)
      BY <2>4, <2>3, <1>1
    <3>2. queue[MyKey(q)] \in Seq(Call)
      BY <2>3, <1>1
    <3> QED BY <2>1, <2>2, <3>1, <3>2
  <2>5. CASE MyKey(q) # SpendKey[c]
    BY <2>1, <2>2, <2>3, <2>5, <1>1
  <2> QED BY <2>4, <2>5
<1> QED BY <1>2, <1>3 DEF HoldsMutex

\* A request that goes on from inside its section, takes its turn, or ends,
\* leaves every other request where it is and lets nobody else in.
LEMMA MovesOn ==
  ASSUME call \in [Call -> CallState], NEW p \in Call, NEW cl,
         call' = [call EXCEPT ![p] = cl], cl.card = call[p].card,
         InSection(p) \/ MyTurn(p) \/ cl.phase = "done"
  PROVE  \A q \in Call : /\ call'[q].card = call[q].card
                         /\ InSection(q)' => InSection(q) \/ MyTurn(q)
<1>1. call'[p] = cl /\ \A q \in Call \ {p} : call'[q] = call[q]
  OBVIOUS
<1>2. \A q \in Call \ {p} : InSection(q)' => InSection(q)
  BY <1>1 DEF InSection
<1>3. InSection(p)' => InSection(p) \/ MyTurn(p)
  <2>1. cl.phase = "done" => ~InSection(p)'
    BY <1>1 DEF InSection
  <2> QED BY <2>1
<1> QED BY <1>1, <1>2, <1>3, Zenon

-----------------------------------------------------------------------------
(* The three shapes of a request's step.                                   *)

\* A request leaves its section, and may write the table or the wire.
LEMMA LeaveStep ==
  ASSUME TypeInv, NEW p \in Call, Leave(p), InSection(p) \/ MyTurn(p),
         rows' \in [Charge -> ChargeRow], wire' \in [Call -> Wire],
         UNCHANGED <<clock, status, log, sweep>>
  PROVE  TypeInv'
<1>1. /\ call' \in [Call -> CallState]
      /\ queue' \in [Card -> Seq(Call)]
      /\ HoldsMutex'
  BY LeaveKeeps
<1> QED BY <1>1 DEF TypeInv, TypeOK, ScanIsPast

\* A request goes on without moving a queue.
LEMMA InsideStep ==
  ASSUME TypeInv, queue' = queue,
         call' \in [Call -> CallState],
         \A q \in Call : /\ call'[q].card = call[q].card
                         /\ InSection(q)' => InSection(q) \/ MyTurn(q),
         rows' \in [Charge -> ChargeRow], wire' \in [Call -> Wire],
         UNCHANGED <<clock, status, log, sweep>>
  PROVE  TypeInv'
<1>1. HoldsMutex'
  BY QueueKept
<1> QED BY <1>1 DEF TypeInv, TypeOK, ScanIsPast

\* A request joins the queue of its tree.
LEMMA EnterStep ==
  ASSUME TypeInv, NEW p \in Call, NEW c \in Card,
         queue' = [queue EXCEPT ![SpendKey[c]] = Append(@, p)],
         call' \in [Call -> CallState], call'[p].phase = "queued",
         \A q \in Call \ {p} : call'[q] = call[q],
         UNCHANGED <<clock, status, rows, wire, log, sweep>>
  PROVE  TypeInv'
<1>1. queue' \in [Card -> Seq(Call)] /\ HoldsMutex'
  BY EnterKeeps
<1> QED BY <1>1 DEF TypeInv, TypeOK, ScanIsPast

\* Nothing of the requests or their queues moves.
LEMMA OutsideStep ==
  ASSUME TypeInv, UNCHANGED <<queue, call>>,
         clock' \in Nat, status' \in [Card -> CardStatus],
         rows' \in [Charge -> ChargeRow], wire' \in [Call -> Wire],
         log' \in Seq(Call), sweep' \in Sweep, ScanIsPast'
  PROVE  TypeInv'
BY DEF TypeInv, TypeOK, HoldsMutex, InSection, MyKey

-----------------------------------------------------------------------------
(* Rows keep their shape.                                                  *)

\* A new status.
LEMMA StatusUpdate ==
  ASSUME rows \in [Charge -> ChargeRow], NEW i \in Charge, NEW s \in ChargeStatus
  PROVE  SetStatus(i, s) \in [Charge -> ChargeRow]
BY DEF SetStatus, ChargeRow

\* A claim or a request id, and the block it is searched from.
LEMMA SentUpdate ==
  ASSUME NEW row \in ChargeRow, NEW r \in {"null", "claim", "sent"}, NEW n \in Nat
  PROVE  [row EXCEPT !.request = r, !.since = n] \in ChargeRow
BY DEF ChargeRow

\* A verdict and the transaction it names.
LEMMA VerdictUpdate ==
  ASSUME NEW row \in ChargeRow, NEW s \in ChargeStatus, NEW tx \in Call \cup {NoTx}
  PROVE  [row EXCEPT !.status = s, !.tx = tx] \in ChargeRow
BY DEF ChargeRow

\* A new fee.
LEMMA FeeUpdate ==
  ASSUME NEW row \in ChargeRow, NEW fee \in Nat
  PROVE  [row EXCEPT !.fee = fee] \in ChargeRow
BY DEF ChargeRow

\* A row just inserted.
LEMMA NewRowType ==
  ASSUME NEW c \in Card, NEW k \in Key \cup {NoKey},
         NEW kind \in {"pay", "x402", "fiat"},
         NEW a \in Nat, NEW fee \in Nat, NEW now \in Nat
  PROVE  NewRow(c, k, kind, a, fee, now) \in ChargeRow
<1>1. "pending" \in ChargeStatus
  BY DEF ChargeStatus
<1> QED BY <1>1 DEF NewRow, ChargeRow

\* A failed pass over a row leaves a typed table.
LEMMA FailType ==
  ASSUME TypeInv, NEW p \in Call, FailUnlessSettling(p)
  PROVE  rows' \in [Charge -> ChargeRow]
<1>1. rows \in [Charge -> ChargeRow] /\ call[p].row \in Charge
  BY DEF TypeInv, TypeOK, CallState
<1>2. "failed" \in ChargeStatus
  BY DEF ChargeStatus
<1> QED BY <1>1, <1>2, StatusUpdate DEF FailUnlessSettling

-----------------------------------------------------------------------------
(* One lemma per part of the next-state relation.                          *)

\* Requests enter.
LEMMA EnterTyped ==
  ASSUME TypeInv, NEW p \in Call, Enter(p)
  PROVE  TypeInv'
<1>1. call \in [Call -> CallState] /\ rows \in [Charge -> ChargeRow]
  BY DEF TypeInv, TypeOK
<1>2. "queued" \in Phase
  BY DEF Phase
<1>3. Amounts \subseteq Nat
  BY SpendAssumption DEF SpendAssumption
<1>4. ASSUME NEW c \in Card, NEW k \in Key \cup {NoKey}, NEW a \in Amounts,
             EnterPay(p, c, k, a)
      PROVE  TypeInv'
  <2>1. a \in Nat
    BY <1>3
  <2> DEFINE cl == [call[p] EXCEPT !.lane = "pay", !.card = c, !.key = k,
                                    !.amount = a, !.phase = "queued"]
  <2>2. call' \in [Call -> CallState]
    <3>1. cl \in CallState
      BY <1>1, <1>2, <2>1 DEF CallState
    <3>2. call' = [call EXCEPT ![p] = cl]
      BY <1>4 DEF EnterPay
    <3> QED BY <1>1, <3>1, <3>2
  <2>3. call'[p].phase = "queued" /\ \A q \in Call \ {p} : call'[q] = call[q]
    BY <1>1, <1>4 DEF EnterPay, CallState
  <2> QED BY <1>4, <2>2, <2>3, EnterStep DEF EnterPay
<1>5. ASSUME NEW c \in Card, NEW a \in Amounts \ {0}, EnterX402(p, c, a)
      PROVE  TypeInv'
  <2>1. a \in Nat
    BY <1>3
  <2> DEFINE cl == [call[p] EXCEPT !.lane = "x402", !.card = c,
                                    !.amount = a, !.phase = "queued"]
  <2>2. call' \in [Call -> CallState]
    <3>1. cl \in CallState
      BY <1>1, <1>2, <2>1 DEF CallState
    <3>2. call' = [call EXCEPT ![p] = cl]
      BY <1>5 DEF EnterX402
    <3> QED BY <1>1, <3>1, <3>2
  <2>3. call'[p].phase = "queued" /\ \A q \in Call \ {p} : call'[q] = call[q]
    BY <1>1, <1>5 DEF EnterX402, CallState
  <2> QED BY <1>5, <2>2, <2>3, EnterStep DEF EnterX402
<1>6. ASSUME NEW f \in Fiat, EnterSettle(p, f)
      PROVE  TypeInv'
  <2>1. f \in Charge /\ rows[f].card \in Card /\ rows[f].amount \in Nat
    BY <1>1 DEF Charge, ChargeRow
  <2> DEFINE cl == [call[p] EXCEPT !.lane = "settle", !.card = rows[f].card,
                                    !.amount = rows[f].amount, !.row = f,
                                    !.phase = "queued"]
  <2>2. call' \in [Call -> CallState]
    <3>1. cl \in CallState
      BY <1>1, <1>2, <2>1 DEF CallState
    <3>2. call' = [call EXCEPT ![p] = cl]
      BY <1>6 DEF EnterSettle
    <3> QED BY <1>1, <3>1, <3>2
  <2>3. call'[p].phase = "queued" /\ \A q \in Call \ {p} : call'[q] = call[q]
    BY <1>1, <1>6 DEF EnterSettle, CallState
  <2> QED BY <1>6, <2>1, <2>2, <2>3, EnterStep DEF EnterSettle
<1> QED BY <1>4, <1>5, <1>6 DEF Enter

\* Steps of spend() and of confirmRedemption().
LEMMA SpendTyped ==
  ASSUME TypeInv, NEW p \in Call, SpendStep(p)
  PROVE  TypeInv'
<1>1. /\ call \in [Call -> CallState] /\ rows \in [Charge -> ChargeRow]
      /\ wire \in [Call -> Wire] /\ clock \in Nat /\ log \in Seq(Call)
  BY DEF TypeInv, TypeOK
<1>2. call[p] \in CallState /\ call[p].row \in Charge /\ p \in Charge
  BY <1>1 DEF CallState, Charge
<1>3. Len(log) \in Nat
  BY <1>1
<1>4. Fees \subseteq Nat
  BY SpendAssumption DEF SpendAssumption
<1>5. {"posted", "queued", "landed", "dropped"} \subseteq Wire
  BY DEF Wire
<1>6. {"pending", "confirmed", "failed", "settlement_unconfirmed"} \subseteq ChargeStatus
  BY DEF ChargeStatus
<1>7. {"fee", "estimate", "head", "sending", "confirming"} \subseteq Phase
  BY DEF Phase
<1>8. CASE Replay(p)
  BY <1>1, <1>8, LeaveStep DEF Replay
<1>9. CASE Begin(p)
  <2>1. rows' \in [Charge -> ChargeRow]
    BY <1>1, <1>9, NoRowType DEF Begin, Cleared
  <2>2. CASE Leave(p)
    BY <1>1, <1>9, <2>1, <2>2, LeaveStep DEF Begin
  <2>3. CASE /\ call' = [call EXCEPT ![p].phase = "fee", ![p].now = clock]
             /\ queue' = queue
    <3> DEFINE cl == [call[p] EXCEPT !.phase = "fee", !.now = clock]
    <3>1. cl \in CallState
      BY <1>1, <1>2, <1>7 DEF CallState
    <3>2. call' = [call EXCEPT ![p] = cl]
      BY <2>3
    <3>3. call' \in [Call -> CallState]
      BY <1>1, <3>1, <3>2
    <3>4. \A q \in Call : /\ call'[q].card = call[q].card
                          /\ InSection(q)' => InSection(q) \/ MyTurn(q)
      <4>1. cl.card = call[p].card
        BY <1>2 DEF CallState
      <4> QED BY <1>1, <1>9, <3>2, <4>1, MovesOn DEF Begin
    <3> QED BY <1>1, <1>9, <2>1, <2>3, <3>3, <3>4, InsideStep DEF Begin
  <2> QED BY <1>9, <2>2, <2>3 DEF Begin
<1>10. CASE Abort(p)
  BY <1>1, <1>10, LeaveStep DEF Abort, InSection
<1>11. CASE Reserve(p)
  <2> DEFINE cl == [call[p] EXCEPT !.phase = "head"]
  <2>1. call' = [call EXCEPT ![p] = cl] /\ cl \in CallState
    BY <1>2, <1>7, <1>11 DEF Reserve, CallState
  <2>2. rows' \in [Charge -> ChargeRow]
    <3>1. NewRow(call[p].card, call[p].key, "pay", call[p].amount,
                 call[p].fee, call[p].now) \in ChargeRow
      BY <1>2, NewRowType DEF CallState
    <3>2. [rows EXCEPT ![call[p].row].fee = call[p].fee] \in [Charge -> ChargeRow]
      <4>1. rows[call[p].row] \in ChargeRow /\ call[p].fee \in Nat
        BY <1>1, <1>2 DEF CallState
      <4> QED BY <1>1, <1>2, <4>1, FeeUpdate
    <3>3. [rows EXCEPT ![p] = NewRow(call[p].card, call[p].key, "pay",
                                     call[p].amount, call[p].fee, call[p].now)]
             \in [Charge -> ChargeRow]
      BY <1>1, <1>2, <3>1
    <3> QED BY <1>11, <3>2, <3>3, Zenon DEF Reserve
  <2>3. \A q \in Call : /\ call'[q].card = call[q].card
                        /\ InSection(q)' => InSection(q) \/ MyTurn(q)
    <3>1. cl.card = call[p].card
      BY <1>2 DEF CallState
    <3>2. InSection(p)
      BY <1>11 DEF Reserve, InSection
    <3> QED BY <1>1, <2>1, <3>1, <3>2, MovesOn
  <2> QED BY <1>1, <1>11, <2>1, <2>2, <2>3, InsideStep DEF Reserve
<1>12. ASSUME NEW fee \in Fees, QuoteFee(p, fee) PROVE TypeInv'
  <2> DEFINE cl == [call[p] EXCEPT !.phase = "estimate", !.fee = fee, !.tries = 1]
  <2>1. call' = [call EXCEPT ![p] = cl] /\ cl \in CallState
    BY <1>2, <1>4, <1>7, <1>12 DEF QuoteFee, CallState
  <2>2. \A q \in Call : /\ call'[q].card = call[q].card
                        /\ InSection(q)' => InSection(q) \/ MyTurn(q)
    <3>1. cl.card = call[p].card
      BY <1>2 DEF CallState
    <3>2. InSection(p)
      BY <1>12 DEF QuoteFee, InSection
    <3> QED BY <1>1, <2>1, <3>1, <3>2, MovesOn
  <2> QED BY <1>1, <1>12, <2>1, <2>2, InsideStep DEF QuoteFee
<1>13. ASSUME NEW fee \in Fees, RaiseFee(p, fee) PROVE TypeInv'
  <2> DEFINE cl == [call[p] EXCEPT !.fee = fee, !.tries = @ + 1]
  <2>1. call' = [call EXCEPT ![p] = cl] /\ cl \in CallState
    <3>1. call[p].tries + 1 \in Nat
      BY <1>2 DEF CallState
    <3>2. cl \in CallState
      BY <1>2, <1>4, <3>1 DEF CallState
    <3> QED BY <1>13, <3>2 DEF RaiseFee
  <2>2. \A q \in Call : /\ call'[q].card = call[q].card
                        /\ InSection(q)' => InSection(q) \/ MyTurn(q)
    <3>1. cl.card = call[p].card
      BY <1>2 DEF CallState
    <3>2. InSection(p)
      BY <1>13 DEF RaiseFee, InSection
    <3> QED BY <1>1, <2>1, <3>1, <3>2, MovesOn
  <2> QED BY <1>1, <1>13, <2>1, <2>2, InsideStep DEF RaiseFee
<1>14. CASE HeadFails(p)
  BY <1>1, <1>14, LeaveStep DEF HeadFails, InSection
<1>15. CASE RefuseBroadcast(p)
  BY <1>1, <1>15, LeaveStep, FailType DEF RefuseBroadcast, InSection
<1>16. CASE Broadcast(p)
  <2> DEFINE cl == [call[p] EXCEPT !.phase = "sending", !.since = Len(log)]
  <2>1. call' = [call EXCEPT ![p] = cl] /\ cl \in CallState
    BY <1>2, <1>3, <1>7, <1>16 DEF Broadcast, CallState
  <2>2. Claimed(p) \in [Charge -> ChargeRow]
    <3> DEFINE row == [rows[call[p].row] EXCEPT !.request = "claim",
                                                !.since = Len(log)]
    <3>1. row \in ChargeRow
      BY <1>1, <1>2, <1>3, SentUpdate
    <3>2. Claimed(p) \in {rows, [rows EXCEPT ![call[p].row] = row]}
      BY DEF Claimed
    <3> QED BY <1>1, <1>2, <3>1, <3>2
  <2>3. wire' \in [Call -> Wire]
    BY <1>1, <1>5, <1>16 DEF Broadcast
  <2>4. \A q \in Call : /\ call'[q].card = call[q].card
                        /\ InSection(q)' => InSection(q) \/ MyTurn(q)
    <3>1. cl.card = call[p].card
      BY <1>2 DEF CallState
    <3>2. InSection(p)
      BY <1>16 DEF Broadcast, InSection
    <3> QED BY <1>1, <2>1, <3>1, <3>2, MovesOn
  <2> QED BY <1>1, <1>16, <2>1, <2>2, <2>3, <2>4, InsideStep DEF Broadcast
<1>17. CASE SendReturns(p)
  <2> DEFINE cl == [call[p] EXCEPT !.phase = "confirming"]
  <2>1. call' = [call EXCEPT ![p] = cl] /\ cl \in CallState
    BY <1>2, <1>7, <1>17 DEF SendReturns, CallState
  <2>2. rows' \in [Charge -> ChargeRow]
    <3> DEFINE row == [rows[call[p].row] EXCEPT !.request = "sent",
                                                !.since = call[p].since]
    <3>1. rows[call[p].row] \in ChargeRow /\ call[p].since \in Nat
      BY <1>1, <1>2 DEF CallState
    <3>3. row \in ChargeRow
      BY <3>1, SentUpdate
    <3>2. rows' = [rows EXCEPT ![call[p].row] = row]
      BY <1>17 DEF SendReturns
    <3> QED BY <1>1, <1>2, <3>2, <3>3
  <2>3. \A q \in Call : /\ call'[q].card = call[q].card
                        /\ InSection(q)' => InSection(q) \/ MyTurn(q)
    <3>1. cl.card = call[p].card
      BY <1>2 DEF CallState
    <3>2. InSection(p)
      BY <1>17 DEF SendReturns, InSection
    <3> QED BY <1>1, <2>1, <3>1, <3>2, MovesOn
  <2> QED BY <1>1, <1>17, <2>1, <2>2, <2>3, InsideStep DEF SendReturns
<1>18. CASE SendFails(p)
  <2>1. wire' \in [Call -> Wire]
    BY <1>1, <1>5, <1>18 DEF SendFails
  <2> QED BY <1>18, <2>1, LeaveStep, FailType DEF SendFails, InSection
<1>19. ASSUME NEW q \in Call, ConfirmBy(p, q), call[p].phase = "confirming"
       PROVE  TypeInv'
  <2>1. rows' \in [Charge -> ChargeRow]
    <3> DEFINE row == [rows[call[p].row] EXCEPT !.status = "confirmed", !.tx = q]
    <3>1. row \in ChargeRow
      BY <1>1, <1>2, <1>6, VerdictUpdate
    <3>2. rows' = [rows EXCEPT ![call[p].row] = row]
      BY <1>19 DEF ConfirmBy
    <3> QED BY <1>1, <1>2, <3>1, <3>2
  <2> QED BY <1>1, <1>19, <2>1, LeaveStep DEF ConfirmBy, InSection
<1>20. CASE ConfirmByStatus(p)
  BY <1>19, <1>20 DEF ConfirmByStatus, Polling
<1>21. CASE ConfirmByLog(p)
  <2>1. PICK j \in MyFeeLegs(p) : ConfirmBy(p, log[j])
    BY <1>21 DEF ConfirmByLog
  <2>2. log[j] \in Call
    BY <1>1, <1>3 DEF MyFeeLegs, FeeLegs
  <2> QED BY <1>19, <1>21, <2>1, <2>2 DEF ConfirmByLog, Polling
<1>22. CASE ConfirmReverted(p)
  <2>1. rows' \in [Charge -> ChargeRow]
    BY <1>1, <1>2, <1>6, <1>22, StatusUpdate DEF ConfirmReverted
  <2> QED BY <1>1, <1>22, <2>1, LeaveStep DEF ConfirmReverted, Polling, InSection
<1>23. CASE ConfirmTimesOut(p)
  BY <1>1, <1>23, LeaveStep DEF ConfirmTimesOut, Polling, InSection
<1>24. CASE ToldReverted(p) \/ ScanFindsNothing(p)
  <2>1. PICK hint \in Hint : Told(p, hint) /\ call[p].phase = "confirming"
    BY <1>24 DEF ToldReverted, ScanFindsNothing, Polling, Hint
  <2> DEFINE cl == [call[p] EXCEPT !.hint = hint]
  <2>2. call' = [call EXCEPT ![p] = cl] /\ cl \in CallState
    BY <1>2, <2>1 DEF Told, CallState
  <2>3. \A q \in Call : /\ call'[q].card = call[q].card
                        /\ InSection(q)' => InSection(q) \/ MyTurn(q)
    <3>1. cl.card = call[p].card
      BY <1>2 DEF CallState
    <3>2. InSection(p)
      BY <2>1 DEF InSection
    <3> QED BY <1>1, <2>2, <3>1, <3>2, MovesOn
  <2> QED BY <1>1, <2>1, <2>2, <2>3, InsideStep DEF Told
<1> QED BY <1>8, <1>9, <1>10, <1>11, <1>12, <1>13, <1>14, <1>15, <1>16, <1>17,
           <1>18, <1>20, <1>21, <1>22, <1>23, <1>24 DEF SpendStep

\* Steps of paid_fetch.
LEMMA X402Typed ==
  ASSUME TypeInv, NEW p \in Call, X402Step(p)
  PROVE  TypeInv'
<1>1. /\ call \in [Call -> CallState] /\ rows \in [Charge -> ChargeRow]
      /\ wire \in [Call -> Wire] /\ clock \in Nat
  BY DEF TypeInv, TypeOK
<1>2. call[p] \in CallState /\ p \in Charge /\ rows[p] \in ChargeRow
  BY <1>1 DEF Charge
<1>3. {"sign", "seller", "done"} \subseteq Phase
  BY DEF Phase
<1>4. {"confirmed", "failed", "settlement_unconfirmed"} \subseteq ChargeStatus
  BY DEF ChargeStatus
<1>5. Fees \subseteq Nat /\ Headroom \in Nat
  BY SpendAssumption DEF SpendAssumption
<1>6. CASE BeginX402(p)
  <2>1. CASE Leave(p)
    BY <1>1, <1>6, <2>1, LeaveStep DEF BeginX402
  <2>2. CASE /\ call' = [call EXCEPT ![p].phase = "sign", ![p].now = clock]
             /\ queue' = queue
    <3> DEFINE cl == [call[p] EXCEPT !.phase = "sign", !.now = clock]
    <3>1. call' = [call EXCEPT ![p] = cl] /\ cl \in CallState
      BY <1>1, <1>2, <1>3, <2>2 DEF CallState
    <3>2. \A q \in Call : /\ call'[q].card = call[q].card
                          /\ InSection(q)' => InSection(q) \/ MyTurn(q)
      <4>1. cl.card = call[p].card
        BY <1>2 DEF CallState
      <4> QED BY <1>1, <1>6, <3>1, <4>1, MovesOn DEF BeginX402
    <3> QED BY <1>1, <1>6, <2>2, <3>1, <3>2, InsideStep DEF BeginX402
  <2> QED BY <1>6, <2>1, <2>2 DEF BeginX402
<1>7. ASSUME NEW fee \in Fees, CarveX402(p, fee)
      PROVE  TypeInv'
  <2> DEFINE cl == [call[p] EXCEPT !.phase = "seller", !.fee = fee]
  <2>1. call' = [call EXCEPT ![p] = cl] /\ cl \in CallState
    BY <1>2, <1>3, <1>5, <1>7 DEF CarveX402, CallState
  <2>2. NewRow(call[p].card, NoKey, "x402", call[p].amount, Headroom,
               call[p].now) \in ChargeRow
    BY <1>2, <1>5, NewRowType DEF CallState
  <2>3. rows' \in [Charge -> ChargeRow]
    BY <1>1, <1>2, <1>7, <2>2 DEF CarveX402
  <2>4. wire' \in [Call -> Wire]
    <3>1. "queued" \in Wire
      BY DEF Wire
    <3> QED BY <1>1, <1>7, <3>1 DEF CarveX402
  <2>5. queue' \in [Card -> Seq(Call)] /\ HoldsMutex'
    BY <1>1, <1>7, <2>1, HandOver DEF CarveX402, InSection
  <2> QED BY <1>7, <2>1, <2>3, <2>4, <2>5
          DEF CarveX402, TypeInv, TypeOK, ScanIsPast
<1>8. ASSUME rows' \in [Charge -> ChargeRow], call[p].phase = "seller",
             call' = [call EXCEPT ![p].phase = "done"],
             UNCHANGED <<clock, status, queue, wire, log, sweep>>
      PROVE  TypeInv'
  <2> DEFINE cl == [call[p] EXCEPT !.phase = "done"]
  <2>1. call' = [call EXCEPT ![p] = cl] /\ cl \in CallState
    BY <1>2, <1>3, <1>8 DEF CallState
  <2>2. \A q \in Call : /\ call'[q].card = call[q].card
                        /\ InSection(q)' => InSection(q) \/ MyTurn(q)
    <3>1. cl.card = call[p].card /\ cl.phase = "done"
      BY <1>2 DEF CallState
    <3> QED BY <1>1, <2>1, <3>1, MovesOn
  <2> QED BY <1>1, <1>8, <2>1, <2>2, InsideStep
<1>9. CASE SellerRefuses(p)
  BY <1>1, <1>2, <1>4, <1>8, <1>9, StatusUpdate DEF SellerRefuses
<1>10. ASSUME NEW tx \in {NoTx, p}, NEW fee \in Fees \cup {0},
              SellerServes(p, tx, fee)
       PROVE  TypeInv'
  <2> DEFINE s == IF tx = NoTx THEN "settlement_unconfirmed" ELSE "confirmed"
             row == [[rows[p] EXCEPT !.status = s, !.tx = tx] EXCEPT !.fee = fee]
  <2>1. [rows[p] EXCEPT !.status = s, !.tx = tx] \in ChargeRow
    BY <1>2, <1>4, VerdictUpdate
  <2>2. row \in ChargeRow
    BY <1>5, <2>1, FeeUpdate
  <2>3. rows' = [rows EXCEPT ![p] = row]
    BY <1>10 DEF SellerServes
  <2>4. rows' \in [Charge -> ChargeRow]
    BY <1>1, <1>2, <2>2, <2>3
  <2> QED BY <1>8, <1>10, <2>4 DEF SellerServes
<1> QED BY <1>6, <1>7, <1>9, <1>10 DEF X402Step

\* Steps of the sweep.
LEMMA SweepTyped ==
  ASSUME TypeInv, SweepStep
  PROVE  TypeInv'
<1>1. /\ rows \in [Charge -> ChargeRow] /\ sweep \in Sweep /\ log \in Seq(Call)
      /\ clock \in Nat /\ wire \in [Call -> Wire] /\ status \in [Card -> CardStatus]
  BY DEF TypeInv, TypeOK
<1>2. {"confirmed", "failed", "settlement_unconfirmed"} \subseteq ChargeStatus
  BY DEF ChargeStatus
<1>3. IdleSweep \in Sweep
  BY DEF IdleSweep, Sweep
<1>4. \A row \in ChargeRow : \A s \in ChargeStatus :
         [row EXCEPT !.status = s] \in ChargeRow
  BY DEF ChargeRow
<1>5. CASE SweepStart
  <2>1. rows' \in [Charge -> ChargeRow]
    BY <1>1, <1>2, <1>4, <1>5 DEF SweepStart
  <2>2. PendingChargesOlderThan(rows, clock - Cutoff) \subseteq Charge
    BY DEF PendingChargesOlderThan
  <2>3. sweep' \in Sweep
    BY <1>3, <1>5, <2>2 DEF SweepStart, Sweep
  <2>4. ScanIsPast'
    BY <1>5 DEF SweepStart, IdleSweep, ScanIsPast
  <2> QED BY <1>1, <1>5, <2>1, <2>3, <2>4, OutsideStep DEF SweepStart
<1>6. CASE SweepScan
  <2>1. Len(log) \in Nat
    BY <1>1
  <2>2. sweep' = [phase |-> "apply", stale |-> sweep.stale, upto |-> Len(log)]
    BY <1>1, <1>6 DEF SweepScan, Sweep
  <2>3. sweep' \in Sweep /\ ScanIsPast'
    BY <1>1, <1>6, <2>1, <2>2 DEF SweepScan, Sweep, ScanIsPast
  <2> QED BY <1>1, <1>6, <2>3, OutsideStep DEF SweepScan
<1>7. CASE SweepFails
  BY <1>1, <1>3, <1>7, OutsideStep DEF SweepFails, IdleSweep, ScanIsPast
<1>8. CASE SweepApply
  <2>1. PICK hit \in [sweep.stale -> 0 .. sweep.upto] :
           rows' = [i \in Charge |->
                      IF i \in sweep.stale THEN Swept(i, hit[i]) ELSE rows[i]]
    BY <1>8 DEF SweepApply
  <2>2. ASSUME NEW i \in Charge, NEW leg \in 0 .. sweep.upto
        PROVE  Swept(i, leg) \in ChargeRow
    <3>1. sweep.upto \in Nat /\ sweep.upto <= Len(log)
      BY <1>1, <1>8 DEF SweepApply, TypeInv, ScanIsPast, Sweep
    <3>2. leg # 0 => log[leg] \in Call
      BY <1>1, <3>1
    <3>3. leg # 0 => [rows[i] EXCEPT !.status = "confirmed", !.tx = log[leg]]
                        \in ChargeRow
      BY <1>1, <1>2, <3>2, VerdictUpdate
    <3> QED BY <1>1, <1>2, <1>4, <3>3 DEF Swept
  <2>3. rows' \in [Charge -> ChargeRow]
    BY <1>1, <2>1, <2>2 DEF Sweep
  <2>4. sweep' \in Sweep /\ ScanIsPast'
    BY <1>3, <1>8 DEF SweepApply, IdleSweep, ScanIsPast
  <2> QED BY <1>1, <1>8, <2>3, <2>4, OutsideStep DEF SweepApply
<1> QED BY <1>5, <1>6, <1>7, <1>8 DEF SweepStep

\* The owner's switches.
LEMMA OwnerTyped ==
  ASSUME TypeInv, OwnerStep
  PROVE  TypeInv'
<1>1. TypeOK /\ ScanIsPast
  BY DEF TypeInv
<1>2. CardStatus = {"active", "frozen", "revoked", "nuked"}
  BY DEF CardStatus
<1>3. status' \in [Card -> CardStatus]
  BY <1>1, <1>2
     DEF OwnerStep, FreezeCard, UnfreezeCard, RevokeCard, SetSubtreeStatus,
         NukeAll, TypeOK
<1>4. UNCHANGED <<clock, rows, queue, call, wire, log, sweep>>
  BY DEF OwnerStep, FreezeCard, UnfreezeCard, RevokeCard, NukeAll
<1> QED BY <1>1, <1>3, <1>4, OutsideStep DEF TypeOK, ScanIsPast

\* The relayer and the chain.
LEMMA ChainTyped ==
  ASSUME TypeInv, NEW p \in Call, ChainStep(p)
  PROVE  TypeInv'
<1>1. TypeOK /\ ScanIsPast
  BY DEF TypeInv
<1>2. wire' \in [Call -> Wire]
  <2>1. {"queued", "landed", "dropped"} \subseteq Wire
    BY DEF Wire
  <2> QED BY <1>1, <2>1 DEF ChainStep, RelayerAccepts, Land, Drop, TypeOK
<1>3. log' \in Seq(Call) /\ Len(log') >= Len(log)
  <2>1. log \in Seq(Call) /\ log' \in {log, Append(log, p)}
    BY <1>1 DEF ChainStep, RelayerAccepts, Land, Drop, TypeOK
  <2> QED BY <2>1
<1>4. UNCHANGED <<clock, status, rows, queue, call, sweep>>
  BY DEF ChainStep, RelayerAccepts, Land, Drop
<1>5. ScanIsPast'
  BY <1>1, <1>3, <1>4 DEF ScanIsPast, TypeOK, Sweep
<1> QED BY <1>1, <1>2, <1>3, <1>4, <1>5, OutsideStep DEF TypeOK

\* The webhook.
LEMMA FiatTyped ==
  ASSUME TypeInv, NEW f \in Fiat, NEW c \in Card, NEW a \in Amounts \ {0},
         FiatAuthorize(f, c, a)
  PROVE  TypeInv'
<1>1. TypeOK /\ ScanIsPast
  BY DEF TypeInv
<1>2. a \in Nat
  BY SpendAssumption DEF SpendAssumption
<1>3. NewRow(c, NoKey, "fiat", a, 0, clock) \in ChargeRow
  BY <1>1, <1>2, NewRowType DEF TypeOK
<1>4. rows' \in [Charge -> ChargeRow]
  BY <1>1, <1>3 DEF FiatAuthorize, TypeOK, Charge
<1>5. UNCHANGED <<clock, status, queue, call, wire, log, sweep>>
  BY DEF FiatAuthorize
<1> QED BY <1>1, <1>4, <1>5, OutsideStep DEF TypeOK, ScanIsPast

\* Time passes.
LEMMA TickTyped == ASSUME TypeInv, Tick PROVE TypeInv'
<1>1. clock' \in Nat
  BY DEF Tick, TypeInv, TypeOK
<1> QED BY <1>1, OutsideStep DEF Tick, TypeInv, TypeOK, ScanIsPast

\* The process dies.
LEMMA CrashTyped == ASSUME TypeInv, Crash PROVE TypeInv'
<1>1. TypeOK
  BY DEF TypeInv
<1>2. call' \in [Call -> CallState]
  <2>1. "done" \in Phase
    BY DEF Phase
  <2>2. \A cl \in CallState : [cl EXCEPT !.phase = "done"] \in CallState
    BY <2>1 DEF CallState
  <2> QED BY <1>1, <2>2 DEF Crash, TypeOK
<1>3. HoldsMutex'
  <2>1. \A q \in Call : ~InSection(q)'
    BY <1>1 DEF Crash, InSection, TypeOK, CallState
  <2> QED BY <2>1 DEF HoldsMutex
<1>4. sweep' \in Sweep /\ ScanIsPast'
  BY DEF Crash, IdleSweep, Sweep, ScanIsPast
<1>5. queue' \in [Card -> Seq(Call)]
  BY DEF Crash
<1> QED BY <1>1, <1>2, <1>3, <1>4, <1>5 DEF Crash, TypeInv, TypeOK

\* Every step keeps the invariant.
LEMMA NextTypeInv == TypeInv /\ [Next]_vars => TypeInv'
<1> SUFFICES ASSUME TypeInv, [Next]_vars PROVE TypeInv'
  OBVIOUS
<1>1. CASE UNCHANGED vars
  BY <1>1 DEF vars, TypeInv, TypeOK, HoldsMutex, InSection, MyKey, ScanIsPast
<1>2. CASE Next
  BY <1>2, EnterTyped, SpendTyped, X402Typed, SweepTyped, OwnerTyped,
     ChainTyped, FiatTyped, TickTyped, CrashTyped DEF Next
<1> QED BY <1>1, <1>2

\* Hence the invariant holds in every reachable state.
LEMMA TypeInvHolds == Spec => []TypeInv
BY InitTypeInv, NextTypeInv, PTL DEF Spec

\* The table, the queues, the requests, the log and the sweep have their types
\* in every reachable state: no step leaves an empty queue, or reads beyond the
\* log when it writes a verdict.
THEOREM TypeCorrect == Spec => []TypeOK
<1>1. TypeInv => TypeOK
  BY DEF TypeInv
<1> QED BY <1>1, TypeInvHolds, PTL

\* At most one request of a card tree is between its first check and its last
\* await: KeyedMutex serialises the sections of a tree (mutex.ts, 12-24).
THEOREM MutualExclusion == Spec => []OneSectionPerTree
<1>1. TypeInv => OneSectionPerTree
  BY DEF TypeInv, HoldsMutex, OneSectionPerTree
<1> QED BY <1>1, TypeInvHolds, PTL

-----------------------------------------------------------------------------
(* Limits.                                                                 *)

\* The lanes the theorem is about: the webhook decides outside the mutex, so it
\* may book what a carve has just been told is free.
Serial == ~({"x402", "fiat"} \subseteq Lanes)

\* An authorization is never failed, and a row has the kind of its request.
RowKinds ==
    /\ \A f \in Fiat : rows[f].status # "absent" =>
          rows[f].kind = "fiat" /\ rows[f].status # "failed" /\ "fiat" \in Lanes
    /\ \A p \in Call : rows[p].status # "absent" =>
          /\ call[p].lane = "x402" => rows[p].kind = "x402" /\ rows[p].request = "null"
          /\ call[p].lane # "x402" => rows[p].kind = "pay"

\* A request books under its own id, a settlement works on an authorization.
RowOwners ==
    \A p \in Call :
        /\ call[p].phase \in {"sign", "seller"} => call[p].lane = "x402"
        /\ call[p].lane = "x402" =>
              "x402" \in Lanes /\ call[p].phase \in {"queued", "sign", "seller", "done"}
        /\ call[p].phase = "idle" => call[p].lane = "pay"
        /\ call[p].lane # "settle" => call[p].row = p
        /\ call[p].lane = "settle" =>
              call[p].row \in Fiat /\ rows[call[p].row].status # "absent"

\* What a request knows of its row: nothing is booked before the reservation,
\* and from then to the end of the call the row is pending.
BookedInTime ==
    \A p \in Call :
        /\ \/ call[p].lane = "settle"
           \/ call[p].phase \in {"idle", "queued", "fee", "estimate", "sign"}
           => rows[p].status = "absent"
        /\ call[p].lane = "pay" /\ call[p].phase \in {"head", "sending", "confirming"}
           => rows[p].status = "pending" /\ rows[p].created = call[p].now
        /\ call[p].phase = "seller"
           => /\ rows[p].status = "pending" /\ rows[p].created = call[p].now
              /\ call[p].fee <= rows[p].fee

\* No request outlives the sweep's cutoff.
Punctual == \A p \in Call : Live(p) => clock <= call[p].now + Cutoff

\* The rows a sweep read are still as it read them: their requests are over.
StaleIsStale ==
    /\ \A p \in sweep.stale \cap Call :
          rows[p].status = "pending" /\ call[p].lane = "pay" /\ call[p].phase = "done"
    /\ \A f \in sweep.stale \cap Fiat : rows[f].status # "absent"

\* What a carve was told is still true when its leaf is signed.
StillFits ==
    \A p \in Call : call[p].phase = "sign" =>
        ValidateSpend(rows, call[p].card, call[p].amount, call[p].amount + Headroom,
                      call[p].now)

Books == RowKinds /\ RowOwners /\ BookedInTime /\ Punctual /\ StaleIsStale

BudgetInv == TypeInv /\ Books /\ StillFits /\ Within(rows)

-----------------------------------------------------------------------------

\* A step that books nothing: what is held was held before, for no less.
Quiet ==
    \A i \in Charge :
        Held(rows'[i]) =>
            /\ Held(rows[i])
            /\ rows'[i].card = rows[i].card /\ rows'[i].created = rows[i].created
            /\ rows'[i].kind = rows[i].kind /\ rows'[i].amount = rows[i].amount
            /\ rows[i].kind = "fiat" \/ rows'[i].fee <= rows[i].fee

\* Quiet steps keep the limits.
LEMMA QuietWithin ==
  ASSUME TypeInv, TypeInv', Within(rows), Quiet
  PROVE  Within(rows')
<1>1. rows \in Table /\ rows' \in Table
  BY DEF TypeInv, TypeOK, Table
<1>2. NoHeavier(rows, rows')
  <2>1. \A i \in Charge : rows[i].amount \in Nat /\ rows[i].fee \in Nat
    BY <1>1 DEF Table, ChargeRow
  <2>2. \A i \in Charge : rows'[i].fee \in Nat
    BY <1>1 DEF Table, ChargeRow
  <2> QED BY <2>1, <2>2 DEF Quiet, NoHeavier, Approved
<1> QED BY <1>1, <1>2, NoHeavierWithin

\* A carve that is being signed has the lane, so no row is an authorization's.
LEMMA SignedAlone ==
  ASSUME BudgetInv, Serial, NEW p \in Call, call[p].phase \in {"sign", "seller"}
  PROVE  /\ "x402" \in Lanes /\ "fiat" \notin Lanes
         /\ \A f \in Fiat : rows[f].status = "absent"
<1>1. "x402" \in Lanes
  BY DEF BudgetInv, Books, RowOwners
<1>2. "fiat" \notin Lanes
  BY <1>1 DEF Serial
<1> QED BY <1>1, <1>2 DEF BudgetInv, Books, RowKinds

\* What a carve was told stays true while nothing is booked.
LEMMA QuietFits ==
  ASSUME BudgetInv, TypeInv', Serial, Quiet,
         \A q \in Call : call'[q].phase = "sign" => call'[q] = call[q]
  PROVE  StillFits'
<1> SUFFICES ASSUME NEW q \in Call, call'[q].phase = "sign"
             PROVE  ValidateSpend(rows', call'[q].card, call'[q].amount,
                                  call'[q].amount + Headroom, call'[q].now)
  BY DEF StillFits
<1>1. call'[q] = call[q]
  OBVIOUS
<1> DEFINE cl == call[q]
<1>2. cl \in CallState /\ rows \in Table /\ rows' \in Table /\ Charge = Call \cup Fiat
  BY DEF BudgetInv, TypeInv, TypeOK, Table, Charge
<1>3. cl.card \in Card /\ cl.amount + Headroom \in Nat /\ cl.now \in Nat
  BY <1>2, SpendAssumption DEF CallState, SpendAssumption
<1>4. ValidateSpend(rows, cl.card, cl.amount, cl.amount + Headroom, cl.now)
  BY <1>1 DEF BudgetInv, StillFits
<1>5. \A f \in Fiat : rows[f].status = "absent"
  BY <1>1, SignedAlone
<1>6. NoMoreOn(cl.card, rows, rows')
  <2> SUFFICES ASSUME NEW a \in AncestorChain[cl.card],
                      NEW i \in SubtreeCharges(rows', a)
               PROVE  /\ i \in SubtreeCharges(rows, a)
                      /\ rows'[i].created = rows[i].created
                      /\ Total(rows')[i] <= Total(rows)[i]
    BY DEF NoMoreOn
  <2>1. i \in Charge /\ Held(rows'[i]) /\ rows'[i].card \in SubtreeIds[a]
    BY DEF SubtreeCharges, Held
  <2>2. Held(rows[i]) /\ i \in Call /\ rows[i].kind # "fiat"
    BY <1>2, <1>5, <2>1 DEF Quiet, Held, BudgetInv, Books, RowKinds
  <2>3. /\ rows[i].amount \in Nat /\ rows[i].fee \in Nat
        /\ rows'[i].amount \in Nat /\ rows'[i].fee \in Nat
    BY <1>2, <2>1 DEF Table, ChargeRow
  <2>4. /\ rows'[i].card = rows[i].card /\ rows'[i].created = rows[i].created
        /\ rows'[i].amount = rows[i].amount /\ rows'[i].fee <= rows[i].fee
    BY <2>1, <2>2 DEF Quiet
  <2> QED BY <2>1, <2>2, <2>3, <2>4 DEF SubtreeCharges, Held, Total
<1> QED BY <1>1, <1>2, <1>3, <1>4, <1>6, LighterValidates

\* A request books beside the carve that is being signed: in the tree of another
\* root, since it holds its tree's mutex and the carve holds its own.
LEMMA ApartFits ==
  ASSUME BudgetInv, TypeInv', NEW p \in Call, InSection(p),
         rows'[p].card = call[p].card,
         \A i \in Charge \ {p} : rows'[i] = rows[i],
         \A q \in Call : call'[q].phase = "sign" => q # p /\ call'[q] = call[q]
  PROVE  StillFits'
<1> SUFFICES ASSUME NEW q \in Call, call'[q].phase = "sign"
             PROVE  ValidateSpend(rows', call'[q].card, call'[q].amount,
                                  call'[q].amount + Headroom, call'[q].now)
  BY DEF StillFits
<1>1. call'[q] = call[q] /\ q # p
  OBVIOUS
<1> DEFINE cl == call[q]
<1>2. cl \in CallState /\ call[p] \in CallState /\ rows \in Table /\ rows' \in Table
  BY DEF BudgetInv, TypeInv, TypeOK, Table
<1>3. /\ cl.card \in Card /\ cl.amount + Headroom \in Nat /\ cl.now \in Nat
      /\ call[p].card \in Card
  BY <1>2, SpendAssumption DEF CallState, SpendAssumption
<1>4. ValidateSpend(rows, cl.card, cl.amount, cl.amount + Headroom, cl.now)
  BY <1>1 DEF BudgetInv, StillFits
<1>5. SpendKey[call[p].card] # SpendKey[cl.card]
  <2>1. InSection(q)
    BY <1>1 DEF InSection
  <2> QED BY <1>1, <2>1 DEF BudgetInv, TypeInv, HoldsMutex, MyKey
<1>6. NoMoreOn(cl.card, rows, rows')
  <2> SUFFICES ASSUME NEW a \in AncestorChain[cl.card],
                      NEW i \in SubtreeCharges(rows', a)
               PROVE  /\ i \in SubtreeCharges(rows, a)
                      /\ rows'[i].created = rows[i].created
                      /\ Total(rows')[i] <= Total(rows)[i]
    BY DEF NoMoreOn
  <2>1. i \in Charge /\ rows'[i].card \in SubtreeIds[a]
    BY DEF SubtreeCharges
  <2>2. i # p
    BY <1>3, <1>5, <2>1, SubtreeIsOneTree
  <2>3. rows'[i] = rows[i]
    BY <2>1, <2>2
  <2>4. rows[i].amount \in Nat /\ rows[i].fee \in Nat
    BY <1>2, <2>1 DEF Table, ChargeRow
  <2> QED BY <2>1, <2>3, <2>4 DEF SubtreeCharges, Total
<1> QED BY <1>1, <1>2, <1>3, <1>4, <1>6, LighterValidates

\* The invariant holds of an empty server.
LEMMA InitLimits == Init => BudgetInv
<1> SUFFICES ASSUME Init PROVE BudgetInv
  OBVIOUS
<1>1. TypeInv
  BY InitTypeInv
<1>2. \A i \in Charge : rows[i].status = "absent"
  BY DEF Init, NoRow
<1>3. Within(rows)
  BY <1>2, WithinEmpty DEF Held
<1>4. Books /\ StillFits
  BY <1>2 DEF Init, IdleCall, IdleSweep, Books, RowKinds, RowOwners, BookedInTime,
     Punctual, Live, InSection, StaleIsStale, StillFits, Charge
<1> QED BY <1>1, <1>3, <1>4 DEF BudgetInv

-----------------------------------------------------------------------------

\* The types the steps below rely on.
LEMMA Facts ==
  ASSUME BudgetInv
  PROVE  /\ rows \in [Charge -> ChargeRow] /\ call \in [Call -> CallState]
         /\ clock \in Nat /\ sweep.stale \subseteq Charge
         /\ Call \subseteq Charge /\ Fiat \subseteq Charge /\ Call \cap Fiat = {}
         /\ Charge = Call \cup Fiat
         /\ Cutoff \in Nat /\ Headroom \in Nat
BY ChargesAssumption, SpendAssumption
   DEF BudgetInv, TypeInv, TypeOK, Sweep, Charge, ChargesAssumption, SpendAssumption

\* A step that leaves the table and the requests alone.
LEMMA ElsewhereKeeps ==
  ASSUME BudgetInv, TypeInv', UNCHANGED <<clock, rows, call, sweep>>
  PROVE  BudgetInv'
<1>1. Books' /\ StillFits'
  BY DEF BudgetInv, Books, RowKinds, RowOwners, BookedInTime, Punctual,
     Live, InSection, StaleIsStale, StillFits
<1> QED BY <1>1 DEF BudgetInv

\* What changes when a request is let through a door of the server.
LEMMA EnterEffect ==
  ASSUME BudgetInv, NEW p \in Call, Enter(p)
  PROVE  /\ UNCHANGED <<clock, rows, sweep>>
         /\ call[p].phase = "idle" /\ call'[p].phase = "queued"
         /\ \A q \in Call \ {p} : call'[q] = call[q]
         /\ \/ call'[p].lane = "pay" /\ call'[p].row = call[p].row
            \/ /\ call'[p].lane = "x402" /\ call'[p].row = call[p].row
               /\ "x402" \in Lanes
            \/ /\ call'[p].lane = "settle" /\ call'[p].row \in Fiat
               /\ rows[call'[p].row].status # "absent"
<1>1. call \in [Call -> CallState]
  BY Facts
<1>2. ASSUME NEW c \in Card, NEW k \in Key \cup {NoKey}, NEW a \in Amounts,
             EnterPay(p, c, k, a)
      PROVE  /\ UNCHANGED <<clock, rows, sweep>>
             /\ call[p].phase = "idle" /\ call'[p].phase = "queued"
             /\ \A q \in Call \ {p} : call'[q] = call[q]
             /\ call'[p].lane = "pay" /\ call'[p].row = call[p].row
  BY <1>1, <1>2 DEF EnterPay, CallState
<1>3. ASSUME NEW f \in Fiat, EnterSettle(p, f)
      PROVE  /\ UNCHANGED <<clock, rows, sweep>>
             /\ call[p].phase = "idle" /\ call'[p].phase = "queued"
             /\ \A q \in Call \ {p} : call'[q] = call[q]
             /\ call'[p].lane = "settle" /\ call'[p].row = f
             /\ rows[f].status # "absent"
  BY <1>1, <1>3 DEF EnterSettle, UnsettledFiatCharges, CallState
<1>4. ASSUME NEW c \in Card, NEW a \in Amounts \ {0}, EnterX402(p, c, a)
      PROVE  /\ UNCHANGED <<clock, rows, sweep>>
             /\ call[p].phase = "idle" /\ call'[p].phase = "queued"
             /\ \A q \in Call \ {p} : call'[q] = call[q]
             /\ call'[p].lane = "x402" /\ call'[p].row = call[p].row
             /\ "x402" \in Lanes
  BY <1>1, <1>4 DEF EnterX402, CallState
<1> QED BY <1>2, <1>3, <1>4 DEF Enter

\* Entering books nothing.
LEMMA EnterLimits ==
  ASSUME BudgetInv, TypeInv', NEW p \in Call, Enter(p)
  PROVE  BudgetInv'
<1>1. call[p].phase = "idle" /\ call[p].lane = "pay" /\ call[p].row = p
      /\ rows[p].status = "absent"
  BY EnterEffect DEF BudgetInv, Books, RowOwners, BookedInTime
<1>2. Books'
  BY <1>1, EnterEffect
     DEF BudgetInv, Books, RowKinds, RowOwners, BookedInTime, Punctual,
         Live, InSection, StaleIsStale
<1>3. StillFits'
  BY EnterEffect DEF BudgetInv, StillFits
<1> QED BY <1>2, <1>3, EnterEffect DEF BudgetInv

-----------------------------------------------------------------------------
(* A request's step.                                                       *)

\* A request that moves on, or leaves, touches its own row only: it stays held
\* as it was, or it is failed if it is a spend's.
LEMMA MoveKeeps ==
  ASSUME BudgetInv, TypeInv', Serial, NEW p \in Call,
         UNCHANGED <<clock, sweep>>,
         \A q \in Call \ {p} : call'[q] = call[q],
         call'[p].lane = call[p].lane, call'[p].row = call[p].row,
         call'[p].now = call[p].now, call[p].phase # "idle",
         \/ call'[p].phase = "done"
         \/ /\ call'[p].phase \in {"fee", "estimate"}
            /\ call[p].phase \in {"fee", "estimate"}
         \/ /\ call'[p].phase \in {"head", "sending", "confirming"}
            /\ call[p].phase \in {"head", "sending", "confirming"}
            /\ call[p].lane = "pay" => rows'[p].status = rows[p].status,
         \A i \in Charge \ {call[p].row} : rows'[i] = rows[i],
         \/ rows' = rows
         \/ /\ call[p].phase \in {"head", "sending", "confirming"}
            /\ LET r == call[p].row IN
               /\ rows'[r].card = rows[r].card /\ rows'[r].created = rows[r].created
               /\ rows'[r].kind = rows[r].kind /\ rows'[r].amount = rows[r].amount
               /\ rows'[r].fee = rows[r].fee
               /\ rows'[r].status # "absent"
               /\ Settling(p) => rows'[r].status # "failed"
  PROVE  BudgetInv'
<1>1. Quiet
  <2> DEFINE r == call[p].row
  <2>1. r \in Charge
    BY Facts DEF CallState
  <2>2. call[p].phase \in {"head", "sending", "confirming"} =>
           /\ rows[r].status # "absent"
           /\ rows[r].status # "failed"
    BY Facts DEF BudgetInv, Books, RowKinds, RowOwners, BookedInTime, Settling, CallState
  <2>3. /\ \A i \in Charge \ {r} : rows'[i] = rows[i]
        /\ \A i \in Charge : rows[i].fee \in Nat
    BY Facts DEF ChargeRow
  <2>4. CASE rows' = rows
    BY <2>3, <2>4 DEF Quiet
  <2>5. CASE rows' # rows
    <3>1. /\ Held(rows[r])
          /\ rows'[r].card = rows[r].card /\ rows'[r].created = rows[r].created
          /\ rows'[r].kind = rows[r].kind /\ rows'[r].amount = rows[r].amount
          /\ rows'[r].fee = rows[r].fee
      BY <2>2, <2>5 DEF Held
    <3> QED BY <2>1, <2>3, <3>1 DEF Quiet
  <2> QED BY <2>4, <2>5
<1>a. /\ p \in Charge /\ call[p].lane \in {"pay", "settle", "x402"}
      /\ call[p].lane # "settle" => call[p].row = p
      /\ call[p].lane = "x402" => rows' = rows /\ call'[p].phase = "done"
      /\ call[p].lane = "settle" =>
            call[p].row \in Fiat /\ rows[call[p].row].status # "absent"
  BY Facts DEF BudgetInv, Books, RowOwners, CallState
<1>b. \A q \in Call : q # call[p].row => rows'[q] = rows[q]
  BY Facts
<1>c. \A f \in Fiat : /\ rows'[f].kind = rows[f].kind
                      /\ rows[f].status # "absent" => rows'[f].status # "absent"
                      /\ rows[f].status = "absent" => rows'[f] = rows[f]
                      /\ rows'[f].status = "failed" => rows[f].status = "failed"
  BY Facts, <1>a DEF Settling
<1>2. RowKinds'
  <2>1. \A f \in Fiat : rows'[f].status # "absent" =>
           rows'[f].kind = "fiat" /\ rows'[f].status # "failed" /\ "fiat" \in Lanes
    BY <1>c DEF BudgetInv, Books, RowKinds
  <2>2. \A q \in Call \ {p} : rows'[q] = rows[q] /\ call'[q] = call[q]
    BY Facts, <1>a, <1>b
  <2>3. CASE call[p].lane = "x402"
    BY <1>a, <2>1, <2>3 DEF BudgetInv, Books, RowKinds
  <2>4. CASE call[p].lane # "x402"
    <3>1. call[p].phase \in {"head", "sending", "confirming"} /\ call[p].lane = "pay"
             => rows[p].status = "pending"
      BY DEF BudgetInv, Books, BookedInTime
    <3>2. rows'[p].status # "absent" => rows'[p].kind = "pay"
      BY Facts, <1>a, <1>b, <2>4, <3>1 DEF BudgetInv, Books, RowKinds
    <3> QED BY <2>1, <2>2, <2>4, <3>2 DEF BudgetInv, Books, RowKinds
  <2> QED BY <2>3, <2>4
<1>3. RowOwners'
  <2>1. \A q \in Call \ {p} : call[q].lane = "settle" =>
           call[q].row \in Fiat /\ rows'[call[q].row].status # "absent"
    BY <1>c DEF BudgetInv, Books, RowOwners
  <2>2. call[p].lane = "settle" =>
           call[p].row \in Fiat /\ rows'[call[p].row].status # "absent"
    BY <1>a, <1>c
  <2>3. \A q \in Call \ {p} :
           /\ call[q].phase \in {"sign", "seller"} => call[q].lane = "x402"
           /\ call[q].lane = "x402" =>
                 "x402" \in Lanes /\ call[q].phase \in {"queued", "sign", "seller", "done"}
           /\ call[q].phase = "idle" => call[q].lane = "pay"
           /\ call[q].lane # "settle" => call[q].row = q
    BY DEF BudgetInv, Books, RowOwners
  <2>4. call[p].lane = "x402" => "x402" \in Lanes
    BY DEF BudgetInv, Books, RowOwners
  <2> QED BY <1>a, <2>1, <2>2, <2>3, <2>4 DEF RowOwners
<1>4. BookedInTime'
  <2>1. \A q \in Call \ {p} : rows'[q] = rows[q] /\ call'[q] = call[q]
    BY Facts, <1>a, <1>b
  <2>3. call[p].lane = "settle" => rows'[p] = rows[p] /\ rows[p].status = "absent"
    BY Facts, <1>a, <1>b DEF BudgetInv, Books, BookedInTime
  <2>4. call[p].lane = "pay" /\ call[p].phase \in {"fee", "estimate"}
           => rows'[p] = rows[p] /\ rows[p].status = "absent"
    BY <1>a DEF BudgetInv, Books, BookedInTime
  <2>5. call[p].lane = "pay" /\ call[p].phase \in {"head", "sending", "confirming"}
           => rows[p].status = "pending" /\ rows[p].created = call[p].now
    BY DEF BudgetInv, Books, BookedInTime
  <2>6. /\ \/ call'[p].lane = "settle"
           \/ call'[p].phase \in {"idle", "queued", "fee", "estimate", "sign"}
           => rows'[p].status = "absent"
        /\ call'[p].lane = "pay"
           /\ call'[p].phase \in {"head", "sending", "confirming"}
           => rows'[p].status = "pending" /\ rows'[p].created = call'[p].now
        /\ call'[p].phase # "seller"
    BY <1>a, <2>3, <2>4, <2>5
  <2> QED BY <2>1, <2>6 DEF BudgetInv, Books, BookedInTime
<1>5. Punctual'
  BY DEF BudgetInv, Books, Punctual, Live, InSection
<1>6. StaleIsStale'
  <2>1. CASE call[p].phase = "done"
    <3>1. rows' = rows /\ call'[p].phase = "done" /\ call'[p].lane = call[p].lane
      BY <2>1
    <3> QED BY <2>1, <3>1 DEF BudgetInv, Books, StaleIsStale
  <2>2. CASE call[p].phase # "done"
    <3>1. \A q \in sweep.stale \cap Call : q # p /\ q # call[p].row
      BY Facts, <1>a, <2>2 DEF BudgetInv, Books, StaleIsStale
    <3> QED BY Facts, <1>b, <1>c, <3>1 DEF BudgetInv, Books, StaleIsStale
  <2> QED BY <2>1, <2>2
<1>7. Within(rows')
  BY <1>1, QuietWithin DEF BudgetInv
<1>8. StillFits'
  <2>1. \A q \in Call : call'[q].phase = "sign" => call'[q] = call[q]
    OBVIOUS
  <2> QED BY <1>1, <2>1, QuietFits
<1> QED BY <1>2, <1>3, <1>4, <1>5, <1>6, <1>7, <1>8 DEF BudgetInv, Books

\* Begin clears the dead row of the key, and captures the instant.
LEMMA BeginLimits ==
  ASSUME BudgetInv, TypeInv', Serial, NEW p \in Call, Begin(p)
  PROVE  BudgetInv'
<1>1. UNCHANGED <<clock, sweep>> /\ call[p].phase = "queued" /\ call[p].lane # "x402"
  BY DEF Begin, MyTurn
<1>2. /\ \A q \in Call \ {p} : call'[q] = call[q]
      /\ call'[p].lane = call[p].lane /\ call'[p].row = call[p].row
      /\ \/ call'[p].phase = "done"
         \/ call'[p].phase = "fee" /\ call'[p].now = clock
  BY Facts DEF Begin, Leave, CallState
<1>3. \A i \in Charge :
         \/ rows'[i] = rows[i]
         \/ rows[i].status = "failed" /\ rows'[i].status = "absent"
  <2>1. CASE Settling(p)
    BY <2>1 DEF Begin, Cleared
  <2>2. CASE ~Settling(p)
    BY <2>2 DEF Begin, Cleared, Replayed, Retryable, NoRow
  <2> QED BY <2>1, <2>2
<1>4. Quiet
  <2>1. \A i \in Charge : rows[i].fee \in Nat
    BY Facts DEF ChargeRow
  <2> QED BY <1>3, <2>1 DEF Quiet, Held
<1>5. RowKinds'
  BY Facts, <1>2, <1>3 DEF BudgetInv, Books, RowKinds
<1>6. RowOwners'
  BY Facts, <1>1, <1>2, <1>3 DEF BudgetInv, Books, RowKinds, RowOwners
<1>7. BookedInTime'
  BY Facts, <1>1, <1>2, <1>3 DEF BudgetInv, Books, BookedInTime
<1>8. Punctual'
  BY Facts, <1>1, <1>2 DEF BudgetInv, Books, Punctual, Live, InSection
<1>9. StaleIsStale'
  BY Facts, <1>1, <1>2, <1>3 DEF BudgetInv, Books, RowKinds, StaleIsStale
<1>10. Within(rows')
  BY <1>4, QuietWithin DEF BudgetInv
<1>11. StillFits'
  <2>1. \A q \in Call : call'[q].phase = "sign" => call'[q] = call[q]
    BY <1>2
  <2> QED BY <1>4, <2>1, QuietFits
<1> QED BY <1>5, <1>6, <1>7, <1>8, <1>9, <1>10, <1>11 DEF BudgetInv, Books

\* Reserve validates and books with nothing in between: the one step of a
\* request that adds to the books.
LEMMA ReserveLimits ==
  ASSUME BudgetInv, TypeInv', Serial, NEW p \in Call, Reserve(p)
  PROVE  BudgetInv'
<1>1. UNCHANGED <<clock, sweep>> /\ call[p].phase = "estimate"
  BY DEF Reserve
<1>2. /\ \A q \in Call \ {p} : call'[q] = call[q]
      /\ call'[p].lane = call[p].lane /\ call'[p].row = call[p].row
      /\ call'[p].phase = "head" /\ call'[p].now = call[p].now
  BY Facts DEF Reserve, CallState
<1>3. CASE call[p].lane = "settle"
  <2> DEFINE r == call[p].row
  <2>1. /\ r \in Fiat /\ rows[r].status # "absent" /\ rows[r].kind = "fiat"
        /\ "fiat" \in Lanes
        /\ rows[p].status = "absent"
    BY <1>3 DEF BudgetInv, Books, RowKinds, RowOwners, BookedInTime
  <2>2. rows' = [rows EXCEPT ![r] = [rows[r] EXCEPT !.fee = call[p].fee]]
    BY <1>3 DEF Reserve, Settling
  <2>3. /\ rows'[r].card = rows[r].card /\ rows'[r].created = rows[r].created
        /\ rows'[r].kind = rows[r].kind /\ rows'[r].amount = rows[r].amount
        /\ rows'[r].status = rows[r].status
        /\ \A i \in Charge \ {r} : rows'[i] = rows[i]
    BY Facts, <2>1, <2>2 DEF ChargeRow
  <2>4. Quiet
    <3>1. \A i \in Charge : rows[i].fee \in Nat
      BY Facts DEF ChargeRow
    <3> QED BY <2>1, <2>3, <3>1 DEF Quiet, Held
  <2>5. RowKinds' /\ RowOwners' /\ BookedInTime'
    BY Facts, <1>1, <1>2, <1>3, <2>1, <2>3
       DEF BudgetInv, Books, RowKinds, RowOwners, BookedInTime
  <2>6. Punctual' /\ StaleIsStale'
    BY Facts, <1>1, <1>2, <1>3, <2>1, <2>3
       DEF BudgetInv, Books, Punctual, Live, InSection, StaleIsStale
  <2>7. StillFits'
    <3>1. \A q \in Call : call'[q].phase = "sign" => call'[q] = call[q]
      BY <1>2
    <3> QED BY <2>4, <3>1, QuietFits
  <2> QED BY <2>4, <2>5, <2>6, <2>7, QuietWithin DEF BudgetInv, Books
<1>4. CASE call[p].lane = "pay"
  <2> DEFINE cl == call[p]
             row == NewRow(cl.card, cl.key, "pay", cl.amount, cl.fee, cl.now)
  <2>1. rows' = [rows EXCEPT ![p] = row]
    BY <1>4 DEF Reserve, Settling
  <2>2. /\ row.card = cl.card /\ row.kind = "pay" /\ row.amount = cl.amount
        /\ row.fee = cl.fee /\ row.status = "pending" /\ row.created = cl.now
    BY DEF NewRow
  <2>3. cl \in CallState /\ cl.amount \in Nat /\ cl.fee \in Nat
    BY Facts DEF CallState
  <2>4. row \in ChargeRow
    BY <2>3, NewRowType DEF CallState
  <2>5. rows'[p] = row /\ \A i \in Charge \ {p} : rows'[i] = rows[i]
    BY Facts, <2>1
  <2> HIDE DEF row
  <2>6. rows[p].status = "absent"
    BY <1>1 DEF BudgetInv, Books, BookedInTime
  <2>7. ValidateSpend(rows, row.card, row.amount, row.amount + row.fee, row.created)
    BY <1>4, <2>2 DEF Reserve, FinalCheck, Validated, Settling
  <2>8. Within(rows')
    <3>1. rows \in Table /\ p \in Charge /\ ~Held(rows[p])
      BY Facts, <2>6 DEF Table, Held
    <3>2. row.amount + row.fee \in Nat
      BY <2>2, <2>3
    <3> QED BY <2>1, <2>2, <2>4, <2>7, <3>1, <3>2, BookedWithin DEF BudgetInv
  <2>9. RowKinds' /\ RowOwners' /\ BookedInTime'
    BY Facts, <1>1, <1>2, <1>4, <2>2, <2>5
       DEF BudgetInv, Books, RowKinds, RowOwners, BookedInTime
  <2>10. Punctual' /\ StaleIsStale'
    BY Facts, <1>1, <1>2, <1>4, <2>5, <2>6
       DEF BudgetInv, Books, Punctual, Live, InSection, StaleIsStale
  <2>11. StillFits'
    <3>1. InSection(p) /\ rows'[p].card = call[p].card
      BY <1>1, <2>2, <2>5 DEF InSection
    <3>2. \A q \in Call : call'[q].phase = "sign" => q # p /\ call'[q] = call[q]
      BY <1>2
    <3> QED BY <2>5, <3>1, <3>2, ApartFits
  <2> QED BY <2>8, <2>9, <2>10, <2>11 DEF BudgetInv, Books
<1>5. call[p].lane \in {"pay", "settle"}
  BY <1>1, Facts DEF BudgetInv, Books, RowOwners, CallState
<1> QED BY <1>3, <1>4, <1>5

\* Every step of spend() and of confirmRedemption() keeps the invariant.
LEMMA SpendLimitsKept ==
  ASSUME BudgetInv, TypeInv', Serial, NEW p \in Call, SpendStep(p)
  PROVE  BudgetInv'
<1>1. call \in [Call -> CallState] /\ rows \in [Charge -> ChargeRow]
  BY Facts
<1>2. call[p].row \in Charge
  BY <1>1 DEF CallState
<1>3. ASSUME Leave(p)
      PROVE  /\ \A q \in Call \ {p} : call'[q] = call[q]
             /\ call'[p].lane = call[p].lane /\ call'[p].row = call[p].row
             /\ call'[p].now = call[p].now /\ call'[p].phase = "done"
  BY <1>1, <1>3 DEF Leave, CallState
<1>4. CASE Replay(p) \/ Abort(p) \/ HeadFails(p) \/ ConfirmTimesOut(p)
  BY <1>3, <1>4, MoveKeeps DEF Replay, MyTurn, Abort, HeadFails, ConfirmTimesOut, Polling
<1>5. CASE Begin(p)
  BY <1>5, BeginLimits
<1>6. CASE Reserve(p)
  BY <1>6, ReserveLimits
<1>7. ASSUME NEW fee \in Fees, QuoteFee(p, fee) \/ RaiseFee(p, fee)
      PROVE  BudgetInv'
  <2>1. /\ \A q \in Call \ {p} : call'[q] = call[q]
        /\ call'[p].lane = call[p].lane /\ call'[p].row = call[p].row
        /\ call'[p].now = call[p].now /\ call'[p].phase = "estimate"
    BY <1>1, <1>7 DEF QuoteFee, RaiseFee, CallState
  <2> QED BY <1>7, <2>1, MoveKeeps DEF QuoteFee, RaiseFee
<1>8. ASSUME NEW r \in Charge, r = call[p].row, NEW row, rows' = [rows EXCEPT ![r] = row],
             NEW s \in {"confirmed", "failed", "settlement_unconfirmed"},
             \/ row = [rows[r] EXCEPT !.status = s]
             \/ \E q \in Call : row = [rows[r] EXCEPT !.status = s, !.tx = q],
             Settling(p) => s # "failed"
      PROVE  /\ \A i \in Charge \ {r} : rows'[i] = rows[i]
             /\ rows'[r].card = rows[r].card /\ rows'[r].created = rows[r].created
             /\ rows'[r].kind = rows[r].kind /\ rows'[r].amount = rows[r].amount
             /\ rows'[r].fee = rows[r].fee
             /\ rows'[r].status # "absent"
             /\ Settling(p) => rows'[r].status # "failed"
  <2>1. rows[r] \in ChargeRow
    BY <1>1
  <2>2. /\ row.card = rows[r].card /\ row.created = rows[r].created
        /\ row.kind = rows[r].kind /\ row.amount = rows[r].amount
        /\ row.fee = rows[r].fee /\ row.status = s
    BY <1>8, <2>1 DEF ChargeRow
  <2>3. rows'[r] = row /\ \A i \in Charge \ {r} : rows'[i] = rows[i]
    BY <1>1, <1>8
  <2> QED BY <1>8, <2>2, <2>3
<1>9. CASE RefuseBroadcast(p) \/ SendFails(p)
  <2>1. CASE Settling(p)
    <3>1. rows' = rows
      BY <1>9, <2>1 DEF RefuseBroadcast, SendFails, FailUnlessSettling
    <3> QED BY <1>3, <1>9, <3>1, MoveKeeps DEF RefuseBroadcast, SendFails
  <2>2. CASE ~Settling(p)
    <3>1. rows' = SetStatus(call[p].row, "failed")
      BY <1>9, <2>2 DEF RefuseBroadcast, SendFails, FailUnlessSettling
    <3>2. rows' = [rows EXCEPT ![call[p].row] =
                     [rows[call[p].row] EXCEPT !.status = "failed"]]
      BY <3>1 DEF SetStatus
    <3> QED BY <1>2, <1>3, <1>8, <1>9, <2>2, <3>2, MoveKeeps
            DEF RefuseBroadcast, SendFails
  <2> QED BY <2>1, <2>2
<1>10. ASSUME Claimed(p) \in [Charge -> ChargeRow]
       PROVE  /\ \A i \in Charge \ {call[p].row} : Claimed(p)[i] = rows[i]
              /\ Claimed(p)[call[p].row].card = rows[call[p].row].card
              /\ Claimed(p)[call[p].row].created = rows[call[p].row].created
              /\ Claimed(p)[call[p].row].kind = rows[call[p].row].kind
              /\ Claimed(p)[call[p].row].amount = rows[call[p].row].amount
              /\ Claimed(p)[call[p].row].fee = rows[call[p].row].fee
              /\ Claimed(p)[call[p].row].status = rows[call[p].row].status
  BY <1>1, <1>2 DEF Claimed, ChargeRow
<1>11. ASSUME call[p].phase \in {"head", "sending", "confirming"}
       PROVE  /\ rows[call[p].row].status # "absent"
              /\ Settling(p) => rows[call[p].row].status # "failed"
  BY <1>11, Facts DEF BudgetInv, Books, RowKinds, RowOwners, BookedInTime, Settling, CallState
<1>12. CASE Broadcast(p)
  <2>1. /\ \A q \in Call \ {p} : call'[q] = call[q]
        /\ call'[p].lane = call[p].lane /\ call'[p].row = call[p].row
        /\ call'[p].now = call[p].now /\ call'[p].phase = "sending"
    BY <1>1, <1>12 DEF Broadcast, CallState
  <2>2. Claimed(p) \in [Charge -> ChargeRow]
    BY <1>12 DEF Broadcast, TypeInv, TypeOK
  <2>3. /\ call[p].phase = "head" /\ UNCHANGED <<clock, sweep>>
        /\ rows' = Claimed(p)
    BY <1>12 DEF Broadcast
  <2> DEFINE r == call[p].row
  <2>4. /\ \A i \in Charge \ {r} : rows'[i] = rows[i]
        /\ rows'[r].card = rows[r].card /\ rows'[r].created = rows[r].created
        /\ rows'[r].kind = rows[r].kind /\ rows'[r].amount = rows[r].amount
        /\ rows'[r].fee = rows[r].fee /\ rows'[r].status = rows[r].status
    BY <1>10, <2>2, <2>3
  <2>5. p \in Charge /\ (call[p].lane = "pay" => r = p)
    BY Facts DEF BudgetInv, Books, RowOwners
  <2>6. /\ call'[p].phase \in {"head", "sending", "confirming"}
        /\ call[p].phase \in {"head", "sending", "confirming"}
        /\ call[p].lane = "pay" => rows'[p].status = rows[p].status
        /\ rows'[r].status # "absent"
        /\ Settling(p) => rows'[r].status # "failed"
    BY <1>11, <2>1, <2>3, <2>4, <2>5
  <2> QED BY <2>1, <2>3, <2>4, <2>6, MoveKeeps
<1>13. CASE SendReturns(p)
  <2>1. /\ \A q \in Call \ {p} : call'[q] = call[q]
        /\ call'[p].lane = call[p].lane /\ call'[p].row = call[p].row
        /\ call'[p].now = call[p].now /\ call'[p].phase = "confirming"
    BY <1>1, <1>13 DEF SendReturns, CallState
  <2> DEFINE r == call[p].row
  <2>2. /\ \A i \in Charge \ {r} : rows'[i] = rows[i]
        /\ rows'[r].card = rows[r].card /\ rows'[r].created = rows[r].created
        /\ rows'[r].kind = rows[r].kind /\ rows'[r].amount = rows[r].amount
        /\ rows'[r].fee = rows[r].fee /\ rows'[r].status = rows[r].status
    BY <1>1, <1>2, <1>13 DEF SendReturns, ChargeRow
  <2>3. call[p].phase = "sending" /\ UNCHANGED <<clock, sweep>>
    BY <1>13 DEF SendReturns
  <2>4. p \in Charge /\ (call[p].lane = "pay" => r = p)
    BY Facts DEF BudgetInv, Books, RowOwners
  <2>5. /\ call'[p].phase \in {"head", "sending", "confirming"}
        /\ call[p].phase \in {"head", "sending", "confirming"}
        /\ call[p].lane = "pay" => rows'[p].status = rows[p].status
        /\ rows'[r].status # "absent"
        /\ Settling(p) => rows'[r].status # "failed"
    BY <1>11, <2>1, <2>2, <2>3, <2>4
  <2> QED BY <2>1, <2>2, <2>3, <2>5, MoveKeeps
<1>14. ASSUME NEW q \in Call, ConfirmBy(p, q), call[p].phase = "confirming"
       PROVE  BudgetInv'
  <2> DEFINE r == call[p].row
             row == [rows[r] EXCEPT !.status = "confirmed", !.tx = q]
  <2>1. rows' = [rows EXCEPT ![r] = row]
    BY <1>14 DEF ConfirmBy
  <2>2. "confirmed" \in {"confirmed", "failed", "settlement_unconfirmed"}
    OBVIOUS
  <2>3. r \in Charge /\ row = [rows[r] EXCEPT !.status = "confirmed", !.tx = q]
    BY <1>2
  <2>4. /\ \A i \in Charge \ {r} : rows'[i] = rows[i]
        /\ rows'[r].card = rows[r].card /\ rows'[r].created = rows[r].created
        /\ rows'[r].kind = rows[r].kind /\ rows'[r].amount = rows[r].amount
        /\ rows'[r].fee = rows[r].fee
        /\ rows'[r].status # "absent"
        /\ Settling(p) => rows'[r].status # "failed"
    BY <1>8, <2>1, <2>2, <2>3
  <2>5. Leave(p) /\ UNCHANGED <<clock, sweep>>
    BY <1>14 DEF ConfirmBy
  <2> QED BY <1>3, <1>14, <2>4, <2>5, MoveKeeps
<1>15. CASE ConfirmByStatus(p)
  BY <1>14, <1>15 DEF ConfirmByStatus, Polling
<1>16. CASE ConfirmByLog(p)
  <2>1. PICK j \in MyFeeLegs(p) : ConfirmBy(p, log[j])
    BY <1>16 DEF ConfirmByLog
  <2>2. log \in Seq(Call)
    BY DEF BudgetInv, TypeInv, TypeOK
  <2>3. log[j] \in Call
    BY <2>2 DEF MyFeeLegs, FeeLegs
  <2> QED BY <1>14, <1>16, <2>1, <2>3 DEF ConfirmByLog, Polling
<1>17. CASE ConfirmReverted(p)
  <2> DEFINE r == call[p].row
             s == IF Settling(p) THEN "settlement_unconfirmed" ELSE "failed"
             row == [rows[r] EXCEPT !.status = s]
  <2>1. rows' = [rows EXCEPT ![r] = row]
    BY <1>17 DEF ConfirmReverted, SetStatus
  <2>2. /\ s \in {"confirmed", "failed", "settlement_unconfirmed"}
        /\ Settling(p) => s # "failed"
    OBVIOUS
  <2> HIDE DEF s
  <2> QED BY <1>2, <1>3, <1>8, <1>17, <2>1, <2>2, MoveKeeps DEF ConfirmReverted, Polling
<1>18. CASE ToldReverted(p) \/ ScanFindsNothing(p)
  <2>1. PICK hint \in Hint : Told(p, hint) /\ call[p].phase = "confirming"
    BY <1>18 DEF ToldReverted, ScanFindsNothing, Polling, Hint
  <2>2. /\ \A q \in Call \ {p} : call'[q] = call[q]
        /\ call'[p].lane = call[p].lane /\ call'[p].row = call[p].row
        /\ call'[p].now = call[p].now /\ call'[p].phase = call[p].phase
    BY <1>1, <2>1 DEF Told, CallState
  <2> QED BY <2>1, <2>2, MoveKeeps DEF Told
<1> QED BY <1>4, <1>5, <1>6, <1>7, <1>9, <1>12, <1>13, <1>15, <1>16, <1>17, <1>18
        DEF SpendStep

\* What the checks of buildX402Payload let through fits, until it is booked.
LEMMA BeginCarveLimits ==
  ASSUME BudgetInv, TypeInv', Serial, NEW p \in Call, BeginX402(p)
  PROVE  BudgetInv'
<1>1. /\ UNCHANGED <<clock, sweep, rows>> /\ call[p].phase = "queued"
      /\ call[p].lane = "x402"
  BY DEF BeginX402, MyTurn
<1>2. /\ \A q \in Call \ {p} : call'[q] = call[q]
      /\ call'[p].lane = call[p].lane /\ call'[p].row = call[p].row
      /\ call'[p].card = call[p].card /\ call'[p].amount = call[p].amount
      /\ \/ call'[p].phase = "done"
         \/ call'[p].phase = "sign" /\ call'[p].now = clock /\ X402Validated(p)
  BY Facts DEF BeginX402, Leave, CallState
<1>3. RowKinds' /\ RowOwners' /\ BookedInTime'
  BY Facts, <1>1, <1>2 DEF BudgetInv, Books, RowKinds, RowOwners, BookedInTime
<1>4. Punctual' /\ StaleIsStale'
  BY Facts, <1>1, <1>2 DEF BudgetInv, Books, Punctual, Live, InSection, StaleIsStale
<1>5. StillFits'
  BY <1>1, <1>2 DEF BudgetInv, StillFits, X402Validated
<1>6. Within(rows')
  BY <1>1 DEF BudgetInv
<1> QED BY <1>3, <1>4, <1>5, <1>6 DEF BudgetInv, Books

\* A carve books what it was told before its await: it still fits.
LEMMA CarveLimits ==
  ASSUME BudgetInv, TypeInv', Serial, NEW p \in Call, NEW fee \in Fees,
         CarveX402(p, fee)
  PROVE  BudgetInv'
<1> DEFINE cl == call[p]
           row == NewRow(cl.card, NoKey, "x402", cl.amount, Headroom, cl.now)
<1>1. /\ UNCHANGED <<clock, sweep>> /\ cl.phase = "sign"
      /\ rows' = [rows EXCEPT ![p] = row]
  BY DEF CarveX402
<1>2. /\ \A q \in Call \ {p} : call'[q] = call[q]
      /\ call'[p].lane = cl.lane /\ call'[p].row = cl.row
      /\ call'[p].phase = "seller" /\ call'[p].now = cl.now /\ call'[p].fee = fee
  BY Facts DEF CarveX402, CallState
<1>3. fee <= Headroom
  BY SpendAssumption DEF SpendAssumption
<1>4. /\ row.card = cl.card /\ row.kind = "x402" /\ row.amount = cl.amount
      /\ row.fee = Headroom /\ row.status = "pending" /\ row.created = cl.now
      /\ row.request = "null"
  BY DEF NewRow
<1>5. /\ cl \in CallState /\ cl.amount \in Nat /\ Headroom \in Nat
      /\ cl.amount + Headroom \in Nat
  BY Facts DEF CallState
<1>6. row \in ChargeRow
  BY <1>5, NewRowType DEF CallState
<1>7. rows'[p] = row /\ \A i \in Charge \ {p} : rows'[i] = rows[i]
  BY Facts, <1>1
<1> HIDE DEF row
<1>8. rows[p].status = "absent" /\ cl.lane = "x402"
  BY <1>1 DEF BudgetInv, Books, RowOwners, BookedInTime
<1>9. ValidateSpend(rows, row.card, row.amount, row.amount + row.fee, row.created)
  BY <1>1, <1>4 DEF BudgetInv, StillFits
<1>10. Within(rows')
  <2>1. rows \in Table /\ p \in Charge /\ ~Held(rows[p])
    BY Facts, <1>8 DEF Table, Held
  <2> QED BY <1>1, <1>4, <1>5, <1>6, <1>9, <2>1, BookedWithin DEF BudgetInv
<1>11. RowKinds' /\ RowOwners' /\ BookedInTime'
  BY Facts, <1>1, <1>2, <1>3, <1>4, <1>7, <1>8
     DEF BudgetInv, Books, RowKinds, RowOwners, BookedInTime
<1>12. Punctual' /\ StaleIsStale'
  BY Facts, <1>1, <1>2, <1>7, <1>8
     DEF BudgetInv, Books, Punctual, Live, InSection, StaleIsStale
<1>13. StillFits'
  <2>1. InSection(p) /\ rows'[p].card = cl.card
    BY <1>1, <1>4, <1>7 DEF InSection
  <2>2. \A q \in Call : call'[q].phase = "sign" => q # p /\ call'[q] = call[q]
    BY <1>2
  <2> QED BY <1>7, <2>1, <2>2, ApartFits
<1> QED BY <1>10, <1>11, <1>12, <1>13 DEF BudgetInv, Books

\* A seller's answer lowers what is held, or gives it back.
LEMMA SellerLimits ==
  ASSUME BudgetInv, TypeInv', Serial, NEW p \in Call,
         \/ SellerRefuses(p)
         \/ \E tx \in {NoTx, p}, fee \in Fees \cup {0} : SellerServes(p, tx, fee)
  PROVE  BudgetInv'
<1>1. UNCHANGED <<clock, sweep>> /\ call[p].phase = "seller"
  BY DEF SellerRefuses, SellerServes
<1>2. /\ \A q \in Call \ {p} : call'[q] = call[q]
      /\ call'[p].lane = call[p].lane /\ call'[p].row = call[p].row
      /\ call'[p].phase = "done" /\ call'[p].now = call[p].now
  BY Facts DEF SellerRefuses, SellerServes, CallState
<1>3. /\ call[p].lane = "x402" /\ rows[p].status = "pending"
      /\ rows[p].kind = "x402" /\ rows[p].request = "null"
      /\ call[p].fee <= rows[p].fee
      /\ p \in Charge /\ rows[p] \in ChargeRow
      /\ rows[p].fee \in Nat /\ call[p].fee \in Nat
  BY Facts, <1>1 DEF BudgetInv, Books, RowKinds, RowOwners, BookedInTime, ChargeRow, CallState
<1>4. /\ rows'[p].card = rows[p].card /\ rows'[p].created = rows[p].created
      /\ rows'[p].kind = rows[p].kind /\ rows'[p].amount = rows[p].amount
      /\ rows'[p].request = rows[p].request /\ rows'[p].fee <= rows[p].fee
      /\ \A i \in Charge \ {p} : rows'[i] = rows[i]
  <2>1. CASE SellerRefuses(p)
    BY Facts, <1>3, <2>1 DEF SellerRefuses, SetStatus, ChargeRow
  <2>2. ASSUME NEW tx \in {NoTx, p}, NEW fee \in Fees \cup {0}, SellerServes(p, tx, fee)
        PROVE  /\ rows'[p].card = rows[p].card /\ rows'[p].created = rows[p].created
               /\ rows'[p].kind = rows[p].kind /\ rows'[p].amount = rows[p].amount
               /\ rows'[p].request = rows[p].request /\ rows'[p].fee <= rows[p].fee
               /\ \A i \in Charge \ {p} : rows'[i] = rows[i]
    <3> DEFINE s == IF tx = NoTx THEN "settlement_unconfirmed" ELSE "confirmed"
               row == [rows[p] EXCEPT !.status = s, !.tx = tx, !.fee = fee]
    <3>1. rows' = [rows EXCEPT ![p] = row] /\ fee \in {0, call[p].fee}
      BY <2>2 DEF SellerServes
    <3>2. /\ row.card = rows[p].card /\ row.created = rows[p].created
          /\ row.kind = rows[p].kind /\ row.amount = rows[p].amount
          /\ row.request = rows[p].request /\ row.fee = fee
      BY <1>3 DEF ChargeRow
    <3>3. fee <= rows[p].fee
      BY <1>3, <3>1
    <3> HIDE DEF row
    <3>4. rows'[p] = row /\ \A i \in Charge \ {p} : rows'[i] = rows[i]
      BY Facts, <1>3, <3>1
    <3> QED BY <3>2, <3>3, <3>4
  <2> QED BY <2>1, <2>2
<1>5. Quiet
  <2>1. \A i \in Charge : rows[i].fee \in Nat
    BY Facts DEF ChargeRow
  <2> QED BY <1>3, <1>4, <2>1 DEF Quiet, Held
<1>6. RowKinds' /\ RowOwners' /\ BookedInTime'
  BY Facts, <1>1, <1>2, <1>3, <1>4
     DEF BudgetInv, Books, RowKinds, RowOwners, BookedInTime
<1>7. Punctual' /\ StaleIsStale'
  BY Facts, <1>1, <1>2, <1>4
     DEF BudgetInv, Books, Punctual, Live, InSection, StaleIsStale
<1>8. StillFits'
  <2>1. \A q \in Call : call'[q].phase = "sign" => call'[q] = call[q]
    BY <1>2
  <2> QED BY <1>5, <2>1, QuietFits
<1> QED BY <1>5, <1>6, <1>7, <1>8, QuietWithin DEF BudgetInv, Books

\* Every step of paid_fetch keeps the invariant.
LEMMA CarveLimitsKept ==
  ASSUME BudgetInv, TypeInv', Serial, NEW p \in Call, X402Step(p)
  PROVE  BudgetInv'
BY BeginCarveLimits, CarveLimits, SellerLimits DEF X402Step

-----------------------------------------------------------------------------
(* The webhook, the sweep, time and the process.                           *)

\* The webhook decides and books in one step.
LEMMA FiatLimits ==
  ASSUME BudgetInv, TypeInv', Serial, NEW f \in Fiat, NEW c \in Card, NEW a \in Amounts \ {0},
         FiatAuthorize(f, c, a)
  PROVE  BudgetInv'
<1> DEFINE row == NewRow(c, NoKey, "fiat", a, 0, clock)
<1>1. /\ UNCHANGED <<clock, call, sweep>> /\ rows[f].status = "absent"
      /\ rows' = [rows EXCEPT ![f] = row]
      /\ ValidateSpend(rows, c, a, a, clock) /\ "fiat" \in Lanes
  BY DEF FiatAuthorize
<1>2. /\ row.card = c /\ row.kind = "fiat" /\ row.amount = a
      /\ row.status = "pending" /\ row.created = clock
  BY DEF NewRow
<1>3. a \in Nat /\ clock \in Nat
  BY Facts, SpendAssumption DEF SpendAssumption
<1>4. row \in ChargeRow
  BY <1>3, NewRowType
<1>5. rows'[f] = row /\ \A i \in Charge \ {f} : rows'[i] = rows[i]
  BY Facts, <1>1
<1> HIDE DEF row
<1>6. Within(rows')
  <2>1. rows \in Table /\ f \in Charge /\ ~Held(rows[f])
    BY Facts, <1>1 DEF Table, Held
  <2> QED BY <1>1, <1>2, <1>3, <1>4, <2>1, BookedWithin DEF BudgetInv
<1>7. RowKinds' /\ RowOwners' /\ BookedInTime'
  BY Facts, <1>1, <1>2, <1>5 DEF BudgetInv, Books, RowKinds, RowOwners, BookedInTime
<1>8. Punctual' /\ StaleIsStale'
  BY Facts, <1>1, <1>2, <1>5
     DEF BudgetInv, Books, Punctual, Live, InSection, StaleIsStale
<1>9. StillFits'
  BY <1>1, SignedAlone DEF StillFits
<1> QED BY <1>6, <1>7, <1>8, <1>9 DEF BudgetInv, Books

\* A row old enough for the sweep belongs to a request that is over.
LEMMA StaleRowsAreOver ==
  ASSUME BudgetInv, NEW p \in PendingChargesOlderThan(rows, clock - Cutoff) \cap Call
  PROVE  rows[p].status = "pending" /\ call[p].lane = "pay" /\ call[p].phase = "done"
<1>1. /\ rows[p].status = "pending" /\ rows[p].created < clock - Cutoff
      /\ rows[p].request # "null"
      /\ rows[p].created \in Nat /\ call[p] \in CallState /\ call[p].now \in Nat
  BY Facts DEF PendingChargesOlderThan, ChargeRow, CallState
<1>2. call[p].lane = "pay" /\ call[p].phase \notin {"idle", "queued", "fee", "estimate"}
  BY <1>1 DEF BudgetInv, Books, RowKinds, RowOwners, BookedInTime, CallState
<1>3. call[p].phase \notin {"head", "sending", "confirming"}
  <2> SUFFICES ASSUME call[p].phase \in {"head", "sending", "confirming"} PROVE FALSE
    OBVIOUS
  <2>1. rows[p].created = call[p].now
    BY <1>2 DEF BudgetInv, Books, BookedInTime
  <2>2. clock <= call[p].now + Cutoff
    BY DEF BudgetInv, Books, Punctual, Live, InSection
  <2> QED BY Facts, <1>1, <2>1, <2>2
<1>4. call[p].phase \notin {"sign", "seller"}
  BY <1>2 DEF BudgetInv, Books, RowOwners
<1> QED BY <1>1, <1>2, <1>3, <1>4 DEF CallState, Phase

\* So does an orphaned reservation.
LEMMA OrphansAreOver ==
  ASSUME BudgetInv, NEW p \in PendingX402ChargesOlderThan(rows, clock - 6 * Cutoff)
  PROVE  /\ p \in Call /\ Held(rows[p]) /\ rows[p].kind = "x402"
         /\ call[p].lane = "x402" /\ call[p].phase = "done"
<1>1. /\ p \in Charge /\ rows[p].status = "pending" /\ rows[p].kind = "x402"
      /\ rows[p].created < clock - 6 * Cutoff /\ rows[p].created \in Nat
  BY Facts DEF PendingX402ChargesOlderThan, ChargeRow
<1>2. p \in Call /\ call[p].lane = "x402"
  BY Facts, <1>1 DEF BudgetInv, Books, RowKinds
<1>3. call[p].now \in Nat
  BY Facts, <1>2 DEF CallState
<1>4. call[p].phase # "seller"
  <2> SUFFICES ASSUME call[p].phase = "seller" PROVE FALSE
    OBVIOUS
  <2>1. rows[p].created = call[p].now /\ clock <= call[p].now + Cutoff
    BY <1>2 DEF BudgetInv, Books, BookedInTime, Punctual, Live
  <2> QED BY Facts, <1>1, <1>3, <2>1
<1>5. call[p].phase \notin {"queued", "sign"}
  BY <1>1, <1>2 DEF BudgetInv, Books, BookedInTime
<1> QED BY <1>1, <1>2, <1>4, <1>5 DEF BudgetInv, Books, RowOwners, Held

\* The sweep releases or relabels rows whose requests are over.
LEMMA SweepLimits ==
  ASSUME BudgetInv, TypeInv', Serial, SweepStep
  PROVE  BudgetInv'
<1>1. UNCHANGED <<clock, call>>
  BY DEF SweepStep, SweepStart, SweepScan, SweepFails, SweepApply
<1>2. CASE SweepStart
  <2> DEFINE orphans == PendingX402ChargesOlderThan(rows, clock - 6 * Cutoff)
  <2>1. \A i \in Charge \ orphans : rows'[i] = rows[i]
    BY <1>2 DEF SweepStart
  <2>2. \A i \in orphans :
           /\ i \in Call /\ Held(rows[i]) /\ rows[i].kind = "x402"
           /\ call[i].lane = "x402" /\ call[i].phase = "done"
    BY OrphansAreOver
  <2>3. \A i \in orphans :
           /\ rows'[i].status = "failed"
           /\ rows'[i].kind = rows[i].kind /\ rows'[i].request = rows[i].request
    <3> SUFFICES ASSUME NEW i \in orphans
                 PROVE  /\ rows'[i].status = "failed" /\ rows'[i].kind = rows[i].kind
                        /\ rows'[i].request = rows[i].request
      OBVIOUS
    <3>1. i \in Charge
      BY DEF PendingX402ChargesOlderThan
    <3>2. rows'[i] = [rows[i] EXCEPT !.status = "failed"] /\ rows[i] \in ChargeRow
      BY Facts, <1>2, <3>1 DEF SweepStart
    <3> QED BY <3>2 DEF ChargeRow
  <2>4. \/ sweep'.stale = {}
        \/ sweep'.stale = PendingChargesOlderThan(rows, clock - Cutoff)
    BY <1>2 DEF SweepStart, IdleSweep
  <2> HIDE DEF orphans
  <2>5. StaleIsStale'
    <3>1. \A p \in sweep'.stale \cap Call :
             rows[p].status = "pending" /\ call[p].lane = "pay" /\ call[p].phase = "done"
      BY <2>4, StaleRowsAreOver
    <3>2. \A f \in sweep'.stale : rows[f].status = "pending"
      BY <2>4 DEF PendingChargesOlderThan
    <3> QED BY Facts, <1>1, <2>1, <2>2, <3>1, <3>2 DEF StaleIsStale
  <2>6. \A f \in Fiat : rows'[f] = rows[f]
    BY Facts, <2>1, <2>2
  <2>7. \A p \in Call : p \in orphans \/ rows'[p] = rows[p]
    BY Facts, <2>1
  <2>8. RowKinds'
    BY <1>1, <2>2, <2>3, <2>6, <2>7 DEF BudgetInv, Books, RowKinds, Held
  <2>9. Punctual'
    BY <1>1 DEF BudgetInv, Books, Punctual, Live, InSection
  <2>10. RowOwners' /\ BookedInTime'
    BY <1>1, <2>2, <2>6, <2>7 DEF BudgetInv, Books, RowOwners, BookedInTime
  <2>11. Quiet
    <3>1. \A i \in Charge : rows[i].fee \in Nat
      BY Facts DEF ChargeRow
    <3> QED BY <2>1, <2>3, <3>1 DEF Quiet, Held
  <2>12. StillFits'
    BY <1>1, <2>11, QuietFits
  <2> QED BY <2>5, <2>8, <2>10, <2>9, <2>11, <2>12, QuietWithin DEF BudgetInv, Books
<1>3. CASE SweepScan \/ SweepFails
  <2>1. rows' = rows /\ sweep'.stale \subseteq sweep.stale
    <3>1. sweep \in Sweep
      BY DEF BudgetInv, TypeInv, TypeOK
    <3>2. CASE SweepScan
      BY <3>1, <3>2 DEF SweepScan, Sweep
    <3>3. CASE SweepFails
      BY <3>3 DEF SweepFails, IdleSweep
    <3> QED BY <1>3, <3>2, <3>3
  <2>2. Books' /\ StillFits'
    BY <1>1, <2>1
       DEF StillFits, BudgetInv, Books, RowKinds, RowOwners, BookedInTime, Punctual,
           Live, InSection, StaleIsStale
  <2> QED BY <2>1, <2>2 DEF BudgetInv
<1>4. CASE SweepApply
  <2>1. PICK hit \in [sweep.stale -> 0 .. sweep.upto] :
           rows' = [i \in Charge |->
                      IF i \in sweep.stale THEN Swept(i, hit[i]) ELSE rows[i]]
    BY <1>4 DEF SweepApply
  <2>2. sweep'.stale = {}
    BY <1>4 DEF SweepApply, IdleSweep
  <2>3. \A i \in Charge \ sweep.stale : rows'[i] = rows[i]
    BY <2>1
  <2>4. ASSUME NEW i \in Charge, NEW leg
        PROVE  /\ Swept(i, leg).card = rows[i].card
               /\ Swept(i, leg).created = rows[i].created
               /\ Swept(i, leg).kind = rows[i].kind
               /\ Swept(i, leg).amount = rows[i].amount
               /\ Swept(i, leg).fee = rows[i].fee
               /\ Swept(i, leg).status # "absent"
               /\ rows[i].kind = "fiat" => Swept(i, leg).status # "failed"
    <3>1. rows[i] \in ChargeRow
      BY Facts
    <3> QED BY <3>1 DEF Swept, ChargeRow
  <2>5. ASSUME NEW i \in sweep.stale
        PROVE  /\ rows'[i].card = rows[i].card /\ rows'[i].created = rows[i].created
               /\ rows'[i].kind = rows[i].kind /\ rows'[i].amount = rows[i].amount
               /\ rows'[i].fee = rows[i].fee /\ rows'[i].status # "absent"
               /\ rows[i].kind = "fiat" => rows'[i].status # "failed"
    <3>1. i \in Charge /\ rows'[i] = Swept(i, hit[i])
      BY Facts, <2>1
    <3> QED BY <2>4, <3>1
  <2>6. \A i \in sweep.stale :
           Held(rows[i]) /\ (i \in Call => call[i].lane = "pay" /\ call[i].phase = "done")
    BY Facts DEF BudgetInv, Books, StaleIsStale, RowKinds, Held
  <2>7. Quiet
    <3>1. \A i \in Charge : rows[i].fee \in Nat
      BY Facts DEF ChargeRow
    <3> QED BY <2>3, <2>5, <2>6, <3>1 DEF Quiet, Held
  <2>8. RowKinds'
    <3>1. \A f \in Fiat : rows'[f] = rows[f] \/ f \in sweep.stale
      BY Facts, <2>3
    <3>2. \A p \in Call : rows'[p] = rows[p] \/ p \in sweep.stale
      BY Facts, <2>3
    <3> QED BY <1>1, <2>5, <2>6, <3>1, <3>2 DEF BudgetInv, Books, RowKinds, Held
  <2>9. RowOwners'
    BY Facts, <1>1, <2>3, <2>5 DEF BudgetInv, Books, RowOwners
  <2>10. BookedInTime'
    BY Facts, <1>1, <2>3, <2>6 DEF BudgetInv, Books, BookedInTime
  <2>11. Punctual' /\ StaleIsStale'
    BY <1>1, <2>2 DEF BudgetInv, Books, Punctual, Live, InSection, StaleIsStale
  <2>12. StillFits'
    BY <1>1, <2>7, QuietFits
  <2> QED BY <2>7, <2>8, <2>9, <2>10, <2>11, <2>12, QuietWithin DEF BudgetInv, Books
<1> QED BY <1>2, <1>3, <1>4 DEF SweepStep

\* Time waits for requests that are neither slow nor over.
LEMMA TickLimits ==
  ASSUME BudgetInv, TypeInv', Tick, "slow" \notin Faults
  PROVE  BudgetInv'
<1>1. UNCHANGED <<rows, call, sweep>> /\ clock' = clock + 1
  BY DEF Tick
<1>2. Punctual'
  <2>1. ASSUME NEW p \in Call, Live(p)
        PROVE  clock + 1 <= call[p].now + Cutoff
    <3>1. ~(clock >= call[p].now + Cutoff)
      BY <2>1 DEF Tick, Overdue
    <3>2. call[p].now \in Nat
      BY Facts DEF CallState
    <3> QED BY Facts, <3>1, <3>2
  <2> QED BY <1>1, <2>1 DEF Punctual, Live, InSection
<1>3. RowKinds' /\ RowOwners' /\ BookedInTime' /\ StaleIsStale' /\ StillFits'
  BY <1>1 DEF BudgetInv, Books, RowKinds, RowOwners, BookedInTime, StaleIsStale,
     StillFits
<1> QED BY <1>1, <1>2, <1>3 DEF BudgetInv, Books

\* A crash ends every request and forgets the sweep.
LEMMA CrashLimits ==
  ASSUME BudgetInv, TypeInv', Crash
  PROVE  BudgetInv'
<1>1. UNCHANGED <<clock, rows>> /\ sweep'.stale = {}
  BY DEF Crash, IdleSweep
<1>2. \A p \in Call :
         /\ call'[p].lane = call[p].lane /\ call'[p].row = call[p].row
         /\ call'[p].phase \in {call[p].phase, "done"}
         /\ call'[p].phase \in {"idle", "done"}
  BY Facts DEF Crash, CallState
<1>3. Books' /\ StillFits'
  BY <1>1, <1>2
     DEF StillFits, BudgetInv, Books, RowKinds, RowOwners, BookedInTime, Punctual,
         Live, InSection, StaleIsStale
<1> QED BY <1>1, <1>3 DEF BudgetInv

-----------------------------------------------------------------------------

\* Every step keeps the invariant.
LEMMA LimitsKept ==
  ASSUME BudgetInv, [Next]_vars, Serial, "slow" \notin Faults
  PROVE  BudgetInv'
<1>1. TypeInv'
  BY NextTypeInv DEF BudgetInv
<1>2. CASE UNCHANGED vars
  BY <1>1, <1>2, ElsewhereKeeps DEF vars
<1>3. ASSUME NEW p \in Call, ChainStep(p)
      PROVE  BudgetInv'
  BY <1>1, <1>3, ElsewhereKeeps DEF ChainStep, RelayerAccepts, Land, Drop
<1>4. CASE OwnerStep
  BY <1>1, <1>4, ElsewhereKeeps
     DEF OwnerStep, FreezeCard, UnfreezeCard, RevokeCard, NukeAll
<1>5. CASE Next
  BY <1>1, <1>3, <1>4, <1>5, EnterLimits, SpendLimitsKept, CarveLimitsKept,
     FiatLimits, SweepLimits, TickLimits, CrashLimits DEF Next
<1> QED BY <1>2, <1>5

\* With punctual requests, no interleaving of spends with settlements and
\* card-network approvals, or of spends with x402 carves, approves more than any
\* card's use count, lifetime budget or period budget, whatever sweeps, crashes and
\* the owner do.  spend() re-validates in the step that books (spend.ts, 524-552)
\* and the webhook decides and books in one step, so they need no mutex.
\* buildX402Payload books what it validated an await earlier (x402.ts, 81-105): only
\* the mutex makes that true, and it does not hold the webhook off.
THEOREM LimitsHold ==
  ASSUME ~({"x402", "fiat"} \subseteq Lanes), "slow" \notin Faults
  PROVE  Spec => []WithinLimits
<1>0. Serial
  BY DEF Serial
<1>1. BudgetInv => WithinLimits
  <2>1. \A t \in 0 .. clock : t \in Nat
    OBVIOUS
  <2> QED BY <2>1 DEF BudgetInv, Within, WithinLimits
<1> QED BY <1>0, <1>1, InitLimits, LimitsKept, PTL DEF Spec

\* The card tool and the dashboard promise exactly what the refusal engine takes,
\* in every reachable table: their meters are computed apart (spend.ts, 776-814)
\* from the checks (spend.ts, 248-288).
THEOREM MetersHold == Spec => []MetersAgree
<1>1. TypeInv => MetersAgree
  <2> SUFFICES ASSUME TypeInv, NEW c \in Card, NEW a \in Amounts \ {0}, NEW fee \in Fees \cup {0}
               PROVE  ChainSpendable(status, c, clock) /\ ValidateSpend(rows, c, 0, a + fee, clock)
                         <=> MetersAllow(rows, status, c, a + fee, clock)
    BY DEF MetersAgree
  <2>1. rows \in Table /\ clock \in Nat
    BY DEF TypeInv, TypeOK, Table
  <2>2. a + fee \in Nat /\ a + fee > 0
    BY SpendAssumption DEF SpendAssumption
  <2> QED BY <2>1, <2>2, MetersAreTheChecks
<1> QED BY <1>1, TypeInvHolds, PTL
=============================================================================
