--------------------------- MODULE CarvingProofs ---------------------------
(***************************************************************************)
(* However deep a tree grows and whatever its agents ask for, no card's    *)
(* terms reach beyond an ancestor's (NeverWider), whoever may approve is   *)
(* capped (ApproveIsCapped), and what the server's walk admits, every      *)
(* delegation of the chain admits (ChainAgrees).                           *)
(*                                                                         *)
(* The first two follow from the tree of terms (TreeInv).  ChainAgrees     *)
(* says something of two ledgers, and is not inductive: it needs that the  *)
(* enforcers never counted more than the server, atom by atom, and that    *)
(* their executions are within what the counted uses may hold (LedgerInv). *)
(***************************************************************************)
EXTENDS Carving, FiniteSetTheorems, TLAPS

\* A contract scope as it is stored: its selectors are canonical.
Settled(ct) ==
    /\ ct \in AnyContract
    /\ \A s \in ct.selectors : Canonical[s] = s

\* What is known of stored terms, the money terms aside.
Stored(t) ==
    /\ t.expiry \in Optional(Nat) /\ t.perTxMax \in Optional(Nat)
    /\ t.contract # None => Settled(t.contract)

\* Of approve and its cap, the clause of ApproveIsCapped.
Capped(t, u) ==
    /\ t.contract # None /\ u.contract # None
    /\ Approve \in t.contract.selectors
    => Implies(t.contract.perTradeMax, u.contract.perTradeMax)

\* The inductive invariant: a card's ancestors are issued cards, and its terms
\* are within theirs.
TreeInv ==
    /\ DOMAIN terms = Card /\ DOMAIN chain = Card
    /\ \A c \in Issued :
          /\ Stored(terms[c])
          /\ chain[c] \subseteq Issued
          /\ \A a \in chain[c] : Narrower(terms[c], terms[a]) /\ Capped(terms[c], terms[a])

-----------------------------------------------------------------------------
(* The operators                                                           *)

\* A canonical signature is its own canonical form.
LEMMA CanonicalTwice ==
    /\ \A s \in Sig : Canonical[s] \in Sig /\ Canonical[Canonical[s]] = Canonical[s]
    /\ Approve \in Sig /\ Canonical[Approve] = Approve
BY CarvingAssumption DEF CarvingAssumption

\* Normalization settles a scope and leaves its cap and tokens alone.
LEMMA NormalizedIsSettled ==
    ASSUME NEW ct \in AnyContract
    PROVE  /\ Settled(Normalized(ct))
           /\ Normalized(ct).perTradeMax = ct.perTradeMax
<1> DEFINE listed == IF ct.tokens = None THEN {} ELSE ct.tokens
           methods == {Canonical[s] : s \in ct.selectors}
                         \cup (IF ct.tokens = None THEN {} ELSE {Approve})
<1>1. listed \subseteq Address
  BY DEF AnyContract, Optional
<1>2. methods \subseteq Sig /\ \A s \in methods : Canonical[s] = s
  BY CanonicalTwice DEF AnyContract
<1>3. Normalized(ct) = [ct EXCEPT !.targets = ct.targets \cup listed, !.selectors = methods]
  BY DEF Normalized
<1> HIDE DEF listed, methods
<1>4. Normalized(ct) \in AnyContract
  BY <1>1, <1>2, <1>3 DEF AnyContract
<1>5. Normalized(ct).selectors = methods /\ Normalized(ct).perTradeMax = ct.perTradeMax
  BY <1>3 DEF AnyContract
<1> QED
  BY <1>2, <1>4, <1>5 DEF Settled

\* The bounds of a child, a parent and a grandparent chain up.
LEMMA ImpliesChains ==
    ASSUME NEW x \in Optional(Nat), NEW y \in Optional(Nat), NEW z \in Optional(Nat),
           Implies(x, y), Implies(y, z)
    PROVE  Implies(x, z)
BY DEF Implies, Optional

\* Narrower terms of narrower terms are narrower.
LEMMA NarrowerChains ==
    ASSUME NEW t, NEW u, NEW v, Stored(t), Stored(u), Stored(v),
           Narrower(t, u), Narrower(u, v)
    PROVE  Narrower(t, v)
<1>1. Implies(t.expiry, v.expiry)
  BY ImpliesChains DEF Narrower, Stored
<1>2. Implies(t.perTxMax, v.perTxMax)
  BY ImpliesChains DEF Narrower, Stored
<1>3. HasPay(t) => HasPay(v)
  BY DEF Narrower
<1>4. t.contract # None =>
          /\ v.contract # None
          /\ t.contract.targets \subseteq v.contract.targets
          /\ t.contract.selectors \subseteq v.contract.selectors
  BY DEF Narrower
<1>5. v.merchants # None => t.merchants # None /\ t.merchants \subseteq v.merchants
  BY DEF Narrower
<1> QED
  BY <1>1, <1>2, <1>3, <1>4, <1>5 DEF Narrower

\* So do the caps, because approve cannot come back below a card without it.
LEMMA CappedChains ==
    ASSUME NEW t, NEW u, NEW v, Stored(t), Stored(u), Stored(v),
           Narrower(t, u), Narrower(u, v), Capped(t, u), Capped(u, v)
    PROVE  Capped(t, v)
<1> SUFFICES ASSUME t.contract # None, v.contract # None,
                    Approve \in t.contract.selectors
             PROVE  Implies(t.contract.perTradeMax, v.contract.perTradeMax)
  BY DEF Capped
<1>1. u.contract # None /\ Approve \in u.contract.selectors
  BY DEF Narrower
<1>2. Implies(t.contract.perTradeMax, u.contract.perTradeMax)
  BY <1>1 DEF Capped
<1>3. Implies(u.contract.perTradeMax, v.contract.perTradeMax)
  BY <1>1 DEF Capped
<1>4. /\ t.contract.perTradeMax \in Optional(Nat)
      /\ u.contract.perTradeMax \in Optional(Nat)
      /\ v.contract.perTradeMax \in Optional(Nat)
  BY <1>1 DEF Stored, Settled, AnyContract
<1> QED
  BY <1>2, <1>3, <1>4, ImpliesChains

-----------------------------------------------------------------------------
(* Issuance                                                                *)

\* A root card's terms, as they are stored.
LEMMA RootIsStored ==
    ASSUME NEW t \in AnyTerms
    PROVE  Stored(NormalizedTerms(t))
<1>1. CASE t.contract = None
  BY <1>1 DEF NormalizedTerms, Stored, AnyTerms
<1>2. CASE t.contract # None
  <2>1. t.contract \in AnyContract
    BY <1>2 DEF AnyTerms, Optional
  <2>2. Settled(Normalized(t.contract))
    BY <2>1, NormalizedIsSettled
  <2>3. NormalizedTerms(t) = [t EXCEPT !.contract = Normalized(t.contract)]
    BY <1>2 DEF NormalizedTerms
  <2>4. /\ NormalizedTerms(t).contract = Normalized(t.contract)
        /\ NormalizedTerms(t).expiry = t.expiry
        /\ NormalizedTerms(t).perTxMax = t.perTxMax
    BY <2>3 DEF AnyTerms
  <2> QED
    BY <2>2, <2>4 DEF Stored, AnyTerms
<1> QED
  BY <1>1, <1>2

\* The fields of attenuated terms.
LEMMA AttenuatedFields ==
    ASSUME NEW p, NEW left, NEW ask \in AnyTerms
    PROVE  LET t == Attenuated(p, left, ask) IN
           /\ t.period = IF HasPay(ask) THEN ask.period ELSE InheritedPeriod(p, left)
           /\ t.lifetime = IF HasPay(ask) THEN ask.lifetime ELSE left.lifetime
           /\ t.contract = FilledContract(p, ask)
           /\ t.expiry = Inherit(ask.expiry, p.expiry)
           /\ t.merchants = Inherit(ask.merchants, p.merchants)
           /\ t.perTxMax = Inherit(ask.perTxMax, p.perTxMax)
BY DEF Attenuated, AnyTerms

\* The contract scope of a child lies within its parent's, and is capped.
LEMMA ContractIsNarrower ==
    ASSUME NEW p, NEW ask \in AnyTerms, Stored(p), ContractFits(p, ask),
           ask.contract # None
    PROVE  LET ct == FilledContract(p, ask) IN
           /\ Settled(ct)
           /\ p.contract # None
           /\ ct.targets \subseteq p.contract.targets
           /\ ct.selectors \subseteq p.contract.selectors
           /\ Approve \in ct.selectors => Implies(ct.perTradeMax, p.contract.perTradeMax)
<1> DEFINE raw == ask.contract
           full == Normalized(raw)
           cap == TradeCap(p.contract, raw)
           ct == FilledContract(p, ask)
<1>1. raw \in AnyContract
  BY DEF AnyTerms, Optional
<1>2. Settled(full) /\ full.perTradeMax = raw.perTradeMax
  BY <1>1, NormalizedIsSettled
<1>3. /\ p.contract # None
      /\ full.targets \subseteq p.contract.targets
      /\ full.selectors \subseteq {Canonical[s] : s \in p.contract.selectors}
      /\ NoMore(full.perTradeMax, p.contract.perTradeMax)
  BY DEF ContractFits, Surface
<1>4. Settled(p.contract)
  BY <1>3 DEF Stored
<1>5. full.selectors \subseteq p.contract.selectors
  BY <1>3, <1>4 DEF Settled
<1>6. cap \in Optional(Nat)
  BY <1>1, <1>4 DEF TradeCap, Settled, AnyContract
<1>7. ct = [full EXCEPT !.perTradeMax = cap]
  BY DEF FilledContract
<1>8. cap = IF raw.perTradeMax = None /\ Approve \in full.selectors
            THEN p.contract.perTradeMax ELSE raw.perTradeMax
  BY DEF TradeCap
<1> HIDE DEF full, cap, ct, raw
<1>9. /\ ct.targets = full.targets /\ ct.selectors = full.selectors
      /\ ct.perTradeMax = cap
      /\ ct \in AnyContract
  BY <1>2, <1>6, <1>7 DEF Settled, AnyContract
<1>10. Approve \in full.selectors => Implies(cap, p.contract.perTradeMax)
  <2>1. p.contract.perTradeMax \in Optional(Nat) /\ raw.perTradeMax \in Optional(Nat)
    BY <1>1, <1>4 DEF Settled, AnyContract
  <2>2. NoMore(raw.perTradeMax, p.contract.perTradeMax)
    BY <1>2, <1>3
  <2> QED
    BY <1>8, <2>1, <2>2 DEF Implies, NoMore, Optional
<1>11. Settled(ct)
  BY <1>2, <1>9 DEF Settled
<1> QED
  BY <1>3, <1>5, <1>9, <1>10, <1>11 DEF ct

\* An inherited or narrower bound implies the parent's.
LEMMA InheritedBound ==
    ASSUME NEW x \in Optional(Nat), NEW y \in Optional(Nat), NoMore(x, y)
    PROVE  /\ Inherit(x, y) \in Optional(Nat)
           /\ Implies(Inherit(x, y), y)
BY DEF Inherit, NoMore, Implies, Optional

\* One step of attenuation: the child's terms are stored terms within the
\* parent's.
LEMMA ChildIsNarrower ==
    ASSUME NEW p, NEW left, NEW ask \in AnyTerms, Stored(p),
           p.lifetime = None => left.lifetime = None,
           Fits(p, left, ask)
    PROVE  LET t == Attenuated(p, left, ask) IN
           Stored(t) /\ Narrower(t, p) /\ Capped(t, p)
<1> DEFINE t == Attenuated(p, left, ask)
<1>1. /\ t.period = IF HasPay(ask) THEN ask.period ELSE InheritedPeriod(p, left)
      /\ t.lifetime = IF HasPay(ask) THEN ask.lifetime ELSE left.lifetime
      /\ t.contract = FilledContract(p, ask)
      /\ t.expiry = Inherit(ask.expiry, p.expiry)
      /\ t.merchants = Inherit(ask.merchants, p.merchants)
      /\ t.perTxMax = Inherit(ask.perTxMax, p.perTxMax)
  BY AttenuatedFields
<1> HIDE DEF t
<1>2. HasPay(t) => HasPay(p)
  BY <1>1 DEF Fits, PayFits, HasPay, InheritedPeriod
<1>3. t.expiry \in Optional(Nat) /\ Implies(t.expiry, p.expiry)
  BY <1>1, InheritedBound DEF Fits, Stored, AnyTerms
<1>4. t.perTxMax \in Optional(Nat) /\ Implies(t.perTxMax, p.perTxMax)
  BY <1>1, InheritedBound DEF Fits, Stored, AnyTerms
<1>5. p.merchants # None => t.merchants # None /\ t.merchants \subseteq p.merchants
  BY <1>1 DEF Inherit, Fits
<1>6. CASE ask.contract = None
  <2>1. t.contract = None
    BY <1>1, <1>6 DEF FilledContract
  <2> QED
    BY <1>2, <1>3, <1>4, <1>5, <2>1 DEF Stored, Narrower, Capped, t
<1>7. CASE ask.contract # None
  <2>1. ContractFits(p, ask)
    BY DEF Fits
  <2>2. /\ Settled(t.contract) /\ p.contract # None
        /\ t.contract.targets \subseteq p.contract.targets
        /\ t.contract.selectors \subseteq p.contract.selectors
        /\ Approve \in t.contract.selectors =>
              Implies(t.contract.perTradeMax, p.contract.perTradeMax)
    BY <1>1, <1>7, <2>1, ContractIsNarrower
  <2> QED
    BY <1>2, <1>3, <1>4, <1>5, <2>2 DEF Stored, Narrower, Capped, t
<1> QED
  BY <1>6, <1>7

\* Terms are within themselves.
LEMMA NarrowerThanItself ==
    ASSUME NEW t, Stored(t)
    PROVE  Narrower(t, t) /\ Capped(t, t)
<1>1. Implies(t.expiry, t.expiry) /\ Implies(t.perTxMax, t.perTxMax)
  BY DEF Implies, Stored, Optional
<1>2. Capped(t, t)
  <2> SUFFICES ASSUME t.contract # None
               PROVE  Implies(t.contract.perTradeMax, t.contract.perTradeMax)
    BY DEF Capped
  <2>1. t.contract.perTradeMax \in Optional(Nat)
    BY DEF Stored, Settled, AnyContract
  <2> QED
    BY <2>1 DEF Implies, Optional
<1> QED
  BY <1>1, <1>2 DEF Narrower

-----------------------------------------------------------------------------
(* The invariant                                                           *)

\* A card enrolled under issued cards whose terms hold its own.
LEMMA EnrollKeepsTree ==
    ASSUME TreeInv, NEW c \in Card, c \notin Issued, NEW t, NEW above,
           Stored(t), above \subseteq Issued,
           \A a \in above : Narrower(t, terms[a]) /\ Capped(t, terms[a]),
           Enroll(c, t, above)
    PROVE  TreeInv'
<1>1. DOMAIN terms' = Card /\ DOMAIN chain' = Card
  BY DEF TreeInv, Enroll
<1>2. /\ terms'[c] = t /\ chain'[c] = above \cup {c}
      /\ \A d \in Card \ {c} : terms'[d] = terms[d] /\ chain'[d] = chain[d]
  BY DEF TreeInv, Enroll
<1>3. Issued \subseteq Issued' /\ Issued' \subseteq Issued \cup {c}
  BY <1>2 DEF Issued
<1> SUFFICES ASSUME NEW d \in Issued'
             PROVE  /\ Stored(terms'[d])
                    /\ chain'[d] \subseteq Issued'
                    /\ \A a \in chain'[d] :
                          /\ Narrower(terms'[d], terms'[a])
                          /\ Capped(terms'[d], terms'[a])
  BY <1>1 DEF TreeInv
<1>4. \A a \in Issued : a \in Card \ {c} /\ terms'[a] = terms[a]
  BY <1>2 DEF Issued
<1>5. CASE d = c
  <2>1. \A a \in above : terms'[a] = terms[a]
    BY <1>4
  <2>2. Narrower(t, t) /\ Capped(t, t)
    BY NarrowerThanItself
  <2> QED
    BY <1>2, <1>3, <1>5, <2>1, <2>2
<1>6. CASE d # c
  <2>1. d \in Issued
    BY <1>3, <1>6
  <2>2. /\ Stored(terms[d]) /\ chain[d] \subseteq Issued
        /\ \A a \in chain[d] : Narrower(terms[d], terms[a]) /\ Capped(terms[d], terms[a])
    BY <2>1 DEF TreeInv
  <2>3. chain'[d] = chain[d] /\ terms'[d] = terms[d]
    BY <1>2, <1>4, <2>1
  <2> QED
    BY <1>3, <1>4, <2>2, <2>3
<1> QED
  BY <1>5, <1>6

\* An owner's terms, compiled into a root card.
LEMMA IssueRootKeepsTree ==
    ASSUME TreeInv, NEW c \in Card, NEW t \in RootTerms, IssueRoot(c, t)
    PROVE  TreeInv'
<1>1. t \in AnyTerms
  BY CarvingAssumption DEF CarvingAssumption
<1>2. Stored(NormalizedTerms(t))
  BY <1>1, RootIsStored
<1>3. c \notin Issued /\ Enroll(c, NormalizedTerms(t), {})
  BY DEF IssueRoot
<1> QED
  BY <1>2, <1>3, EnrollKeepsTree

\* A sub-card: within its parent's terms, hence within those of all its
\* ancestors.
LEMMA IssueSubKeepsTree ==
    ASSUME TreeInv, NEW p \in Card, NEW c \in Card, NEW ask \in Asks,
           IssueSub(p, c, ask)
    PROVE  TreeInv'
<1> DEFINE t == Attenuated(terms[p], Remaining(p), ask)
<1>1. /\ p \in Issued /\ c \notin Issued
      /\ Fits(terms[p], Remaining(p), ask)
      /\ Enroll(c, t, chain[p])
  BY DEF IssueSub
<1>2. ask \in AnyTerms
  BY CarvingAssumption DEF CarvingAssumption
<1>3. /\ Stored(terms[p]) /\ chain[p] \subseteq Issued
      /\ \A a \in chain[p] : Narrower(terms[p], terms[a]) /\ Capped(terms[p], terms[a])
  BY <1>1 DEF TreeInv
<1>4. terms[p].lifetime = None => Remaining(p).lifetime = None
  BY DEF Remaining
<1>5. Stored(t) /\ Narrower(t, terms[p]) /\ Capped(t, terms[p])
  BY <1>1, <1>2, <1>3, <1>4, ChildIsNarrower
<1> HIDE DEF t
<1>6. ASSUME NEW a \in chain[p]
      PROVE  Narrower(t, terms[a]) /\ Capped(t, terms[a])
  <2>1. Stored(terms[a])
    BY <1>3 DEF TreeInv
  <2>2. Narrower(terms[p], terms[a]) /\ Capped(terms[p], terms[a])
    BY <1>3
  <2> QED
    BY <1>3, <1>5, <2>1, <2>2, NarrowerChains, CappedChains
<1> QED
  BY <1>1, <1>3, <1>5, <1>6, EnrollKeepsTree

\* Redemptions and time leave the tree alone.
LEMMA TreeStands ==
    ASSUME TreeInv, UNCHANGED <<terms, chain>>
    PROVE  TreeInv'
BY DEF TreeInv, Issued

\* The tree's invariant holds in every reachable state.
LEMMA TreeInvariant == Spec => []TreeInv
<1>1. Init => TreeInv
  BY DEF Init, TreeInv, Issued
<1>2. TreeInv /\ [Next]_vars => TreeInv'
  <2> SUFFICES ASSUME TreeInv, [Next]_vars
               PROVE  TreeInv'
    OBVIOUS
  <2>1. CASE \E c \in Card, t \in RootTerms : IssueRoot(c, t)
    BY <2>1, IssueRootKeepsTree
  <2>2. CASE \E p, c \in Card, ask \in Asks : IssueSub(p, c, ask)
    BY <2>2, IssueSubKeepsTree
  <2>3. CASE \E c \in Card, r \in Redemptions : Redeem(c, r)
    BY <2>3, TreeStands DEF Redeem
  <2>4. CASE Tick
    BY <2>4, TreeStands DEF Tick
  <2>5. CASE UNCHANGED vars
    BY <2>5, TreeStands DEF vars
  <2> QED
    BY <2>1, <2>2, <2>3, <2>4, <2>5 DEF Next
<1> QED
  BY <1>1, <1>2, PTL DEF Spec

\* For every tree of cards, whatever owners compose and agents ask for, no
\* card's own terms reach beyond those of any ancestor: attenuate's checks and
\* fills chain up over any depth.
THEOREM AuthorityOnlyNarrows == Spec => []NeverWider
<1>1. TreeInv => NeverWider
  BY DEF TreeInv, NeverWider
<1> QED
  BY <1>1, TreeInvariant, PTL

\* For every tree of cards, a card whose selectors hold approve is under the
\* allowance cap of each of its ancestors: no card that could not approve in
\* between loses the cap, since approve cannot return below it.
THEOREM ApproveStaysCapped == Spec => []ApproveIsCapped
<1>1. TreeInv => ApproveIsCapped
  BY DEF TreeInv, ApproveIsCapped, Capped
<1> QED
  BY <1>1, TreeInvariant, PTL

-----------------------------------------------------------------------------
(* Sums                                                                    *)

\* There are n units of what has n.
LEMMA UnitsOfOne ==
    ASSUME NEW m \in Int, NEW n \in Nat
    PROVE  /\ IsFiniteSet(1 .. n)
           /\ IsFiniteSet(m + 1 .. m + n) /\ Cardinality(m + 1 .. m + n) = n
<1>1. m + 1 \in Int /\ m + n \in Int
  OBVIOUS
<1>2. /\ IsFiniteSet(m + 1 .. m + n)
      /\ Cardinality(m + 1 .. m + n) = IF m + 1 > m + n THEN 0 ELSE m + n - (m + 1) + 1
  BY <1>1, FS_Interval
<1>3. IsFiniteSet(1 .. n)
  <2>1. 1 \in Int /\ n \in Int
    OBVIOUS
  <2> QED
    BY <2>1, FS_Interval
<1> QED
  BY <1>2, <1>3

\* Finitely many units make a number.
LEMMA SumType ==
    ASSUME NEW A, NEW f \in [A -> Nat], NEW S \in SUBSET A, IsFiniteSet(S)
    PROVE  IsFiniteSet(Units(f, S)) /\ Sum(f, S) \in Nat
<1> DEFINE B == {{x} \X (1 .. f[x]) : x \in S}
           g == [x \in S |-> {x} \X (1 .. f[x])]
<1>1. g \in Surjection(S, B)
  BY DEF Surjection
<1>2. IsFiniteSet(B)
  BY <1>1, FS_Surjection
<1>3. ASSUME NEW x \in S
      PROVE  IsFiniteSet({x} \X (1 .. f[x]))
  <2>1. f[x] \in Nat
    OBVIOUS
  <2>2. IsFiniteSet({x}) /\ IsFiniteSet(1 .. f[x])
    <3>1. 0 \in Int
      OBVIOUS
    <3> QED
      BY <2>1, <3>1, FS_Singleton, UnitsOfOne
  <2> QED
    BY <2>2, FS_Product
<1>4. IsFiniteSet(Units(f, S))
  BY <1>2, <1>3, FS_UNION DEF Units
<1> QED
  BY <1>4, FS_CardinalityType DEF Sum

\* More, or of more each, adds up to no less.
LEMMA SumMonotone ==
    ASSUME NEW A, NEW f \in [A -> Nat], NEW g \in [A -> Nat],
           NEW S \in SUBSET A, IsFiniteSet(S), \A x \in S : f[x] <= g[x]
    PROVE  Sum(f, S) <= Sum(g, S)
<1>1. ASSUME NEW x \in S
      PROVE  {x} \X (1 .. f[x]) \subseteq Units(g, S)
  <2>1. f[x] \in Nat /\ g[x] \in Nat /\ f[x] <= g[x]
    OBVIOUS
  <2>2. 1 .. f[x] \subseteq 1 .. g[x]
    BY <2>1
  <2> QED
    BY <2>2 DEF Units
<1>2. Units(f, S) \subseteq Units(g, S)
  BY <1>1 DEF Units
<1> QED
  BY <1>2, SumType, FS_Subset DEF Sum

\* What has none adds nothing.
LEMMA SumOfTheRest ==
    ASSUME NEW f, NEW g, NEW S, NEW T,
           \A x \in S : f[x] # 0 => x \in T /\ g[x] = f[x],
           \A x \in T : g[x] # 0 => x \in S /\ g[x] = f[x]
    PROVE  Sum(f, S) = Sum(g, T)
<1>1. ASSUME NEW x \in S
      PROVE  {x} \X (1 .. f[x]) \subseteq Units(g, T)
  <2>1. CASE f[x] = 0
    <3>1. 1 .. f[x] = {}
      BY <2>1
    <3> QED
      BY <3>1
  <2>2. CASE f[x] # 0
    BY <2>2 DEF Units
  <2> QED
    BY <2>1, <2>2
<1>2. ASSUME NEW x \in T
      PROVE  {x} \X (1 .. g[x]) \subseteq Units(f, S)
  <2>1. CASE g[x] = 0
    <3>1. 1 .. g[x] = {}
      BY <2>1
    <3> QED
      BY <3>1
  <2>2. CASE g[x] # 0
    BY <2>2 DEF Units
  <2> QED
    BY <2>1, <2>2
<1>3. Units(f, S) = Units(g, T)
  BY <1>1, <1>2 DEF Units
<1> QED
  BY <1>3 DEF Sum

\* With n more of one, the sum is n more.
LEMMA SumAdds ==
    ASSUME NEW A, NEW f \in [A -> Nat], NEW S \in SUBSET A, IsFiniteSet(S),
           NEW x \in S, NEW n \in Nat, NEW g \in [A -> Nat],
           g[x] = f[x] + n, \A y \in S \ {x} : g[y] = f[y]
    PROVE  Sum(g, S) = Sum(f, S) + n
<1> DEFINE new == {x} \X (f[x] + 1 .. f[x] + n)
<1>1. f[x] \in Nat
  OBVIOUS
<1>2. 1 .. g[x] = (1 .. f[x]) \cup (f[x] + 1 .. f[x] + n)
  BY <1>1
<1>3. Units(g, S) = Units(f, S) \cup new
  <2>1. {x} \X (1 .. g[x]) = ({x} \X (1 .. f[x])) \cup new
    BY <1>2
  <2>2. \A y \in S \ {x} : {y} \X (1 .. g[y]) = {y} \X (1 .. f[y])
    OBVIOUS
  <2> HIDE DEF new
  <2> QED
    BY <2>1, <2>2 DEF Units
<1>4. Units(f, S) \cap new = {}
  <2> SUFFICES ASSUME NEW u \in Units(f, S), u \in new
               PROVE  FALSE
    OBVIOUS
  <2>1. PICK y \in S : u \in {y} \X (1 .. f[y])
    BY DEF Units
  <2>2. u[1] = y /\ u[2] \in 1 .. f[y]
    BY <2>1
  <2>3. u[1] = x /\ u[2] \in f[x] + 1 .. f[x] + n
    OBVIOUS
  <2> QED
    BY <1>1, <2>2, <2>3
<1>5. IsFiniteSet(new) /\ Cardinality(new) = n
  <2>1. IsFiniteSet(f[x] + 1 .. f[x] + n) /\ Cardinality(f[x] + 1 .. f[x] + n) = n
    BY <1>1, UnitsOfOne
  <2>2. IsFiniteSet({x}) /\ Cardinality({x}) = 1
    BY FS_Singleton
  <2>3. /\ IsFiniteSet(new)
        /\ Cardinality(new) = Cardinality({x}) * Cardinality(f[x] + 1 .. f[x] + n)
    BY <2>1, <2>2, FS_Product
  <2> QED
    BY <2>1, <2>2, <2>3
<1>6. IsFiniteSet(Units(f, S)) /\ Sum(f, S) \in Nat
  BY SumType
<1> HIDE DEF new
<1>7. Cardinality(Units(f, S) \cup new)
        = Cardinality(Units(f, S)) + Cardinality(new) - Cardinality(Units(f, S) \cap new)
  BY <1>5, <1>6, FS_Union
<1>8. Cardinality(Units(f, S) \cap new) = 0
  BY <1>4, FS_EmptySet
<1> QED
  BY <1>3, <1>5, <1>6, <1>7, <1>8 DEF Sum

-----------------------------------------------------------------------------
(* Types                                                                   *)

\* Terms that validate, of the right types, are terms.
LEMMA ValidAreTerms ==
    ASSUME NEW t \in AnyTerms, NEW now, ValidTerms(t, now)
    PROVE  t \in Terms
<1>1. t.period \in Optional(Period)
  BY DEF AnyTerms, ValidTerms, Optional, Period, Positive
<1>2. /\ t.lifetime \in Optional(Positive) /\ t.maxUses \in Optional(Positive)
      /\ t.perTxMax \in Optional(Positive)
  BY DEF AnyTerms, ValidTerms, Optional, Positive, IsPositive
<1>3. t.contract \in Optional(Contract)
  <2>1. CASE t.contract = None
    BY <2>1 DEF Optional
  <2>2. CASE t.contract # None
    <3>1. t.contract \in AnyContract
      BY <2>2 DEF AnyTerms, Optional
    <3>2. /\ t.contract.targets # {} /\ t.contract.selectors # {}
          /\ t.contract.tokens # {} /\ IsPositive(t.contract.perTradeMax)
      BY <2>2 DEF ValidTerms
    <3>3. /\ t.contract.tokens \in Optional((SUBSET Address) \ {{}})
          /\ t.contract.perTradeMax \in Optional(Positive)
      BY <3>1, <3>2 DEF AnyContract, Optional, IsPositive, Positive
    <3>4. t.contract \in Contract
      BY <3>1, <3>2, <3>3 DEF AnyContract, Contract
    <3> QED
      BY <3>4 DEF Optional
  <2> QED
    BY <2>1, <2>2
<1>4. t.merchants \in Optional((SUBSET Address) \ {{}})
  BY DEF AnyTerms, ValidTerms, Optional
<1> QED
  BY <1>1, <1>2, <1>3, <1>4 DEF AnyTerms, Terms

\* Terms are of the right types, and valid ones.
LEMMA TermsAreAnyTerms == Terms \subseteq AnyTerms
<1>1. Contract \subseteq AnyContract
  BY DEF Contract, AnyContract, Optional, Positive
<1>2. Period \subseteq [amount : Nat, seconds : Nat \ {0}]
  BY DEF Period, Positive
<1>3. Optional(Positive) \subseteq Optional(Nat)
  BY DEF Optional, Positive
<1>4. Optional(Contract) \subseteq Optional(AnyContract)
  BY <1>1 DEF Optional
<1>5. Optional(Period) \subseteq Optional([amount : Nat, seconds : Nat \ {0}])
  BY <1>2 DEF Optional
<1>6. Optional((SUBSET Address) \ {{}}) \subseteq Optional(SUBSET Address)
  BY DEF Optional
<1> QED
  BY <1>3, <1>4, <1>5, <1>6 DEF Terms, AnyTerms

\* An owner's valid terms are stored as terms.
LEMMA RootTermsType ==
    ASSUME NEW t \in AnyTerms, NEW now, ValidTerms(t, now)
    PROVE  NormalizedTerms(t) \in Terms
<1>1. t \in Terms
  BY ValidAreTerms
<1>2. CASE t.contract = None
  BY <1>1, <1>2 DEF NormalizedTerms
<1>3. CASE t.contract # None
  <2> DEFINE ct == t.contract
  <2>1. ct \in Contract /\ ct \in AnyContract
    BY <1>1, <1>3 DEF Terms, AnyTerms, Optional
  <2>2. Settled(Normalized(ct)) /\ Normalized(ct).perTradeMax = ct.perTradeMax
    BY <2>1, NormalizedIsSettled
  <2>3. /\ Normalized(ct).targets # {} /\ Normalized(ct).selectors # {}
        /\ Normalized(ct).tokens = ct.tokens
    <3> DEFINE listed == IF ct.tokens = None THEN {} ELSE ct.tokens
               methods == {Canonical[s] : s \in ct.selectors}
                             \cup (IF ct.tokens = None THEN {} ELSE {Approve})
    <3>1. Normalized(ct) = [ct EXCEPT !.targets = ct.targets \cup listed, !.selectors = methods]
      BY DEF Normalized
    <3>2. ct.targets # {} /\ methods # {}
      BY <2>1 DEF Contract
    <3> HIDE DEF listed, methods
    <3> QED
      BY <2>1, <3>1, <3>2 DEF Contract
  <2>4. Normalized(ct) \in Contract
    <3>1. Normalized(ct) \in AnyContract
      BY <2>2 DEF Settled
    <3> QED
      BY <2>1, <2>2, <2>3, <3>1 DEF AnyContract, Contract
  <2>5. NormalizedTerms(t) = [t EXCEPT !.contract = Normalized(ct)]
    BY <1>3 DEF NormalizedTerms
  <2> HIDE DEF ct
  <2> QED
    BY <1>1, <2>4, <2>5 DEF Terms, Optional
<1> QED
  BY <1>2, <1>3

\* What an agent asks for, filled from valid terms, has the right types.
LEMMA AttenuatedType ==
    ASSUME NEW p \in Terms, Stored(p), NEW ask \in AnyTerms, NEW left,
           left.period \in Optional(Nat), left.lifetime \in Optional(Nat),
           p.period # None => left.period # None,
           Fits(p, left, ask)
    PROVE  Attenuated(p, left, ask) \in AnyTerms
<1> DEFINE t == Attenuated(p, left, ask)
<1>1. p \in AnyTerms
  BY TermsAreAnyTerms
<1>2. InheritedPeriod(p, left) \in Optional([amount : Nat, seconds : Nat \ {0}])
  BY <1>1 DEF AnyTerms, InheritedPeriod, Optional
<1>3. FilledContract(p, ask) \in Optional(AnyContract)
  <2>1. CASE ask.contract = None
    BY <2>1 DEF FilledContract, Optional
  <2>2. CASE ask.contract # None
    <3>1. ContractFits(p, ask)
      BY DEF Fits
    <3>2. Settled(FilledContract(p, ask))
      BY <2>2, <3>1, ContractIsNarrower
    <3> QED
      BY <3>2 DEF Settled, Optional
  <2> QED
    BY <2>1, <2>2
<1>4. /\ Inherit(ask.expiry, p.expiry) \in Optional(Nat)
      /\ Inherit(ask.merchants, p.merchants) \in Optional(SUBSET Address)
      /\ Inherit(ask.perTxMax, p.perTxMax) \in Optional(Nat)
  BY <1>1 DEF AnyTerms, Inherit
<1>5. t = [ask EXCEPT
             !.period = IF HasPay(ask) THEN ask.period ELSE InheritedPeriod(p, left),
             !.lifetime = IF HasPay(ask) THEN ask.lifetime ELSE left.lifetime,
             !.contract = FilledContract(p, ask),
             !.expiry = Inherit(ask.expiry, p.expiry),
             !.merchants = Inherit(ask.merchants, p.merchants),
             !.perTxMax = Inherit(ask.perTxMax, p.perTxMax)]
  BY DEF Attenuated
<1> HIDE DEF t
<1>6. t \in AnyTerms
  BY <1>2, <1>3, <1>4, <1>5 DEF AnyTerms
<1> QED
  BY <1>6 DEF t

-----------------------------------------------------------------------------
(* What the server and the enforcers have counted                          *)

\* The executions a use of a card may hold.
PerUse(t) == IF t.contract = None THEN 2 ELSE MaxCalls + 1

\* Nothing is counted for a card before it is issued.
NothingYet == \A c \in Card \ Issued : uses[c] = 0 /\ calls[c] = 0

\* The enforcers have counted no atom the server has not, and no more
\* executions than the uses the server counted may hold.
EnforcersCountLess ==
    /\ \A d \in Card, u \in 0 .. MaxClock : moved[d][u] <= booked[d][u]
    /\ \A a \in Issued : Total(calls, a) <= PerUse(terms[a]) * Total(uses, a)

LedgerInv == TypeOK /\ NothingYet /\ EnforcersCountLess

Books == [Card -> [0 .. MaxClock -> Nat]]

\* Cards, subtrees and seconds are finitely many.
LEMMA Finite ==
    /\ IsFiniteSet(Card) /\ MaxClock \in Nat /\ IsFiniteSet(0 .. MaxClock)
    /\ \A c : Subtree(c) \subseteq Card /\ IsFiniteSet(Subtree(c))
<1>1. IsFiniteSet(Card) /\ MaxClock \in Nat
  BY CarvingAssumption DEF CarvingAssumption
<1>2. IsFiniteSet(0 .. MaxClock)
  <2>1. 0 \in Int /\ MaxClock \in Int
    BY <1>1
  <2> QED
    BY <2>1, FS_Interval
<1>3. ASSUME NEW c
      PROVE  Subtree(c) \subseteq Card /\ IsFiniteSet(Subtree(c))
  <2>1. Subtree(c) \subseteq Card
    BY DEF Subtree
  <2> QED
    BY <1>1, <2>1, FS_Subset
<1> QED
  BY <1>1, <1>2, <1>3

\* What a card has spent from some second on is a number.
LEMMA SinceType ==
    ASSUME NEW book \in Books, NEW c, NEW t
    PROVE  /\ [d \in Subtree(c) |-> Sum(book[d], {u \in 0 .. MaxClock : u >= t})]
                 \in [Subtree(c) -> Nat]
           /\ Since(book, c, t) \in Nat
<1> DEFINE late == {u \in 0 .. MaxClock : u >= t}
           each == [d \in Subtree(c) |-> Sum(book[d], late)]
<1>1. late \in SUBSET (0 .. MaxClock) /\ IsFiniteSet(late)
  BY Finite, FS_Subset
<1>2. ASSUME NEW d \in Subtree(c)
      PROVE  Sum(book[d], late) \in Nat
  <2>1. book[d] \in [0 .. MaxClock -> Nat]
    BY Finite DEF Books
  <2> HIDE DEF late
  <2> QED
    BY <1>1, <2>1, SumType
<1>3. each \in [Subtree(c) -> Nat]
  BY <1>2
<1> HIDE DEF each
<1>4. Sum(each, Subtree(c)) \in Nat
  BY <1>3, Finite, SumType
<1> QED
  BY <1>3, <1>4 DEF each, Since

\* A book that holds no more has no more spent since.
LEMMA SinceMonotone ==
    ASSUME NEW less \in Books, NEW more \in Books, NEW c, NEW t,
           \A d \in Card, u \in 0 .. MaxClock : less[d][u] <= more[d][u]
    PROVE  Since(less, c, t) <= Since(more, c, t)
<1> DEFINE late == {u \in 0 .. MaxClock : u >= t}
           low == [d \in Subtree(c) |-> Sum(less[d], late)]
           high == [d \in Subtree(c) |-> Sum(more[d], late)]
<1>1. late \in SUBSET (0 .. MaxClock) /\ IsFiniteSet(late)
  BY Finite, FS_Subset
<1>2. ASSUME NEW d \in Subtree(c)
      PROVE  Sum(less[d], late) <= Sum(more[d], late)
  <2>1. /\ less[d] \in [0 .. MaxClock -> Nat] /\ more[d] \in [0 .. MaxClock -> Nat]
        /\ \A u \in late : less[d][u] <= more[d][u]
    BY Finite DEF Books
  <2> HIDE DEF late
  <2> QED
    BY <1>1, <2>1, SumMonotone
<1>3. low \in [Subtree(c) -> Nat] /\ high \in [Subtree(c) -> Nat]
  BY SinceType
<1>4. \A d \in Subtree(c) : low[d] <= high[d]
  BY <1>2
<1> HIDE DEF low, high
<1>5. Sum(low, Subtree(c)) <= Sum(high, Subtree(c))
  BY <1>3, <1>4, Finite, SumMonotone
<1> QED
  BY <1>5 DEF low, high, Since

\* What is left is a number.
LEMMA RemainingType ==
    ASSUME TypeOK, NEW p \in Issued
    PROVE  /\ Remaining(p).period \in Optional(Nat)
           /\ Remaining(p).lifetime \in Optional(Nat)
           /\ terms[p].period # None => Remaining(p).period # None
<1>1. terms[p] \in Terms /\ booked \in Books
  BY DEF TypeOK, Issued, Optional, Books
<1>2. InWindow(booked, p) \in Nat /\ InLife(booked, p) \in Nat
  BY <1>1, SinceType DEF InWindow, InLife
<1>3. \A cap, used \in Nat : Left(cap, used) \in Nat
  BY DEF Left
<1>4. /\ terms[p].period # None => terms[p].period.amount \in Nat
      /\ terms[p].lifetime # None => terms[p].lifetime \in Nat
  BY <1>1 DEF Terms, Optional, Period, Positive
<1>5. None \notin Nat
  BY CarvingAssumption DEF CarvingAssumption
<1> QED
  BY <1>2, <1>3, <1>4, <1>5 DEF Remaining, Optional

\* A redemption holds numbers, and no more executions than a use of the card.
LEMMA RedemptionNumbers ==
    ASSUME NEW r \in Redemptions
    PROVE  /\ Executions(r) \in Nat /\ Atoms(r) \in Nat
           /\ r.mode = "pay" => Executions(r) = 2
           /\ r.mode # "pay" => Executions(r) <= MaxCalls + 1
           /\ MaxCalls \in Nat /\ MaxCalls >= 1
<1>1. MaxCalls \in Nat /\ MaxCalls >= 1 /\ Fee \in Nat /\ Amounts \subseteq Nat
  BY CarvingAssumption DEF CarvingAssumption
<1>2. CASE r \in Payments
  <2>1. r.mode = "pay" /\ r.amount \in Nat
    BY <1>1, <1>2 DEF Payments
  <2>2. Executions(r) = 2 /\ Atoms(r) = r.amount + Fee
    BY <2>1 DEF Executions, Atoms
  <2> QED
    BY <1>1, <2>1, <2>2
<1>3. CASE r \in Executes
  <2>1. r.mode = "contract" /\ r.count \in 1 .. MaxCalls
    BY <1>3 DEF Executes
  <2>2. r.count \in Nat /\ r.count <= MaxCalls
    BY <1>1, <2>1
  <2>3. Executions(r) = r.count + 1 /\ Atoms(r) = Fee
    BY <2>1 DEF Executions, Atoms
  <2> QED
    BY <1>1, <2>1, <2>2, <2>3
<1> QED
  BY <1>2, <1>3 DEF Redemptions

\* A sum over no cards, or over cards with none, is nothing.
LEMMA SumOfNone ==
    ASSUME NEW f, NEW S, \A x \in S : f[x] = 0
    PROVE  Sum(f, S) = 0
<1>1. Sum(f, S) = Sum(f, {})
  BY SumOfTheRest
<1>2. Units(f, {}) = {}
  BY DEF Units
<1> QED
  BY <1>1, <1>2, FS_EmptySet DEF Sum

\* A card that is issued has no history: the sums of the others stand.
LEMMA EnrollKeepsSums ==
    ASSUME TreeInv, LedgerInv, NEW c \in Card, c \notin Issued, NEW t, t # None,
           NEW above, above \subseteq Issued, Enroll(c, t, above),
           NEW f, \A d \in Card \ Issued : f[d] = 0
    PROVE  /\ Sum(f, Subtree(c)') = 0
           /\ \A a \in Issued : Sum(f, Subtree(a)') = Sum(f, Subtree(a))
<1>1. /\ chain'[c] = above \cup {c}
      /\ \A d \in Card \ {c} : chain'[d] = chain[d]
  BY DEF TreeInv, Enroll
<1>2. ASSUME NEW d \in Subtree(c)'
      PROVE  f[d] = 0
  <2>1. d \in Card /\ c \in chain'[d]
    BY <1>2 DEF Subtree
  <2>2. CASE d = c
    BY <2>2
  <2>3. CASE d # c
    <3>1. c \in chain[d]
      BY <1>1, <2>1, <2>3
    <3>2. d \notin Issued
      BY <3>1 DEF TreeInv
    <3> QED
      BY <2>1, <3>2
  <2> QED
    BY <2>2, <2>3
<1>3. ASSUME NEW a \in Issued
      PROVE  Sum(f, Subtree(a)') = Sum(f, Subtree(a))
  <2>1. \A d \in Subtree(a)' : f[d] # 0 => d \in Subtree(a)
    BY <1>1 DEF Subtree
  <2>2. \A d \in Subtree(a) : f[d] # 0 => d \in Subtree(a)'
    BY <1>1 DEF Subtree
  <2> QED
    BY <2>1, <2>2, SumOfTheRest
<1> QED
  BY <1>2, <1>3, SumOfNone

\* So issuing a card keeps the ledgers.
LEMMA EnrollKeepsLedger ==
    ASSUME TreeInv, LedgerInv, NEW c \in Card, c \notin Issued, NEW t \in Terms,
           NEW above, above \subseteq Issued, Enroll(c, t, above)
    PROVE  LedgerInv'
<1>0. t # None
  BY TermsAreAnyTerms, CarvingAssumption DEF CarvingAssumption
<1>1. /\ terms'[c] = t /\ \A d \in Card \ {c} : terms'[d] = terms[d]
      /\ uses' = uses /\ calls' = calls /\ booked' = booked /\ moved' = moved
      /\ clock' = clock
  BY DEF TreeInv, Enroll
<1>2. Issued' = Issued \cup {c}
  BY <1>0, <1>1 DEF Issued
<1>3. TypeOK'
  <2>1. terms' \in [Card -> Optional(Terms)] /\ chain' \in [Card -> SUBSET Card]
    <3>1. above \cup {c} \subseteq Card /\ t \in Optional(Terms)
      BY DEF Issued, Optional
    <3> QED
      BY <3>1 DEF LedgerInv, TypeOK, Enroll
  <2>2. start' \in [Card -> Int]
    <3>1. clock - Backdate \in Int
      BY CarvingAssumption DEF CarvingAssumption, LedgerInv, TypeOK
    <3> QED
      BY <3>1 DEF LedgerInv, TypeOK, Enroll
  <2> QED
    BY <1>1, <2>1, <2>2 DEF LedgerInv, TypeOK
<1>4. NothingYet'
  BY <1>1, <1>2 DEF LedgerInv, NothingYet
<1>5. /\ \A d \in Card \ Issued : uses[d] = 0
      /\ \A d \in Card \ Issued : calls[d] = 0
  BY DEF LedgerInv, NothingYet
<1>6. /\ Sum(uses, Subtree(c)') = 0 /\ Sum(calls, Subtree(c)') = 0
      /\ \A a \in Issued : /\ Sum(uses, Subtree(a)') = Sum(uses, Subtree(a))
                           /\ Sum(calls, Subtree(a)') = Sum(calls, Subtree(a))
  BY <1>0, <1>5, EnrollKeepsSums
<1>7. ASSUME NEW a \in Issued'
      PROVE  Sum(calls, Subtree(a)') <= PerUse(terms'[a]) * Sum(uses, Subtree(a)')
  <2>1. CASE a = c
    <3>1. PerUse(terms'[a]) \in Nat
      BY CarvingAssumption DEF CarvingAssumption, PerUse
    <3> QED
      BY <1>6, <2>1, <3>1
  <2>2. CASE a # c
    <3>1. a \in Issued /\ terms'[a] = terms[a]
      BY <1>1, <1>2, <2>2 DEF Issued
    <3>2. Sum(calls, Subtree(a)) <= PerUse(terms[a]) * Sum(uses, Subtree(a))
      BY <3>1 DEF LedgerInv, EnforcersCountLess, Total
    <3> QED
      BY <1>6, <3>1, <3>2
  <2> QED
    BY <2>1, <2>2
<1>8. EnforcersCountLess'
  BY <1>1, <1>7 DEF LedgerInv, EnforcersCountLess, Total
<1> QED
  BY <1>3, <1>4, <1>8 DEF LedgerInv

\* An entry in a book leaves a book.
LEMMA AddType ==
    ASSUME TypeOK, NEW book \in Books, NEW c \in Card, NEW n \in Nat
    PROVE  /\ Add(book, c, n) \in Books
           /\ Add(book, c, n)[c][clock] = book[c][clock] + n
           /\ \A d \in Card, u \in 0 .. MaxClock :
                 d # c \/ u # clock => Add(book, c, n)[d][u] = book[d][u]
<1>1. clock \in 0 .. MaxClock
  BY DEF TypeOK
<1>2. book[c] \in [0 .. MaxClock -> Nat] /\ book[c][clock] \in Nat
  BY <1>1 DEF Books
<1>3. Add(book, c, n) = [book EXCEPT ![c] = [book[c] EXCEPT ![clock] = book[c][clock] + n]]
  BY DEF Add
<1>4. [book[c] EXCEPT ![clock] = book[c][clock] + n] \in [0 .. MaxClock -> Nat]
  <2>1. book[c][clock] + n \in Nat
    BY <1>2
  <2> QED
    BY <1>2, <2>1
<1> QED
  BY <1>1, <1>2, <1>3, <1>4 DEF Books

\* A redemption keeps the ledgers: a use holds no more executions than it may,
\* on each card above it too.
LEMMA RedeemKeepsLedger ==
    ASSUME TreeInv, LedgerInv, NEW c \in Card, NEW r \in Redemptions, Redeem(c, r)
    PROVE  LedgerInv'
<1>1. /\ c \in Issued /\ Admits(c, r)
      /\ uses' = [uses EXCEPT ![c] = @ + 1]
      /\ calls' = [calls EXCEPT ![c] = @ + Executions(r)]
      /\ booked' = Add(booked, c, Atoms(r))
      /\ moved' = IF r.mode = "pay" THEN Add(moved, c, Atoms(r)) ELSE moved
      /\ terms' = terms /\ chain' = chain /\ start' = start /\ clock' = clock
  BY DEF Redeem
<1>2. TypeOK /\ booked \in Books /\ moved \in Books
  BY DEF LedgerInv, TypeOK, Books
<1>3. uses \in [Card -> Nat] /\ calls \in [Card -> Nat]
  BY <1>2 DEF TypeOK
<1>4. /\ Executions(r) \in Nat /\ Atoms(r) \in Nat
      /\ r.mode = "pay" => Executions(r) = 2
      /\ r.mode # "pay" => Executions(r) <= MaxCalls + 1
      /\ MaxCalls \in Nat /\ MaxCalls >= 1
  BY RedemptionNumbers
<1>5. Issued' = Issued /\ \A a : Subtree(a)' = Subtree(a)
  BY <1>1 DEF Issued, Subtree
<1>6. booked' \in Books /\ moved' \in Books
  BY <1>1, <1>2, <1>4, AddType
<1>7. TypeOK'
  <2>1. uses' \in [Card -> Nat] /\ calls' \in [Card -> Nat]
    BY <1>1, <1>3, <1>4
  <2> QED
    BY <1>1, <1>2, <1>6, <2>1 DEF TypeOK, Books
<1>8. NothingYet'
  BY <1>1, <1>3, <1>5 DEF LedgerInv, NothingYet
<1>9. \A d \in Card, u \in 0 .. MaxClock : moved'[d][u] <= booked'[d][u]
  <2> SUFFICES ASSUME NEW d \in Card, NEW u \in 0 .. MaxClock
               PROVE  moved'[d][u] <= booked'[d][u]
    OBVIOUS
  <2>1. /\ moved[d][u] <= booked[d][u] /\ moved[d][u] \in Nat /\ booked[d][u] \in Nat
    BY <1>2 DEF LedgerInv, EnforcersCountLess, Books
  <2>2. CASE d = c /\ u = clock
    <3>1. booked'[d][u] = booked[d][u] + Atoms(r)
      BY <1>1, <1>2, <1>4, <2>2, AddType
    <3>2. moved'[d][u] = moved[d][u] + Atoms(r) \/ moved'[d][u] = moved[d][u]
      BY <1>1, <1>2, <1>4, <2>2, AddType
    <3> QED
      BY <1>4, <2>1, <3>1, <3>2
  <2>3. CASE d # c \/ u # clock
    <3>1. booked'[d][u] = booked[d][u]
      BY <1>1, <1>2, <1>4, <2>3, AddType
    <3>2. moved'[d][u] = moved[d][u]
      BY <1>1, <1>2, <1>4, <2>3, AddType
    <3> QED
      BY <2>1, <3>1, <3>2
  <2> QED
    BY <2>2, <2>3
<1>10. ASSUME NEW a \in Issued
       PROVE  Sum(calls', Subtree(a)) <= PerUse(terms[a]) * Sum(uses', Subtree(a))
  <2>1. /\ Subtree(a) \in SUBSET Card /\ IsFiniteSet(Subtree(a))
        /\ Sum(calls, Subtree(a)) \in Nat /\ Sum(uses, Subtree(a)) \in Nat
    BY <1>3, Finite, SumType
  <2>2. Sum(calls, Subtree(a)) <= PerUse(terms[a]) * Sum(uses, Subtree(a))
    BY DEF LedgerInv, EnforcersCountLess, Total
  <2>3. PerUse(terms[a]) \in Nat
    BY <1>4 DEF PerUse
  <2>4. CASE c \in Subtree(a)
    <3>1. /\ Sum(uses', Subtree(a)) = Sum(uses, Subtree(a)) + 1
          /\ Sum(calls', Subtree(a)) = Sum(calls, Subtree(a)) + Executions(r)
      <4>1. /\ uses' \in [Card -> Nat] /\ uses'[c] = uses[c] + 1
            /\ \A d \in Subtree(a) \ {c} : uses'[d] = uses[d]
        BY <1>1, <1>3, <2>1
      <4>2. /\ calls' \in [Card -> Nat] /\ calls'[c] = calls[c] + Executions(r)
            /\ \A d \in Subtree(a) \ {c} : calls'[d] = calls[d]
        BY <1>1, <1>3, <1>4, <2>1
      <4>3. Sum(uses', Subtree(a)) = Sum(uses, Subtree(a)) + 1
        BY <1>3, <2>1, <2>4, <4>1, SumAdds
      <4>4. Sum(calls', Subtree(a)) = Sum(calls, Subtree(a)) + Executions(r)
        BY <1>3, <1>4, <2>1, <2>4, <4>2, SumAdds
      <4> QED
        BY <4>3, <4>4
    <3>2. a \in chain[c]
      BY <2>4 DEF Subtree
    <3>3. Executions(r) <= PerUse(terms[a])
      <4>1. CASE r.mode = "pay"
        BY <1>4, <4>1 DEF PerUse
      <4>2. CASE r.mode # "pay"
        <5>1. terms[c].contract # None
          BY <1>1, <4>2 DEF Admits
        <5>2. terms[a].contract # None
          BY <1>1, <3>2, <5>1 DEF TreeInv, Narrower
        <5> QED
          BY <1>4, <4>2, <5>2 DEF PerUse
      <4> QED
        BY <4>1, <4>2
    <3>4. ASSUME NEW k \in Nat, NEW m \in Nat, NEW n \in Nat, NEW e \in Nat,
                 n <= k * m, e <= k
          PROVE  n + e <= k * (m + 1)
      <4>1. k * (m + 1) = k * m + k /\ k * m \in Nat
        BY <3>4
      <4> QED
        BY <3>4, <4>1
    <3> QED
      BY <1>4, <2>1, <2>2, <2>3, <3>1, <3>3, <3>4
  <2>5. CASE c \notin Subtree(a)
    <3>1. \A d \in Subtree(a) : uses'[d] = uses[d] /\ calls'[d] = calls[d]
      BY <1>1, <1>3, <2>1, <2>5
    <3>2. /\ Sum(uses', Subtree(a)) = Sum(uses, Subtree(a))
          /\ Sum(calls', Subtree(a)) = Sum(calls, Subtree(a))
      BY <3>1, SumOfTheRest
    <3> QED
      BY <2>2, <3>2
  <2> QED
    BY <2>4, <2>5
<1>11. EnforcersCountLess'
  BY <1>1, <1>5, <1>9, <1>10 DEF EnforcersCountLess, Total
<1> QED
  BY <1>7, <1>8, <1>11 DEF LedgerInv

-----------------------------------------------------------------------------
(* The two judges                                                          *)

\* The ledgers hold in every reachable state.
LEMMA LedgerInvariant == Spec => [](TreeInv /\ LedgerInv)
<1>1. Init => LedgerInv
  <2> SUFFICES ASSUME Init
               PROVE  LedgerInv
    OBVIOUS
  <2>1. Issued = {}
    BY DEF Init, Issued
  <2>2. TypeOK
    BY Finite DEF Init, TypeOK, Optional
  <2>3. NothingYet
    BY DEF Init, NothingYet
  <2>4. EnforcersCountLess
    BY <2>1 DEF Init, EnforcersCountLess
  <2> QED
    BY <2>2, <2>3, <2>4 DEF LedgerInv
<1>2. TreeInv /\ LedgerInv /\ [Next]_vars => LedgerInv'
  <2> SUFFICES ASSUME TreeInv, LedgerInv, [Next]_vars
               PROVE  LedgerInv'
    OBVIOUS
  <2>1. CASE \E c \in Card, t \in RootTerms : IssueRoot(c, t)
    <3> PICK c \in Card, t \in RootTerms : IssueRoot(c, t)
      BY <2>1
    <3>1. t \in AnyTerms
      BY CarvingAssumption DEF CarvingAssumption
    <3>2. NormalizedTerms(t) \in Terms
      BY <3>1, RootTermsType DEF IssueRoot
    <3> QED
      BY <3>2, EnrollKeepsLedger DEF IssueRoot
  <2>2. CASE \E p, c \in Card, ask \in Asks : IssueSub(p, c, ask)
    <3> PICK p \in Card, c \in Card, ask \in Asks : IssueSub(p, c, ask)
      BY <2>2
    <3> DEFINE t == Attenuated(terms[p], Remaining(p), ask)
    <3>1. /\ p \in Issued /\ c \notin Issued /\ Fits(terms[p], Remaining(p), ask)
          /\ ValidTerms(t, clock) /\ Enroll(c, t, chain[p])
      BY DEF IssueSub
    <3>2. ask \in AnyTerms
      BY CarvingAssumption DEF CarvingAssumption
    <3>3. TypeOK /\ terms[p] \in Terms
      BY <3>1 DEF LedgerInv, TypeOK, Issued, Optional
    <3>4. Stored(terms[p]) /\ chain[p] \subseteq Issued
      BY <3>1 DEF TreeInv
    <3>5. t \in AnyTerms
      BY <3>1, <3>2, <3>3, <3>4, RemainingType, AttenuatedType
    <3>6. t \in Terms
      BY <3>1, <3>5, ValidAreTerms
    <3> HIDE DEF t
    <3> QED
      BY <3>1, <3>4, <3>6, EnrollKeepsLedger
  <2>3. CASE \E c \in Card, r \in Redemptions : Redeem(c, r)
    BY <2>3, RedeemKeepsLedger
  <2>4. CASE Tick
    <3>1. clock' \in 0 .. MaxClock
      BY <2>4, Finite DEF Tick, LedgerInv, TypeOK
    <3> QED
      BY <2>4, <3>1
         DEF Tick, LedgerInv, TypeOK, NothingYet, EnforcersCountLess, Issued, Total, Subtree
  <2>5. CASE UNCHANGED vars
    BY <2>5
       DEF vars, LedgerInv, TypeOK, NothingYet, EnforcersCountLess, Issued, Total, Subtree
  <2> QED
    BY <2>1, <2>2, <2>3, <2>4, <2>5 DEF Next
<1> QED
  BY <1>1, <1>2, TreeInvariant, PTL DEF Spec

\* The tables have their types in every reachable state: what is stored for a
\* card are terms the compiler takes, however they were filled in.
THEOREM TypeCorrect == Spec => []TypeOK
<1>1. LedgerInv => TypeOK
  BY DEF LedgerInv
<1> QED
  BY <1>1, LedgerInvariant, PTL

\* What is under the server's cap is under the enforcer's.
LEMMA UnderTheCap ==
    ASSUME NEW less \in Nat, NEW more \in Nat, less <= more,
           NEW n \in Nat, NEW cap \in Nat, more + n <= cap
    PROVE  less + n <= cap
OBVIOUS

\* A use below the use count leaves room for what it holds at most.
LEMMA UnderTheCount ==
    ASSUME NEW k \in Nat, NEW used \in Nat, NEW uses0 \in Nat, used < uses0,
           NEW n \in Nat, n <= k * used, NEW e \in Nat, e <= k
    PROVE  n + e <= uses0 * k
<1>1. PICK d \in Nat : uses0 = used + 1 + d
  <2>1. uses0 - used - 1 \in Nat /\ uses0 = used + 1 + (uses0 - used - 1)
    OBVIOUS
  <2> QED
    BY <2>1
<1>2. uses0 * k = k * used + k + k * d /\ k * d \in Nat /\ k * used \in Nat
  BY <1>1
<1> QED
  BY <1>2

\* For every tree, every history and every redemption: what the server admits,
\* the enforcers of each delegation of the chain admit, so the server's walk is
\* the binding one and no redemption it books is refused on chain by the terms
\* (validateSpend, spend.ts 140-289; compileCard, compiler.ts 181-314).
THEOREM TheServerBinds == Spec => []ChainAgrees
<1>1. TreeInv /\ LedgerInv => ChainAgrees
  <2> SUFFICES ASSUME TreeInv, LedgerInv, NEW c \in Issued, NEW r \in Redemptions,
                      Admits(c, r), NEW a \in chain[c]
               PROVE  EnforcersAllow(a, r)
    BY DEF ChainAgrees
  <2> DEFINE t == terms[a]
  <2>1. a \in Issued /\ Narrower(terms[c], t) /\ Stored(t)
    BY DEF TreeInv
  <2>2. t \in Terms /\ booked \in Books /\ moved \in Books
    BY <2>1 DEF LedgerInv, TypeOK, Books, Issued, Optional
  <2>3. /\ t.expiry # None => clock < t.expiry
        /\ ModeAllows(t, r) /\ BudgetAllows(a, r)
        /\ IF r.mode = "pay" THEN HasPay(terms[c]) ELSE terms[c].contract # None
    BY DEF Admits
  <2>4. /\ Executions(r) \in Nat /\ Atoms(r) \in Nat
        /\ r.mode = "pay" => Executions(r) = 2
        /\ r.mode # "pay" => Executions(r) <= MaxCalls + 1
        /\ MaxCalls \in Nat /\ MaxCalls >= 1
    BY RedemptionNumbers
  <2>5. ASSUME r.mode # "pay"
        PROVE  t.contract # None
    BY <2>1, <2>3, <2>5 DEF Narrower
  <2>6. ASSUME t.maxUses # None
        PROVE  Total(calls, a) + Executions(r) <= CallLimit(t)
    <3>1. Total(uses, a) \in Nat /\ Total(calls, a) \in Nat
      BY Finite, SumType DEF LedgerInv, TypeOK, Total
    <3>2. Total(calls, a) <= PerUse(t) * Total(uses, a)
      BY <2>1 DEF LedgerInv, EnforcersCountLess
    <3>3. t.maxUses \in Nat /\ Total(uses, a) < t.maxUses
      BY <2>2, <2>3, <2>6 DEF Terms, Optional, Positive, BudgetAllows
    <3>4. PerUse(t) \in Nat /\ Executions(r) <= PerUse(t)
      BY <2>4, <2>5 DEF PerUse
    <3>5. CallLimit(t) = t.maxUses * PerUse(t)
      BY DEF CallLimit, PerUse
    <3> HIDE DEF t
    <3> QED
      BY <2>4, <3>1, <3>2, <3>3, <3>4, <3>5, UnderTheCount
  <2>7. \A s : /\ Since(moved, a, s) \in Nat /\ Since(booked, a, s) \in Nat
               /\ Since(moved, a, s) <= Since(booked, a, s)
    BY <2>2, SinceType, SinceMonotone DEF LedgerInv, EnforcersCountLess
  <2>8. CASE r.mode = "pay"
    <3>1. HasPay(t)
      BY <2>1, <2>3, <2>8 DEF Narrower
    <3>2. t.period # None => InWindow(moved, a) + Atoms(r) <= t.period.amount
      <4> SUFFICES ASSUME t.period # None
                   PROVE  InWindow(moved, a) + Atoms(r) <= t.period.amount
        OBVIOUS
      <4>1. t.period.amount \in Nat
        BY <2>2 DEF Terms, Optional, Period, Positive
      <4>2. InWindow(booked, a) + Atoms(r) <= t.period.amount
        BY <2>3 DEF BudgetAllows
      <4>3. /\ InWindow(moved, a) \in Nat /\ InWindow(booked, a) \in Nat
            /\ InWindow(moved, a) <= InWindow(booked, a)
        BY <2>7 DEF InWindow
      <4> QED
        BY <2>4, <4>1, <4>2, <4>3, UnderTheCap
    <3>3. t.lifetime # None => InLife(moved, a) + Atoms(r) <= t.lifetime
      <4> SUFFICES ASSUME t.lifetime # None
                   PROVE  InLife(moved, a) + Atoms(r) <= t.lifetime
        OBVIOUS
      <4>1. t.lifetime \in Nat
        BY <2>2 DEF Terms, Optional, Positive
      <4>2. InLife(booked, a) + Atoms(r) <= t.lifetime
        BY <2>3 DEF BudgetAllows
      <4>3. /\ InLife(moved, a) \in Nat /\ InLife(booked, a) \in Nat
            /\ InLife(moved, a) <= InLife(booked, a)
        BY <2>7 DEF InLife
      <4> QED
        BY <2>4, <4>1, <4>2, <4>3, UnderTheCap
    <3> QED
      BY <2>3, <2>6, <2>8, <3>1, <3>2, <3>3 DEF EnforcersAllow
  <2>9. CASE r.mode # "pay"
    <3>1. t.contract # None
      BY <2>5, <2>9
    <3>2. Settled(t.contract)
      BY <2>1, <3>1 DEF Stored
    <3>3. ASSUME NEW x \in r.calls
          PROVE  x[1] \in FeeSafeTargets(t.contract) /\ x[2] \in FeeSafeSelectors(t.contract)
      <4>1. /\ x[1] \in t.contract.targets
            /\ x[2] \in {Canonical[s] : s \in t.contract.selectors}
        BY <2>3, <2>9, <3>1 DEF ModeAllows
      <4>2. x[2] \in t.contract.selectors
        BY <3>2, <4>1 DEF Settled
      <4> QED
        BY <4>1, <4>2 DEF FeeSafeTargets, FeeSafeSelectors
    <3>4. ASSUME NEW x \in {<<Usdc, Transfer>>}
          PROVE  x[1] \in FeeSafeTargets(t.contract) /\ x[2] \in FeeSafeSelectors(t.contract)
      BY DEF FeeSafeTargets, FeeSafeSelectors
    <3> QED
      BY <2>3, <2>6, <2>9, <3>1, <3>3, <3>4 DEF EnforcersAllow
  <2> QED
    BY <2>8, <2>9
<1> QED
  BY <1>1, LedgerInvariant, PTL
=============================================================================
