------------------------------- MODULE Carving -------------------------------
(***************************************************************************)
(* How authority is handed down: a root card is compiled from the owner's  *)
(* terms, a sub-card from its parent's terms and what is left of them      *)
(* (compiler.ts, issuance.ts), and a redemption is judged twice, by the    *)
(* server's walk over the chain of cards (spend.ts) and by the enforcers   *)
(* on each delegation of that chain.                                       *)
(*                                                                         *)
(* Addresses compare without letter case, as everywhere in the code; the   *)
(* arguments of ERC-20 allowances are left out.  Money is in atoms.        *)
(***************************************************************************)
EXTENDS Integers, FiniteSets

CONSTANTS
    Card,       \* card ids
    None,       \* an optional term that is not there
    Address,    \* call targets, tokens and recipients
    Usdc,       \* the settlement token
    Sig,        \* method signatures as they are written
    Canonical,  \* canonicalSelector: the signature the ABI parser makes of it
    Approve, Transfer,
    RootTerms,  \* the terms owners compose
    Asks,       \* the terms agents ask for
    Amounts,    \* amounts of payments, in atoms
    Fee,        \* the relayer's fee, in atoms
    MaxCalls,   \* calls of one execute (5 in the tool's schema)
    Backdate,   \* START_DATE_BACKDATE_S
    MaxClock, MaxRedeemed   \* bounds: seconds, redemptions

Optional(S) == {None} \cup S

\* Terms as they arrive: of the right types, and nothing else.
AnyContract ==
    [targets : SUBSET Address, selectors : SUBSET Sig,
     tokens : Optional(SUBSET Address), perTradeMax : Optional(Nat)]

AnyTerms ==
    [period : Optional([amount : Nat, seconds : Nat \ {0}]), lifetime : Optional(Nat),
     contract : Optional(AnyContract), expiry : Optional(Nat),
     maxUses : Optional(Nat), perTxMax : Optional(Nat),
     merchants : Optional(SUBSET Address), subcards : BOOLEAN]

CarvingAssumption ==
    /\ IsFiniteSet(Card) /\ Usdc \in Address
    /\ Canonical \in [Sig -> Sig]
    /\ \A s \in Sig : Canonical[Canonical[s]] = Canonical[s]
    /\ {Approve, Transfer} \subseteq {Canonical[s] : s \in Sig}
    /\ Amounts \subseteq Nat /\ Fee \in Nat /\ Backdate \in Nat
    /\ MaxCalls \in Nat \ {0} /\ MaxClock \in Nat /\ MaxRedeemed \in Nat
    /\ RootTerms \cup Asks \subseteq AnyTerms
    /\ None \notin Nat /\ None \notin AnyTerms

ASSUME CarvingAssumption

VARIABLES
    terms,    \* cards.terms_json of each card, None before it is issued
    chain,    \* ancestorChain: a card and its ancestors
    start,    \* compiled.periodStartDate
    clock,
    uses,     \* redemptions a card itself made
    booked,   \* atoms its charges count on the server, by the second
    moved,    \* those of them the ERC-20 enforcers counted
    calls     \* executions the LimitedCalls enforcer counted

vars == <<terms, chain, start, clock, uses, booked, moved, calls>>

-----------------------------------------------------------------------------

Positive == Nat \ {0}

Period == [amount : Positive, seconds : Positive]

Contract ==
    [targets : (SUBSET Address) \ {{}}, selectors : (SUBSET Sig) \ {{}},
     tokens : Optional((SUBSET Address) \ {{}}), perTradeMax : Optional(Positive)]

Terms ==
    [period : Optional(Period), lifetime : Optional(Positive),
     contract : Optional(Contract), expiry : Optional(Nat),
     maxUses : Optional(Positive), perTxMax : Optional(Positive),
     merchants : Optional((SUBSET Address) \ {{}}), subcards : BOOLEAN]

TypeOK ==
    /\ terms \in [Card -> Optional(Terms)]
    /\ chain \in [Card -> SUBSET Card]
    /\ start \in [Card -> Int]
    /\ clock \in 0 .. MaxClock
    /\ uses \in [Card -> Nat] /\ calls \in [Card -> Nat]
    /\ booked \in [Card -> [0 .. MaxClock -> Nat]]
    /\ moved \in [Card -> [0 .. MaxClock -> Nat]]

Init ==
    /\ terms = [c \in Card |-> None]
    /\ chain = [c \in Card |-> {}]
    /\ start = [c \in Card |-> 0]
    /\ clock = 0
    /\ uses = [c \in Card |-> 0] /\ calls = [c \in Card |-> 0]
    /\ booked = [c \in Card |-> [t \in 0 .. MaxClock |-> 0]]
    /\ moved = booked

-----------------------------------------------------------------------------
(* Terms                                                                   *)

Issued == {c \in Card : terms[c] # None}
HasPay(t) == t.period # None \/ t.lifetime # None

\* Selectors become canonical; a token on the list becomes a target, and
\* approve a selector.
Normalized(ct) ==
    LET listed == IF ct.tokens = None THEN {} ELSE ct.tokens IN
    [ct EXCEPT !.targets = @ \cup listed,
               !.selectors = {Canonical[s] : s \in @}
                             \cup (IF ct.tokens = None THEN {} ELSE {Approve})]

NormalizedTerms(t) ==
    IF t.contract = None THEN t ELSE [t EXCEPT !.contract = Normalized(@)]

IsPositive(x) == x # None => x > 0

\* validateTerms, of the terms once they are filled.
ValidTerms(t, now) ==
    /\ HasPay(t) \/ t.contract # None
    /\ t.period # None => t.period.amount > 0
    /\ IsPositive(t.lifetime) /\ IsPositive(t.maxUses) /\ IsPositive(t.perTxMax)
    /\ t.expiry # None => t.expiry > now
    /\ t.merchants # {}
    /\ t.contract # None =>
          /\ t.contract.targets # {} /\ t.contract.selectors # {}
          /\ t.contract.tokens # {} /\ IsPositive(t.contract.perTradeMax)

\* The target and method caveats also admit the fee, a transfer of USDC.
FeeSafeTargets(ct) == ct.targets \cup {Usdc}
FeeSafeSelectors(ct) == ct.selectors \cup {Transfer}

\* Mutant: one execution per use.
MutUnscaled(t) == t.maxUses

\* The limit of the LimitedCalls caveat, which counts executions: what one
\* redemption can hold at most, times the uses.
CallLimit(t) == t.maxUses * (IF t.contract = None THEN 2 ELSE MaxCalls + 1)

-----------------------------------------------------------------------------
(* What is spent, and what is left                                         *)

\* The sum of f over S, counted one by one.
Units(f, S) == UNION {{x} \X (1 .. f[x]) : x \in S}
Sum(f, S) == Cardinality(Units(f, S))

Subtree(c) == {d \in Card : c \in chain[d]}

\* Start of the period window of c that holds the present second.
WindowStart(c) ==
    LET s == terms[c].period.seconds IN
    start[c] + s * ((clock - start[c]) \div s)

Since(book, c, t) ==
    Sum([d \in Subtree(c) |-> Sum(book[d], {u \in 0 .. MaxClock : u >= t})], Subtree(c))

InWindow(book, c) == Since(book, c, WindowStart(c))
InLife(book, c) == Since(book, c, 0)
Total(count, c) == Sum(count, Subtree(c))

Left(cap, used) == IF cap > used THEN cap - used ELSE 0

\* parentRemaining.
Remaining(p) ==
    [period |-> IF terms[p].period = None THEN None
                ELSE Left(terms[p].period.amount, InWindow(booked, p)),
     lifetime |-> IF terms[p].lifetime = None THEN None
                  ELSE Left(terms[p].lifetime, InLife(booked, p))]

-----------------------------------------------------------------------------
(* attenuate: a child's terms against its parent's                         *)

Inherit(x, y) == IF x = None THEN y ELSE x
NoMore(x, y) == x # None /\ y # None => x <= y

PayFits(p, left, ask) ==
    HasPay(ask) =>
        /\ HasPay(p)
        /\ ask.period # None =>
              IF p.period # None THEN ask.period.amount <= p.period.amount
              ELSE ask.period.amount <= p.lifetime
        /\ NoMore(ask.lifetime, left.lifetime)

\* Mutant: the subset checks see the contract terms as they were asked for.
MutRawSurface(ct) == ct

\* Normalized first: the checks see the surface the child really gets.
Surface(ct) == Normalized(ct)

ContractFits(p, ask) ==
    ask.contract # None =>
        LET ct == Surface(ask.contract) IN
        /\ p.contract # None
        /\ ct.targets \subseteq p.contract.targets
        /\ ct.selectors \subseteq {Canonical[s] : s \in p.contract.selectors}
        /\ ct.tokens # None /\ p.contract.tokens # None =>
              ct.tokens \subseteq p.contract.tokens
        /\ NoMore(ct.perTradeMax, p.contract.perTradeMax)

Fits(p, left, ask) ==
    /\ PayFits(p, left, ask)
    /\ ContractFits(p, ask)
    /\ NoMore(ask.expiry, p.expiry)
    /\ ask.merchants # None /\ p.merchants # None =>
          ask.merchants \subseteq p.merchants
    /\ NoMore(ask.perTxMax, p.perTxMax)
    /\ NoMore(ask.maxUses, p.maxUses)

\* Omitted money terms: the parent's, up to what is left of them.
InheritedPeriod(p, left) ==
    IF p.period = None THEN None ELSE [p.period EXCEPT !.amount = left.period]

\* Mutant: the cap is inherited where the asked selectors hold approve.
MutEarlyCap(p, ct) ==
    IF ct.perTradeMax = None /\ Approve \in ct.selectors
    THEN p.perTradeMax ELSE ct.perTradeMax

\* The allowance cap is inherited by a child that may approve.
TradeCap(p, ct) ==
    IF ct.perTradeMax = None /\ Approve \in Normalized(ct).selectors
    THEN p.perTradeMax ELSE ct.perTradeMax

FilledContract(p, ask) ==
    IF ask.contract = None THEN None
    ELSE [Normalized(ask.contract) EXCEPT
              !.perTradeMax = TradeCap(p.contract, ask.contract)]

Attenuated(p, left, ask) ==
    [ask EXCEPT
        !.period = IF HasPay(ask) THEN @ ELSE InheritedPeriod(p, left),
        !.lifetime = IF HasPay(ask) THEN @ ELSE left.lifetime,
        !.contract = FilledContract(p, ask),
        !.expiry = Inherit(@, p.expiry),
        !.merchants = Inherit(@, p.merchants),
        !.perTxMax = Inherit(@, p.perTxMax)]

-----------------------------------------------------------------------------
(* Issuance                                                                *)

Enroll(c, t, above) ==
    /\ terms' = [terms EXCEPT ![c] = t]
    /\ chain' = [chain EXCEPT ![c] = above \cup {c}]
    /\ start' = [start EXCEPT ![c] = clock - Backdate]
    /\ UNCHANGED <<clock, uses, booked, moved, calls>>

IssueRoot(c, t) ==
    /\ c \notin Issued
    /\ ValidTerms(t, clock)
    /\ Enroll(c, NormalizedTerms(t), {})

IssueSub(p, c, ask) ==
    LET t == Attenuated(terms[p], Remaining(p), ask) IN
    /\ p \in Issued /\ c \notin Issued
    /\ terms[p].subcards
    /\ Fits(terms[p], Remaining(p), ask)
    /\ ValidTerms(t, clock)
    /\ Enroll(c, t, chain[p])

-----------------------------------------------------------------------------
(* Redemptions                                                             *)

\* A payment: the work transfer and the fee.  An execute: its calls, one after
\* the other, and the fee.
Payments == [mode : {"pay"}, to : Address, amount : Amounts]
Executes ==
    [mode : {"contract"}, calls : SUBSET (Address \X {Canonical[s] : s \in Sig}),
     count : 1 .. MaxCalls]
Redemptions == Payments \cup {r \in Executes : Cardinality(r.calls) \in 1 .. r.count}

Executions(r) == IF r.mode = "pay" THEN 2 ELSE r.count + 1
Atoms(r) == IF r.mode = "pay" THEN r.amount + Fee ELSE Fee

\* The terms a redemption is judged by alone, on each card of the chain.
ModeAllows(t, r) ==
    IF r.mode = "pay"
    THEN /\ t.merchants # None => r.to \in t.merchants
         /\ t.perTxMax # None => r.amount <= t.perTxMax
    ELSE t.contract # None =>
            \A x \in r.calls :
                x[1] \in t.contract.targets
                /\ x[2] \in {Canonical[s] : s \in t.contract.selectors}

\* Use count and money caps: fee included, the whole subtree counted.
BudgetAllows(a, r) ==
    LET t == terms[a] IN
    /\ t.maxUses # None => Total(uses, a) < t.maxUses
    /\ t.period # None => InWindow(booked, a) + Atoms(r) <= t.period.amount
    /\ t.lifetime # None => InLife(booked, a) + Atoms(r) <= t.lifetime

\* The tool is offered for the card, its chain has not expired, validateSpend
\* does not refuse.
Admits(c, r) ==
    /\ IF r.mode = "pay" THEN HasPay(terms[c]) ELSE terms[c].contract # None
    /\ \A a \in chain[c] :
          /\ terms[a].expiry # None => clock < terms[a].expiry
          /\ ModeAllows(terms[a], r)
          /\ BudgetAllows(a, r)

\* The enforcers of one delegation.  A composite card's caveats are the pay
\* group or the contract group, whichever the redemption selects.
EnforcersAllow(a, r) ==
    LET t == terms[a] IN
    /\ t.expiry # None => clock < t.expiry
    /\ t.maxUses # None => Total(calls, a) + Executions(r) <= CallLimit(t)
    /\ IF r.mode = "pay"
       THEN /\ HasPay(t)
            /\ t.period # None => InWindow(moved, a) + Atoms(r) <= t.period.amount
            /\ t.lifetime # None => InLife(moved, a) + Atoms(r) <= t.lifetime
       ELSE /\ t.contract # None
            /\ \A x \in r.calls \cup {<<Usdc, Transfer>>} :
                  x[1] \in FeeSafeTargets(t.contract)
                  /\ x[2] \in FeeSafeSelectors(t.contract)

Add(book, c, n) == [book EXCEPT ![c][clock] = @ + n]

\* A redemption the server admits is mined, or nothing comes of it.
Redeem(c, r) ==
    /\ c \in Issued
    /\ Sum(uses, Card) < MaxRedeemed
    /\ Admits(c, r)
    /\ uses' = [uses EXCEPT ![c] = @ + 1]
    /\ calls' = [calls EXCEPT ![c] = @ + Executions(r)]
    /\ booked' = Add(booked, c, Atoms(r))
    /\ moved' = IF r.mode = "pay" THEN Add(moved, c, Atoms(r)) ELSE moved
    /\ UNCHANGED <<terms, chain, start, clock>>

Tick ==
    /\ clock < MaxClock
    /\ clock' = clock + 1
    /\ UNCHANGED <<terms, chain, start, uses, booked, moved, calls>>

Next ==
    \/ \E c \in Card, t \in RootTerms : IssueRoot(c, t)
    \/ \E p, c \in Card, ask \in Asks : IssueSub(p, c, ask)
    \/ \E c \in Card, r \in Redemptions : Redeem(c, r)
    \/ Tick

Spec == Init /\ [][Next]_vars

-----------------------------------------------------------------------------
(* What the handing down promises.                                         *)

\* The optional bound y holds for whoever is bound by x.
Implies(x, y) == y # None => x # None /\ x <= y

Narrower(t, u) ==
    /\ HasPay(t) => HasPay(u)
    /\ t.contract # None =>
          /\ u.contract # None
          /\ t.contract.targets \subseteq u.contract.targets
          /\ t.contract.selectors \subseteq u.contract.selectors
    /\ Implies(t.expiry, u.expiry)
    /\ Implies(t.perTxMax, u.perTxMax)
    /\ u.merchants # None =>
          t.merchants # None /\ t.merchants \subseteq u.merchants

\* However deep the tree and whatever its agents ask for or leave out, a card's
\* own terms never reach beyond those of any ancestor: no new capability, call
\* target, method or recipient, no later expiry, no larger payment.
NeverWider ==
    \A c \in Issued : \A a \in chain[c] : Narrower(terms[c], terms[a])

\* A card that may approve is under the allowance cap of every ancestor, although
\* the cap skips children that cannot approve and a token list adds approve.
ApproveIsCapped ==
    \A c \in Issued : \A a \in chain[c] :
        /\ terms[c].contract # None /\ terms[a].contract # None
        /\ Approve \in terms[c].contract.selectors
        => Implies(terms[c].contract.perTradeMax, terms[a].contract.perTradeMax)

\* The server is the binding limit: what its walk over the chain admits, the
\* enforcers of every delegation on the chain admit, whatever was redeemed
\* before and by whom.
ChainAgrees ==
    \A c \in Issued, r \in Redemptions :
        Admits(c, r) => \A a \in chain[c] : EnforcersAllow(a, r)
=============================================================================
