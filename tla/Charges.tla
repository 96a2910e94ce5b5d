------------------------------- MODULE Charges -------------------------------
(***************************************************************************)
(* The charges table and the accounting that reads it (store.ts), and the  *)
(* refusal engine built on that accounting (validateSpend in spend.ts).    *)
(* Every operator takes the table as a parameter, so that the modules that *)
(* own the table can ask about its current and its next value.             *)
(***************************************************************************)
EXTENDS CardTree

CONSTANTS
    Call,    \* agent requests; a request that books a row names the row
    Fiat,    \* card-network authorizations; each books one row
    Key,     \* idempotency keys
    NoKey,   \* idempotency_key = null
    NoTx     \* tx_hash = null

Charge == Call \cup Fiat

ChargesAssumption ==
    /\ IsFiniteSet(Call) /\ IsFiniteSet(Fiat)
    /\ Call \cap Fiat = {}
    /\ NoKey \notin Key
    /\ NoTx \notin Call

ASSUME ChargesAssumption

\* "absent" stands for a row that is not in the table (or was deleted).
ChargeStatus ==
    {"absent", "pending", "confirmed", "failed", "settlement_unconfirmed"}

\* request_id is abstracted to what the code asks of it: null, the claim of a
\* settlement about to be broadcast, or the id the relayer returned.
ChargeRow ==
    [card : Card, key : Key \cup {NoKey}, kind : {"pay", "x402", "fiat"},
     amount : Nat, fee : Nat, request : {"null", "claim", "sent"},
     since : Nat, tx : Call \cup {NoTx}, status : ChargeStatus, created : Nat]

NoRow ==
    [card |-> CHOOSE c \in Card : TRUE, key |-> NoKey, kind |-> "pay",
     amount |-> 0, fee |-> 0, request |-> "null", since |-> 0, tx |-> NoTx,
     status |-> "absent", created |-> 0]

NewRow(card, key, kind, amount, fee, now) ==
    [card |-> card, key |-> key, kind |-> kind, amount |-> amount, fee |-> fee,
     request |-> "null", since |-> 0, tx |-> NoTx, status |-> "pending",
     created |-> now]

-----------------------------------------------------------------------------
(* Accounting: amount + fee, everything but failed rows, subtree-wide.     *)

\* Mutant: a card is charged for its own rows only.
MutOwnCharges(rows, c) ==
    {i \in Charge : /\ rows[i].status \notin {"absent", "failed"}
                    /\ rows[i].card = c}

\* The rows that weigh on card c: every row of its subtree that has not failed.
SubtreeCharges(rows, c) ==
    {i \in Charge : /\ rows[i].status \notin {"absent", "failed"}
                    /\ rows[i].card \in SubtreeIds[c]}

\* The sum of f over the rows of S, counted atom by atom.
Atoms(S, f) == Cardinality(UNION {{i} \X (1 .. f[i]) : i \in S})

Total(rows) == [i \in Charge |-> rows[i].amount + rows[i].fee]

SubtreeSpentSince(rows, c, start) ==
    Atoms({i \in SubtreeCharges(rows, c) : rows[i].created >= start},
          Total(rows))

SubtreeSpentLifetime(rows, c) == SubtreeSpentSince(rows, c, 0)

SubtreeUsesCount(rows, c) == Cardinality(SubtreeCharges(rows, c))

-----------------------------------------------------------------------------
(* The refusal engine, as predicates: TRUE where the code does not throw.  *)

\* assertChainSpendable
ChainSpendable(status, card, now) ==
    \A a \in AncestorChain[card] :
        /\ status[a] = "active"
        /\ a \in DOMAIN Expiry => now < Expiry[a]

\* The money caps and the use count of validateSpend; `total` includes the fee.
\* What it checks of the request alone (merchants, contract scope) is taken to
\* have passed: it reads no state.
ValidateSpend(rows, card, amount, total, now) ==
    \A a \in AncestorChain[card] :
        /\ a \in DOMAIN PerTxMax => amount <= PerTxMax[a]
        /\ a \in DOMAIN MaxUses => SubtreeUsesCount(rows, a) < MaxUses[a]
        /\ a \in DOMAIN PeriodCap =>
              SubtreeSpentSince(rows, a, PeriodWindowStart(a, now)) + total
                 <= PeriodCap[a]
        /\ a \in DOMAIN LifetimeCap =>
              SubtreeSpentLifetime(rows, a) + total <= LifetimeCap[a]

-----------------------------------------------------------------------------
(* What the card tool and the dashboard show.                              *)

\* Mutant: what a sub-card spent is not on its parent's meter.
MutOwnMeter(rows, c, start) ==
    Atoms({i \in SubtreeCharges(rows, c) : rows[i].card = c /\ rows[i].created >= start},
          Total(rows))

\* The spending a meter counts.
Metered(rows, c, start) == SubtreeSpentSince(rows, c, start)

Left(cap, used) == IF cap > used THEN cap - used ELSE 0

\* cardState's status: a card that is active until it has expired.
ShownStatus(status, c, now) ==
    IF status[c] = "active" /\ c \in DOMAIN Expiry /\ now >= Expiry[c]
    THEN "expired" ELSE status[c]

\* cardState's three meters, of the cards that have them.
RemainingThisPeriod(rows, c, now) ==
    Left(PeriodCap[c], Metered(rows, c, PeriodWindowStart(c, now)))

RemainingLifetime(rows, c) == Left(LifetimeCap[c], Metered(rows, c, 0))

UsesRemaining(rows, c) == Left(MaxUses[c], SubtreeUsesCount(rows, c))

\* The card tool of every card of the chain reads that `cost` can be spent.
MetersAllow(rows, status, card, cost, now) ==
    \A a \in AncestorChain[card] :
        /\ ShownStatus(status, a, now) = "active"
        /\ a \in DOMAIN MaxUses => UsesRemaining(rows, a) > 0
        /\ a \in DOMAIN PeriodCap => cost <= RemainingThisPeriod(rows, a, now)
        /\ a \in DOMAIN LifetimeCap => cost <= RemainingLifetime(rows, a)

-----------------------------------------------------------------------------
(* The queries that pick rows for replay and for the sweeps.               *)

ChargeByIdempotency(rows, card, key) ==
    {i \in Charge : /\ key # NoKey
                    /\ rows[i].status # "absent"
                    /\ rows[i].card = card
                    /\ rows[i].key = key}

\* Mutant: the two sweeps' filters on request_id are swapped.
MutPendingUnsent(rows, before) ==
    {i \in Charge : /\ rows[i].status = "pending"
                    /\ rows[i].request = "null"
                    /\ rows[i].created < before}

PendingChargesOlderThan(rows, before) ==
    {i \in Charge : /\ rows[i].status = "pending"
                    /\ rows[i].request # "null"
                    /\ rows[i].created < before}

\* Mutant: the other half of the swap.
MutX402Sent(rows, before) ==
    {i \in Charge : /\ rows[i].status = "pending"
                    /\ rows[i].kind = "x402"
                    /\ rows[i].request # "null"
                    /\ rows[i].created < before}

PendingX402ChargesOlderThan(rows, before) ==
    {i \in Charge : /\ rows[i].status = "pending"
                    /\ rows[i].kind = "x402"
                    /\ rows[i].request = "null"
                    /\ rows[i].created < before}

UnsettledFiatCharges(rows) ==
    {i \in Charge : /\ rows[i].status = "pending"
                    /\ rows[i].kind = "fiat"
                    /\ rows[i].request = "null"}

-----------------------------------------------------------------------------
(* What the limits mean, stated without the store's queries.               *)

\* The charges that hold budget of card c: c is in the chain of their card.
ChargedTo(rows, c) ==
    {i \in Charge : /\ rows[i].status \notin {"absent", "failed"}
                    /\ c \in AncestorChain[rows[i].card]}

\* Those of them in the window of c that holds instant t.
WindowCharges(rows, c, t) ==
    {i \in ChargedTo(rows, c) :
        PeriodWindowStart(c, rows[i].created) = PeriodWindowStart(c, t)}

\* What an approval committed a card to.  The fee a settlement adds later was
\* never weighed against the budget: the chain is the only check on it.
Approved(rows) ==
    [i \in Charge |-> IF rows[i].kind = "fiat" THEN rows[i].amount
                      ELSE rows[i].amount + rows[i].fee]

UsesWithin(rows, c) == Cardinality(ChargedTo(rows, c)) <= MaxUses[c]

LifetimeWithin(rows, c) ==
    Atoms(ChargedTo(rows, c), Approved(rows)) <= LifetimeCap[c]

PeriodWithin(rows, c, t) ==
    Atoms(WindowCharges(rows, c, t), Approved(rows)) <= PeriodCap[c]
=============================================================================
