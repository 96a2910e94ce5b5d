-------------------------------- MODULE Spend --------------------------------
(***************************************************************************)
(* The spend pipeline: spend(), buildX402Payload()/paid_fetch, the fiat    *)
(* leg, confirmRedemption() and reconcilePending(), over the charges table *)
(* and the card statuses.                                                  *)
(*                                                                         *)
(* JavaScript runs one section of code from await to await, so each action *)
(* is the code between two awaits; what the other sections, the relayer,   *)
(* the chain, a seller or the user do in the gap are other actions.        *)
(* The relayer, the chain, the sellers and the card network are not code   *)
(* of this repository: their actions are what the code assumes of them.    *)
(***************************************************************************)
EXTENDS Charges, Sequences

CONSTANTS
    Lanes,          \* the lanes in use: a subset of {"pay", "x402", "fiat"}
    OwnerMoves,     \* the owner's switches in use: of {"freeze", "revoke", "nuke"}
    Faults,         \* the faults the environment may show, see FaultNames
    Amounts,        \* amounts an agent asks for, in atoms
    Fees,           \* fee values, in atoms (minFee plus jitter)
    Headroom,       \* X402_FEE_HEADROOM_ATOMS
    EstimateRetries,\* ESTIMATE_RETRIES
    Cutoff,         \* olderThanSeconds of the reconcile sweep, in clock ticks
    LastStart,      \* bound: no request starts after this instant
    MaxClock        \* bound: the last instant

FaultNames ==
    { "crash",      \* the server process dies between two awaits
      "headBlip",   \* getBlockNumber() throws before a send
      "lostReply",  \* send() throws although the relayer got the transaction
      "scanBlip",   \* getLogs() throws inside a confirmation poll
      "early500",   \* the relayer says 500 for a transaction not dropped
      "slow",       \* a call or a transaction outlives the sweep's cutoff
      "feeClash" }  \* two redemptions draw the same jittered fee

SpendAssumption ==
    /\ Lanes \subseteq {"pay", "x402", "fiat"}
    /\ OwnerMoves \subseteq {"freeze", "revoke", "nuke"}
    /\ Faults \subseteq FaultNames
    /\ Amounts \subseteq Nat
    /\ Fees \subseteq Nat \ {0}
    /\ Headroom \in Nat /\ \A f \in Fees : f <= Headroom
    /\ EstimateRetries \in Nat
    /\ Cutoff \in Nat /\ LastStart \in Nat /\ MaxClock \in Nat

ASSUME SpendAssumption

VARIABLES
    clock,   \* now
    status,  \* cards.status
    rows,    \* the charges table
    queue,   \* KeyedMutex: the calls that hold or await each key, in order
    call,    \* the requests in the server
    wire,    \* the redemption a call has sent: relayer and chain
    log,     \* the fee-leg transfers on chain, oldest first
    sweep    \* the reconcile sweep in progress

vars == <<clock, status, rows, queue, call, wire, log, sweep>>

-----------------------------------------------------------------------------

\* Where a request is parked: the await it is in.
Phase == {"idle", "queued", "fee", "estimate", "head", "sending",
          "confirming", "sign", "seller", "done"}

\* What a confirmation has been told so far: nothing that ends it, a 500, or a 500
\* and then that the log has no fee leg.
Hint == {"none", "500", "no leg"}

CallState ==
    [lane : {"pay", "settle", "x402"}, card : Card, key : Key \cup {NoKey},
     amount : Nat, row : Charge, phase : Phase, now : Nat, fee : Nat,
     tries : Nat, since : Nat, hint : Hint]

\* A redemption: not sent, on its way to the relayer, accepted, mined, or lost.
Wire == {"none", "posted", "queued", "landed", "dropped"}

Sweep == [phase : {"idle", "head", "apply"}, stale : SUBSET Charge, upto : Nat]

TypeOK ==
    /\ clock \in Nat
    /\ status \in [Card -> CardStatus]
    /\ rows \in [Charge -> ChargeRow]
    /\ queue \in [Card -> Seq(Call)]
    /\ call \in [Call -> CallState]
    /\ wire \in [Call -> Wire]
    /\ log \in Seq(Call)
    /\ sweep \in Sweep

IdleCall(p) ==
    [lane |-> "pay", card |-> CHOOSE c \in Card : TRUE, key |-> NoKey,
     amount |-> 0, row |-> p, phase |-> "idle", now |-> 0, fee |-> 0,
     tries |-> 0, since |-> 0, hint |-> "none"]

IdleSweep == [phase |-> "idle", stale |-> {}, upto |-> 0]

Init ==
    /\ clock = 0
    /\ status = [c \in Card |-> "active"]
    /\ rows = [i \in Charge |-> NoRow]
    /\ queue = [c \in Card |-> <<>>]
    /\ call = [p \in Call |-> IdleCall(p)]
    /\ wire = [p \in Call |-> "none"]
    /\ log = <<>>
    /\ sweep = IdleSweep

-----------------------------------------------------------------------------
(* Helpers                                                                 *)

\* The awaits inside the section that holds the card tree's mutex.
InSection(p) ==
    call[p].phase \in {"fee", "estimate", "head", "sending", "confirming", "sign"}

Live(p) == InSection(p) \/ call[p].phase = "seller"

MyKey(p) == SpendKey[call[p].card]

\* Mutant: no mutex, so that every waiting caller goes in at once.
MutNoMutex(p) == call[p].phase = "queued"

\* p is the caller whose turn it is.
MyTurn(p) ==
    /\ call[p].phase = "queued"
    /\ queue[MyKey(p)] # <<>>
    /\ Head(queue[MyKey(p)]) = p

\* Mutant: the tail of the key's queue is not moved on.
MutNoRelease(p) == queue

Release(p) == [queue EXCEPT ![MyKey(p)] = Tail(@)]

\* The section of p ends, by a return or by a throw: the next caller is let in.
Leave(p) ==
    /\ call' = [call EXCEPT ![p].phase = "done"]
    /\ queue' = Release(p)

Settling(p) == call[p].lane = "settle"

SetStatus(i, s) == [rows EXCEPT ![i].status = s]

\* A fee drawn with jitter: at least `floor`; nobody else's unless fees clash.
JitteredFee(p, floor) ==
    {f \in Fees :
        /\ f >= floor
        /\ "feeClash" \in Faults \/ \A q \in Call \ {p} : call[q].fee # f}

\* Mutant: a settlement row is failed like any other.
MutFailAlways(p) == rows' = SetStatus(call[p].row, "failed")

\* The rest of a failed pass over a row: the budget of a pay row is released, a
\* settlement row keeps holding its own.
FailUnlessSettling(p) ==
    rows' = IF Settling(p) THEN rows ELSE SetStatus(call[p].row, "failed")

-----------------------------------------------------------------------------
(* Entry: a tool call waits for the mutex of its card tree.                *)

EnterPay(p, c, k, a) ==
    /\ "pay" \in Lanes
    /\ call[p].phase = "idle" /\ clock <= LastStart
    /\ call' = [call EXCEPT ![p].lane = "pay", ![p].card = c, ![p].key = k,
                            ![p].amount = a, ![p].phase = "queued"]
    /\ queue' = [queue EXCEPT ![SpendKey[c]] = Append(@, p)]
    /\ UNCHANGED <<clock, status, rows, wire, log, sweep>>

EnterX402(p, c, a) ==
    /\ "x402" \in Lanes
    /\ call[p].phase = "idle" /\ clock <= LastStart
    /\ call' = [call EXCEPT ![p].lane = "x402", ![p].card = c,
                            ![p].amount = a, ![p].phase = "queued"]
    /\ queue' = [queue EXCEPT ![SpendKey[c]] = Append(@, p)]
    /\ UNCHANGED <<clock, status, rows, wire, log, sweep>>

\* The settlement executor re-drives an unsettled fiat row through spend().
EnterSettle(p, f) ==
    /\ call[p].phase = "idle" /\ clock <= LastStart
    /\ f \in UnsettledFiatCharges(rows)
    /\ call' = [call EXCEPT ![p].lane = "settle", ![p].card = rows[f].card,
                            ![p].amount = rows[f].amount, ![p].row = f,
                            ![p].phase = "queued"]
    /\ queue' = [queue EXCEPT ![SpendKey[rows[f].card]] = Append(@, p)]
    /\ UNCHANGED <<clock, status, rows, wire, log, sweep>>

-----------------------------------------------------------------------------
(* spend(), from its start to the reservation.                             *)

\* Mutant: any failure may be retried, broadcast or not.
MutRetryAnyFailure(i) == rows[i].status = "failed"

\* A charge that failed before it was ever broadcast may be attempted again.
Retryable(i) == rows[i].status = "failed" /\ rows[i].request = "null"

\* The rows that answer p instead of a new attempt.
Replayed(p) ==
    IF Settling(p)
    THEN {i \in {call[p].row} :
             rows[i].status # "pending" \/ rows[i].request # "null"}
    ELSE {i \in ChargeByIdempotency(rows, call[p].card, call[p].key) :
             ~Retryable(i)}

\* The table once the dead row under p's key is gone.
Cleared(p) ==
    IF Settling(p) THEN rows
    ELSE [i \in Charge |->
             IF i \in ChargeByIdempotency(rows, call[p].card, call[p].key)
             THEN NoRow ELSE rows[i]]

\* The idempotency key, or the settled row, already has its answer.
Replay(p) ==
    /\ MyTurn(p) /\ call[p].lane # "x402"
    /\ Replayed(p) # {}
    /\ Leave(p)
    /\ UNCHANGED <<clock, status, rows, wire, log, sweep>>

\* `now` is captured here and used to the end of the call.
Begin(p) ==
    /\ MyTurn(p) /\ call[p].lane # "x402"
    /\ Replayed(p) = {}
    /\ rows' = Cleared(p)
    /\ IF ChainSpendable(status, call[p].card, clock)
       THEN /\ call' = [call EXCEPT ![p].phase = "fee", ![p].now = clock]
            /\ queue' = queue
       ELSE Leave(p)
    /\ UNCHANGED <<clock, status, wire, log, sweep>>

Validated(p, fee) ==
    \/ Settling(p)
    \/ ValidateSpend(rows, call[p].card, call[p].amount, call[p].amount + fee,
                     call[p].now)

\* getFeeData() answered.
QuoteFee(p, fee) ==
    /\ call[p].phase = "fee"
    /\ fee \in JitteredFee(p, 0)
    /\ Validated(p, fee)
    /\ call' = [call EXCEPT ![p].phase = "estimate", ![p].fee = fee,
                            ![p].tries = 1]
    /\ UNCHANGED <<clock, status, rows, queue, wire, log, sweep>>

\* The estimate asks for more than the fee: rebuild with a higher one.
RaiseFee(p, fee) ==
    /\ call[p].phase = "estimate"
    /\ call[p].tries < EstimateRetries
    /\ fee \in JitteredFee(p, call[p].fee + 1)
    /\ Validated(p, fee)
    /\ call' = [call EXCEPT ![p].fee = fee, ![p].tries = @ + 1]
    /\ UNCHANGED <<clock, status, rows, queue, wire, log, sweep>>

\* Nothing is booked yet: a refusal of validateSpend or of the chain, an RPC or
\* relayer error, a fee that keeps rising all end the call without a trace.
Abort(p) ==
    /\ call[p].phase \in {"fee", "estimate", "sign"}
    /\ Leave(p)
    /\ UNCHANGED <<clock, status, rows, wire, log, sweep>>

\* Mutant: the check of the fee quote is trusted across the estimate.
MutNoFinalCheck(p) == TRUE

FinalCheck(p) == Validated(p, call[p].fee)

\* The estimate fits: validate once more and book the row, with no await between.
\* A settlement only adds its fee to the row the webhook booked.
Reserve(p) ==
    /\ call[p].phase = "estimate"
    /\ FinalCheck(p)
    /\ LET cl == call[p] IN
       rows' = IF Settling(p)
               THEN [rows EXCEPT ![cl.row].fee = cl.fee]
               ELSE [rows EXCEPT ![p] = NewRow(cl.card, cl.key, "pay",
                                               cl.amount, cl.fee, cl.now)]
    /\ call' = [call EXCEPT ![p].phase = "head"]
    /\ UNCHANGED <<clock, status, queue, wire, log, sweep>>

-----------------------------------------------------------------------------
(* spend(), the broadcast.                                                 *)

\* getBlockNumber() throws: nothing catches it, the row stays as it is.
HeadFails(p) ==
    /\ "headBlip" \in Faults
    /\ call[p].phase = "head"
    /\ Leave(p)
    /\ UNCHANGED <<clock, status, rows, wire, log, sweep>>

\* Mutant: the statuses are looked at when the call starts, not again.
MutNoSecondLook(p) == TRUE

\* The second look at the card statuses, with the `now` of the call's start.
StillSpendable(p) == ChainSpendable(status, call[p].card, call[p].now)

RefuseBroadcast(p) ==
    /\ call[p].phase = "head"
    /\ ~StillSpendable(p)
    /\ FailUnlessSettling(p)
    /\ Leave(p)
    /\ UNCHANGED <<clock, status, wire, log, sweep>>

\* Mutant: a settlement is broadcast without a claim on its row.
MutNoClaim(p) == rows

\* A settlement claims its row before the broadcast.
Claimed(p) ==
    IF Settling(p)
    THEN [rows EXCEPT ![call[p].row].request = "claim",
                      ![call[p].row].since = Len(log)]
    ELSE rows

Broadcast(p) ==
    /\ call[p].phase = "head"
    /\ StillSpendable(p)
    /\ rows' = Claimed(p)
    /\ wire' = [wire EXCEPT ![p] = "posted"]
    /\ call' = [call EXCEPT ![p].phase = "sending", ![p].since = Len(log)]
    /\ UNCHANGED <<clock, status, queue, log, sweep>>

\* send() returned a request id.
SendReturns(p) ==
    /\ call[p].phase = "sending"
    /\ wire[p] \in {"queued", "landed", "dropped"}
    /\ rows' = [rows EXCEPT ![call[p].row].request = "sent",
                            ![call[p].row].since = call[p].since]
    /\ call' = [call EXCEPT ![p].phase = "confirming"]
    /\ UNCHANGED <<clock, status, queue, wire, log, sweep>>

\* send() threw: the relayer rejected the transaction, or its answer was lost.
SendFails(p) ==
    /\ call[p].phase = "sending"
    /\ \/ wire[p] = "posted" /\ wire' = [wire EXCEPT ![p] = "dropped"]
       \/ "lostReply" \in Faults /\ UNCHANGED wire
    /\ FailUnlessSettling(p)
    /\ Leave(p)
    /\ UNCHANGED <<clock, status, log, sweep>>

-----------------------------------------------------------------------------
(* confirmRedemption(): its polls, and the end of the call.  The status, the *)
(* log scan and the verdict on the row are an await apart from each other.  *)

\* Mutant: any fee leg since the send will do.
MutAnyFeeLeg(fee, since, upto) == {j \in 1 .. upto : j >= since}

\* The places in the log of the fee legs of value `fee`, from block `since` on;
\* each redemption is mined in a block of its own, the block of its place.
FeeLegs(fee, since, upto) ==
    {j \in 1 .. upto : j >= since /\ call[log[j]].fee = fee}

MyFeeLegs(p) == FeeLegs(call[p].fee, call[p].since, Len(log))

\* The relayer's status of the redemption: 200 and 500 are hints.
Status200(p) == wire[p] = "landed"
Status500(p) ==
    \/ wire[p] = "dropped"
    \/ "early500" \in Faults /\ wire[p] \in {"queued", "landed"}

ConfirmBy(p, q) ==
    /\ rows' = [rows EXCEPT ![call[p].row].status = "confirmed",
                            ![call[p].row].tx = q]
    /\ Leave(p)
    /\ UNCHANGED <<clock, status, wire, log, sweep>>

Polling(p, hint) == call[p].phase = "confirming" /\ call[p].hint = hint

Told(p, hint) ==
    /\ call' = [call EXCEPT ![p].hint = hint]
    /\ UNCHANGED <<clock, status, rows, queue, wire, log, sweep>>

ConfirmByStatus(p) ==
    /\ Polling(p, "none")
    /\ Status200(p)
    /\ ConfirmBy(p, p)

\* A 500 is not believed before the log has been asked.
ToldReverted(p) ==
    /\ Polling(p, "none")
    /\ Status500(p)
    /\ Told(p, "500")

\* The first fee leg of the right value is taken for this redemption's.
ConfirmByLog(p) ==
    /\ Polling(p, "none") \/ Polling(p, "500")
    /\ \E j \in MyFeeLegs(p) :
          /\ \A k \in MyFeeLegs(p) : j <= k
          /\ ConfirmBy(p, log[j])

\* Mutant: the relayer's 500 is believed.
MutBelieve500(p) == TRUE

\* A log scan that throws counts as one that found nothing.
NoFeeLegSeen(p) == MyFeeLegs(p) = {} \/ "scanBlip" \in Faults

\* The node answers with the log it has by then.
ScanFindsNothing(p) ==
    /\ Polling(p, "500")
    /\ NoFeeLegSeen(p)
    /\ Told(p, "no leg")

\* 500 and no fee leg: reverted, whatever was mined since the node answered.  An
\* approved fiat charge is flagged instead.
ConfirmReverted(p) ==
    /\ Polling(p, "no leg")
    /\ rows' = SetStatus(call[p].row, IF Settling(p)
                                      THEN "settlement_unconfirmed"
                                      ELSE "failed")
    /\ Leave(p)
    /\ UNCHANGED <<clock, status, wire, log, sweep>>

\* Mutant: a confirmation that times out fails the row.
MutTimeoutFails(p) ==
    /\ call[p].phase = "confirming"
    /\ FailUnlessSettling(p)
    /\ Leave(p)
    /\ UNCHANGED <<clock, status, wire, log, sweep>>

\* Mutant: a confirmation that times out is taken for a landed redemption.
MutTimeoutConfirms(p) == call[p].phase = "confirming" /\ ConfirmBy(p, p)

\* 90 s went by, or getStatus() threw: the row is left to the sweep.
ConfirmTimesOut(p) ==
    /\ Polling(p, "none")
    /\ Leave(p)
    /\ UNCHANGED <<clock, status, rows, wire, log, sweep>>

-----------------------------------------------------------------------------
(* paid_fetch: buildX402Payload() under the mutex, the seller outside it.  *)

X402Validated(p) ==
    /\ ChainSpendable(status, call[p].card, clock)
    /\ ValidateSpend(rows, call[p].card, call[p].amount,
                     call[p].amount + Headroom, clock)

\* The checks of buildX402Payload, up to the await that signs the leaf.
BeginX402(p) ==
    /\ MyTurn(p) /\ call[p].lane = "x402"
    /\ IF X402Validated(p)
       THEN /\ call' = [call EXCEPT ![p].phase = "sign", ![p].now = clock]
            /\ queue' = queue
       ELSE Leave(p)
    /\ UNCHANGED <<clock, status, rows, wire, log, sweep>>

\* The leaf is signed: book the row, release the mutex, hand out the payload.
\* `fee` is what the seller's facilitator will charge.
CarveX402(p, fee) ==
    /\ call[p].phase = "sign"
    /\ fee \in JitteredFee(p, 0)
    /\ rows' = [rows EXCEPT ![p] = NewRow(call[p].card, NoKey, "x402",
                                          call[p].amount, Headroom,
                                          call[p].now)]
    /\ call' = [call EXCEPT ![p].phase = "seller", ![p].fee = fee]
    /\ queue' = Release(p)
    /\ wire' = [wire EXCEPT ![p] = "queued"]
    /\ UNCHANGED <<clock, status, log, sweep>>

\* The retry of the fetch threw or was refused by the seller.
SellerRefuses(p) ==
    /\ call[p].phase = "seller"
    /\ rows' = SetStatus(p, "failed")
    /\ call' = [call EXCEPT ![p].phase = "done"]
    /\ UNCHANGED <<clock, status, queue, wire, log, sweep>>

\* The seller served; its receipt may name the transaction, the fee, or nothing.
SellerServes(p, tx, fee) ==
    /\ call[p].phase = "seller"
    /\ tx = NoTx \/ (tx = p /\ wire[p] = "landed")
    /\ fee \in {0, call[p].fee}
    /\ rows' = [rows EXCEPT ![p].status = IF tx = NoTx
                                          THEN "settlement_unconfirmed"
                                          ELSE "confirmed",
                            ![p].tx = tx, ![p].fee = fee]
    /\ call' = [call EXCEPT ![p].phase = "done"]
    /\ UNCHANGED <<clock, status, queue, wire, log, sweep>>

-----------------------------------------------------------------------------
(* The card network's webhook: decide and insert in one synchronous step,  *)
(* without the mutex.                                                      *)

FiatAuthorize(f, c, a) ==
    /\ "fiat" \in Lanes
    /\ clock <= LastStart
    /\ rows[f].status = "absent"
    /\ ChainSpendable(status, c, clock)
    /\ ValidateSpend(rows, c, a, a, clock)
    /\ rows' = [rows EXCEPT ![f] = NewRow(c, NoKey, "fiat", a, 0, clock)]
    /\ UNCHANGED <<clock, status, queue, call, wire, log, sweep>>

-----------------------------------------------------------------------------
(* reconcilePending(), every five minutes.                                 *)

\* The stale rows are read, orphaned x402 reservations are released.
SweepStart ==
    LET stale == PendingChargesOlderThan(rows, clock - Cutoff)
        orphans == PendingX402ChargesOlderThan(rows, clock - 6 * Cutoff)
    IN  /\ sweep.phase = "idle"
        /\ stale # {} \/ orphans # {}
        /\ rows' = [i \in Charge |-> IF i \in orphans
                                     THEN [rows[i] EXCEPT !.status = "failed"]
                                     ELSE rows[i]]
        /\ sweep' = IF stale = {} THEN IdleSweep
                    ELSE [phase |-> "head", stale |-> stale, upto |-> 0]
        /\ UNCHANGED <<clock, status, queue, call, wire, log>>

\* The node answers the log scan with the logs it has by then.
SweepScan ==
    /\ sweep.phase = "head"
    /\ sweep' = [sweep EXCEPT !.phase = "apply", !.upto = Len(log)]
    /\ UNCHANGED <<clock, status, rows, queue, call, wire, log>>

\* The node does not answer: the next sweep will try again.
SweepFails ==
    /\ sweep.phase \in {"head", "apply"}
    /\ sweep' = IdleSweep
    /\ UNCHANGED <<clock, status, rows, queue, call, wire, log>>

\* The fee legs of value `fee` in the one scan of the user's logs, which starts
\* at the earliest broadcast block of the stale rows.
SweptLegs(fee) ==
    {j \in FeeLegs(fee, 0, sweep.upto) :
        \E i \in sweep.stale : j >= rows[i].since}

\* The rows are taken in some order; each takes the first fee leg of its value
\* that no other row of this sweep has taken, or none (0).
Matching(hit) ==
    \A i \in sweep.stale :
        LET legs == SweptLegs(rows[i].fee)
            taken == {hit[j] : j \in sweep.stale \ {i}}
        IN  IF legs \subseteq taken
            THEN hit[i] = 0
            ELSE /\ hit[i] \in legs \ taken
                 /\ \A k \in legs : k < hit[i] => k \in taken

\* What a stale row becomes, given the place of its fee leg.
Swept(i, leg) ==
    IF leg # 0
    THEN [rows[i] EXCEPT !.status = "confirmed", !.tx = log[leg]]
    ELSE IF rows[i].kind = "fiat"
    THEN [rows[i] EXCEPT !.status = "settlement_unconfirmed"]
    ELSE [rows[i] EXCEPT !.status = "failed"]

\* The verdicts are written without reading the rows' status again.
SweepApply ==
    /\ sweep.phase = "apply"
    /\ \E hit \in [sweep.stale -> 0 .. sweep.upto] :
          /\ Matching(hit)
          /\ rows' = [i \in Charge |->
                IF i \in sweep.stale THEN Swept(i, hit[i]) ELSE rows[i]]
    /\ sweep' = IdleSweep
    /\ UNCHANGED <<clock, status, queue, call, wire, log>>

-----------------------------------------------------------------------------
(* The owner's switches (ops.ts) and their reach in the store.             *)

FreezeCard(c) ==
    /\ "freeze" \in OwnerMoves
    /\ status[c] = "active"
    /\ status' = [status EXCEPT ![c] = "frozen"]
    /\ UNCHANGED <<clock, rows, queue, call, wire, log, sweep>>

UnfreezeCard(c) ==
    /\ status[c] = "frozen"
    /\ status' = [status EXCEPT ![c] = "active"]
    /\ UNCHANGED <<clock, rows, queue, call, wire, log, sweep>>

SetSubtreeStatus(c, s) ==
    [d \in Card |-> IF d \in SubtreeIds[c] THEN s ELSE status[d]]

RevokeCard(c) ==
    /\ "revoke" \in OwnerMoves
    /\ status[c] \in {"active", "frozen"}
    /\ status' = SetSubtreeStatus(c, "revoked")
    /\ UNCHANGED <<clock, rows, queue, call, wire, log, sweep>>

NukeAll ==
    /\ "nuke" \in OwnerMoves
    /\ \E c \in Card : status[c] # "nuked"
    /\ status' = [c \in Card |-> "nuked"]
    /\ UNCHANGED <<clock, rows, queue, call, wire, log, sweep>>

-----------------------------------------------------------------------------
(* The relayer, the chain, time, and the process.                          *)

RelayerAccepts(p) ==
    /\ wire[p] = "posted"
    /\ wire' = [wire EXCEPT ![p] = "queued"]
    /\ UNCHANGED <<clock, status, rows, queue, call, log, sweep>>

Land(p) ==
    /\ wire[p] = "queued"
    /\ wire' = [wire EXCEPT ![p] = "landed"]
    /\ log' = Append(log, p)
    /\ UNCHANGED <<clock, status, rows, queue, call, sweep>>

\* Reverted, or never mined; or never accepted, once nobody awaits the answer.
Drop(p) ==
    /\ \/ wire[p] = "queued" /\ call[p].lane # "x402"
       \/ wire[p] = "posted" /\ call[p].phase = "done"
    /\ wire' = [wire EXCEPT ![p] = "dropped"]
    /\ UNCHANGED <<clock, status, rows, queue, call, log, sweep>>

\* A call and its redemption are over before the sweep's cutoff, unless slow.
Overdue(p) ==
    /\ \/ Live(p)
       \/ wire[p] \in {"posted", "queued"} /\ call[p].lane # "x402"
    /\ clock >= call[p].now + Cutoff

\* Bound: time passes LastStart only once no request waits for its turn.
Tick ==
    /\ clock < MaxClock
    /\ clock < LastStart \/ \A p \in Call : call[p].phase # "queued"
    /\ "slow" \in Faults \/ \A p \in Call : ~Overdue(p)
    /\ clock' = clock + 1
    /\ UNCHANGED <<status, rows, queue, call, wire, log, sweep>>

\* The store survives, what was in memory does not.
Crash ==
    /\ "crash" \in Faults
    /\ \E p \in Call : call[p].phase = "queued" \/ Live(p)
    /\ call' = [p \in Call |-> IF call[p].phase = "idle" THEN call[p]
                               ELSE [call[p] EXCEPT !.phase = "done"]]
    /\ queue' = [c \in Card |-> <<>>]
    /\ sweep' = IdleSweep
    /\ UNCHANGED <<clock, status, rows, wire, log>>

-----------------------------------------------------------------------------

SpendStep(p) ==
    \/ Replay(p) \/ Begin(p) \/ Abort(p) \/ Reserve(p)
    \/ \E fee \in Fees : QuoteFee(p, fee) \/ RaiseFee(p, fee)
    \/ HeadFails(p) \/ RefuseBroadcast(p) \/ Broadcast(p)
    \/ SendReturns(p) \/ SendFails(p)
    \/ ConfirmByStatus(p) \/ ToldReverted(p) \/ ConfirmByLog(p)
    \/ ScanFindsNothing(p) \/ ConfirmReverted(p) \/ ConfirmTimesOut(p)

X402Step(p) ==
    \/ BeginX402(p) \/ SellerRefuses(p)
    \/ \E fee \in Fees : CarveX402(p, fee)
    \/ \E tx \in {NoTx, p}, fee \in Fees \cup {0} : SellerServes(p, tx, fee)

Enter(p) ==
    \/ \E c \in Card, k \in Key \cup {NoKey}, a \in Amounts : EnterPay(p, c, k, a)
    \/ \E c \in Card, a \in Amounts \ {0} : EnterX402(p, c, a)
    \/ \E f \in Fiat : EnterSettle(p, f)

SweepStep == SweepStart \/ SweepScan \/ SweepFails \/ SweepApply

OwnerStep ==
    \/ \E c \in Card : FreezeCard(c) \/ UnfreezeCard(c) \/ RevokeCard(c)
    \/ NukeAll

ChainStep(p) == RelayerAccepts(p) \/ Land(p) \/ Drop(p)

Next ==
    \/ \E p \in Call : Enter(p) \/ SpendStep(p) \/ X402Step(p) \/ ChainStep(p)
    \/ \E f \in Fiat, c \in Card, a \in Amounts \ {0} : FiatAuthorize(f, c, a)
    \/ SweepStep \/ OwnerStep \/ Tick \/ Crash

Spec == Init /\ [][Next]_vars

\* Every await of a call ends; a redemption the relayer took is mined or dropped;
\* the sweep runs on its interval and an RPC node answers it now and then; time
\* passes.  Nobody is forced to ask, to own, to crash.
Fairness ==
    /\ \A p \in Call : WF_vars(SpendStep(p)) /\ WF_vars(X402Step(p))
                       /\ WF_vars(ChainStep(p))
    /\ WF_vars(SweepStart) /\ SF_vars(SweepScan) /\ SF_vars(SweepApply)
    /\ WF_vars(Tick)

FairSpec == Spec /\ Fairness

-----------------------------------------------------------------------------
(* What the pipeline promises.                                             *)

\* No interleaving of spends, x402 carves and card-network approvals approves
\* more than a card's use count, period budget or lifetime budget, whichever
\* card of its subtree spends.
WithinLimits ==
    /\ \A c \in DOMAIN MaxUses : UsesWithin(rows, c)
    /\ \A c \in DOMAIN LifetimeCap : LifetimeWithin(rows, c)
    /\ \A c \in DOMAIN PeriodCap : \A t \in 0 .. clock : PeriodWithin(rows, c, t)

\* What the meters of a card and its ancestors show is what may be spent: in any
\* mix of pending, failed and settled charges, frozen and expired cards, a cost
\* they leave room for is one the refusal engine takes, and no other.
MetersAgree ==
    \A c \in Card, a \in Amounts \ {0}, fee \in Fees \cup {0} :
        ChainSpendable(status, c, clock) /\ ValidateSpend(rows, c, 0, a + fee, clock)
            <=> MetersAllow(rows, status, c, a + fee, clock)

\* A redemption that may still move money, or did.
Moving(p) == wire[p] \in {"posted", "queued", "landed"}

\* Money that moves is on the books: the row of a redemption that may land is
\* neither released nor deleted, so it weighs on the budget.
MovingMoneyIsBooked ==
    \A p \in Call :
        Moving(p) /\ call[p].lane # "x402"
            => rows[call[p].row].status \notin {"absent", "failed"}

\* One idempotency key moves money once, whatever is retried after a failure.
OneRedemptionPerKey ==
    \A p, q \in Call :
        /\ p # q /\ Moving(p) /\ Moving(q)
        /\ call[p].lane = "pay" /\ call[q].lane = "pay"
        /\ call[p].card = call[q].card /\ call[p].key = call[q].key
        => call[p].key = NoKey

\* The sections of one card tree never overlap, whatever ends the one before:
\* a return, a refusal, a failed send, or the release of a carved payload.
OneSectionPerTree ==
    \A p, q \in Call :
        InSection(p) /\ InSection(q) /\ MyKey(p) = MyKey(q) => p = q

\* A card-network authorization is settled by one redemption at most, even when
\* a send fails ambiguously or the process dies.
SettledOnce ==
    \A p, q \in Call :
        p # q /\ Settling(p) /\ Settling(q) /\ call[p].row = call[q].row
            => ~(Moving(p) /\ Moving(q))

\* A confirmed charge names the redemption that was mined for it.
ConfirmedIsMined ==
    \A i \in Charge :
        rows[i].status = "confirmed" =>
            /\ rows[i].tx # NoTx
            /\ wire[rows[i].tx] = "landed"
            /\ call[rows[i].tx].row = i

\* A redemption leaves the server only while every card of its chain is active,
\* although the checks and the send are several awaits apart.
SpendableWhenSent ==
    [][\A p \in Call :
          wire[p] = "none" /\ wire'[p] # "none" =>
              \A a \in AncestorChain[call[p].card] : status[a] = "active"]_vars

\* An approved card-network charge never gives its budget back.
FiatStaysHeld ==
    [][\A f \in Fiat :
          rows[f].status # "absent" =>
              /\ rows'[f].status \notin {"absent", "failed"}
              /\ rows'[f].amount = rows[f].amount]_vars

\* A charge that was included before the log was last asked is not failed, neither
\* by its own request nor by the sweep: once its fee leg is on chain nobody who
\* looks for it misses it, however early or wrong the relayer's report is
\* (spend.ts 333-335).  Inclusion after that answer is lost, and excepted.
Included(p) ==
    /\ call[p].lane = "pay" /\ wire[p] = "landed"
    /\ rows[p].status = "pending" /\ call[p].hint # "no leg"

IncludedIsNotFailed ==
    [][\A p \in Call :
          Included(p) => rows'[p].status # "failed" /\ call'[p].hint # "no leg"]_vars

\* A booked spend does not hold its budget forever: it is settled or released.
PendingIsResolved ==
    \A p \in Call :
        rows[p].status = "pending" /\ rows[p].kind = "pay"
            ~> rows[p].status # "pending"

\* Nor does an x402 reservation, even if its request died with the process.
ReservationIsResolved ==
    \A p \in Call :
        rows[p].status = "pending" /\ rows[p].kind = "x402"
            ~> rows[p].status # "pending"

\* Every request that waits for its card tree is served: no failure, timeout or
\* refusal of an earlier request wedges the mutex.
WaitersAreServed ==
    \A p \in Call : call[p].phase = "queued" ~> call[p].phase = "done"
=============================================================================
