----------------------------- MODULE SpendMoney -----------------------------
(***************************************************************************)
(* What becomes of the money: for every card tree, every set of requests   *)
(* and every bound, under the faults each theorem names.                   *)
(*                                                                         *)
(* Four invariants, each over the one before.  SettleInv: a settlement     *)
(* claims its row before it sends; it needs no assumption.  MinedInv: a    *)
(* fee tells which request a transaction on chain belongs to; it needs     *)
(* fees that differ.  BookInv: what may move is on the books, and one key  *)
(* has one mover; it needs an answer to every send.  KeepsInv adds that a  *)
(* key has one row, so that a retry deletes one entry: with the limits,    *)
(* that makes every step of the pipeline a step of BudgetBook or a         *)
(* stutter.                                                                *)
(***************************************************************************)
EXTENDS SpendBook, SpendProofs

\* The points before a request has sent anything, and those past the replay check.
BeforeSend == {"idle", "queued", "fee", "estimate", "head", "sign"}
Deciding == {"fee", "estimate", "head"}

-----------------------------------------------------------------------------

\* The rows of authorizations: never failed, never under an agent's key.
FiatRows ==
    /\ \A f \in Fiat : rows[f].status # "absent" =>
          rows[f].kind = "fiat" /\ rows[f].key = NoKey /\ rows[f].status # "failed"
    /\ \A f \in sweep.stale \cap Fiat : rows[f].status # "absent"

\* Whose row a request works on, and on which lane its points lie.
LaneOfRow ==
    \A p \in Call :
        /\ ~Settling(p) => call[p].row = p
        /\ Settling(p) => /\ call[p].row \in Fiat
                          /\ rows[call[p].row].status # "absent"
                          /\ rows[call[p].row].card = call[p].card
        /\ call[p].phase = "idle" => call[p].lane = "pay"
        /\ call[p].phase \in {"sign", "seller"} => call[p].lane = "x402"

SentLater == \A p \in Call : call[p].phase \in BeforeSend => wire[p] = "none"

\* A settlement that was sent has claimed its row, one that decides finds it
\* unclaimed, and so no row has two.
ClaimedFirst ==
    /\ \A p \in Call : Settling(p) /\ wire[p] # "none" => rows[call[p].row].request # "null"
    /\ \A p \in Call : Settling(p) /\ call[p].phase \in Deciding =>
          rows[call[p].row].request = "null"
    /\ \A p, q \in Call :
          p # q /\ Settling(p) /\ Settling(q) /\ call[p].row = call[q].row
              => wire[p] = "none" \/ wire[q] = "none"

SettleInv == TypeInv /\ FiatRows /\ LaneOfRow /\ SentLater /\ ClaimedFirst

-----------------------------------------------------------------------------

\* A request that got as far as an estimate has a fee, and nobody else has it.
FeesDiffer ==
    /\ \A p, q \in Call : p # q => call[p].fee # call[q].fee \/ call[p].fee = 0
    /\ \A p \in Call :
          wire[p] # "none" \/ call[p].phase \in {"estimate", "head", "sending", "confirming"}
              => call[p].fee # 0

\* A row carries the fee, the card, the key, the instant and the block of the request
\* that books it; a settled one the fee of a request that settles it.
RowIsItsCalls ==
    /\ \A p \in Call : call[p].lane = "pay" /\ rows[p].status # "absent" =>
          /\ rows[p].fee = call[p].fee
          /\ rows[p].card = call[p].card /\ rows[p].key = call[p].key
          /\ rows[p].request # "null" => rows[p].since = call[p].since
          /\ rows[p].created = call[p].now
          /\ call[p].phase = "head" => rows[p].request = "null"
          /\ call[p].phase = "confirming" => rows[p].request # "null"
    /\ \A f \in Fiat : rows[f].status # "absent" /\ rows[f].fee # 0 =>
          \E q \in Call : /\ Settling(q) /\ call[q].row = f /\ call[q].fee = rows[f].fee
                          /\ call[q].phase \in {"head", "sending", "confirming", "done"}

\* The place of p's fee leg in the log, among the first n, found from its block on.
LegOf(p, n) == {j \in 1 .. n : log[j] = p /\ call[p].since <= j}

\* The log holds what landed, after the block the request saw when it sent.
LogIsTheChain ==
    /\ \A j \in 1 .. Len(log) : wire[log[j]] = "landed"
    /\ \A p \in Call : call[p].since <= Len(log)
    /\ \A p \in Call : wire[p] = "landed" => LegOf(p, Len(log)) # {}

\* Without the x402 lane nobody carves, and the budgets hold.
NoCarves == \A p \in Call : call[p].lane # "x402"

LimitInv == TypeInv /\ Books /\ StillFits /\ Within(rows) /\ NoCarves

MinedInv ==
    /\ LimitInv /\ SettleInv
    /\ FeesDiffer /\ RowIsItsCalls /\ LogIsTheChain /\ ConfirmedIsMined

-----------------------------------------------------------------------------

\* Nothing is in flight past the cutoff; a sweep sees every leg of its rows.
SweptIsOver ==
    /\ \A p \in Call : wire[p] \in {"posted", "queued"} => clock <= call[p].now + Cutoff
    /\ \A p \in sweep.stale \cap Call :
          /\ wire[p] \notin {"posted", "queued"}
          /\ rows[p].request # "null"
          /\ sweep.phase = "apply" /\ wire[p] = "landed" => LegOf(p, sweep.upto) # {}

\* What may move is on the books; only a 500 that comes too early takes it off,
\* and then under a request id, so that it is not attempted again.
MovingIsBooked ==
    \A p \in Call : Moving(p) /\ call[p].lane = "pay" =>
        /\ rows[p].status # "absent"
        /\ rows[p].status = "failed" => "early500" \in Faults /\ rows[p].request # "null"

\* While a request decides, no other one moves money under its key.
NoRival ==
    \A p, q \in Call :
        /\ p # q /\ call[p].lane = "pay" /\ call[q].lane = "pay"
        /\ call[p].card = call[q].card /\ call[p].key = call[q].key /\ call[p].key # NoKey
        /\ call[q].phase \in Deciding
        => ~Moving(p)

\* A relayer whose 500 is never early reports a redemption that moves nothing.
HintsAreTrue ==
    "early500" \notin Faults => \A p \in Call : call[p].hint # "none" => wire[p] = "dropped"

BookInv ==
    /\ MinedInv /\ SweptIsOver /\ MovingIsBooked
    /\ NoRival /\ OneRedemptionPerKey /\ HintsAreTrue

-----------------------------------------------------------------------------
(* What the steps of a request do, field by field.                         *)

\* Two states of a request agree on what it asked for, and two of a row on what
\* was booked.
SameAsk(cl, cm) ==
    /\ cl.lane = cm.lane /\ cl.row = cm.row
    /\ cl.card = cm.card /\ cl.key = cm.key

SameBooking(row, rov) ==
    /\ row.card = rov.card /\ row.key = rov.key
    /\ row.kind = rov.kind /\ row.amount = rov.amount

\* The types the steps below rely on.
LEMMA Typed ==
  ASSUME TypeInv
  PROVE  /\ rows \in [Charge -> ChargeRow] /\ call \in [Call -> CallState]
         /\ wire \in [Call -> Wire] /\ log \in Seq(Call) /\ clock \in Nat
         /\ sweep \in Sweep /\ sweep.stale \subseteq Charge /\ Cutoff \in Nat
         /\ Call \subseteq Charge /\ Fiat \subseteq Charge
         /\ Charge = Call \cup Fiat /\ Call \cap Fiat = {}
         /\ NoTx \notin Call /\ NoKey \notin Key
BY ChargesAssumption, SpendAssumption
   DEF TypeInv, TypeOK, Sweep, Charge, ChargesAssumption, SpendAssumption

\* A request that leaves is done, and nothing else of it or of the others changes.
LEMMA LeaveEffect ==
  ASSUME TypeInv, NEW p \in Call, Leave(p)
  PROVE  /\ \A q \in Call \ {p} : call'[q] = call[q]
         /\ SameAsk(call'[p], call[p]) /\ call'[p].phase = "done"
         /\ call'[p].fee = call[p].fee /\ call'[p].now = call[p].now
         /\ call'[p].since = call[p].since
         /\ call'[p].hint = call[p].hint
BY Typed DEF Leave, SameAsk, CallState

\* Begin takes its turn and captures the instant.
LEMMA BeginEffect ==
  ASSUME TypeInv, NEW p \in Call, Begin(p)
  PROVE  /\ \A q \in Call \ {p} : call'[q] = call[q]
         /\ SameAsk(call'[p], call[p]) /\ call[p].phase = "queued"
         /\ call'[p].phase \in {"fee", "done"}
         /\ call'[p].fee = call[p].fee /\ call'[p].since = call[p].since
         /\ call'[p].hint = call[p].hint
         /\ call'[p].now \in {clock, call[p].now}
         /\ call'[p].phase = "fee" => call'[p].now = clock
BY Typed DEF Begin, MyTurn, Leave, SameAsk, CallState

\* A quote, a first or a higher one.
LEMMA QuoteEffect ==
  ASSUME TypeInv, NEW p \in Call, NEW fee \in Fees, QuoteFee(p, fee) \/ RaiseFee(p, fee)
  PROVE  /\ \A q \in Call \ {p} : call'[q] = call[q]
         /\ SameAsk(call'[p], call[p]) /\ call[p].phase \in {"fee", "estimate"}
         /\ call'[p].phase = "estimate" /\ call'[p].fee = fee
         /\ call'[p].now = call[p].now /\ call'[p].since = call[p].since
         /\ call'[p].hint = call[p].hint
         /\ fee \in JitteredFee(p, 0) /\ rows' = rows /\ wire' = wire
<1>1. call[p].fee \in Nat /\ fee \in Nat
  BY Typed, SpendAssumption DEF CallState, SpendAssumption
<1>2. fee \in JitteredFee(p, 0)
  BY <1>1 DEF QuoteFee, RaiseFee, JitteredFee
<1>3. CASE QuoteFee(p, fee)
  BY <1>2, <1>3, Typed DEF QuoteFee, SameAsk, CallState
<1>4. CASE RaiseFee(p, fee)
  BY <1>2, <1>4, Typed DEF RaiseFee, SameAsk, CallState
<1> QED BY <1>3, <1>4

\* The reservation moves the request to the head read.
LEMMA ReserveEffect ==
  ASSUME TypeInv, NEW p \in Call, Reserve(p)
  PROVE  /\ \A q \in Call \ {p} : call'[q] = call[q]
         /\ SameAsk(call'[p], call[p]) /\ call[p].phase = "estimate"
         /\ call'[p].phase = "head" /\ call'[p].fee = call[p].fee
         /\ call'[p].now = call[p].now /\ call'[p].since = call[p].since
         /\ call'[p].hint = call[p].hint
BY Typed DEF Reserve, SameAsk, CallState

\* The broadcast takes down the block the search will start from.
LEMMA BroadcastEffect ==
  ASSUME TypeInv, NEW p \in Call, Broadcast(p)
  PROVE  /\ \A q \in Call \ {p} : call'[q] = call[q]
         /\ SameAsk(call'[p], call[p]) /\ call[p].phase = "head"
         /\ call'[p].phase = "sending" /\ call'[p].fee = call[p].fee
         /\ call'[p].now = call[p].now /\ call'[p].since = Len(log)
         /\ call'[p].hint = call[p].hint
         /\ wire'[p] = "posted" /\ \A q \in Call \ {p} : wire'[q] = wire[q]
BY Typed DEF Broadcast, SameAsk, CallState

\* The request id is written to the row, with that block.
LEMMA SendReturnsEffect ==
  ASSUME TypeInv, NEW p \in Call, SendReturns(p)
  PROVE  /\ \A q \in Call \ {p} : call'[q] = call[q]
         /\ SameAsk(call'[p], call[p]) /\ call[p].phase = "sending"
         /\ call'[p].phase = "confirming" /\ call'[p].fee = call[p].fee
         /\ call'[p].now = call[p].now /\ call'[p].since = call[p].since
         /\ call'[p].hint = call[p].hint
         /\ wire' = wire /\ wire[p] \in {"queued", "landed", "dropped"}
BY Typed DEF SendReturns, SameAsk, CallState

\* A poll of a confirmation that decides nothing yet: the request has read a hint.
Polls(p) == ToldReverted(p) \/ ScanFindsNothing(p)

LEMMA PollEffect ==
  ASSUME TypeInv, NEW p \in Call, Polls(p)
  PROVE  /\ \A q \in Call \ {p} : call'[q] = call[q]
         /\ SameAsk(call'[p], call[p])
         /\ call[p].phase = "confirming" /\ call'[p].phase = "confirming"
         /\ call'[p].fee = call[p].fee /\ call'[p].now = call[p].now
         /\ call'[p].since = call[p].since
         /\ UNCHANGED <<clock, status, rows, queue, wire, log, sweep>>
<1>1. PICK hint \in Hint : Told(p, hint) /\ call[p].phase = "confirming"
  BY DEF Polls, ToldReverted, ScanFindsNothing, Polling, Hint
<1> QED BY <1>1, Typed DEF Told, SameAsk, CallState

\* Begin deletes the dead row of the request's key, and touches nothing else.
LEMMA BeginRows ==
  ASSUME TypeInv, NEW p \in Call, Begin(p), NEW i \in Charge
  PROVE  \/ rows'[i] = rows[i]
         \/ /\ ~Settling(p) /\ rows'[i] = NoRow
            /\ rows[i].status = "failed" /\ rows[i].request = "null"
            /\ rows[i].card = call[p].card /\ rows[i].key = call[p].key
            /\ call[p].key # NoKey
<1>1. CASE Settling(p)
  BY <1>1 DEF Begin, Cleared
<1>2. CASE ~Settling(p)
  <2>1. CASE i \in ChargeByIdempotency(rows, call[p].card, call[p].key)
    <3>1. rows'[i] = NoRow /\ Retryable(i)
      BY <1>2, <2>1 DEF Begin, Cleared, Replayed
    <3> QED BY <1>2, <2>1, <3>1 DEF Retryable, ChargeByIdempotency
  <2>2. CASE i \notin ChargeByIdempotency(rows, call[p].card, call[p].key)
    BY <1>2, <2>2 DEF Begin, Cleared
  <2> QED BY <2>1, <2>2
<1> QED BY <1>1, <1>2

\* The reservation books a spend's row, or adds the fee to a settlement's.
LEMMA ReserveRows ==
  ASSUME TypeInv, NEW p \in Call, Reserve(p)
  PROVE  /\ Settling(p) =>
              LET r == call[p].row IN
              /\ \A i \in Charge \ {r} : rows'[i] = rows[i]
              /\ SameBooking(rows'[r], rows[r]) /\ rows'[r].fee = call[p].fee
              /\ rows'[r].status = rows[r].status
              /\ rows'[r].request = rows[r].request /\ rows'[r].since = rows[r].since
              /\ rows'[r].tx = rows[r].tx /\ rows'[r].created = rows[r].created
         /\ ~Settling(p) =>
              /\ \A i \in Charge \ {p} : rows'[i] = rows[i]
              /\ rows'[p].status = "pending" /\ rows'[p].request = "null"
              /\ rows'[p].kind = "pay" /\ rows'[p].fee = call[p].fee
              /\ rows'[p].card = call[p].card /\ rows'[p].key = call[p].key
              /\ rows'[p].since = 0 /\ rows'[p].amount = call[p].amount
              /\ rows'[p].created = call[p].now
<1>1. p \in Charge /\ call[p].row \in Charge
  BY Typed DEF CallState
<1>2. CASE Settling(p)
  BY Typed, <1>1, <1>2 DEF Reserve, SameBooking, ChargeRow
<1>3. CASE ~Settling(p)
  <2> DEFINE row == NewRow(call[p].card, call[p].key, "pay", call[p].amount,
                           call[p].fee, call[p].now)
  <2>1. rows' = [rows EXCEPT ![p] = row]
    BY <1>3 DEF Reserve
  <2>2. rows'[p] = row /\ \A i \in Charge \ {p} : rows'[i] = rows[i]
    BY Typed, <1>1, <2>1
  <2> QED BY <1>3, <2>2 DEF NewRow
<1> QED BY <1>2, <1>3

\* A broadcast claims a settlement's row and leaves every other.
LEMMA BroadcastRows ==
  ASSUME TypeInv, NEW p \in Call, Broadcast(p)
  PROVE  /\ Settling(p) =>
              LET r == call[p].row IN
              /\ \A i \in Charge \ {r} : rows'[i] = rows[i]
              /\ SameBooking(rows'[r], rows[r]) /\ rows'[r].fee = rows[r].fee
              /\ rows'[r].status = rows[r].status /\ rows'[r].request = "claim"
              /\ rows'[r].tx = rows[r].tx /\ rows'[r].created = rows[r].created
         /\ ~Settling(p) => rows' = rows
<1>1. call[p].row \in Charge
  BY Typed DEF CallState
<1> QED BY Typed, <1>1 DEF Broadcast, Claimed, SameBooking, ChargeRow

\* The answer of a send writes the request id and the block to the row.
LEMMA SendReturnsRows ==
  ASSUME TypeInv, NEW p \in Call, SendReturns(p)
  PROVE  LET r == call[p].row IN
         /\ \A i \in Charge \ {r} : rows'[i] = rows[i]
         /\ SameBooking(rows'[r], rows[r]) /\ rows'[r].fee = rows[r].fee
         /\ rows'[r].status = rows[r].status /\ rows'[r].request = "sent"
         /\ rows'[r].tx = rows[r].tx /\ rows'[r].since = call[p].since
         /\ rows'[r].created = rows[r].created
<1>1. call[p].row \in Charge
  BY Typed DEF CallState
<1> QED BY Typed, <1>1 DEF SendReturns, SameBooking, ChargeRow

\* The steps that write a verdict, or none, and leave.
Ends(p) ==
    \/ Replay(p) \/ Abort(p) \/ HeadFails(p) \/ RefuseBroadcast(p) \/ SendFails(p)
    \/ ConfirmByStatus(p) \/ ConfirmByLog(p) \/ ConfirmReverted(p)
    \/ ConfirmTimesOut(p)

\* A verdict changes the status of the request's row and names a transaction; a
\* settlement's row is not failed by it.
LEMMA EndRows ==
  ASSUME TypeInv, NEW p \in Call, Ends(p)
  PROVE  \/ rows' = rows
         \/ /\ call[p].phase \in {"head", "sending", "confirming"}
            /\ LET r == call[p].row IN
               /\ \A i \in Charge \ {r} : rows'[i] = rows[i]
               /\ SameBooking(rows'[r], rows[r]) /\ rows'[r].fee = rows[r].fee
               /\ rows'[r].request = rows[r].request
               /\ rows'[r].since = rows[r].since /\ rows'[r].created = rows[r].created
               /\ rows'[r].status \in {"confirmed", "failed", "settlement_unconfirmed"}
               /\ rows'[r].status = "confirmed" => call[p].phase = "confirming"
               /\ rows'[r].status = "failed" => ~Settling(p)
<1>1. call[p].row \in Charge
  BY Typed DEF CallState
<1>2. CASE Replay(p) \/ Abort(p) \/ HeadFails(p) \/ ConfirmTimesOut(p)
  BY <1>2 DEF Replay, Abort, HeadFails, ConfirmTimesOut
<1>3. CASE RefuseBroadcast(p) \/ SendFails(p)
  <2>1. FailUnlessSettling(p) /\ call[p].phase \in {"head", "sending"}
    BY <1>3 DEF RefuseBroadcast, SendFails
  <2>2. CASE Settling(p)
    BY <2>1, <2>2 DEF FailUnlessSettling
  <2>3. CASE ~Settling(p)
    BY Typed, <1>1, <2>1, <2>3
       DEF FailUnlessSettling, SetStatus, SameBooking, ChargeRow
  <2> QED BY <2>2, <2>3
<1>4. CASE ConfirmReverted(p)
  <2>1. \E s \in {"failed", "settlement_unconfirmed"} :
           rows' = SetStatus(call[p].row, s) /\ (s = "failed" => ~Settling(p))
    BY <1>4 DEF ConfirmReverted
  <2>2. call[p].phase = "confirming"
    BY <1>4 DEF ConfirmReverted, Polling
  <2> QED BY Typed, <1>1, <2>1, <2>2 DEF SetStatus, SameBooking, ChargeRow
<1>5. CASE ConfirmByStatus(p) \/ ConfirmByLog(p)
  <2>1. call[p].phase = "confirming" /\ \E q : ConfirmBy(p, q)
    BY <1>5 DEF ConfirmByStatus, ConfirmByLog, Polling
  <2> QED BY Typed, <1>1, <2>1 DEF ConfirmBy, SameBooking, ChargeRow
<1> QED BY <1>2, <1>3, <1>4, <1>5 DEF Ends

\* What else changes when a request ends: it is done, and a transaction the
\* relayer refused is dropped.
LEMMA EndEffect ==
  ASSUME TypeInv, NEW p \in Call, Ends(p)
  PROVE  /\ \A q \in Call \ {p} : call'[q] = call[q] /\ wire'[q] = wire[q]
         /\ SameAsk(call'[p], call[p]) /\ call'[p].phase = "done"
         /\ call'[p].fee = call[p].fee /\ call'[p].now = call[p].now
         /\ call'[p].since = call[p].since /\ call'[p].hint = call[p].hint
         /\ call[p].phase # "idle"
         /\ \/ wire'[p] = wire[p]
            \/ wire[p] = "posted" /\ wire'[p] = "dropped" /\ call[p].phase = "sending"
<1>1. Leave(p) /\ call[p].phase # "idle"
  BY DEF Ends, Replay, MyTurn, Abort, HeadFails, RefuseBroadcast, SendFails,
         ConfirmByStatus, ConfirmByLog, ConfirmBy, ConfirmReverted, ConfirmTimesOut,
         Polling
<1>2. \/ wire' = wire
      \/ /\ wire[p] = "posted" /\ wire' = [wire EXCEPT ![p] = "dropped"]
         /\ call[p].phase = "sending"
  BY DEF Ends, Replay, Abort, HeadFails, RefuseBroadcast, SendFails,
         ConfirmByStatus, ConfirmByLog, ConfirmBy, ConfirmReverted, ConfirmTimesOut
<1>3. /\ \A q \in Call \ {p} : wire'[q] = wire[q]
      /\ \/ wire'[p] = wire[p]
         \/ wire[p] = "posted" /\ wire'[p] = "dropped" /\ call[p].phase = "sending"
  BY Typed, <1>2
<1> QED BY <1>1, <1>3, LeaveEffect

\* A request enters with what it asked for, and a settlement with its row.
LEMMA EnterFields ==
  ASSUME TypeInv, NEW p \in Call, Enter(p)
  PROVE  /\ UNCHANGED <<clock, status, rows, wire, log, sweep>>
         /\ \A q \in Call \ {p} : call'[q] = call[q]
         /\ call[p].phase = "idle" /\ call'[p].phase = "queued"
         /\ call'[p].fee = call[p].fee /\ call'[p].now = call[p].now
         /\ call'[p].since = call[p].since
         /\ call'[p].hint = call[p].hint
         /\ \/ call'[p].lane \in {"pay", "x402"} /\ call'[p].row = call[p].row
            \/ /\ call'[p].lane = "settle" /\ call'[p].row \in Fiat
               /\ rows[call'[p].row].status = "pending"
               /\ rows[call'[p].row].card = call'[p].card
         /\ call'[p].lane = "x402" => "x402" \in Lanes
<1>1. ASSUME NEW c \in Card, NEW k \in Key \cup {NoKey}, NEW a \in Amounts,
             EnterPay(p, c, k, a)
      PROVE  /\ call'[p].lane = "pay" /\ call'[p].row = call[p].row
             /\ \A q \in Call \ {p} : call'[q] = call[q]
             /\ call[p].phase = "idle" /\ call'[p].phase = "queued"
             /\ call'[p].fee = call[p].fee /\ call'[p].now = call[p].now
             /\ call'[p].since = call[p].since
             /\ call'[p].hint = call[p].hint
             /\ UNCHANGED <<clock, status, rows, wire, log, sweep>>
  BY Typed, <1>1 DEF EnterPay, CallState
<1>2. ASSUME NEW c \in Card, NEW a \in Amounts \ {0}, EnterX402(p, c, a)
      PROVE  /\ call'[p].lane = "x402" /\ call'[p].row = call[p].row
             /\ "x402" \in Lanes
             /\ \A q \in Call \ {p} : call'[q] = call[q]
             /\ call[p].phase = "idle" /\ call'[p].phase = "queued"
             /\ call'[p].fee = call[p].fee /\ call'[p].now = call[p].now
             /\ call'[p].since = call[p].since
             /\ call'[p].hint = call[p].hint
             /\ UNCHANGED <<clock, status, rows, wire, log, sweep>>
  BY Typed, <1>2 DEF EnterX402, CallState
<1>3. ASSUME NEW f \in Fiat, EnterSettle(p, f)
      PROVE  /\ call'[p].lane = "settle" /\ call'[p].row = f
             /\ rows[f].status = "pending" /\ rows[f].card = call'[p].card
             /\ \A q \in Call \ {p} : call'[q] = call[q]
             /\ call[p].phase = "idle" /\ call'[p].phase = "queued"
             /\ call'[p].fee = call[p].fee /\ call'[p].now = call[p].now
             /\ call'[p].since = call[p].since
             /\ call'[p].hint = call[p].hint
             /\ UNCHANGED <<clock, status, rows, wire, log, sweep>>
  BY Typed, <1>3 DEF EnterSettle, UnsettledFiatCharges, CallState
<1> QED BY <1>1, <1>2, <1>3 DEF Enter

\* What the relayer and the chain do to a redemption.
LEMMA ChainEffect ==
  ASSUME TypeInv, NEW p \in Call, ChainStep(p)
  PROVE  /\ UNCHANGED <<clock, status, rows, queue, call, sweep>>
         /\ \A q \in Call \ {p} : wire'[q] = wire[q]
         /\ wire[p] \in {"posted", "queued"}
         /\ \/ wire[p] = "posted" /\ wire'[p] = "queued" /\ log' = log
            \/ wire[p] = "queued" /\ wire'[p] = "landed" /\ log' = Append(log, p)
            \/ wire'[p] = "dropped" /\ log' = log
BY Typed DEF ChainStep, RelayerAccepts, Land, Drop

\* What a paid fetch does: it works on its own row, and what it sends is queued.
LEMMA X402Effect ==
  ASSUME TypeInv, NEW p \in Call, X402Step(p)
  PROVE  /\ UNCHANGED <<status, log, sweep>>
         /\ \A q \in Call \ {p} : call'[q] = call[q] /\ wire'[q] = wire[q]
         /\ SameAsk(call'[p], call[p])
         /\ call[p].lane = "x402" \/ call[p].phase \in {"sign", "seller"}
         /\ \A i \in Charge \ {p} : rows'[i] = rows[i]
         /\ call[p].phase # "idle" /\ call'[p].phase \in {"sign", "seller", "done"}
         /\ call'[p].phase = "sign" => wire'[p] = wire[p]
         /\ wire'[p] # wire[p] => call[p].phase = "sign"
<1>1. p \in Charge
  BY Typed
<1>2. CASE BeginX402(p)
  BY Typed, <1>2 DEF BeginX402, MyTurn, Leave, SameAsk, CallState
<1>3. ASSUME NEW fee \in Fees, CarveX402(p, fee)
      PROVE  /\ UNCHANGED <<status, log, sweep>>
             /\ \A q \in Call \ {p} : call'[q] = call[q] /\ wire'[q] = wire[q]
             /\ SameAsk(call'[p], call[p]) /\ call[p].phase = "sign"
             /\ \A i \in Charge \ {p} : rows'[i] = rows[i]
             /\ call'[p].phase = "seller"
  <2>1. rows' = [rows EXCEPT ![p] = rows'[p]]
    BY Typed, <1>1, <1>3 DEF CarveX402
  <2> QED BY Typed, <1>1, <1>3, <2>1 DEF CarveX402, SameAsk, CallState
<1>4. CASE SellerRefuses(p)
  BY Typed, <1>1, <1>4 DEF SellerRefuses, SetStatus, SameAsk, CallState
<1>5. ASSUME NEW tx, NEW fee, SellerServes(p, tx, fee)
      PROVE  /\ UNCHANGED <<status, log, sweep, wire>>
             /\ \A q \in Call \ {p} : call'[q] = call[q]
             /\ SameAsk(call'[p], call[p]) /\ call[p].phase = "seller"
             /\ \A i \in Charge \ {p} : rows'[i] = rows[i]
             /\ call'[p].phase = "done"
  BY Typed, <1>1, <1>5 DEF SellerServes, SameAsk, CallState
<1> QED BY <1>2, <1>3, <1>4, <1>5 DEF X402Step

\* A webhook books a fresh row.
LEMMA FiatEffect ==
  ASSUME TypeInv, NEW f \in Fiat, NEW c \in Card, NEW a \in Amounts \ {0},
         FiatAuthorize(f, c, a)
  PROVE  /\ UNCHANGED <<clock, status, queue, call, wire, log, sweep>>
         /\ \A i \in Charge \ {f} : rows'[i] = rows[i]
         /\ rows[f].status = "absent" /\ rows'[f].status = "pending"
         /\ rows'[f].kind = "fiat" /\ rows'[f].key = NoKey /\ rows'[f].card = c
         /\ rows'[f].request = "null" /\ rows'[f].fee = 0
<1> DEFINE row == NewRow(c, NoKey, "fiat", a, 0, clock)
<1>1. rows'[f] = row /\ \A i \in Charge \ {f} : rows'[i] = rows[i]
  BY Typed DEF FiatAuthorize
<1> QED BY <1>1 DEF FiatAuthorize, NewRow

\* A sweep gives its stale rows a verdict, and fails orphaned carves.
LEMMA SweepRows ==
  ASSUME TypeInv, SweepStep, NEW i \in Charge
  PROVE  /\ SameBooking(rows'[i], rows[i]) /\ rows'[i].fee = rows[i].fee
         /\ rows'[i].request = rows[i].request /\ rows'[i].since = rows[i].since
         /\ rows'[i].created = rows[i].created
         /\ \/ rows'[i] = rows[i]
            \/ rows[i].kind = "x402" /\ rows[i].status = "pending"
            \/ /\ SweepApply /\ i \in sweep.stale
               /\ rows'[i].status \in {"confirmed", "failed", "settlement_unconfirmed"}
               /\ rows'[i].status = "failed" => rows[i].kind # "fiat"
<1>1. rows[i] \in ChargeRow
  BY Typed
<1>2. CASE SweepStart
  BY <1>1, <1>2 DEF SweepStart, PendingX402ChargesOlderThan, SameBooking, ChargeRow
<1>3. CASE SweepScan \/ SweepFails
  BY <1>3 DEF SweepScan, SweepFails, SameBooking
<1>4. CASE SweepApply
  <2>1. PICK hit \in [sweep.stale -> 0 .. sweep.upto] :
           rows' = [j \in Charge |->
                      IF j \in sweep.stale THEN Swept(j, hit[j]) ELSE rows[j]]
    BY <1>4 DEF SweepApply
  <2>2. CASE i \notin sweep.stale
    BY <2>1, <2>2 DEF SameBooking
  <2>3. CASE i \in sweep.stale
    <3>1. rows'[i] = Swept(i, hit[i])
      BY <2>1, <2>3
    <3> QED BY <1>1, <1>4, <2>3, <3>1 DEF Swept, SameBooking, ChargeRow
  <2> QED BY <2>2, <2>3
<1> QED BY <1>2, <1>3, <1>4 DEF SweepStep

\* The rows a sweep holds were pending and sent when it read them.
LEMMA SweepTakes ==
  ASSUME TypeInv, SweepStep
  PROVE  /\ UNCHANGED <<clock, status, queue, call, wire, log>>
         /\ \/ sweep'.stale \subseteq sweep.stale
            \/ /\ SweepStart /\ sweep'.phase = "head"
               /\ sweep'.stale = PendingChargesOlderThan(rows, clock - Cutoff)
         /\ sweep'.phase = "apply" =>
               sweep.phase = "head" /\ sweep'.upto = Len(log)
<1>1. CASE SweepStart
  BY <1>1 DEF SweepStart, IdleSweep
<1>2. CASE SweepScan
  BY Typed, <1>2 DEF SweepScan, Sweep
<1>3. CASE SweepFails \/ SweepApply
  BY <1>3 DEF SweepFails, SweepApply, IdleSweep
<1> QED BY <1>1, <1>2, <1>3 DEF SweepStep

\* A crash ends what was under way and forgets the sweep.
LEMMA CrashEffect ==
  ASSUME TypeInv, Crash, NEW q \in Call
  PROVE  /\ UNCHANGED <<clock, status, rows, wire, log>>
         /\ SameAsk(call'[q], call[q]) /\ call'[q].fee = call[q].fee
         /\ call'[q].now = call[q].now /\ call'[q].since = call[q].since
         /\ call'[q].hint = call[q].hint
         /\ call'[q].phase = IF call[q].phase = "idle" THEN "idle" ELSE "done"
         /\ sweep'.stale = {} /\ sweep'.phase = "idle"
BY Typed DEF Crash, SameAsk, IdleSweep, CallState

-----------------------------------------------------------------------------
(* Settlements.                                                            *)

\* What a step may do to an authorization.
FiatGoesOn ==
    \A f \in Fiat :
        /\ rows[f].status # "absent" =>
              /\ rows'[f].status \notin {"absent", "failed"}
              /\ SameBooking(rows'[f], rows[f])
              /\ rows[f].request # "null" => rows'[f].request # "null"
        /\ \/ rows[f].status # "absent" \/ rows'[f] = rows[f]
           \/ /\ rows'[f].status = "pending"
              /\ rows'[f].kind = "fiat" /\ rows'[f].key = NoKey /\ rows'[f].fee = 0

\* A step that touches at most the row of a settlement.
LEMMA SettlementRow ==
  ASSUME SettleInv, NEW p \in Call, LET r == call[p].row IN
         /\ \A i \in Charge \ {r} : rows'[i] = rows[i]
         /\ \/ rows'[r] = rows[r] \/ ~Settling(p)
            \/ /\ SameBooking(rows'[r], rows[r])
               /\ rows'[r].status \notin {"absent", "failed"}
               /\ rows[r].request # "null" => rows'[r].request # "null"
  PROVE  FiatGoesOn
<1>1. ~Settling(p) => call[p].row = p
  BY DEF SettleInv, LaneOfRow
<1>2. Settling(p) => rows[call[p].row].status # "absent"
  BY DEF SettleInv, LaneOfRow
<1> QED BY Typed, <1>1, <1>2 DEF SettleInv, FiatRows, FiatGoesOn, SameBooking

\* Steps of spend() keep what the card network approved.
LEMMA SpendFiat ==
  ASSUME SettleInv, NEW p \in Call, SpendStep(p)
  PROVE  FiatGoesOn
<1>1. TypeInv /\ call[p].row \in Charge
  BY Typed DEF SettleInv, CallState
<1>2. Settling(p) => rows[call[p].row].status \notin {"absent", "failed"}
  BY DEF SettleInv, LaneOfRow, FiatRows
<1>3. CASE Begin(p)
  <2>1. \A f \in Fiat : rows'[f] = rows[f]
    BY Typed, <1>1, <1>3, BeginRows DEF SettleInv, FiatRows
  <2> QED BY <2>1 DEF SettleInv, FiatRows, FiatGoesOn, SameBooking
<1>4. CASE Reserve(p)
  <2>1. ~Settling(p) => call[p].row = p
    BY DEF SettleInv, LaneOfRow
  <2> QED BY <1>1, <1>2, <1>4, <2>1, ReserveRows, SettlementRow
<1>5. ASSUME NEW fee \in Fees, QuoteFee(p, fee) \/ RaiseFee(p, fee)
      PROVE  FiatGoesOn
  BY <1>5, SettlementRow DEF QuoteFee, RaiseFee
<1>6. CASE Broadcast(p)
  BY <1>1, <1>2, <1>6, BroadcastRows, SettlementRow
<1>7. CASE SendReturns(p)
  BY <1>1, <1>2, <1>7, SendReturnsRows, SettlementRow
<1>8. CASE Ends(p)
  BY <1>1, <1>2, <1>8, EndRows, SettlementRow
<1>9. CASE Polls(p)
  BY <1>1, <1>9, SettlementRow, PollEffect
<1> QED BY <1>3, <1>4, <1>5, <1>6, <1>7, <1>8, <1>9 DEF SpendStep, Ends, Polls

\* So does every other step.
LEMMA EveryStepFiat ==
  ASSUME SettleInv, [Next]_vars
  PROVE  FiatGoesOn
<1>1. TypeInv
  BY DEF SettleInv
<1>2. ASSUME \A f \in Fiat : rows'[f] = rows[f]
      PROVE  FiatGoesOn
  BY <1>2 DEF SettleInv, FiatRows, FiatGoesOn, SameBooking
<1>3. CASE UNCHANGED vars \/ OwnerStep \/ Tick \/ Crash
  BY <1>2, <1>3
     DEF vars, OwnerStep, FreezeCard, UnfreezeCard, RevokeCard, NukeAll, Tick, Crash
<1>4. ASSUME NEW p \in Call, Enter(p) \/ ChainStep(p)
      PROVE  FiatGoesOn
  BY <1>1, <1>2, <1>4, EnterFields, ChainEffect
<1>5. ASSUME NEW p \in Call, X402Step(p)
      PROVE  FiatGoesOn
  BY <1>1, <1>2, <1>5, X402Effect, Typed
<1>6. ASSUME NEW f \in Fiat, NEW c \in Card, NEW a \in Amounts \ {0},
             FiatAuthorize(f, c, a)
      PROVE  FiatGoesOn
  <2>1. \A i \in Fiat \ {f} : rows'[i] = rows[i]
    BY <1>1, <1>6, FiatEffect, Typed
  <2> QED BY <1>1, <1>6, <2>1, FiatEffect
          DEF SettleInv, FiatRows, FiatGoesOn, SameBooking
<1>7. CASE SweepStep
  <2>1. ASSUME NEW f \in Fiat
        PROVE  /\ rows[f].status # "absent" =>
                    /\ rows'[f].status \notin {"absent", "failed"}
                    /\ SameBooking(rows'[f], rows[f])
                    /\ rows[f].request # "null" => rows'[f].request # "null"
               /\ rows[f].status = "absent" => rows'[f] = rows[f]
    <3>1. f \in sweep.stale => rows[f].status # "absent"
      BY DEF SettleInv, FiatRows
    <3>2. rows[f].status # "absent" => rows[f].kind = "fiat" /\ rows[f].status # "failed"
      BY DEF SettleInv, FiatRows
    <3> QED BY Typed, <1>1, <1>7, <3>1, <3>2, SweepRows
  <2> QED BY <2>1 DEF FiatGoesOn
<1>8. CASE Next
  BY <1>3, <1>4, <1>5, <1>6, <1>7, <1>8, SpendFiat DEF Next
<1> QED BY <1>3, <1>8

\* A step that sends nothing of a settlement, and lets none decide on a row that
\* is claimed.
LEMMA KeepsSettled ==
  ASSUME SettleInv, TypeInv', FiatGoesOn,
         \A f \in sweep'.stale \cap Fiat : rows[f].status # "absent",
         \A q \in Call :
            /\ SameAsk(call'[q], call[q])
            /\ call'[q].phase = "idle" => call[q].phase = "idle"
            /\ call'[q].phase \in {"sign", "seller"} => call[q].lane = "x402"
            /\ call'[q].phase \in BeforeSend => wire'[q] = "none"
            /\ Settling(q) /\ wire'[q] # "none" => wire[q] # "none"
            /\ Settling(q) /\ call'[q].phase \in Deciding =>
                  rows'[call[q].row].request = "null"
  PROVE  SettleInv'
<1>1. FiatRows'
  BY DEF SettleInv, FiatRows, FiatGoesOn, SameBooking
<1>2. ASSUME NEW q \in Call
      PROVE  Settling(q)' = Settling(q) /\ call'[q].row = call[q].row
  BY DEF Settling, SameAsk
<1>3. LaneOfRow'
  <2>1. \A q \in Call : Settling(q) =>
           /\ call[q].row \in Fiat /\ rows[call[q].row].status # "absent"
           /\ rows[call[q].row].card = call[q].card
    BY DEF SettleInv, LaneOfRow
  <2>2. \A q \in Call : Settling(q) =>
           /\ rows'[call[q].row].status # "absent"
           /\ rows'[call[q].row].card = call[q].card
    BY <2>1 DEF FiatGoesOn, SameBooking
  <2> QED BY <1>2, <2>1, <2>2 DEF SettleInv, LaneOfRow, SameAsk
<1>4. SentLater'
  BY DEF SentLater
<1>5. ClaimedFirst'
  <2>1. \A q \in Call : Settling(q) /\ wire'[q] # "none" =>
           rows'[call[q].row].request # "null"
    BY DEF SettleInv, ClaimedFirst, LaneOfRow, FiatGoesOn
  <2>2. \A p, q \in Call :
           p # q /\ Settling(p) /\ Settling(q) /\ call[p].row = call[q].row
              => wire'[p] = "none" \/ wire'[q] = "none"
    BY DEF SettleInv, ClaimedFirst
  <2> QED BY <1>2, <2>1, <2>2 DEF ClaimedFirst
<1> QED BY <1>1, <1>3, <1>4, <1>5 DEF SettleInv

\* Two settlements of one row are not inside their sections together.
LEMMA OneInside ==
  ASSUME SettleInv, NEW p \in Call, NEW q \in Call, Settling(p), Settling(q),
         call[p].row = call[q].row, InSection(p), InSection(q)
  PROVE  p = q
<1>1. call[p].card = call[q].card
  BY DEF SettleInv, LaneOfRow
<1>2. MyKey(p) = MyKey(q)
  BY <1>1 DEF MyKey
<1> QED BY <1>2 DEF SettleInv, TypeInv, HoldsMutex

\* A request that enters takes over an unclaimed row, or none.
LEMMA EnterSettled ==
  ASSUME SettleInv, TypeInv', NEW p \in Call, Enter(p)
  PROVE  SettleInv'
<1>1. TypeInv /\ wire[p] = "none"
  BY EnterFields DEF SettleInv, SentLater, BeforeSend
<1>2. /\ UNCHANGED <<rows, wire, sweep>>
      /\ \A q \in Call \ {p} : call'[q] = call[q]
      /\ call[p].phase = "idle" /\ call'[p].phase = "queued"
      /\ \/ call'[p].lane \in {"pay", "x402"} /\ call'[p].row = call[p].row
         \/ /\ call'[p].lane = "settle" /\ call'[p].row \in Fiat
            /\ rows[call'[p].row].status = "pending"
            /\ rows[call'[p].row].card = call'[p].card
  BY <1>1, EnterFields
<1>3. call[p].row = p
  BY <1>2 DEF SettleInv, LaneOfRow, Settling
<1>4. FiatRows'
  BY <1>2 DEF SettleInv, FiatRows
<1>5. LaneOfRow'
  BY <1>2, <1>3 DEF SettleInv, LaneOfRow, Settling
<1>6. SentLater'
  BY <1>1, <1>2 DEF SettleInv, SentLater
<1>7. ClaimedFirst'
  BY <1>1, <1>2 DEF SettleInv, ClaimedFirst, Settling, Deciding
<1> QED BY <1>4, <1>5, <1>6, <1>7 DEF SettleInv

\* A settlement that sends is the first for its row, and claims it.
LEMMA BroadcastSettled ==
  ASSUME SettleInv, TypeInv', NEW p \in Call, Broadcast(p)
  PROVE  SettleInv'
<1>1. TypeInv
  BY DEF SettleInv
<1>2. /\ \A q \in Call \ {p} : call'[q] = call[q]
      /\ SameAsk(call'[p], call[p]) /\ call[p].phase = "head"
      /\ call'[p].phase = "sending" /\ wire'[p] = "posted"
      /\ \A q \in Call \ {p} : wire'[q] = wire[q]
  BY <1>1, BroadcastEffect
<1>3. FiatGoesOn /\ UNCHANGED sweep
  BY SpendFiat DEF SpendStep, Broadcast
<1>4. CASE ~Settling(p)
  <2>1. rows' = rows
    BY <1>1, <1>4, BroadcastRows
  <2>2. \A q \in Call : Settling(q) /\ call'[q].phase \in Deciding =>
           rows'[call[q].row].request = "null"
    BY <1>2, <1>4, <2>1 DEF SettleInv, ClaimedFirst
  <2>3. \A q \in Call : call'[q].phase \in BeforeSend => wire'[q] = "none"
    BY <1>2 DEF SettleInv, SentLater, BeforeSend
  <2>4. \A q \in Call : call'[q].phase \in {"sign", "seller"} => call[q].lane = "x402"
    BY <1>2 DEF SettleInv, LaneOfRow
  <2> QED BY <1>2, <1>3, <1>4, <2>2, <2>3, <2>4, KeepsSettled
          DEF SettleInv, FiatRows, SameAsk
<1>5. CASE Settling(p)
  <2> DEFINE r == call[p].row
  <2>1. /\ \A i \in Charge \ {r} : rows'[i] = rows[i]
        /\ rows'[r].request = "claim"
    BY <1>1, <1>5, BroadcastRows
  <2>2. r \in Fiat /\ rows[r].request = "null"
    BY <1>2, <1>5 DEF SettleInv, LaneOfRow, ClaimedFirst, Deciding
  <2>3. ASSUME NEW q \in Call, q # p, Settling(q), call[q].row = r
        PROVE  wire[q] = "none" /\ call[q].phase \notin Deciding
    <3>1. wire[q] = "none"
      BY <2>2, <2>3 DEF SettleInv, ClaimedFirst
    <3>2. InSection(p) /\ (call[q].phase \in Deciding => InSection(q))
      BY <1>2 DEF InSection, Deciding
    <3> QED BY <1>5, <2>3, <3>1, <3>2, OneInside
  <2>4. ASSUME NEW q \in Call
        PROVE  Settling(q)' = Settling(q) /\ call'[q].row = call[q].row
    BY <1>2 DEF Settling, SameAsk
  <2>5. ClaimedFirst'
    <3>1. \A q \in Call : Settling(q) /\ wire'[q] # "none" =>
             rows'[call[q].row].request # "null"
      BY Typed, <1>1, <1>2, <1>5, <2>1, <2>2 DEF SettleInv, ClaimedFirst, LaneOfRow
    <3>2. \A q \in Call : Settling(q) /\ call'[q].phase \in Deciding =>
             rows'[call[q].row].request = "null"
      BY Typed, <1>1, <1>2, <2>1, <2>3
         DEF SettleInv, ClaimedFirst, LaneOfRow, Deciding
    <3>3. \A s, q \in Call :
             s # q /\ Settling(s) /\ Settling(q) /\ call[s].row = call[q].row
                => wire'[s] = "none" \/ wire'[q] = "none"
      BY <1>2, <2>3 DEF SettleInv, ClaimedFirst
    <3> QED BY <2>4, <3>1, <3>2, <3>3 DEF ClaimedFirst
  <2>6. FiatRows'
    BY <1>3 DEF SettleInv, FiatRows, FiatGoesOn, SameBooking
  <2>7. LaneOfRow'
    <3>1. \A q \in Call : Settling(q) =>
             /\ call[q].row \in Fiat
             /\ rows'[call[q].row].status # "absent"
             /\ rows'[call[q].row].card = call[q].card
      BY <1>3 DEF SettleInv, LaneOfRow, FiatGoesOn, SameBooking
    <3> QED BY <1>2, <2>4, <3>1 DEF SettleInv, LaneOfRow, SameAsk
  <2>8. SentLater'
    BY <1>2 DEF SettleInv, SentLater, BeforeSend
  <2> QED BY <2>5, <2>6, <2>7, <2>8 DEF SettleInv
<1> QED BY <1>4, <1>5

\* Every step of spend() and of confirmRedemption().
LEMMA SpendSettled ==
  ASSUME SettleInv, TypeInv', NEW p \in Call, SpendStep(p)
  PROVE  SettleInv'
<1>1. TypeInv /\ FiatGoesOn
  BY SpendFiat DEF SettleInv
<1>2. sweep' = sweep
  BY DEF SpendStep, Replay, Begin, Abort, Reserve, QuoteFee, RaiseFee, HeadFails,
         RefuseBroadcast, Broadcast, SendReturns, SendFails, ConfirmByStatus,
         ConfirmByLog, ConfirmBy, ConfirmReverted, ConfirmTimesOut,
         ToldReverted, ScanFindsNothing, Told
<1>3. \A f \in sweep'.stale \cap Fiat : rows[f].status # "absent"
  BY <1>2 DEF SettleInv, FiatRows
<1>4. \A q \in Call :
         /\ SameAsk(call[q], call[q])
         /\ call[q].phase \in {"sign", "seller"} => call[q].lane = "x402"
         /\ call[q].phase \in BeforeSend => wire[q] = "none"
         /\ Settling(q) /\ call[q].phase \in Deciding => rows[call[q].row].request = "null"
  BY DEF SettleInv, LaneOfRow, SentLater, ClaimedFirst, SameAsk
<1>5. ASSUME NEW q \in Call, q # p, Settling(q), call[q].phase \in Deciding,
             Settling(p), InSection(p)
      PROVE  call[q].row # call[p].row
  BY <1>5, OneInside DEF InSection, Deciding
<1>6. ASSUME NEW q \in Call, Settling(q)
      PROVE  call[q].row \in Fiat
  BY <1>6 DEF SettleInv, LaneOfRow
<1>7. ~Settling(p) => call[p].row = p
  BY DEF SettleInv, LaneOfRow
<1>8. CASE Begin(p)
  <2>1. Settling(p) => rows[call[p].row].request = "null"
    BY <1>8 DEF Begin, Replayed, Settling
  <2>2. \A q \in Call : Settling(q) => rows'[call[q].row] = rows[call[q].row]
    <3>1. \A f \in Fiat : rows[f].status # "failed"
      BY DEF SettleInv, FiatRows
    <3> QED BY Typed, <1>1, <1>6, <1>8, <3>1, BeginRows
  <2>3. wire' = wire
    BY <1>8 DEF Begin
  <2>4. wire[p] = "none"
    BY <1>1, <1>8, BeginEffect DEF SettleInv, SentLater, BeforeSend
  <2>5. \A q \in Call : Settling(q) /\ call'[q].phase \in Deciding =>
           rows'[call[q].row].request = "null"
    BY <1>1, <1>4, <1>8, <2>1, <2>2, BeginEffect
  <2>6. \A q \in Call :
           /\ SameAsk(call'[q], call[q])
           /\ call'[q].phase = "idle" => call[q].phase = "idle"
           /\ call'[q].phase \in {"sign", "seller"} => call[q].lane = "x402"
           /\ call'[q].phase \in BeforeSend => wire'[q] = "none"
    BY <1>1, <1>4, <1>8, <2>3, <2>4, BeginEffect
  <2> QED BY <1>1, <1>3, <2>3, <2>5, <2>6, KeepsSettled
<1>9. ASSUME NEW fee \in Fees, QuoteFee(p, fee) \/ RaiseFee(p, fee)
      PROVE  SettleInv'
  <2>1. /\ call[p].phase \in {"fee", "estimate"} /\ call'[p].phase = "estimate"
        /\ SameAsk(call'[p], call[p]) /\ \A q \in Call \ {p} : call'[q] = call[q]
        /\ rows' = rows /\ wire' = wire
    BY <1>1, <1>9, QuoteEffect
  <2>2. wire[p] = "none"
    BY <1>4, <2>1 DEF BeforeSend
  <2>3. Settling(p) => rows[call[p].row].request = "null"
    BY <1>4, <2>1 DEF Deciding
  <2> QED BY <1>1, <1>3, <1>4, <2>1, <2>2, <2>3, KeepsSettled
<1>10. CASE Reserve(p)
  <2>1. /\ call[p].phase = "estimate" /\ call'[p].phase = "head"
        /\ SameAsk(call'[p], call[p]) /\ \A q \in Call \ {p} : call'[q] = call[q]
    BY <1>1, <1>10, ReserveEffect
  <2>2. wire' = wire /\ wire[p] = "none"
    BY <1>4, <1>10, <2>1 DEF Reserve, BeforeSend
  <2>3. \A f \in Fiat : rows'[f].request = rows[f].request
    BY Typed, <1>1, <1>10, ReserveRows
  <2>4. Settling(p) => rows[call[p].row].request = "null"
    BY <1>4, <2>1 DEF Deciding
  <2>5. \A q \in Call : Settling(q) /\ call'[q].phase \in Deciding =>
           rows'[call[q].row].request = "null"
    BY <1>4, <1>6, <2>1, <2>3, <2>4
  <2> QED BY <1>1, <1>3, <1>4, <2>1, <2>2, <2>5, KeepsSettled
<1>11. CASE SendReturns(p)
  <2>1. /\ call[p].phase = "sending" /\ call'[p].phase = "confirming"
        /\ SameAsk(call'[p], call[p]) /\ \A q \in Call \ {p} : call'[q] = call[q]
        /\ wire' = wire
    BY <1>1, <1>11, SendReturnsEffect
  <2>2. \A i \in Charge \ {call[p].row} : rows'[i] = rows[i]
    BY <1>1, <1>11, SendReturnsRows
  <2>3. InSection(p)
    BY <2>1 DEF InSection
  <2>4. \A q \in Call : Settling(q) /\ call'[q].phase \in Deciding =>
           rows'[call[q].row].request = "null"
    <3>1. \A q \in Call : Settling(q) /\ call'[q].phase \in Deciding =>
             /\ q # p /\ call[q].phase \in Deciding
             /\ call[q].row \in Fiat /\ call[q].row # call[p].row
      BY Typed, <1>1, <1>5, <1>6, <1>7, <2>1, <2>3 DEF Deciding
    <3> QED BY Typed, <1>1, <1>4, <2>2, <3>1
  <2> QED BY <1>1, <1>3, <1>4, <2>1, <2>4, KeepsSettled DEF BeforeSend
<1>12. CASE Ends(p)
  <2>1. /\ SameAsk(call'[p], call[p]) /\ call'[p].phase = "done"
        /\ \A q \in Call \ {p} : call'[q] = call[q] /\ wire'[q] = wire[q]
        /\ wire'[p] = wire[p] \/ wire[p] = "posted"
    BY <1>1, <1>12, EndEffect
  <2>2. \A i \in Charge : rows'[i].request = rows[i].request
    BY <1>1, <1>12, EndRows
  <2>3. \A q \in Call : Settling(q) /\ call'[q].phase \in Deciding =>
           rows'[call[q].row].request = "null"
    BY Typed, <1>1, <1>4, <1>6, <2>1, <2>2 DEF Deciding
  <2> QED BY <1>1, <1>3, <1>4, <2>1, <2>3, KeepsSettled DEF BeforeSend
<1>13. CASE Polls(p)
  <2>1. /\ SameAsk(call'[p], call[p]) /\ call'[p].phase = "confirming"
        /\ \A q \in Call \ {p} : call'[q] = call[q]
        /\ rows' = rows /\ wire' = wire
    BY <1>1, <1>13, PollEffect
  <2>2. \A q \in Call : Settling(q) /\ call'[q].phase \in Deciding =>
           rows'[call[q].row].request = "null"
    BY <1>4, <2>1 DEF Deciding
  <2> QED BY <1>1, <1>3, <1>4, <2>1, <2>2, KeepsSettled DEF BeforeSend
<1> QED BY <1>8, <1>9, <1>10, <1>11, <1>12, <1>13, BroadcastSettled
        DEF SpendStep, Ends, Polls

\* Every step.
LEMMA SettleKept ==
  ASSUME SettleInv, [Next]_vars
  PROVE  SettleInv'
<1>1. TypeInv /\ TypeInv' /\ FiatGoesOn
  BY NextTypeInv, EveryStepFiat DEF SettleInv
<1>2. \A q \in Call :
         /\ SameAsk(call[q], call[q])
         /\ call[q].phase \in {"sign", "seller"} => call[q].lane = "x402"
         /\ call[q].phase \in BeforeSend => wire[q] = "none"
         /\ Settling(q) /\ call[q].phase \in Deciding => rows[call[q].row].request = "null"
  BY DEF SettleInv, LaneOfRow, SentLater, ClaimedFirst, SameAsk
<1>3. \A f \in sweep.stale \cap Fiat : rows[f].status # "absent"
  BY DEF SettleInv, FiatRows
<1>4. \A q \in Call : Settling(q) => call[q].row \in Fiat
  BY DEF SettleInv, LaneOfRow
<1>5. ASSUME UNCHANGED <<rows, call, wire, sweep>>
      PROVE  SettleInv'
  BY <1>1, <1>2, <1>3, <1>5, KeepsSettled
<1>6. CASE UNCHANGED vars \/ OwnerStep \/ Tick
  BY <1>5, <1>6 DEF vars, OwnerStep, FreezeCard, UnfreezeCard, RevokeCard,
     NukeAll, Tick
<1>7. ASSUME NEW p \in Call, ChainStep(p)
      PROVE  SettleInv'
  <2>1. /\ UNCHANGED <<rows, call, sweep>> /\ wire[p] # "none"
        /\ \A q \in Call \ {p} : wire'[q] = wire[q]
    BY <1>1, <1>7, ChainEffect
  <2> QED BY <1>1, <1>2, <1>3, <2>1, KeepsSettled
<1>8. ASSUME NEW p \in Call, X402Step(p)
      PROVE  SettleInv'
  <2>1. /\ UNCHANGED sweep /\ SameAsk(call'[p], call[p])
        /\ \A q \in Call \ {p} : call'[q] = call[q] /\ wire'[q] = wire[q]
        /\ call[p].lane = "x402" \/ call[p].phase \in {"sign", "seller"}
        /\ \A i \in Charge \ {p} : rows'[i] = rows[i]
        /\ call[p].phase # "idle" /\ call'[p].phase \in {"sign", "seller", "done"}
        /\ call'[p].phase = "sign" => wire'[p] = wire[p]
    BY <1>1, <1>8, X402Effect
  <2>2. call[p].lane = "x402" /\ ~Settling(p)
    BY <1>2, <2>1 DEF Settling
  <2>3. call'[p].phase = "sign" => wire[p] = "none"
    <3>1. CASE BeginX402(p)
      BY <1>2, <3>1 DEF BeginX402, MyTurn, BeforeSend
    <3>2. CASE ~BeginX402(p)
      BY Typed, <1>1, <1>8, <3>2
         DEF X402Step, CarveX402, SellerRefuses, SellerServes, CallState
    <3> QED BY <3>1, <3>2
  <2>4. \A q \in Call : Settling(q) => rows'[call[q].row] = rows[call[q].row]
    BY Typed, <1>1, <1>4, <2>1
  <2>5. \A q \in Call : Settling(q) /\ call'[q].phase \in Deciding =>
           rows'[call[q].row].request = "null"
    BY <1>2, <2>1, <2>2, <2>4
  <2>6. call'[p].phase \in BeforeSend => wire'[p] = "none"
    BY <2>1, <2>3 DEF BeforeSend
  <2> QED BY <1>1, <1>2, <1>3, <2>1, <2>2, <2>5, <2>6, KeepsSettled
<1>9. ASSUME NEW f \in Fiat, NEW c \in Card, NEW a \in Amounts \ {0},
             FiatAuthorize(f, c, a)
      PROVE  SettleInv'
  <2>1. /\ UNCHANGED <<call, wire, sweep>> /\ rows'[f].request = "null"
        /\ \A i \in Charge \ {f} : rows'[i] = rows[i]
    BY <1>1, <1>9, FiatEffect
  <2>2. \A q \in Call : Settling(q) /\ call'[q].phase \in Deciding =>
           rows'[call[q].row].request = "null"
    BY Typed, <1>1, <1>2, <1>4, <2>1
  <2> QED BY <1>1, <1>2, <1>3, <2>1, <2>2, KeepsSettled
<1>10. CASE SweepStep
  <2>1. UNCHANGED <<call, wire>>
    BY <1>1, <1>10, SweepTakes
  <2>2. \A i \in Charge : rows'[i].request = rows[i].request
    BY <1>1, <1>10, SweepRows
  <2>3. \A q \in Call : Settling(q) /\ call'[q].phase \in Deciding =>
           rows'[call[q].row].request = "null"
    BY Typed, <1>1, <1>2, <1>4, <2>1, <2>2
  <2>4. \A f \in sweep'.stale \cap Fiat : rows[f].status # "absent"
    BY <1>1, <1>3, <1>10, SweepTakes DEF PendingChargesOlderThan
  <2> QED BY <1>1, <1>2, <2>1, <2>3, <2>4, KeepsSettled
<1>11. CASE Crash
  <2>1. UNCHANGED <<rows, wire>> /\ sweep'.stale = {}
    BY <1>11 DEF Crash, IdleSweep
  <2>2. \A q \in Call :
           /\ SameAsk(call'[q], call[q])
           /\ call'[q].phase = IF call[q].phase = "idle" THEN "idle" ELSE "done"
    BY <1>1, <1>11, CrashEffect
  <2>3. \A q \in Call : call'[q].phase \in BeforeSend => wire'[q] = "none"
    BY <1>2, <2>1, <2>2 DEF BeforeSend
  <2>4. \A q \in Call : call'[q].phase \notin Deciding \cup {"sign", "seller"}
    BY <2>2 DEF Deciding
  <2> QED BY <1>1, <2>1, <2>2, <2>3, <2>4, KeepsSettled
<1>12. CASE Next
  BY <1>1, <1>6, <1>7, <1>8, <1>9, <1>10, <1>11, <1>12, EnterSettled, SpendSettled
     DEF Next, SettleInv
<1> QED BY <1>6, <1>12

\* The empty server.
LEMMA InitSettle == Init => SettleInv
<1> SUFFICES ASSUME Init PROVE SettleInv
  OBVIOUS
<1>1. TypeInv
  BY InitTypeInv
<1>2. FiatRows
  BY <1>1, Typed DEF Init, FiatRows, NoRow, IdleSweep
<1>3. LaneOfRow /\ ClaimedFirst
  BY DEF Init, LaneOfRow, ClaimedFirst, Settling, IdleCall, Deciding
<1>4. SentLater
  BY DEF Init, SentLater
<1> QED BY <1>1, <1>2, <1>3, <1>4 DEF SettleInv

\* A card-network authorization is settled by one redemption at most, under every
\* fault the model knows, a lost reply and a crash included: the claim is written
\* before the send, and nothing takes it back (spend.ts, 572-587).
THEOREM OneSettlement == Spec => []SettledOnce
<1>1. SettleInv => SettledOnce
  BY DEF SettleInv, ClaimedFirst, SettledOnce, Moving
<1> QED BY <1>1, InitSettle, SettleKept, PTL DEF Spec

\* What the card network approved never gives its budget back, whatever becomes
\* of its settlement (spend.ts, 584-611; reconcilePending, 755-766).
THEOREM ApprovalsStand == Spec => FiatStaysHeld
<1>1. ASSUME SettleInv, [Next]_vars
      PROVE  [\A f \in Fiat : rows[f].status # "absent" =>
                 /\ rows'[f].status \notin {"absent", "failed"}
                 /\ rows'[f].amount = rows[f].amount]_vars
  BY <1>1, EveryStepFiat DEF FiatGoesOn, SameBooking
<1> QED BY <1>1, InitSettle, SettleKept, PTL DEF Spec, FiatStaysHeld

-----------------------------------------------------------------------------
(* The statuses at the send.                                               *)

\* Nobody on the lane, no step of it.
LEMMA NoX402Step ==
  ASSUME LimitInv, NEW p \in Call
  PROVE  ~X402Step(p)
BY DEF LimitInv, Books, RowOwners, NoCarves, X402Step, BeginX402, CarveX402,
       SellerRefuses, SellerServes

\* Two lanes are left: redemptions of the server's own rows, and of authorizations.
LEMMA PayOrSettle ==
  ASSUME LimitInv, NEW p \in Call
  PROVE  \/ call[p].lane = "pay" /\ call[p].row = p
         \/ call[p].lane = "settle" /\ call[p].row \in Fiat
<1>1. call[p] \in CallState
  BY DEF LimitInv, TypeInv, TypeOK
<1> QED BY <1>1 DEF LimitInv, Books, RowOwners, NoCarves, CallState

\* Without the lane nobody carves.
LEMMA NoCarvesKept ==
  ASSUME "x402" \notin Lanes, SettleInv, NoCarves, [Next]_vars
  PROVE  NoCarves'
<1>1. TypeInv
  BY DEF SettleInv
<1>2. CASE UNCHANGED call
  BY <1>2 DEF NoCarves
<1>3. ASSUME NEW p \in Call, Enter(p)
      PROVE  NoCarves'
  <2>1. call'[p].lane # "x402" /\ \A q \in Call \ {p} : call'[q] = call[q]
    BY <1>1, <1>3, EnterFields
  <2> QED BY <2>1 DEF NoCarves
<1>4. ASSUME NEW p \in Call, \A q \in Call \ {p} : call'[q] = call[q],
             SameAsk(call'[p], call[p])
      PROVE  NoCarves'
  BY <1>4 DEF NoCarves, SameAsk
<1>5. ASSUME NEW p \in Call, SpendStep(p)
      PROVE  NoCarves'
  <2>1. \A q \in Call \ {p} : call'[q] = call[q]
    BY <1>1, <1>5, BeginEffect, QuoteEffect, ReserveEffect, BroadcastEffect,
       SendReturnsEffect, EndEffect, PollEffect DEF SpendStep, Ends, Polls
  <2>2. SameAsk(call'[p], call[p])
    BY <1>1, <1>5, BeginEffect, QuoteEffect, ReserveEffect, BroadcastEffect,
       SendReturnsEffect, EndEffect, PollEffect DEF SpendStep, Ends, Polls
  <2> QED BY <1>4, <2>1, <2>2
<1>6. ASSUME NEW p \in Call, X402Step(p)
      PROVE  NoCarves'
  BY <1>1, <1>4, <1>6, X402Effect
<1>7. CASE Crash
  BY <1>1, <1>7, CrashEffect DEF NoCarves, SameAsk
<1>8. ASSUME NEW p \in Call, ChainStep(p)
      PROVE  NoCarves'
  BY <1>1, <1>2, <1>8, ChainEffect
<1>9. CASE SweepStep
  BY <1>1, <1>2, <1>9, SweepTakes
<1>10. CASE UNCHANGED vars \/ OwnerStep \/ Tick
  BY <1>2, <1>10
     DEF vars, OwnerStep, FreezeCard, UnfreezeCard, RevokeCard, NukeAll, Tick
<1> QED BY <1>2, <1>3, <1>5, <1>6, <1>7, <1>8, <1>9, <1>10 DEF Next, FiatAuthorize

\* Nothing but a broadcast sends.
LEMMA OnlyBroadcastSends ==
  ASSUME SettleInv, NoCarves, [Next]_vars, NEW p \in Call,
         wire[p] = "none", wire'[p] # "none"
  PROVE  Broadcast(p)
<1>1. TypeInv
  BY DEF SettleInv
<1>2. wire' # wire
  OBVIOUS
<1>3. \A q \in Call : ~X402Step(q)
  BY DEF SettleInv, LaneOfRow, NoCarves, X402Step, BeginX402, CarveX402,
         SellerRefuses, SellerServes
<1>4. \A q \in Call : ~Enter(q) /\ (ChainStep(q) => q # p)
  BY <1>1, <1>2, EnterFields, ChainEffect
<1>5. \A q \in Call : ~ChainStep(q)
  BY <1>1, <1>4, ChainEffect
<1>6. ~SweepStep
  BY <1>1, <1>2, SweepTakes
<1>7. PICK q \in Call : SpendStep(q)
  BY <1>2, <1>3, <1>4, <1>5, <1>6
     DEF Next, vars, FiatAuthorize, OwnerStep, FreezeCard, UnfreezeCard, RevokeCard,
         NukeAll, Tick, Crash
<1>8. ~Ends(q)
  BY <1>1, EndEffect
<1>9. Broadcast(q)
  BY <1>2, <1>7, <1>8
     DEF SpendStep, Ends, Begin, Reserve, QuoteFee, RaiseFee, SendReturns,
             ToldReverted, ScanFindsNothing, Told
<1>10. q = p
  BY <1>1, <1>9, BroadcastEffect
<1> QED BY <1>9, <1>10

\* A redemption leaves the server only while every card of its chain is active:
\* spend() looks at the statuses a second time in the step that sends
\* (spend.ts, 555-583), however long the awaits before it took and whatever the
\* owner did meanwhile.
THEOREM SentWhileSpendable ==
  ASSUME "x402" \notin Lanes
  PROVE  Spec => SpendableWhenSent
<1>1. ASSUME SettleInv, NoCarves, [Next]_vars
      PROVE  [\A p \in Call :
                 wire[p] = "none" /\ wire'[p] # "none" =>
                    \A a \in AncestorChain[call[p].card] : status[a] = "active"]_vars
  <2>1. ASSUME NEW p \in Call, Broadcast(p)
        PROVE  \A a \in AncestorChain[call[p].card] : status[a] = "active"
    BY <2>1 DEF Broadcast, StillSpendable, ChainSpendable
  <2> QED BY <1>1, <2>1, OnlyBroadcastSends
<1>2. Init => NoCarves
  BY DEF Init, NoCarves, IdleCall
<1> QED BY <1>1, <1>2, InitSettle, SettleKept, NoCarvesKept, PTL
        DEF Spec, SpendableWhenSent

-----------------------------------------------------------------------------
(* What a step may do to one request, one redemption and one row, whoever  *)
(* takes it.                                                               *)

\* A request goes from await to await, or ends.
GoesTo(phase, next) ==
    \/ phase = next
    \/ phase # "idle" /\ next = "done"
    \/ phase = "idle" /\ next = "queued"
    \/ phase = "queued" /\ next = "fee"
    \/ phase = "fee" /\ next = "estimate"
    \/ phase = "estimate" /\ next = "head"
    \/ phase = "head" /\ next = "sending"
    \/ phase = "sending" /\ next = "confirming"

CallGoesOn(q) ==
    /\ \/ SameAsk(call'[q], call[q])
       \/ call[q].phase = "idle" /\ call'[q].phase = "queued"
    /\ \/ /\ call'[q].fee = call[q].fee
          /\ call[q].phase = "fee" => call'[q].phase # "estimate"
       \/ /\ call[q].phase \in {"fee", "estimate"} /\ call'[q].phase = "estimate"
          /\ call'[q].fee \in JitteredFee(q, 0)
    /\ \/ call'[q].since = call[q].since
       \/ call[q].phase = "head" /\ call'[q].since = Len(log)
    /\ GoesTo(call[q].phase, call'[q].phase)
    /\ call'[q].phase = "fee" => call[q].phase = "fee" \/ Begin(q)
    /\ call'[q].phase = "confirming" => call[q].phase = "confirming" \/ SendReturns(q)
    /\ call'[q].now \in {call[q].now, clock}
    /\ call'[q].now # call[q].now => call[q].phase = "queued"
    /\ call'[q].hint = call[q].hint \/ Polls(q)

\* Every request goes on that way, and at most one at a time but for a crash.
LEMMA EachCall ==
  ASSUME SettleInv, NoCarves, [Next]_vars
  PROVE  /\ \A q \in Call : CallGoesOn(q)
         /\ \/ \E p \in Call : \A q \in Call \ {p} : call'[q] = call[q]
            \/ \A q \in Call : call'[q].fee = call[q].fee
<1>1. TypeInv
  BY DEF SettleInv
<1>2. \A q \in Call : call'[q] = call[q] => CallGoesOn(q)
  BY DEF CallGoesOn, GoesTo, SameAsk
<1>3. CASE UNCHANGED call
  BY <1>2, <1>3
<1>4. ASSUME NEW p \in Call, \A q \in Call \ {p} : call'[q] = call[q], CallGoesOn(p)
      PROVE  /\ \A q \in Call : CallGoesOn(q)
             /\ \E r \in Call : \A q \in Call \ {r} : call'[q] = call[q]
  BY <1>2, <1>4 DEF CallGoesOn
<1>5. ASSUME NEW p \in Call, Enter(p)
      PROVE  CallGoesOn(p) /\ \A q \in Call \ {p} : call'[q] = call[q]
  BY <1>1, <1>5, EnterFields DEF CallGoesOn, GoesTo
<1>6. ASSUME NEW p \in Call, SpendStep(p)
      PROVE  CallGoesOn(p) /\ \A q \in Call \ {p} : call'[q] = call[q]
  <2>1. CASE Begin(p)
    BY <1>1, <2>1, BeginEffect DEF CallGoesOn, GoesTo
  <2>2. ASSUME NEW fee \in Fees, QuoteFee(p, fee) \/ RaiseFee(p, fee)
        PROVE  CallGoesOn(p) /\ \A q \in Call \ {p} : call'[q] = call[q]
    BY <1>1, <2>2, QuoteEffect DEF CallGoesOn, GoesTo
  <2>3. CASE Reserve(p)
    BY <1>1, <2>3, ReserveEffect DEF CallGoesOn, GoesTo
  <2>4. CASE Broadcast(p)
    BY <1>1, <2>4, BroadcastEffect DEF CallGoesOn, GoesTo
  <2>5. CASE SendReturns(p)
    BY <1>1, <2>5, SendReturnsEffect DEF CallGoesOn, GoesTo
  <2>6. CASE Ends(p)
    BY <1>1, <2>6, EndEffect DEF CallGoesOn, GoesTo
  <2>7. CASE Polls(p)
    BY <1>1, <2>7, PollEffect DEF CallGoesOn, GoesTo
  <2> QED BY <1>6, <2>1, <2>2, <2>3, <2>4, <2>5, <2>6, <2>7 DEF SpendStep, Ends, Polls
<1>7. \A p \in Call : ~X402Step(p)
  BY DEF SettleInv, LaneOfRow, NoCarves, X402Step, BeginX402, CarveX402,
         SellerRefuses, SellerServes
<1>8. CASE Crash
  <2>1. \A q \in Call : CallGoesOn(q) /\ call'[q].fee = call[q].fee
    BY <1>1, <1>8, CrashEffect DEF CallGoesOn, GoesTo
  <2> QED BY <2>1
<1>9. ASSUME NEW p \in Call, ChainStep(p)
      PROVE  UNCHANGED call
  BY <1>1, <1>9, ChainEffect
<1>10. CASE SweepStep
  BY <1>1, <1>3, <1>10, SweepTakes
<1>11. CASE UNCHANGED vars \/ OwnerStep \/ Tick
  BY <1>3, <1>11
     DEF vars, OwnerStep, FreezeCard, UnfreezeCard, RevokeCard, NukeAll, Tick
<1> QED BY <1>3, <1>4, <1>5, <1>6, <1>7, <1>8, <1>9, <1>10, <1>11
        DEF Next, FiatAuthorize

\* A redemption is sent, accepted, mined or lost, in that order.
WireGoesOn(q) ==
    \/ wire'[q] = wire[q]
    \/ /\ wire[q] = "none" /\ wire'[q] = "posted"
       /\ call[q].phase = "head" /\ call'[q].phase = "sending"
    \/ wire[q] = "posted" /\ wire'[q] = "queued"
    \/ wire[q] = "queued" /\ wire'[q] = "landed" /\ log' = Append(log, q)
    \/ wire[q] \in {"posted", "queued"} /\ wire'[q] = "dropped"

\* Every redemption goes on that way, and the log holds those that are mined.
LEMMA EachWire ==
  ASSUME SettleInv, NoCarves, [Next]_vars
  PROVE  /\ \A q \in Call : WireGoesOn(q)
         /\ \/ log' = log
            \/ \E p \in Call : /\ wire[p] = "queued" /\ wire'[p] = "landed"
                               /\ log' = Append(log, p)
<1>1. TypeInv
  BY DEF SettleInv
<1>2. CASE UNCHANGED <<wire, log>>
  BY <1>2 DEF WireGoesOn
<1>3. ASSUME NEW p \in Call, WireGoesOn(p), log' = log,
             \A q \in Call \ {p} : wire'[q] = wire[q]
      PROVE  \A q \in Call : WireGoesOn(q)
  BY <1>3 DEF WireGoesOn
<1>4. ASSUME NEW p \in Call, ChainStep(p)
      PROVE  /\ \A q \in Call : WireGoesOn(q)
             /\ \/ log' = log
                \/ wire[p] = "queued" /\ wire'[p] = "landed" /\ log' = Append(log, p)
  BY <1>1, <1>4, ChainEffect DEF WireGoesOn
<1>5. ASSUME NEW p \in Call, SpendStep(p)
      PROVE  log' = log /\ \A q \in Call : WireGoesOn(q)
  <2>1. log' = log
    BY <1>5
       DEF SpendStep, Replay, Begin, Abort, Reserve, QuoteFee, RaiseFee, HeadFails,
           RefuseBroadcast, Broadcast, SendReturns, SendFails, ConfirmByStatus,
           ConfirmByLog, ConfirmBy, ConfirmReverted, ConfirmTimesOut,
           ToldReverted, ScanFindsNothing, Told
  <2>2. CASE Broadcast(p)
    <3>1. wire[p] = "none"
      BY <2>2 DEF Broadcast, SettleInv, SentLater, BeforeSend
    <3> QED BY <1>1, <1>3, <2>1, <2>2, <3>1, BroadcastEffect DEF WireGoesOn
  <2>3. CASE Ends(p)
    BY <1>1, <1>3, <2>1, <2>3, EndEffect DEF WireGoesOn
  <2>4. CASE ~Broadcast(p) /\ ~Ends(p)
    <3>1. wire' = wire
      BY <1>5, <2>4
         DEF SpendStep, Ends, Begin, Reserve, QuoteFee, RaiseFee, SendReturns,
             ToldReverted, ScanFindsNothing, Told
    <3> QED BY <2>1, <3>1 DEF WireGoesOn
  <2> QED BY <2>1, <2>2, <2>3, <2>4
<1>6. \A p \in Call : ~X402Step(p)
  BY DEF SettleInv, LaneOfRow, NoCarves, X402Step, BeginX402, CarveX402,
         SellerRefuses, SellerServes
<1>7. ASSUME NEW p \in Call, Enter(p)
      PROVE  UNCHANGED <<wire, log>>
  BY <1>1, <1>7, EnterFields
<1>8. CASE SweepStep
  BY <1>1, <1>2, <1>8, SweepTakes
<1>9. CASE UNCHANGED vars \/ OwnerStep \/ Tick \/ Crash
  BY <1>2, <1>9
     DEF vars, OwnerStep, FreezeCard, UnfreezeCard, RevokeCard, NukeAll, Tick, Crash
<1> QED BY <1>2, <1>4, <1>5, <1>6, <1>7, <1>8, <1>9 DEF Next, FiatAuthorize

\* A verdict: the status changes, and with it the transaction the row names.
Judged(i) ==
    /\ SameBooking(rows'[i], rows[i])
    /\ rows'[i].fee = rows[i].fee /\ rows'[i].created = rows[i].created
    /\ rows'[i].request = rows[i].request /\ rows'[i].since = rows[i].since
    /\ rows'[i].status \in {"confirmed", "failed", "settlement_unconfirmed"}

\* The row of a spend is booked by its request, gets its request id, gets a verdict
\* from it or from a sweep, and is deleted, if it failed unsent, for a retry.
PayRowGoesOn(p) ==
    \/ rows'[p] = rows[p]
    \/ \E q \in Call :
          /\ Begin(q) /\ ~Settling(q) /\ rows'[p] = NoRow
          /\ rows[p].status = "failed" /\ rows[p].request = "null"
          /\ rows[p].card = call[q].card /\ rows[p].key = call[q].key
          /\ call[q].key # NoKey
    \/ /\ Reserve(p) /\ ~Settling(p)
       /\ rows'[p].status = "pending" /\ rows'[p].request = "null"
       /\ rows'[p].fee = call[p].fee /\ rows'[p].created = call[p].now
       /\ rows'[p].card = call[p].card /\ rows'[p].key = call[p].key
    \/ /\ SendReturns(p) /\ ~Settling(p)
       /\ SameBooking(rows'[p], rows[p]) /\ rows'[p].fee = rows[p].fee
       /\ rows'[p].status = rows[p].status /\ rows'[p].created = rows[p].created
       /\ rows'[p].request = "sent" /\ rows'[p].since = call[p].since
    \/ /\ Ends(p) /\ ~Settling(p) /\ Judged(p)
       /\ call[p].phase \in {"head", "sending", "confirming"}
    \/ SweepApply /\ p \in sweep.stale /\ Judged(p)

\* Every step treats it so.
LEMMA EachPayRow ==
  ASSUME LimitInv, SettleInv, [Next]_vars, NEW p \in Call
  PROVE  PayRowGoesOn(p)
<1>1. TypeInv /\ p \in Charge
  BY Typed DEF SettleInv
<1>2. CASE rows' = rows
  BY <1>2 DEF PayRowGoesOn
<1>3. \A q \in Call : /\ ~Settling(q) => call[q].row = q
                      /\ Settling(q) => call[q].row # p
  BY <1>1, Typed DEF SettleInv, LaneOfRow
<1>4. ASSUME NEW q \in Call, SpendStep(q)
      PROVE  PayRowGoesOn(p)
  <2>1. CASE Begin(q)
    BY <1>1, <2>1, BeginRows DEF PayRowGoesOn
  <2>2. ASSUME rows'[p] # rows[p], ~Begin(q)
        PROVE  /\ q = p /\ ~Settling(q) /\ call[q].row = p
               /\ Reserve(q) \/ SendReturns(q) \/ Ends(q)
    <3>1. CASE Reserve(q)
      BY <1>1, <1>3, <2>2, <3>1, ReserveRows
    <3>2. CASE SendReturns(q)
      BY <1>1, <1>3, <2>2, <3>2, SendReturnsRows
    <3>3. CASE Ends(q)
      BY <1>1, <1>3, <2>2, <3>3, EndRows
    <3>4. CASE Broadcast(q)
      BY <1>1, <1>3, <2>2, <3>4, BroadcastRows
    <3> QED BY <1>4, <2>2, <3>1, <3>2, <3>3, <3>4
            DEF SpendStep, Ends, QuoteFee, RaiseFee, ToldReverted, ScanFindsNothing, Told
  <2>3. CASE Reserve(p) /\ ~Settling(p)
    BY <1>1, <2>3, ReserveRows DEF PayRowGoesOn
  <2>4. CASE SendReturns(p) /\ ~Settling(p)
    BY <1>1, <1>3, <2>4, SendReturnsRows DEF PayRowGoesOn
  <2>5. CASE Ends(p) /\ ~Settling(p)
    BY <1>1, <1>3, <2>5, EndRows DEF PayRowGoesOn, Judged
  <2>6. CASE rows'[p] = rows[p]
    BY <2>6 DEF PayRowGoesOn
  <2> QED BY <2>1, <2>2, <2>3, <2>4, <2>5, <2>6
<1>5. ASSUME NEW q \in Call, Enter(q) \/ ChainStep(q)
      PROVE  rows' = rows
  BY <1>1, <1>5, EnterFields, ChainEffect
<1>6. \A q \in Call : ~X402Step(q)
  BY NoX402Step
<1>7. ASSUME NEW f \in Fiat, NEW c \in Card, NEW a \in Amounts \ {0},
             FiatAuthorize(f, c, a)
      PROVE  rows'[p] = rows[p]
  BY <1>1, <1>7, FiatEffect, Typed
<1>8. CASE SweepStep
  <2>1. rows[p].kind # "x402" \/ rows[p].status # "pending"
    BY DEF LimitInv, Books, RowKinds, NoCarves
  <2> QED BY <1>1, <1>8, <2>1, SweepRows DEF PayRowGoesOn, Judged
<1>9. CASE UNCHANGED vars \/ OwnerStep \/ Tick \/ Crash
  BY <1>2, <1>9
     DEF vars, OwnerStep, FreezeCard, UnfreezeCard, RevokeCard, NukeAll, Tick, Crash
<1>10. CASE rows'[p] = rows[p]
  BY <1>10 DEF PayRowGoesOn
<1> QED BY <1>2, <1>4, <1>5, <1>6, <1>7, <1>8, <1>9, <1>10 DEF Next

\* The fee of an authorization is what a settlement adds when it reserves.
FiatFeeGoesOn(f) ==
    \/ rows'[f].fee = rows[f].fee
    \/ rows'[f].fee = 0
    \/ \E p \in Call : /\ Reserve(p) /\ Settling(p) /\ call[p].row = f
                       /\ rows'[f].fee = call[p].fee

\* Every step treats it so.
LEMMA EachFiatFee ==
  ASSUME LimitInv, SettleInv, [Next]_vars, NEW f \in Fiat
  PROVE  FiatFeeGoesOn(f)
<1>1. TypeInv /\ f \in Charge
  BY Typed DEF SettleInv
<1>2. CASE rows'[f].fee = rows[f].fee
  BY <1>2 DEF FiatFeeGoesOn
<1>3. \A q \in Call : ~Settling(q) => call[q].row # f
  BY <1>1, Typed DEF SettleInv, LaneOfRow
<1>4. ASSUME NEW q \in Call, SpendStep(q)
      PROVE  FiatFeeGoesOn(f)
  <2>1. CASE Begin(q)
    <3>1. rows'[f] = rows[f] \/ rows'[f] = NoRow
      BY <1>1, <2>1, BeginRows
    <3>2. NoRow.fee = 0
      BY DEF NoRow
    <3> QED BY <3>1, <3>2 DEF FiatFeeGoesOn
  <2>2. CASE Reserve(q)
    BY <1>1, Typed, <1>2, <2>2, ReserveRows DEF FiatFeeGoesOn
  <2>3. CASE Broadcast(q)
    BY <1>1, <1>2, <2>3, BroadcastRows
  <2>4. CASE SendReturns(q)
    BY <1>1, <1>2, <2>4, SendReturnsRows
  <2>5. CASE Ends(q)
    BY <1>1, <1>2, <2>5, EndRows
  <2> QED BY <1>2, <1>4, <2>1, <2>2, <2>3, <2>4, <2>5
          DEF SpendStep, Ends, QuoteFee, RaiseFee, ToldReverted, ScanFindsNothing, Told
<1>5. ASSUME NEW q \in Call, Enter(q) \/ ChainStep(q)
      PROVE  rows' = rows
  BY <1>1, <1>5, EnterFields, ChainEffect
<1>6. \A q \in Call : ~X402Step(q)
  BY NoX402Step
<1>7. ASSUME NEW g \in Fiat, NEW c \in Card, NEW a \in Amounts \ {0},
             FiatAuthorize(g, c, a)
      PROVE  rows'[f].fee = rows[f].fee \/ rows'[f].fee = 0
  BY <1>1, <1>7, FiatEffect, Typed
<1>8. CASE SweepStep
  BY <1>1, <1>2, <1>8, SweepRows
<1>9. CASE UNCHANGED vars \/ OwnerStep \/ Tick \/ Crash
  BY <1>2, <1>9
     DEF vars, OwnerStep, FreezeCard, UnfreezeCard, RevokeCard, NukeAll, Tick, Crash
<1>10. CASE rows'[f].fee = 0
  BY <1>10 DEF FiatFeeGoesOn
<1> QED BY <1>2, <1>4, <1>5, <1>6, <1>7, <1>8, <1>9, <1>10 DEF Next

-----------------------------------------------------------------------------
(* Fees, the log, and what is confirmed.                                   *)

\* Fees that differ tell the requests apart.
LEMMA FeesKept ==
  ASSUME MinedInv, [Next]_vars, "feeClash" \notin Faults
  PROVE  FeesDiffer'
<1>1. LimitInv /\ SettleInv /\ FeesDiffer
  BY DEF MinedInv
<1>2. NoCarves
  BY <1>1 DEF LimitInv
<1>3. \A q \in Call : CallGoesOn(q) /\ WireGoesOn(q)
  BY <1>1, <1>2, EachCall, EachWire
<1>4. ASSUME NEW q \in Call
      PROVE  \/ /\ call'[q].fee = call[q].fee
                /\ call[q].phase = "fee" => call'[q].phase # "estimate"
             \/ call'[q].fee # 0 /\ \A r \in Call \ {q} : call[r].fee # call'[q].fee
  <2>1. \/ /\ call'[q].fee = call[q].fee
           /\ call[q].phase = "fee" => call'[q].phase # "estimate"
        \/ call'[q].fee \in JitteredFee(q, 0)
    BY <1>3 DEF CallGoesOn
  <2>2. 0 \notin Fees
    BY SpendAssumption DEF SpendAssumption
  <2>3. ASSUME call'[q].fee \in JitteredFee(q, 0)
        PROVE  call'[q].fee # 0 /\ \A r \in Call \ {q} : call[r].fee # call'[q].fee
    BY <2>2, <2>3 DEF JitteredFee
  <2> QED BY <2>1, <2>3
<1>5. \/ \E p \in Call : \A q \in Call \ {p} : call'[q] = call[q]
      \/ \A q \in Call : call'[q].fee = call[q].fee
  BY <1>1, <1>2, EachCall
<1>6. \A p, q \in Call : p # q => call'[p].fee # call'[q].fee \/ call'[p].fee = 0
  <2>1. CASE \A q \in Call : call'[q].fee = call[q].fee
    BY <1>1, <2>1 DEF FeesDiffer
  <2>2. CASE \E p \in Call : \A q \in Call \ {p} : call'[q] = call[q]
    BY <1>1, <1>4, <2>2 DEF FeesDiffer
  <2> QED BY <1>5, <2>1, <2>2
<1>7. ASSUME NEW q \in Call,
             \/ wire'[q] # "none"
             \/ call'[q].phase \in {"estimate", "head", "sending", "confirming"}
      PROVE  call'[q].fee # 0
  <2>1. CASE /\ call'[q].fee = call[q].fee
             /\ call[q].phase = "fee" => call'[q].phase # "estimate"
    <3>1. \/ wire[q] # "none"
          \/ call[q].phase \in {"estimate", "head", "sending", "confirming"}
      BY <1>3, <1>7, <2>1 DEF CallGoesOn, GoesTo, WireGoesOn
    <3> QED BY <1>1, <2>1, <3>1 DEF FeesDiffer
  <2> QED BY <1>4, <2>1
<1> QED BY <1>6, <1>7 DEF FeesDiffer

\* What is mined stays mined, and its request keeps what it is known by.
LEMMA MinedStays ==
  ASSUME SettleInv, NoCarves, [Next]_vars, NEW q \in Call, wire[q] = "landed"
  PROVE  /\ wire'[q] = "landed" /\ SameAsk(call'[q], call[q])
         /\ call'[q].fee = call[q].fee /\ call'[q].since = call[q].since
<1>1. CallGoesOn(q) /\ WireGoesOn(q)
  BY EachCall, EachWire
<1>2. call[q].phase \notin BeforeSend
  BY DEF SettleInv, SentLater
<1> QED BY <1>1, <1>2 DEF CallGoesOn, WireGoesOn, BeforeSend

\* The log is what is mined.
LEMMA LogKept ==
  ASSUME SettleInv, NoCarves, LogIsTheChain, [Next]_vars
  PROVE  LogIsTheChain'
<1>1. TypeInv /\ log \in Seq(Call) /\ \A q \in Call : call[q].since \in Nat
  BY Typed DEF SettleInv, CallState
<1>2. \/ log' = log
      \/ \E p \in Call : /\ wire[p] = "queued" /\ wire'[p] = "landed"
                         /\ log' = Append(log, p)
  BY EachWire
<1>3. /\ Len(log) \in Nat /\ Len(log') \in Nat
      /\ Len(log') = Len(log) \/ Len(log') = Len(log) + 1
      /\ \A j \in 1 .. Len(log) : log'[j] = log[j]
  BY <1>1, <1>2
<1>4. ASSUME NEW j \in 1 .. Len(log')
      PROVE  wire'[log'[j]] = "landed"
  <2>1. CASE j \in 1 .. Len(log)
    <3>1. log[j] \in Call /\ wire[log[j]] = "landed" /\ log'[j] = log[j]
      BY <1>1, <1>3, <2>1 DEF LogIsTheChain
    <3> QED BY <3>1, MinedStays
  <2>2. CASE j \notin 1 .. Len(log)
    <3>1. PICK p \in Call : wire'[p] = "landed" /\ log' = Append(log, p)
      BY <1>2, <2>2
    <3>2. j = Len(log) + 1
      BY <1>1, <2>2, <3>1
    <3> QED BY <1>1, <3>1, <3>2
  <2> QED BY <2>1, <2>2
<1>5. ASSUME NEW q \in Call
      PROVE  call'[q].since <= Len(log')
  <2>1. CallGoesOn(q)
    BY EachCall
  <2>2. call'[q].since = call[q].since \/ call'[q].since = Len(log)
    BY <2>1 DEF CallGoesOn
  <2>3. call[q].since <= Len(log)
    BY DEF LogIsTheChain
  <2> QED BY <1>1, <1>3, <2>2, <2>3
<1>6. ASSUME NEW q \in Call, wire'[q] = "landed"
      PROVE  \E j \in 1 .. Len(log') : log'[j] = q /\ call'[q].since <= j
  <2>1. CASE wire[q] = "landed"
    <3>1. PICK j \in 1 .. Len(log) : log[j] = q /\ call[q].since <= j
      BY <2>1 DEF LogIsTheChain, LegOf
    <3>2. call'[q].since = call[q].since
      BY <2>1, MinedStays
    <3>3. j \in 1 .. Len(log')
      BY <1>3
    <3> QED BY <1>3, <3>1, <3>2, <3>3
  <2>2. CASE wire[q] # "landed"
    <3>1. WireGoesOn(q)
      BY EachWire
    <3>2. log' = Append(log, q)
      BY <1>6, <2>2, <3>1 DEF WireGoesOn
    <3>3. /\ Len(log) + 1 \in 1 .. Len(log') /\ log'[Len(log) + 1] = q
          /\ Len(log') = Len(log) + 1
      BY <1>1, <3>2
    <3> QED BY <1>5, <3>3
  <2> QED BY <2>1, <2>2
<1> QED BY <1>4, <1>5, <1>6 DEF LogIsTheChain, LegOf

\* Rows and requests go together.
LEMMA RowsKept ==
  ASSUME MinedInv, [Next]_vars
  PROVE  RowIsItsCalls'
<1>1. LimitInv /\ SettleInv /\ TypeInv
  BY DEF MinedInv, LimitInv
<1>2. NoCarves
  BY <1>1 DEF LimitInv
<1>3. ASSUME NEW p \in Call
      PROVE  /\ call[p].phase \in {"idle", "queued", "fee", "estimate"} =>
                   rows[p].status = "absent"
             /\ p \in sweep.stale => rows[p].status = "pending" /\ call[p].phase = "done"
  BY <1>1 DEF LimitInv, Books, BookedInTime, StaleIsStale
<1>4. ASSUME NEW p \in Call, call'[p].lane = "pay", rows'[p].status # "absent"
      PROVE  /\ rows'[p].fee = call'[p].fee
             /\ rows'[p].card = call'[p].card /\ rows'[p].key = call'[p].key
             /\ rows'[p].request # "null" => rows'[p].since = call'[p].since
             /\ rows'[p].created = call'[p].now
             /\ call'[p].phase = "head" => rows'[p].request = "null"
             /\ call'[p].phase = "confirming" => rows'[p].request # "null"
  <2>1. CallGoesOn(p) /\ PayRowGoesOn(p)
    BY <1>1, <1>2, EachCall, EachPayRow
  <2>2. CASE call[p].phase = "idle" /\ call'[p].phase = "queued"
    <3>1. rows[p].status = "absent" /\ p \notin sweep.stale
      BY <1>3, <2>2
    <3>2. ~Reserve(p) /\ ~SendReturns(p) /\ ~Ends(p)
      BY <1>1, <2>2, ReserveEffect, SendReturnsEffect, EndEffect
    <3> QED BY <1>4, <2>1, <3>1, <3>2 DEF PayRowGoesOn, NoRow
  <2>3. CASE SameAsk(call'[p], call[p])
    <3>1. /\ call[p].lane = "pay" /\ ~Settling(p)
          /\ call'[p].card = call[p].card /\ call'[p].key = call[p].key
      BY <1>4, <2>3 DEF SameAsk, Settling
    <3>2. rows[p].status # "absent" =>
             /\ rows[p].fee = call[p].fee
             /\ rows[p].card = call[p].card /\ rows[p].key = call[p].key
             /\ rows[p].request # "null" => rows[p].since = call[p].since
             /\ rows[p].created = call[p].now
             /\ call[p].phase = "head" => rows[p].request = "null"
             /\ call[p].phase = "confirming" => rows[p].request # "null"
      BY <3>1 DEF MinedInv, RowIsItsCalls
    <3>3. CASE rows'[p] = rows[p]
      <4>1. rows[p].status # "absent" /\ call[p].phase \notin {"idle", "queued", "fee", "estimate"}
        BY <1>3, <1>4, <3>3
      <4>2. call'[p].fee = call[p].fee
        BY <2>1, <4>1 DEF CallGoesOn
      <4>3. call'[p].since = call[p].since \/ call[p].phase = "head"
        BY <2>1 DEF CallGoesOn
      <4>4. call'[p].phase = "head" => call[p].phase = "head"
        BY <2>1, <4>1 DEF CallGoesOn, GoesTo
      <4>5. call'[p].now = call[p].now
        BY <2>1, <4>1 DEF CallGoesOn
      <4>6. call'[p].phase = "confirming" => rows'[p].request # "null"
        <5>1. CASE SendReturns(p)
          <6>1. call[p].row = p
            BY <1>1, <3>1 DEF SettleInv, LaneOfRow
          <6> QED BY <1>1, <5>1, <6>1, SendReturnsRows
        <5>2. CASE ~SendReturns(p)
          BY <2>1, <3>2, <3>3, <4>1, <5>2 DEF CallGoesOn
        <5> QED BY <5>1, <5>2
      <4> QED BY <3>1, <3>2, <3>3, <4>1, <4>2, <4>3, <4>4, <4>5, <4>6
    <3>4. CASE rows'[p] = NoRow
      BY <1>4, <3>4 DEF NoRow
    <3>5. CASE /\ Reserve(p) /\ rows'[p].request = "null" /\ rows'[p].fee = call[p].fee
               /\ rows'[p].card = call[p].card /\ rows'[p].key = call[p].key
               /\ rows'[p].created = call[p].now
      <4>1. /\ call'[p].fee = call[p].fee /\ call'[p].now = call[p].now
            /\ call'[p].phase = "head"
        BY <1>1, <3>5, ReserveEffect
      <4> QED BY <3>1, <3>5, <4>1
    <3>6. CASE /\ SendReturns(p) /\ SameBooking(rows'[p], rows[p])
               /\ rows'[p].fee = rows[p].fee /\ rows'[p].status = rows[p].status
               /\ rows'[p].since = call[p].since /\ rows'[p].request = "sent"
               /\ rows'[p].created = rows[p].created
      <4>1. /\ call'[p].fee = call[p].fee /\ call'[p].since = call[p].since
            /\ call'[p].phase = "confirming" /\ call'[p].now = call[p].now
        BY <1>1, <3>6, SendReturnsEffect
      <4> QED BY <1>4, <3>1, <3>2, <3>6, <4>1 DEF SameBooking
    <3>7. ASSUME Judged(p), rows[p].status # "absent", call'[p].fee = call[p].fee,
                 call'[p].since = call[p].since, call'[p].now = call[p].now,
                 call'[p].phase \notin {"head", "confirming"}
          PROVE  /\ rows'[p].fee = call'[p].fee
                 /\ rows'[p].card = call'[p].card /\ rows'[p].key = call'[p].key
                 /\ rows'[p].request # "null" => rows'[p].since = call'[p].since
                 /\ rows'[p].created = call'[p].now
                 /\ call'[p].phase = "head" => rows'[p].request = "null"
                 /\ call'[p].phase = "confirming" => rows'[p].request # "null"
      BY <3>1, <3>2, <3>7 DEF Judged, SameBooking
    <3>8. CASE /\ Ends(p) /\ Judged(p)
               /\ call[p].phase \in {"head", "sending", "confirming"}
      <4>1. rows[p].status # "absent"
        BY <1>1, <3>1, <3>8 DEF LimitInv, Books, BookedInTime
      <4>2. /\ call'[p].fee = call[p].fee /\ call'[p].since = call[p].since
            /\ call'[p].phase = "done" /\ call'[p].now = call[p].now
        BY <1>1, <3>8, EndEffect
      <4> QED BY <3>7, <3>8, <4>1, <4>2
    <3>9. CASE SweepApply /\ p \in sweep.stale /\ Judged(p)
      <4>1. call' = call /\ rows[p].status = "pending" /\ call[p].phase = "done"
        BY <1>3, <3>9 DEF SweepApply
      <4> QED BY <3>7, <3>9, <4>1
    <3> QED BY <2>1, <3>3, <3>4, <3>5, <3>6, <3>8, <3>9 DEF PayRowGoesOn
  <2> QED BY <2>1, <2>2, <2>3 DEF CallGoesOn
<1>5. ASSUME NEW f \in Fiat, rows'[f].status # "absent", rows'[f].fee # 0
      PROVE  \E q \in Call :
                /\ call'[q].lane = "settle" /\ call'[q].row = f
                /\ call'[q].fee = rows'[f].fee
                /\ call'[q].phase \in {"head", "sending", "confirming", "done"}
  <2>1. FiatGoesOn /\ FiatFeeGoesOn(f)
    BY <1>1, EveryStepFiat, EachFiatFee
  <2>2. rows[f].status # "absent"
    BY <1>5, <2>1 DEF FiatGoesOn
  <2>3. CASE rows'[f].fee = rows[f].fee
    <3>1. PICK q \in Call : /\ Settling(q) /\ call[q].row = f
                            /\ call[q].fee = rows[f].fee
                            /\ call[q].phase \in {"head", "sending", "confirming", "done"}
      BY <1>5, <2>2, <2>3 DEF MinedInv, RowIsItsCalls
    <3>2. CallGoesOn(q)
      BY <1>1, <1>2, EachCall
    <3>3. /\ SameAsk(call'[q], call[q]) /\ call'[q].fee = call[q].fee
          /\ call'[q].phase \in {"head", "sending", "confirming", "done"}
      BY <3>1, <3>2 DEF CallGoesOn, GoesTo
    <3> QED BY <2>3, <3>1, <3>3 DEF SameAsk, Settling
  <2>4. CASE \E p \in Call : /\ Reserve(p) /\ Settling(p) /\ call[p].row = f
                             /\ rows'[f].fee = call[p].fee
    <3>1. PICK p \in Call : /\ Reserve(p) /\ Settling(p) /\ call[p].row = f
                            /\ rows'[f].fee = call[p].fee
      BY <2>4
    <3>2. /\ SameAsk(call'[p], call[p]) /\ call'[p].fee = call[p].fee
          /\ call'[p].phase = "head"
      BY <1>1, <3>1, ReserveEffect
    <3> QED BY <3>1, <3>2 DEF SameAsk, Settling
  <2> QED BY <1>5, <2>1, <2>3, <2>4 DEF FiatFeeGoesOn
<1> QED BY <1>4, <1>5 DEF RowIsItsCalls, Settling

\* A fee leg with a request's fee is that request's.
LEMMA LegIsTheCalls ==
  ASSUME MinedInv, NEW p \in Call, NEW j \in MyFeeLegs(p), call[p].fee # 0
  PROVE  log[j] = p /\ wire[p] = "landed"
<1>1. j \in 1 .. Len(log) /\ call[log[j]].fee = call[p].fee
  BY DEF MyFeeLegs, FeeLegs
<1>2. log[j] \in Call /\ wire[log[j]] = "landed"
  BY <1>1, Typed DEF MinedInv, SettleInv, LogIsTheChain
<1> QED BY <1>1, <1>2 DEF MinedInv, FeesDiffer

\* A fee leg a sweep matches with a row was paid for that row.
LEMMA LegIsTheRows ==
  ASSUME MinedInv, sweep.phase = "apply",
         NEW i \in sweep.stale, NEW j \in SweptLegs(rows[i].fee)
  PROVE  /\ j \in 1 .. Len(log) /\ log[j] \in Call /\ wire[log[j]] = "landed"
         /\ call[log[j]].row = i /\ (i \in Call => log[j] = i)
<1>1. TypeInv /\ i \in Charge
  BY Typed DEF MinedInv, SettleInv
<1>2. j \in 1 .. Len(log) /\ call[log[j]].fee = rows[i].fee
  <2>1. j \in 1 .. sweep.upto /\ call[log[j]].fee = rows[i].fee
    BY DEF SweptLegs, FeeLegs
  <2>2. sweep.upto <= Len(log) /\ sweep.upto \in Nat /\ Len(log) \in Nat
    BY <1>1, Typed DEF TypeInv, ScanIsPast, Sweep
  <2> QED BY <2>1, <2>2
<1>3. log[j] \in Call /\ wire[log[j]] = "landed" /\ call[log[j]].fee # 0
  <2>1. log[j] \in Call /\ wire[log[j]] = "landed"
    BY <1>1, <1>2, Typed DEF MinedInv, LogIsTheChain
  <2> QED BY <2>1 DEF MinedInv, FeesDiffer
<1>4. CASE i \in Call
  <2>1. rows[i].status = "pending" /\ call[i].lane = "pay" /\ call[i].row = i
    BY <1>4 DEF MinedInv, LimitInv, Books, StaleIsStale, RowOwners, NoCarves
  <2>2. rows[i].fee = call[i].fee
    BY <1>4, <2>1 DEF MinedInv, RowIsItsCalls
  <2>3. log[j] = i
    BY <1>2, <1>3, <1>4, <2>2 DEF MinedInv, FeesDiffer
  <2> QED BY <1>2, <1>3, <2>1, <2>3
<1>5. CASE i \in Fiat
  <2>1. rows[i].status # "absent" /\ rows[i].fee # 0
    BY <1>2, <1>3, <1>5 DEF MinedInv, SettleInv, FiatRows
  <2>2. PICK q \in Call : call[q].row = i /\ call[q].fee = rows[i].fee
    BY <1>5, <2>1 DEF MinedInv, RowIsItsCalls
  <2>3. log[j] = q
    BY <1>2, <1>3, <2>2 DEF MinedInv, FeesDiffer
  <2>4. i \notin Call
    BY <1>1, <1>5, Typed
  <2> QED BY <1>2, <1>3, <2>2, <2>3, <2>4
<1> QED BY <1>1, <1>4, <1>5, Typed

\* A step that confirms nothing leaves what is confirmed mined.
LEMMA NothingConfirmed ==
  ASSUME MinedInv, [Next]_vars,
         \A i \in Charge : rows'[i].status = "confirmed" =>
            rows[i].status = "confirmed" /\ rows'[i].tx = rows[i].tx
  PROVE  ConfirmedIsMined'
<1>1. SettleInv /\ TypeInv
  BY DEF MinedInv, SettleInv
<1>2. NoCarves
  BY DEF MinedInv, LimitInv
<1>3. ASSUME NEW i \in Charge, rows'[i].status = "confirmed"
      PROVE  /\ rows'[i].tx # NoTx /\ wire'[rows'[i].tx] = "landed"
             /\ call'[rows'[i].tx].row = i
  <2>1. /\ rows'[i].tx = rows[i].tx /\ rows[i].tx # NoTx
        /\ wire[rows[i].tx] = "landed" /\ call[rows[i].tx].row = i
    BY <1>3 DEF MinedInv, ConfirmedIsMined
  <2>2. rows[i].tx \in Call
    BY <1>1, <2>1, Typed DEF ChargeRow
  <2>3. wire'[rows[i].tx] = "landed" /\ call'[rows[i].tx].row = i
    BY <1>1, <1>2, <2>1, <2>2, MinedStays DEF SameAsk
  <2> QED BY <2>1, <2>3
<1> QED BY <1>3 DEF ConfirmedIsMined

\* What a request confirms by.
LEMMA ConfirmsItsOwn ==
  ASSUME MinedInv, NEW p \in Call, ConfirmByStatus(p) \/ ConfirmByLog(p)
  PROVE  ConfirmBy(p, p) /\ wire[p] = "landed"
<1>1. CASE ConfirmByStatus(p)
  BY <1>1 DEF ConfirmByStatus, Status200
<1>2. CASE ConfirmByLog(p)
  <2>1. PICK j \in MyFeeLegs(p) : ConfirmBy(p, log[j])
    BY <1>2 DEF ConfirmByLog
  <2>2. call[p].fee # 0
    BY <1>2 DEF ConfirmByLog, Polling, MinedInv, FeesDiffer
  <2>3. log[j] = p /\ wire[p] = "landed"
    BY <2>2, LegIsTheCalls
  <2> QED BY <2>1, <2>3
<1> QED BY <1>1, <1>2

\* A verdict of the pipeline or of the sweep confirms by a mined redemption.
LEMMA ConfirmedKept ==
  ASSUME MinedInv, [Next]_vars
  PROVE  ConfirmedIsMined'
<1>1. SettleInv /\ TypeInv /\ LimitInv
  BY DEF MinedInv, SettleInv
<1>2. NoCarves
  BY DEF MinedInv, LimitInv
<1>3. \A i \in Charge : rows[i].status = "confirmed" =>
         rows[i].tx \in Call /\ wire[rows[i].tx] = "landed" /\ call[rows[i].tx].row = i
  BY <1>1, Typed DEF MinedInv, ConfirmedIsMined, ChargeRow
<1>4. CASE rows' = rows
  BY <1>4, NothingConfirmed
<1>5. ASSUME NEW p \in Call, SpendStep(p)
      PROVE  ConfirmedIsMined'
  <2>1. CASE Begin(p)
    <3>1. NoRow.status = "absent"
      BY DEF NoRow
    <3> QED BY <1>1, <2>1, <3>1, BeginRows, NothingConfirmed
  <2>2. CASE Reserve(p)
    BY <1>1, <2>2, ReserveRows, NothingConfirmed
  <2>3. CASE Broadcast(p)
    BY <1>1, <2>3, BroadcastRows, NothingConfirmed
  <2>4. CASE SendReturns(p)
    BY <1>1, <2>4, SendReturnsRows, NothingConfirmed
  <2>5. CASE ConfirmByStatus(p) \/ ConfirmByLog(p)
    <3> DEFINE r == call[p].row
    <3>1. ConfirmBy(p, p) /\ wire[p] = "landed" /\ r \in Charge
      BY <1>1, <2>5, ConfirmsItsOwn, Typed DEF CallState
    <3>2. /\ rows'[r].tx = p /\ \A i \in Charge \ {r} : rows'[i] = rows[i]
          /\ wire' = wire
      BY <1>1, <3>1, Typed DEF ConfirmBy, ChargeRow
    <3>3. \A q \in Call : call'[q].row = call[q].row
      BY <1>1, <3>1, LeaveEffect DEF ConfirmBy, SameAsk
    <3>4. p # NoTx
      BY Typed, <1>1
    <3>5. ASSUME NEW i \in Charge, rows'[i].status = "confirmed"
          PROVE  /\ rows'[i].tx # NoTx /\ wire'[rows'[i].tx] = "landed"
                 /\ call'[rows'[i].tx].row = i
      <4>1. CASE i = r
        BY <3>1, <3>2, <3>3, <3>4, <4>1
      <4>2. CASE i # r
        <5>1. rows'[i] = rows[i]
          BY <3>2, <4>2
        <5> QED BY <1>1, <1>3, <3>2, <3>3, <3>5, <5>1, Typed
      <4> QED BY <4>1, <4>2
    <3> QED BY <3>5 DEF ConfirmedIsMined
  <2>6. CASE RefuseBroadcast(p) \/ SendFails(p)
    <3>1. call[p].row \in Charge /\ FailUnlessSettling(p)
      BY <1>1, <2>6, Typed DEF CallState, RefuseBroadcast, SendFails
    <3>2. CASE Settling(p)
      BY <1>4, <3>1, <3>2 DEF FailUnlessSettling
    <3>3. CASE ~Settling(p)
      <4>1. \A i \in Charge : rows'[i] = rows[i] \/ rows'[i].status = "failed"
        BY <1>1, <3>1, <3>3, Typed DEF FailUnlessSettling, SetStatus, ChargeRow
      <4> QED BY <4>1, NothingConfirmed
    <3> QED BY <3>2, <3>3
  <2>7. CASE ConfirmReverted(p)
    <3>1. call[p].row \in Charge
      BY <1>1, Typed DEF CallState
    <3>2. \A i \in Charge : \/ rows'[i] = rows[i]
                            \/ rows'[i].status \in {"failed", "settlement_unconfirmed"}
      <4>1. \E s \in {"failed", "settlement_unconfirmed"} :
               rows' = SetStatus(call[p].row, s)
        BY <2>7 DEF ConfirmReverted
      <4> QED BY <1>1, <3>1, <4>1, Typed DEF SetStatus, ChargeRow
    <3> QED BY <3>2, NothingConfirmed
  <2> QED BY <1>4, <1>5, <2>1, <2>2, <2>3, <2>4, <2>5, <2>6, <2>7
          DEF SpendStep, Replay, Abort, QuoteFee, RaiseFee, HeadFails, ConfirmTimesOut,
              ToldReverted, ScanFindsNothing, Told
<1>6. ASSUME NEW q \in Call, Enter(q) \/ ChainStep(q)
      PROVE  rows' = rows
  BY <1>1, <1>6, EnterFields, ChainEffect
<1>7. \A q \in Call : ~X402Step(q)
  BY <1>1, NoX402Step
<1>8. ASSUME NEW f \in Fiat, NEW c \in Card, NEW a \in Amounts \ {0},
             FiatAuthorize(f, c, a)
      PROVE  ConfirmedIsMined'
  BY <1>1, <1>8, FiatEffect, NothingConfirmed
<1>9. CASE SweepStep
  <2>1. ~SweepApply => \A i \in Charge : rows'[i] = rows[i]
    BY <1>1, <1>9, SweepRows DEF LimitInv, Books, RowKinds, NoCarves, Charge
  <2>2. CASE SweepApply
    <3>1. PICK hit \in [sweep.stale -> 0 .. sweep.upto] :
             /\ Matching(hit)
             /\ rows' = [i \in Charge |->
                           IF i \in sweep.stale THEN Swept(i, hit[i]) ELSE rows[i]]
      BY <2>2 DEF SweepApply
    <3>2. call' = call /\ wire' = wire /\ sweep.phase = "apply"
      BY <2>2 DEF SweepApply
    <3>3. ASSUME NEW i \in sweep.stale, hit[i] # 0
          PROVE  /\ log[hit[i]] \in Call /\ wire[log[hit[i]]] = "landed"
                 /\ call[log[hit[i]]].row = i
      <4>1. hit[i] \in SweptLegs(rows[i].fee)
        BY <3>1, <3>3 DEF Matching
      <4> QED BY <3>2, <4>1, LegIsTheRows
    <3>4. ASSUME NEW i \in Charge, rows'[i].status = "confirmed"
          PROVE  /\ rows'[i].tx # NoTx /\ wire'[rows'[i].tx] = "landed"
                 /\ call'[rows'[i].tx].row = i
      <4>1. CASE i \in sweep.stale /\ hit[i] # 0
        <5>1. rows[i] \in ChargeRow /\ rows'[i] = Swept(i, hit[i])
          BY <1>1, <3>1, <4>1, Typed
        <5>2. rows'[i].tx = log[hit[i]]
          BY <4>1, <5>1 DEF Swept, ChargeRow
        <5> QED BY <1>1, <3>2, <3>3, <4>1, <5>2, Typed
      <4>2. CASE i \in sweep.stale /\ hit[i] = 0
        <5>1. rows[i] \in ChargeRow /\ rows'[i] = Swept(i, hit[i])
          BY <1>1, <3>1, <4>2, Typed
        <5> QED BY <3>4, <4>2, <5>1 DEF Swept, ChargeRow
      <4>3. CASE i \notin sweep.stale
        <5>1. rows'[i] = rows[i]
          BY <3>1, <4>3
        <5> QED BY <1>1, <1>3, <3>2, <3>4, <5>1, Typed
      <4> QED BY <4>1, <4>2, <4>3
    <3> QED BY <3>4 DEF ConfirmedIsMined
  <2> QED BY <2>1, <2>2, NothingConfirmed
<1>10. CASE UNCHANGED vars \/ OwnerStep \/ Tick \/ Crash
  BY <1>4, <1>10
     DEF vars, OwnerStep, FreezeCard, UnfreezeCard, RevokeCard, NukeAll, Tick, Crash
<1> QED BY <1>4, <1>5, <1>6, <1>7, <1>8, <1>9, <1>10 DEF Next

\* Every step keeps what is known of the chain.
LEMMA MinedKept ==
  ASSUME MinedInv, [Next]_vars,
         "x402" \notin Lanes, "slow" \notin Faults, "feeClash" \notin Faults
  PROVE  MinedInv'
<1>1. LimitInv /\ SettleInv /\ LogIsTheChain
  BY DEF MinedInv
<1>2. NoCarves
  BY <1>1 DEF LimitInv
<1>3. LimitInv' /\ SettleInv'
  <2>1. BudgetInv /\ Serial
    BY <1>1 DEF LimitInv, BudgetInv, Serial
  <2>2. BudgetInv'
    BY <2>1, LimitsKept
  <2>3. NoCarves' /\ SettleInv'
    BY <1>1, <1>2, NoCarvesKept, SettleKept
  <2> QED BY <2>2, <2>3 DEF LimitInv, BudgetInv
<1>4. FeesDiffer' /\ RowIsItsCalls'
  BY FeesKept, RowsKept
<1>5. LogIsTheChain' /\ ConfirmedIsMined'
  BY <1>1, <1>2, LogKept, ConfirmedKept
<1> QED BY <1>3, <1>4, <1>5 DEF MinedInv

\* The empty server.
LEMMA InitMined == Init => MinedInv
<1> SUFFICES ASSUME Init PROVE MinedInv
  OBVIOUS
<1>1. LimitInv /\ SettleInv /\ TypeInv
  <2>1. NoCarves
    BY DEF Init, NoCarves, IdleCall
  <2> QED BY <2>1, InitLimits, InitSettle, InitTypeInv DEF LimitInv, BudgetInv
<1>2. \A i \in Charge : rows[i].status = "absent"
  BY DEF Init, NoRow
<1>3. FeesDiffer
  BY DEF Init, FeesDiffer, IdleCall
<1>4. RowIsItsCalls
  BY <1>1, <1>2, Typed DEF RowIsItsCalls
<1>5. LogIsTheChain
  BY DEF Init, LogIsTheChain, IdleCall
<1>6. ConfirmedIsMined
  BY <1>2 DEF ConfirmedIsMined
<1> QED BY <1>1, <1>3, <1>4, <1>5, <1>6 DEF MinedInv

\* A confirmed charge names the redemption that was mined for it, whether the
\* relayer's status, the request's own scan or a sweep confirmed it: where fees
\* differ, no scan takes another charge's fee leg for its own (spend.ts, 329-357
\* and 752-759).
THEOREM ConfirmedAreMined ==
  ASSUME "x402" \notin Lanes, "slow" \notin Faults, "feeClash" \notin Faults
  PROVE  Spec => []ConfirmedIsMined
<1>1. MinedInv => ConfirmedIsMined
  BY DEF MinedInv
<1> QED BY <1>1, InitMined, MinedKept, PTL DEF Spec

-----------------------------------------------------------------------------
(* What may move is on the books.                                          *)

\* Time passes in one action, and the sweep is a sweep's own.
LEMMA WhoMoves ==
  ASSUME BookInv, [Next]_vars
  PROVE  /\ clock' = clock \/ Tick
         /\ sweep' = sweep \/ SweepStep \/ sweep'.stale = {}
<1>1. LimitInv /\ TypeInv
  BY DEF BookInv, MinedInv, LimitInv
<1>2. ASSUME NEW p \in Call, SpendStep(p)
      PROVE  clock' = clock /\ sweep' = sweep
  BY <1>2
     DEF SpendStep, Replay, Begin, Abort, Reserve, QuoteFee, RaiseFee, HeadFails,
         RefuseBroadcast, Broadcast, SendReturns, SendFails, ConfirmByStatus,
         ConfirmByLog, ConfirmBy, ConfirmReverted, ConfirmTimesOut,
         ToldReverted, ScanFindsNothing, Told
<1>3. ASSUME NEW p \in Call, Enter(p) \/ ChainStep(p)
      PROVE  clock' = clock /\ sweep' = sweep
  BY <1>1, <1>3, EnterFields, ChainEffect
<1>4. \A p \in Call : ~X402Step(p)
  BY <1>1, NoX402Step
<1>5. SweepStep => clock' = clock
  BY <1>1, SweepTakes
<1>6. Crash => clock' = clock /\ sweep'.stale = {}
  BY DEF Crash, IdleSweep
<1>7. UNCHANGED vars \/ OwnerStep \/ Tick => sweep' = sweep /\ (clock' = clock \/ Tick)
  BY DEF vars, OwnerStep, FreezeCard, UnfreezeCard, RevokeCard, NukeAll, Tick
<1> QED BY <1>2, <1>3, <1>4, <1>5, <1>6, <1>7 DEF Next, FiatAuthorize

\* A redemption that moves after a step moved before it, or is broadcast by it; and
\* its request asks for what it asked for.
LEMMA MovedBefore ==
  ASSUME BookInv, [Next]_vars, NEW p \in Call, Moving(p)'
  PROVE  /\ SameAsk(call'[p], call[p]) /\ call'[p].now = call[p].now
         /\ \/ Moving(p)
            \/ /\ wire[p] = "none" /\ wire'[p] = "posted"
               /\ call[p].phase = "head" /\ call'[p].phase = "sending"
<1>1. LimitInv /\ SettleInv
  BY DEF BookInv, MinedInv
<1>2. NoCarves
  BY <1>1 DEF LimitInv
<1>3. CallGoesOn(p) /\ WireGoesOn(p)
  BY <1>1, <1>2, EachCall, EachWire
<1>4. \/ Moving(p)
      \/ /\ wire[p] = "none" /\ wire'[p] = "posted"
         /\ call[p].phase = "head" /\ call'[p].phase = "sending"
  BY <1>3 DEF WireGoesOn, Moving
<1>5. call[p].phase \notin {"idle", "queued"}
  BY <1>1, <1>4 DEF SettleInv, SentLater, BeforeSend, Moving
<1>6. SameAsk(call'[p], call[p]) /\ call'[p].now = call[p].now
  BY <1>3, <1>5 DEF CallGoesOn
<1> QED BY <1>4, <1>6

\* No redemption is in flight when its row is old enough for a sweep.
LEMMA FlightsEnd ==
  ASSUME BookInv, [Next]_vars, "slow" \notin Faults,
         NEW p \in Call, wire'[p] \in {"posted", "queued"}
  PROVE  clock' <= call'[p].now + Cutoff
<1>1. LimitInv /\ SettleInv /\ TypeInv
  BY DEF BookInv, MinedInv, LimitInv
<1>2. NoCarves
  BY <1>1 DEF LimitInv
<1>3. WireGoesOn(p)
  BY <1>1, <1>2, EachWire
<1>4. call'[p].now = call[p].now
  BY MovedBefore DEF Moving
<1>5. clock \in Nat /\ Cutoff \in Nat /\ call[p].now \in Nat
  BY <1>1, Typed DEF CallState
<1>6. CASE Tick
  <2>1. clock' = clock + 1 /\ wire' = wire /\ ~Overdue(p)
    BY <1>6 DEF Tick
  <2>2. ~(clock >= call[p].now + Cutoff)
    BY <1>2, <2>1 DEF Overdue, NoCarves
  <2> QED BY <1>4, <1>5, <2>1, <2>2
<1>7. CASE clock' = clock
  <2>1. CASE wire[p] \in {"posted", "queued"}
    BY <1>4, <1>7, <2>1 DEF BookInv, SweptIsOver
  <2>2. CASE wire[p] \notin {"posted", "queued"}
    <3>1. InSection(p)
      BY <1>3, <2>2 DEF WireGoesOn, InSection
    <3> QED BY <1>1, <1>4, <1>7, <3>1 DEF LimitInv, Books, NoCarves, Punctual, Live
  <2> QED BY <2>1, <2>2
<1> QED BY <1>6, <1>7, WhoMoves

\* The rows a sweep holds stay as it found them until it judges them.
LEMMA StaleStaysOver ==
  ASSUME BookInv, [Next]_vars, NEW p \in sweep.stale \cap Call, p \in sweep'.stale
  PROVE  /\ wire'[p] \notin {"posted", "queued"}
         /\ rows'[p].request # "null"
         /\ sweep'.phase = "apply" /\ wire'[p] = "landed" => LegOf(p, sweep.upto)' # {}
<1>1. LimitInv /\ SettleInv /\ TypeInv /\ LogIsTheChain
  BY DEF BookInv, MinedInv, LimitInv
<1>2. NoCarves
  BY <1>1 DEF LimitInv
<1>3. CallGoesOn(p) /\ WireGoesOn(p) /\ PayRowGoesOn(p)
  BY <1>1, <1>2, EachCall, EachWire, EachPayRow
<1>4. /\ rows[p].status = "pending" /\ call[p].lane = "pay" /\ call[p].phase = "done"
      /\ wire[p] \notin {"posted", "queued"} /\ rows[p].request # "null"
  BY DEF BookInv, SweptIsOver, MinedInv, LimitInv, Books, StaleIsStale
<1>5. wire'[p] = wire[p] /\ call'[p].since = call[p].since
  BY <1>3, <1>4 DEF WireGoesOn, CallGoesOn
<1>6. rows'[p].request # "null"
  BY <1>3, <1>4 DEF PayRowGoesOn, Judged, Reserve, SendReturns
<1>7. ASSUME sweep'.phase = "apply", wire[p] = "landed"
      PROVE  LegOf(p, sweep.upto)' # {}
  <2>1. CASE SweepStep
    <3>1. sweep'.upto = Len(log) /\ log' = log
      BY <1>1, <1>7, <2>1, SweepTakes
    <3>2. LegOf(p, Len(log)) # {}
      BY <1>1, <1>7 DEF LogIsTheChain
    <3> QED BY <1>5, <3>1, <3>2 DEF LegOf
  <2>2. CASE sweep' = sweep
    <3>1. PICK j \in LegOf(p, sweep.upto) : TRUE
      BY <1>7, <2>2 DEF BookInv, SweptIsOver
    <3>2. j \in 1 .. sweep.upto /\ log[j] = p /\ call[p].since <= j
      BY <3>1 DEF LegOf
    <3>3. j \in 1 .. Len(log) /\ log \in Seq(Call)
      <4>1. sweep.upto <= Len(log) /\ sweep.upto \in Nat /\ Len(log) \in Nat
        BY <1>1, <1>7, <2>2, Typed DEF TypeInv, ScanIsPast, Sweep
      <4> QED BY <1>1, <3>2, <4>1, Typed
    <3>4. log' = log \/ \E q \in Call : log' = Append(log, q)
      BY <1>1, <1>2, EachWire
    <3>5. log'[j] = log[j]
      BY <3>3, <3>4
    <3>6. j \in LegOf(p, sweep.upto)'
      BY <1>5, <2>2, <3>2, <3>5 DEF LegOf
    <3> QED BY <3>6
  <2> QED BY <2>1, <2>2, WhoMoves
<1> QED BY <1>4, <1>5, <1>6, <1>7

\* What a sweep starts on is over.
LEMMA OverKept ==
  ASSUME BookInv, [Next]_vars, "slow" \notin Faults
  PROVE  SweptIsOver'
<1>1. LimitInv /\ SettleInv /\ TypeInv
  BY DEF BookInv, MinedInv, LimitInv
<1>2. \A p \in Call : wire'[p] \in {"posted", "queued"} => clock' <= call'[p].now + Cutoff
  BY FlightsEnd
<1>3. ASSUME NEW p \in Call, p \in sweep'.stale
      PROVE  /\ wire'[p] \notin {"posted", "queued"}
             /\ rows'[p].request # "null"
             /\ sweep'.phase = "apply" /\ wire'[p] = "landed"
                  => LegOf(p, sweep.upto)' # {}
  <2>1. CASE p \in sweep.stale
    BY <1>3, <2>1, StaleStaysOver
  <2>2. CASE p \notin sweep.stale
    <3>1. SweepStep
      BY <1>3, <2>2, WhoMoves
    <3>2. /\ wire' = wire /\ sweep'.phase = "head"
          /\ p \in PendingChargesOlderThan(rows, clock - Cutoff)
      BY <1>1, <1>3, <2>2, <3>1, SweepTakes
    <3>3. rows[p].request # "null" /\ rows[p].created < clock - Cutoff
      BY <3>2 DEF PendingChargesOlderThan
    <3>4. rows[p].status = "pending" /\ call[p].lane = "pay"
      BY <1>1, <3>2, StaleRowsAreOver DEF LimitInv, BudgetInv
    <3>5. rows[p].created = call[p].now
      BY <3>4 DEF BookInv, MinedInv, RowIsItsCalls
    <3>6. wire[p] \notin {"posted", "queued"}
      <4>1. call[p].now \in Nat /\ clock \in Nat /\ Cutoff \in Nat
        BY <1>1, Typed DEF CallState
      <4>2. ~(clock <= call[p].now + Cutoff)
        BY <3>3, <3>5, <4>1
      <4> QED BY <4>2 DEF BookInv, SweptIsOver
    <3>7. rows'[p].request = rows[p].request
      BY <1>1, <3>1, Typed, SweepRows
    <3> QED BY <3>2, <3>3, <3>6, <3>7
  <2> QED BY <2>1, <2>2
<1> QED BY <1>2, <1>3 DEF SweptIsOver

\* A sweep does not fail a row whose fee leg is on chain: its scan reaches the leg,
\* and no other row takes it.
LEMMA SweepPays ==
  ASSUME BookInv, SweepApply, NEW p \in sweep.stale \cap Call, wire[p] = "landed"
  PROVE  rows'[p].status = "confirmed"
<1>1. TypeInv /\ MinedInv /\ p \in Charge /\ sweep.phase = "apply"
  BY Typed DEF BookInv, MinedInv, SettleInv, SweepApply
<1>2. /\ rows[p].status = "pending" /\ call[p].lane = "pay" /\ call[p].row = p
      /\ rows[p].request # "null"
  BY DEF BookInv, SweptIsOver, MinedInv, LimitInv, Books, StaleIsStale, RowOwners, NoCarves
<1>3. rows[p].fee = call[p].fee /\ rows[p].since = call[p].since
  BY <1>2 DEF BookInv, MinedInv, RowIsItsCalls
<1>4. PICK j \in LegOf(p, sweep.upto) : TRUE
  BY <1>1 DEF BookInv, SweptIsOver
<1>5. j \in 1 .. sweep.upto /\ log[j] = p /\ call[p].since <= j /\ sweep.upto \in Nat
  BY <1>1, <1>4, Typed DEF LegOf, Sweep
<1>6. j \in SweptLegs(rows[p].fee)
  <2>1. j \in Nat /\ call[p].since \in Nat
    BY <1>1, <1>5, Typed DEF CallState
  <2>2. j \in FeeLegs(rows[p].fee, 0, sweep.upto)
    BY <1>3, <1>5, <2>1 DEF FeeLegs
  <2>3. j >= rows[p].since
    BY <1>3, <1>5, <2>1
  <2> QED BY <2>2, <2>3 DEF SweptLegs
<1>7. PICK hit \in [sweep.stale -> 0 .. sweep.upto] :
         /\ Matching(hit)
         /\ rows' = [i \in Charge |->
                       IF i \in sweep.stale THEN Swept(i, hit[i]) ELSE rows[i]]
  BY DEF SweepApply
<1>8. hit[p] # 0
  <2>1. ASSUME NEW k \in sweep.stale \ {p}, hit[k] = j
        PROVE  FALSE
    <3>1. j # 0
      BY <1>5
    <3>2. j \in SweptLegs(rows[k].fee)
      BY <1>7, <2>1, <3>1 DEF Matching
    <3>3. call[log[j]].row = k
      BY <1>1, <3>2, LegIsTheRows
    <3> QED BY <1>2, <1>5, <3>3
  <2>2. ~(SweptLegs(rows[p].fee) \subseteq {hit[k] : k \in sweep.stale \ {p}})
    BY <1>6, <2>1
  <2>3. hit[p] \in SweptLegs(rows[p].fee)
    BY <1>7, <2>2 DEF Matching
  <2>4. hit[p] \in 1 .. sweep.upto
    BY <2>3 DEF SweptLegs, FeeLegs
  <2> QED BY <1>5, <2>4
<1>9. rows'[p] = Swept(p, hit[p]) /\ rows[p] \in ChargeRow
  BY <1>1, <1>7, Typed
<1> QED BY <1>8, <1>9 DEF Swept, ChargeRow

\* A request that fails the row of a redemption that may move believes an early 500.
LEMMA FailsMoving ==
  ASSUME BookInv, [Next]_vars, "lostReply" \notin Faults,
         NEW p \in Call, Ends(p), Moving(p), Moving(p)',
         call[p].lane = "pay", rows[p].status # "failed", rows'[p].status = "failed"
  PROVE  /\ "early500" \in Faults /\ rows[p].request # "null"
         /\ call[p].hint = "no leg"
<1>1. SettleInv /\ TypeInv /\ p \in Charge /\ p \notin Fiat /\ call[p].row = p
  BY Typed DEF BookInv, MinedInv, SettleInv, LaneOfRow, Settling
<1>2. ~RefuseBroadcast(p)
  BY <1>1 DEF RefuseBroadcast, SettleInv, SentLater, BeforeSend, Moving
<1>3. ~SendFails(p)
  <2>1. ASSUME SendFails(p)
        PROVE  wire'[p] = "dropped"
    BY <1>1, <2>1, Typed DEF SendFails
  <2> QED BY <2>1 DEF Moving
<1>4. ~ConfirmByStatus(p) /\ ~ConfirmByLog(p)
  <2>1. ASSUME NEW q, ConfirmBy(p, q)
        PROVE  rows'[p].status = "confirmed"
    BY <1>1, <2>1, Typed DEF ConfirmBy, ChargeRow
  <2> QED BY <2>1 DEF ConfirmByStatus, ConfirmByLog
<1>5. ConfirmReverted(p)
  BY <1>2, <1>3, <1>4 DEF Ends, Replay, Abort, HeadFails, ConfirmTimesOut
<1>6. rows[p].request # "null"
  <2>1. rows[p].status # "absent"
    BY DEF BookInv, MovingIsBooked
  <2> QED BY <1>5, <2>1 DEF ConfirmReverted, Polling, BookInv, MinedInv, RowIsItsCalls
<1>7. call[p].hint = "no leg"
  BY <1>5 DEF ConfirmReverted, Polling
<1>8. "early500" \in Faults
  BY <1>7 DEF BookInv, HintsAreTrue, Moving
<1> QED BY <1>6, <1>7, <1>8

\* What may move is on the books.
LEMMA MovingKept ==
  ASSUME BookInv, [Next]_vars, "lostReply" \notin Faults
  PROVE  MovingIsBooked'
<1>1. LimitInv /\ SettleInv /\ TypeInv
  BY DEF BookInv, MinedInv, LimitInv
<1>2. ASSUME NEW p \in Call, Moving(p)', call'[p].lane = "pay"
      PROVE  /\ rows'[p].status # "absent"
             /\ rows'[p].status = "failed" =>
                   "early500" \in Faults /\ rows'[p].request # "null"
  <2>1. call[p].lane = "pay" /\ PayRowGoesOn(p)
    BY <1>1, <1>2, MovedBefore, EachPayRow DEF SameAsk
  <2>2. CASE /\ wire[p] = "none" /\ wire'[p] = "posted"
             /\ call[p].phase = "head" /\ call'[p].phase = "sending"
    <3>1. rows[p].status = "pending"
      BY <2>1, <2>2 DEF LimitInv, Books, BookedInTime, BookInv, MinedInv
    <3>2. ~Ends(p)
      BY <1>1, <2>2, EndEffect
    <3>3. p \notin sweep.stale
      BY <2>2 DEF LimitInv, Books, StaleIsStale, BookInv, MinedInv
    <3> QED BY <2>1, <2>2, <3>1, <3>2, <3>3
            DEF PayRowGoesOn, Reserve, SendReturns
  <2>3. CASE Moving(p)
    <3>1. /\ rows[p].status # "absent"
          /\ rows[p].status = "failed" => "early500" \in Faults /\ rows[p].request # "null"
      BY <2>1, <2>3 DEF BookInv, MovingIsBooked
    <3>2. call[p].phase \notin BeforeSend
      BY <1>1, <2>3 DEF SettleInv, SentLater, Moving
    <3>3. CASE Ends(p) /\ Judged(p)
      <4>1. CASE rows[p].status # "failed" /\ rows'[p].status = "failed"
        BY <1>2, <2>1, <2>3, <3>3, <4>1, FailsMoving DEF Judged
      <4> QED BY <3>1, <3>3, <4>1 DEF Judged
    <3>4. CASE SweepApply /\ p \in sweep.stale /\ Judged(p)
      <4>1. wire[p] = "landed"
        BY <2>3, <3>4 DEF BookInv, SweptIsOver, Moving
      <4> QED BY <3>4, <4>1, SweepPays
    <3>5. ~Reserve(p)
      BY <3>2 DEF Reserve, BeforeSend
    <3> QED BY <2>1, <3>1, <3>3, <3>4, <3>5 DEF PayRowGoesOn
  <2> QED BY <1>2, <2>2, <2>3, MovedBefore
<1> QED BY <1>2 DEF MovingIsBooked

\* A request that decides began to, and asks for what it asked for.
LEMMA DecidedBefore ==
  ASSUME BookInv, [Next]_vars, NEW q \in Call, call'[q].phase \in Deciding
  PROVE  /\ SameAsk(call'[q], call[q])
         /\ call[q].phase \in Deciding \/ Begin(q)
<1>1. LimitInv /\ SettleInv
  BY DEF BookInv, MinedInv
<1>2. NoCarves
  BY <1>1 DEF LimitInv
<1> QED BY <1>1, <1>2, EachCall DEF CallGoesOn, GoesTo, Deciding

\* Two requests under one key wait for one mutex.
LEMMA OneDecides ==
  ASSUME BookInv, NEW p \in Call, NEW q \in Call, call[p].card = call[q].card,
         call[p].phase = "head", call[q].phase \in Deciding
  PROVE  p = q
<1>1. InSection(p) /\ InSection(q) /\ MyKey(p) = MyKey(q)
  BY DEF InSection, Deciding, MyKey
<1> QED BY <1>1 DEF BookInv, MinedInv, LimitInv, TypeInv, HoldsMutex

\* A request that begins has no rival: a redemption that may move answers for it.
LEMMA RivalAnswers ==
  ASSUME BookInv, NEW p \in Call, NEW q \in Call, Begin(q), Moving(p),
         call[p].lane = "pay", call[q].lane = "pay",
         call[p].card = call[q].card, call[p].key = call[q].key, call[p].key # NoKey
  PROVE  FALSE
<1>1. /\ rows[p].status # "absent"
      /\ rows[p].status = "failed" => rows[p].request # "null"
  BY DEF BookInv, MovingIsBooked
<1>2. rows[p].card = call[q].card /\ rows[p].key = call[q].key
  BY <1>1 DEF BookInv, MinedInv, RowIsItsCalls
<1>3. p \in ChargeByIdempotency(rows, call[q].card, call[q].key)
  BY <1>1, <1>2 DEF ChargeByIdempotency, Charge
<1>4. ~Retryable(p)
  BY <1>1 DEF Retryable
<1>5. p \in Replayed(q)
  BY <1>3, <1>4 DEF Replayed, Settling
<1> QED BY <1>5 DEF Begin

\* While a request decides nobody moves money under its key, and so one key has one
\* mover.
LEMMA RivalKept ==
  ASSUME BookInv, [Next]_vars
  PROVE  NoRival' /\ OneRedemptionPerKey'
<1>1. SettleInv /\ TypeInv
  BY DEF BookInv, MinedInv, SettleInv
<1>2. ASSUME NEW p \in Call, NEW q \in Call,
             p # q, call'[p].lane = "pay", call'[q].lane = "pay",
             call'[p].card = call'[q].card, call'[p].key = call'[q].key,
             call'[p].key # NoKey, call'[q].phase \in Deciding, Moving(p)'
      PROVE  FALSE
  <2>1. SameAsk(call'[p], call[p]) /\ SameAsk(call'[q], call[q])
    BY <1>2, MovedBefore, DecidedBefore
  <2>2. /\ call[p].lane = "pay" /\ call[q].lane = "pay"
        /\ call[p].card = call[q].card /\ call[p].key = call[q].key
        /\ call[p].key # NoKey
    BY <1>2, <2>1 DEF SameAsk
  <2>3. CASE Moving(p)
    BY <1>2, <2>2, <2>3, DecidedBefore, RivalAnswers DEF BookInv, NoRival
  <2>4. CASE call[p].phase = "head" /\ call'[p].phase = "sending"
    <3>1. CASE call[q].phase \in Deciding
      BY <1>2, <2>2, <2>4, <3>1, OneDecides
    <3>2. CASE Begin(q)
      BY <1>1, <1>2, <2>4, <3>2, BeginEffect
    <3> QED BY <1>2, <3>1, <3>2, DecidedBefore
  <2> QED BY <1>2, <2>3, <2>4, MovedBefore
<1>3. ASSUME NEW p \in Call, NEW q \in Call,
             p # q, Moving(p)', Moving(q)', call'[p].lane = "pay", call'[q].lane = "pay",
             call'[p].card = call'[q].card, call'[p].key = call'[q].key,
             call'[p].key # NoKey
      PROVE  FALSE
  <2>1. SameAsk(call'[p], call[p]) /\ SameAsk(call'[q], call[q])
    BY <1>3, MovedBefore
  <2>2. /\ call[p].lane = "pay" /\ call[q].lane = "pay"
        /\ call[p].card = call[q].card /\ call[p].key = call[q].key
        /\ call[p].key # NoKey
    BY <1>3, <2>1 DEF SameAsk
  <2>3. CASE Moving(p) /\ Moving(q)
    BY <1>3, <2>2, <2>3 DEF BookInv, OneRedemptionPerKey
  <2>4. CASE Moving(p) /\ call[q].phase = "head"
    BY <1>3, <2>2, <2>4 DEF BookInv, NoRival, Deciding
  <2>5. CASE Moving(q) /\ call[p].phase = "head"
    BY <1>3, <2>2, <2>5 DEF BookInv, NoRival, Deciding
  <2>6. CASE call[p].phase = "head" /\ call[q].phase = "head"
    BY <1>3, <2>2, <2>6, OneDecides DEF Deciding
  <2> QED BY <1>3, <2>3, <2>4, <2>5, <2>6, MovedBefore
<1> QED BY <1>2, <1>3 DEF NoRival, OneRedemptionPerKey

\* A hint is read in a poll, and what it says of a dropped redemption stays true.
LEMMA HintsKept ==
  ASSUME BookInv, [Next]_vars
  PROVE  HintsAreTrue'
<1> SUFFICES ASSUME "early500" \notin Faults, NEW p \in Call, call'[p].hint # "none"
             PROVE  wire'[p] = "dropped"
  BY DEF HintsAreTrue
<1>1. SettleInv /\ TypeInv /\ NoCarves
  BY DEF BookInv, MinedInv, SettleInv, LimitInv
<1>2. CallGoesOn(p) /\ WireGoesOn(p)
  BY <1>1, EachCall, EachWire
<1>3. CASE call'[p].hint = call[p].hint
  BY <1>2, <1>3 DEF BookInv, HintsAreTrue, WireGoesOn
<1>4. CASE Polls(p)
  <2>1. wire' = wire
    BY <1>1, <1>4, PollEffect
  <2>2. wire[p] = "dropped"
    BY <1>4 DEF Polls, ToldReverted, ScanFindsNothing, Polling, Status500,
                BookInv, HintsAreTrue
  <2> QED BY <2>1, <2>2
<1> QED BY <1>2, <1>3, <1>4 DEF CallGoesOn

\* Every step keeps the books.
LEMMA BookKept ==
  ASSUME BookInv, [Next]_vars, "x402" \notin Lanes, "slow" \notin Faults,
         "feeClash" \notin Faults, "lostReply" \notin Faults
  PROVE  BookInv'
<1>1. MinedInv'
  BY MinedKept DEF BookInv
<1> QED BY <1>1, OverKept, MovingKept, RivalKept, HintsKept DEF BookInv

\* The empty server has clean books.
LEMMA InitBook == Init => BookInv
<1> SUFFICES ASSUME Init PROVE BookInv
  OBVIOUS
<1>1. /\ wire = [p \in Call |-> "none"] /\ sweep.stale = {}
      /\ \A p \in Call : call[p].hint = "none"
  BY DEF Init, IdleSweep, IdleCall
<1> QED BY <1>1, InitMined
        DEF BookInv, SweptIsOver, MovingIsBooked, NoRival, OneRedemptionPerKey, Moving,
            HintsAreTrue

\* One idempotency key moves money once, whatever is retried after a failure, an
\* early 500 or a crash: an attempt is repeated only when the one before it was never
\* sent (spend.ts, 396-409).  An answer to a send that is lost is excluded: with it
\* the promise does not hold, as the run bad_lost_reply shows.
THEOREM OneRedemption ==
  ASSUME "x402" \notin Lanes, "slow" \notin Faults,
         "feeClash" \notin Faults, "lostReply" \notin Faults
  PROVE  Spec => []OneRedemptionPerKey
<1>1. BookInv => OneRedemptionPerKey
  BY DEF BookInv
<1> QED BY <1>1, InitBook, BookKept, PTL DEF Spec

\* Money that moves is on the books: the row of a redemption that may land, a spend's
\* or a settlement's, is neither deleted nor failed by a refusal, a failed send, a
\* revert, a retry or a sweep (spend.ts, 558-618 and 752-766).
THEOREM MoneyIsBooked ==
  ASSUME "x402" \notin Lanes, "slow" \notin Faults, "feeClash" \notin Faults,
         "lostReply" \notin Faults, "early500" \notin Faults
  PROVE  Spec => []MovingMoneyIsBooked
<1>1. BookInv => MovingMoneyIsBooked
  <2> SUFFICES ASSUME BookInv, NEW p \in Call, Moving(p), call[p].lane # "x402"
               PROVE  rows[call[p].row].status \notin {"absent", "failed"}
    BY DEF MovingMoneyIsBooked
  <2>1. SettleInv
    BY DEF BookInv, MinedInv
  <2>2. CASE Settling(p)
    BY <2>1, <2>2 DEF SettleInv, LaneOfRow, FiatRows
  <2>3. CASE ~Settling(p)
    <3>1. call[p].lane = "pay" /\ call[p].row = p
      BY <2>1, <2>3, Typed DEF SettleInv, LaneOfRow, Settling, CallState
    <3> QED BY <3>1 DEF BookInv, MovingIsBooked
  <2> QED BY <2>2, <2>3
<1> QED BY <1>1, InitBook, BookKept, PTL DEF Spec

\* A charge that was included before the log was last asked is not failed: a request
\* that reads 500 searches the log first, a sweep searches it from the row's block,
\* and neither misses a fee leg that is there (spend.ts, 333-357 and 752-766).  A
\* redemption mined after the request's last look, before its verdict is written, is
\* excepted; so are scans that throw while the relayer's 500 is early.
THEOREM IncludedStays ==
  ASSUME "x402" \notin Lanes, "slow" \notin Faults, "feeClash" \notin Faults,
         "lostReply" \notin Faults, ~({"early500", "scanBlip"} \subseteq Faults)
  PROVE  Spec => IncludedIsNotFailed
<1>1. ASSUME BookInv, [Next]_vars, NEW p \in Call, Included(p)
      PROVE  rows'[p].status # "failed" /\ call'[p].hint # "no leg"
  <2>1. /\ LimitInv /\ SettleInv /\ LogIsTheChain
        /\ call[p].lane = "pay" /\ wire[p] = "landed"
        /\ rows[p].status = "pending" /\ call[p].hint # "no leg"
    BY <1>1 DEF BookInv, MinedInv, Included
  <2>2. NoCarves
    BY <2>1 DEF LimitInv
  <2>3. /\ PayRowGoesOn(p) /\ CallGoesOn(p)
        /\ wire'[p] = "landed" /\ Moving(p) /\ Moving(p)'
    BY <1>1, <2>1, <2>2, EachPayRow, EachCall, MinedStays DEF Moving
  <2>4. Ends(p) => rows'[p].status # "failed"
    BY <1>1, <2>1, <2>3, FailsMoving
  <2>5. SweepApply /\ p \in sweep.stale => rows'[p].status # "failed"
    BY <1>1, <2>1, SweepPays
  <2>6. rows'[p].status # "failed"
    BY <2>1, <2>3, <2>4, <2>5 DEF PayRowGoesOn
  <2>7. ~ScanFindsNothing(p)
    <3>1. PICK j \in LegOf(p, Len(log)) : TRUE
      BY <2>1 DEF LogIsTheChain
    <3>2. j \in MyFeeLegs(p)
      <4>1. call[p].since \in Nat /\ log \in Seq(Call)
        BY <2>1, Typed DEF CallState, SettleInv
      <4>2. j \in 1 .. Len(log) /\ log[j] = p /\ call[p].since <= j
        BY <3>1 DEF LegOf
      <4> QED BY <4>1, <4>2 DEF MyFeeLegs, FeeLegs
    <3>3. call[p].hint = "500" => "early500" \in Faults
      BY <1>1, <2>1 DEF BookInv, HintsAreTrue
    <3> QED BY <3>2, <3>3 DEF ScanFindsNothing, Polling, NoFeeLegSeen
  <2>8. call'[p].hint # "no leg"
    <3>1. call \in [Call -> CallState]
      BY <2>1, Typed DEF SettleInv
    <3>2. ToldReverted(p) => call'[p].hint = "500"
      BY <3>1 DEF ToldReverted, Told, CallState
    <3> QED BY <2>1, <2>3, <2>7, <3>2 DEF CallGoesOn, Polls
  <2> QED BY <2>6, <2>8
<1>2. BookInv /\ [Next]_vars =>
        [\A p \in Call :
            Included(p) => rows'[p].status # "failed" /\ call'[p].hint # "no leg"]_vars
  BY <1>1
<1> QED BY <1>2, InitBook, BookKept, PTL DEF Spec, IncludedIsNotFailed

-----------------------------------------------------------------------------
(* The book of charges.                                                    *)

\* A key of a card has one row, and none while a request under it is before its
\* reservation.
KeyFits ==
    /\ \A p, q \in Call :
          /\ p # q /\ rows[p].status # "absent" /\ rows[q].status # "absent"
          /\ rows[p].card = rows[q].card /\ rows[p].key = rows[q].key
          => rows[p].key = NoKey
    /\ \A p, q \in Call :
          /\ call[q].lane = "pay" /\ call[q].phase \in {"fee", "estimate"}
          /\ rows[p].status # "absent"
          /\ rows[p].card = call[q].card /\ rows[p].key = call[q].key
          => rows[p].key = NoKey

KeepsInv == BookInv /\ KeyFits

-----------------------------------------------------------------------------

\* A row in the table was in it before, or is booked by its request.
LEMMA BookedBefore ==
  ASSUME BookInv, [Next]_vars, NEW p \in Call, rows'[p].status # "absent"
  PROVE  \/ /\ rows[p].status # "absent"
            /\ rows'[p].card = rows[p].card /\ rows'[p].key = rows[p].key
         \/ /\ Reserve(p) /\ call[p].lane = "pay"
            /\ rows'[p].card = call[p].card /\ rows'[p].key = call[p].key
<1>1. LimitInv /\ SettleInv /\ TypeInv
  BY DEF BookInv, MinedInv, LimitInv
<1>2. PayRowGoesOn(p)
  BY <1>1, EachPayRow
<1>3. call[p].lane \in {"pay", "settle"}
  BY <1>1, PayOrSettle
<1>4. NoRow.status = "absent"
  BY DEF NoRow
<1>5. CASE Ends(p) /\ ~Settling(p) /\ Judged(p)
           /\ call[p].phase \in {"head", "sending", "confirming"}
  BY <1>1, <1>3, <1>5
     DEF LimitInv, Books, BookedInTime, Settling, Judged, SameBooking
<1>6. CASE SweepApply /\ p \in sweep.stale /\ Judged(p)
  BY <1>1, <1>6 DEF LimitInv, Books, StaleIsStale, Judged, SameBooking
<1> QED BY <1>2, <1>3, <1>4, <1>5, <1>6
        DEF PayRowGoesOn, Settling, SameBooking

\* A request before its reservation was so before, or begins.
LEMMA AskedBefore ==
  ASSUME BookInv, [Next]_vars, NEW q \in Call, call'[q].phase \in {"fee", "estimate"}
  PROVE  /\ SameAsk(call'[q], call[q])
         /\ call[q].phase \in {"fee", "estimate"} \/ Begin(q)
<1>1. LimitInv /\ SettleInv
  BY DEF BookInv, MinedInv
<1>2. NoCarves
  BY <1>1 DEF LimitInv
<1> QED BY <1>1, <1>2, EachCall DEF CallGoesOn, GoesTo

\* Every step keeps one row per key.
LEMMA KeyKept ==
  ASSUME KeepsInv, [Next]_vars
  PROVE  KeyFits'
<1>1. BookInv /\ TypeInv /\ KeyFits
  BY DEF KeepsInv, BookInv, MinedInv, LimitInv
<1>2. ASSUME NEW p \in Call, NEW q \in Call, p # q,
             rows'[p].status # "absent", rows'[q].status # "absent",
             rows'[p].card = rows'[q].card, rows'[p].key = rows'[q].key
      PROVE  rows'[p].key = NoKey
  <2>1. ~(Reserve(p) /\ Reserve(q))
    BY <1>1, <1>2, ReserveEffect
  <2>2. \A r \in Call : Reserve(r) => call[r].phase = "estimate"
    BY DEF Reserve
  <2> QED BY <1>1, <1>2, <2>1, <2>2, BookedBefore DEF KeyFits
<1>3. ASSUME NEW p \in Call, NEW q \in Call,
             call'[q].lane = "pay", call'[q].phase \in {"fee", "estimate"},
             rows'[p].status # "absent",
             rows'[p].card = call'[q].card, rows'[p].key = call'[q].key
      PROVE  rows'[p].key = NoKey
  <2>1. /\ call[q].lane = "pay"
        /\ rows'[p].card = call[q].card /\ rows'[p].key = call[q].key
    BY <1>1, <1>3, AskedBefore DEF SameAsk
  <2>2. CASE Begin(q)
    <3>1. ~Reserve(p)
      BY <1>1, <1>3, <2>2, BeginEffect, ReserveEffect
    <3>2. rows[p].status # "absent" /\ rows[p].card = call[q].card
          /\ rows[p].key = call[q].key /\ rows'[p].key = rows[p].key
      BY <1>1, <1>3, <2>1, <3>1, BookedBefore
    <3>3. p \in ChargeByIdempotency(rows, call[q].card, call[q].key)
            => rows'[p] = NoRow
      BY <2>1, <2>2 DEF Begin, Cleared, Settling, Charge
    <3>4. NoRow.status = "absent"
      BY DEF NoRow
    <3> QED BY <1>3, <3>2, <3>3, <3>4 DEF ChargeByIdempotency, Charge
  <2>3. CASE call[q].phase \in {"fee", "estimate"}
    <3>1. CASE Reserve(p) /\ rows'[p].card = call[p].card
      <4>1. InSection(p) /\ InSection(q) /\ MyKey(p) = MyKey(q)
        BY <2>1, <2>3, <3>1 DEF Reserve, InSection, MyKey
      <4>2. p = q
        BY <1>1, <4>1 DEF TypeInv, HoldsMutex
      <4> QED BY <1>1, <1>3, <3>1, <4>2, ReserveEffect
    <3> QED BY <1>1, <1>3, <2>1, <2>3, <3>1, BookedBefore DEF KeyFits
  <2> QED BY <1>1, <1>3, <2>2, <2>3, AskedBefore
<1> QED BY <1>2, <1>3 DEF KeyFits

\* The empty server.
LEMMA InitKeeps == Init => KeepsInv
<1> SUFFICES ASSUME Init PROVE KeepsInv
  OBVIOUS
<1>1. \A i \in Charge : rows[i].status = "absent"
  BY DEF Init, NoRow
<1>2. Call \subseteq Charge
  BY DEF Charge
<1> QED BY <1>1, <1>2, InitBook DEF KeepsInv, KeyFits

-----------------------------------------------------------------------------
(* The book of the charges table.                                          *)

\* The book's words mean what the table's mean.
LEMMA BookWords ==
  /\ Book!AncestorChain = AncestorChain
  /\ \A c, t : Book!PeriodWindowStart(c, t) = PeriodWindowStart(c, t)
  /\ \A S : Book!Cardinality(S) = Cardinality(S)
<1>1. Book!AncestorChain = AncestorChain
  BY DEF Book!AncestorChain, AncestorChain
<1>2. ASSUME NEW c, NEW t
      PROVE  Book!PeriodWindowStart(c, t) = PeriodWindowStart(c, t)
  BY DEF Book!PeriodWindowStart, PeriodWindowStart
<1>3. ASSUME NEW S
      PROVE  Book!Cardinality(S) = Cardinality(S)
  BY DEF Book!Cardinality, Cardinality
<1> QED BY <1>1, <1>2, <1>3

\* An entry, field by field, now and after a step.
LEMMA Entries ==
  /\ \A i \in Charge :
        BookOfRows[i] = [state |-> EntryState(rows[i]), card |-> rows[i].card,
                         weight |-> Approved(rows)[i], at |-> rows[i].created]
  /\ \A i \in Charge :
        BookOfRows'[i] = [state |-> EntryState(rows'[i]), card |-> rows'[i].card,
                          weight |-> Approved(rows')[i], at |-> rows'[i].created]
  /\ \A i \in Charge :
        /\ Approved(rows)[i] = IF rows[i].kind = "fiat" THEN rows[i].amount
                               ELSE rows[i].amount + rows[i].fee
        /\ Approved(rows')[i] = IF rows'[i].kind = "fiat" THEN rows'[i].amount
                                ELSE rows'[i].amount + rows'[i].fee
  /\ BookOfRows = [i \in Charge |-> BookOfRows[i]]
  /\ BookOfRows' = [i \in Charge |-> BookOfRows'[i]]
BY DEF BookOfRows, Approved

\* The same booking in the same state is the same entry.
LEMMA SameEntry ==
  ASSUME NEW i \in Charge, SameBooking(rows'[i], rows[i]),
         rows'[i].created = rows[i].created,
         rows[i].kind = "fiat" \/ rows'[i].fee = rows[i].fee
  PROVE  /\ BookOfRows'[i] = [BookOfRows[i] EXCEPT !.state = EntryState(rows'[i])]
         /\ EntryState(rows'[i]) = EntryState(rows[i]) => BookOfRows'[i] = BookOfRows[i]
<1>1. Approved(rows')[i] = Approved(rows)[i]
  BY Entries DEF SameBooking
<1>2. /\ BookOfRows[i] = [state |-> EntryState(rows[i]), card |-> rows[i].card,
                          weight |-> Approved(rows)[i], at |-> rows[i].created]
      /\ BookOfRows'[i] = [state |-> EntryState(rows'[i]), card |-> rows[i].card,
                           weight |-> Approved(rows)[i], at |-> rows[i].created]
  BY <1>1, Entries DEF SameBooking
<1>3. BookOfRows'[i] = [BookOfRows[i] EXCEPT !.state = EntryState(rows'[i])]
  BY <1>2
<1>4. EntryState(rows'[i]) = EntryState(rows[i]) => BookOfRows'[i] = BookOfRows[i]
  BY <1>2
<1> QED BY <1>3, <1>4

\* A step of the book at one place.
LEMMA OnePlace ==
  ASSUME NEW k \in Charge, \A i \in Charge \ {k} : BookOfRows'[i] = BookOfRows[i]
  PROVE  BookOfRows' = [BookOfRows EXCEPT ![k] = BookOfRows'[k]]
<1> DEFINE b == BookOfRows
           c == BookOfRows'
<1>1. b = [i \in Charge |-> b[i]] /\ c = [i \in Charge |-> c[i]]
  BY Entries
<1>2. \A i \in Charge \ {k} : c[i] = b[i]
  OBVIOUS
<1> HIDE DEF b, c
<1>3. c = [b EXCEPT ![k] = c[k]]
  BY <1>1, <1>2
<1> QED BY <1>3 DEF b, c

\* A table within the limits is a book in budget.
LEMMA WithinIsInBudget ==
  ASSUME rows' \in [Charge -> ChargeRow], Within(rows')
  PROVE  Book!InBudget(BookOfRows')
<1> DEFINE b == BookOfRows'
<1>1. \A i \in Charge :
         /\ b[i].state \in {"held", "firm", "settled"}
              <=> rows'[i].status \notin {"absent", "failed"}
         /\ b[i].card = rows'[i].card /\ b[i].at = rows'[i].created
         /\ b[i].weight = Approved(rows')[i] /\ rows'[i].created \in Nat
  <2>1. \A i \in Charge :
           /\ b[i].state = EntryState(rows'[i])
           /\ b[i].card = rows'[i].card /\ b[i].at = rows'[i].created
           /\ b[i].weight = Approved(rows')[i]
    BY Entries
  <2>2. \A i \in Charge : rows'[i].status \in ChargeStatus /\ rows'[i].created \in Nat
    BY DEF ChargeRow
  <2>3. \A i \in Charge : EntryState(rows'[i]) \in {"held", "firm", "settled"}
                            <=> rows'[i].status \notin {"absent", "failed"}
    BY <2>2 DEF EntryState, ChargeStatus
  <2> QED BY <2>1, <2>2, <2>3
<1> HIDE DEF b
<1>2. ASSUME NEW c
      PROVE  Book!Holders(b, c) = ChargedTo(rows', c)
  BY <1>1, BookWords DEF Book!Holders, ChargedTo
<1>3. ASSUME NEW c, NEW t
      PROVE  Book!SameWindow(b, c, t) = WindowCharges(rows', c, t)
  BY <1>1, <1>2, BookWords DEF Book!SameWindow, WindowCharges, ChargedTo
<1>4. ASSUME NEW S \in SUBSET Charge
      PROVE  Book!Weight(b, S) = Atoms(S, Approved(rows'))
  <2>1. UNION {{i} \X (1 .. b[i].weight) : i \in S}
          = UNION {{i} \X (1 .. Approved(rows')[i]) : i \in S}
    BY <1>1
  <2> QED BY <2>1, BookWords DEF Book!Weight, Atoms
<1>5. \A c : /\ ChargedTo(rows', c) \in SUBSET Charge
             /\ \A t : WindowCharges(rows', c, t) \in SUBSET Charge
  BY DEF ChargedTo, WindowCharges
<1>6. \A c \in DOMAIN MaxUses : Cardinality(Book!Holders(b, c)) <= MaxUses[c]
  BY <1>2 DEF Within, UsesWithin
<1>7. \A c \in DOMAIN LifetimeCap : Book!Weight(b, Book!Holders(b, c)) <= LifetimeCap[c]
  BY <1>2, <1>4, <1>5 DEF Within, LifetimeWithin
<1>8. ASSUME NEW c \in DOMAIN PeriodCap, NEW i \in Book!Holders(b, c)
      PROVE  Book!Weight(b, Book!SameWindow(b, c, b[i].at)) <= PeriodCap[c]
  <2>1. b[i].at \in Nat
    BY <1>1, <1>2 DEF ChargedTo
  <2>2. Book!Weight(b, Book!SameWindow(b, c, b[i].at))
          = Atoms(WindowCharges(rows', c, b[i].at), Approved(rows'))
    BY <1>3, <1>4, <1>5
  <2> QED BY <2>1, <2>2 DEF Within, PeriodWithin
<1>9. Book!InBudget(b)
  BY <1>6, <1>7, <1>8, BookWords DEF Book!InBudget
<1> QED BY <1>9 DEF b

-----------------------------------------------------------------------------
(* What is paid.                                                           *)

\* Nobody's row is another spend's row.
LEMMA PaidIsMined ==
  ASSUME SettleInv, NoCarves, NEW p \in Call, p \in PaidOnChain
  PROVE  wire[p] = "landed"
<1>1. PICK q \in Call : wire[q] = "landed" /\ call[q].row = p
  BY DEF PaidOnChain
<1>2. p \notin Fiat
  BY Typed DEF SettleInv
<1>3. q = p
  BY <1>1, <1>2 DEF SettleInv, LaneOfRow
<1> QED BY <1>1, <1>3

\* What is paid changes when a redemption is mined, and by nothing else.
LEMMA PaidGrows ==
  ASSUME BookInv, [Next]_vars
  PROVE  \/ PaidOnChain' = PaidOnChain
         \/ \E p \in Call : Land(p)
<1>1. LimitInv /\ SettleInv /\ TypeInv
  BY DEF BookInv, MinedInv, LimitInv
<1>2. NoCarves
  BY <1>1 DEF LimitInv
<1>3. ASSUME \A q \in Call : wire'[q] = "landed" => wire[q] = "landed"
      PROVE  PaidOnChain' = PaidOnChain
  <2>1. \A q \in Call : wire[q] = "landed" =>
           wire'[q] = "landed" /\ call'[q].row = call[q].row
    BY <1>1, <1>2, MinedStays DEF SameAsk
  <2>2. {q \in Call : wire'[q] = "landed"} = {q \in Call : wire[q] = "landed"}
    BY <1>3, <2>1
  <2> QED BY <2>1, <2>2 DEF PaidOnChain
<1>4. ASSUME NEW p \in Call, ChainStep(p), ~Land(p)
      PROVE  PaidOnChain' = PaidOnChain
  <2>1. \A q \in Call : wire'[q] = "landed" => wire[q] = "landed"
    BY <1>1, <1>4, Typed DEF ChainStep, RelayerAccepts, Drop
  <2> QED BY <1>3, <2>1
<1>5. ASSUME NEW p \in Call, SpendStep(p)
      PROVE  PaidOnChain' = PaidOnChain
  <2>1. CASE Broadcast(p)
    BY <1>1, <1>3, <2>1, BroadcastEffect
  <2>2. CASE Ends(p)
    BY <1>1, <1>3, <2>2, EndEffect
  <2>3. CASE ~Broadcast(p) /\ ~Ends(p)
    <3>1. wire' = wire
      BY <1>5, <2>3
         DEF SpendStep, Ends, Begin, Reserve, QuoteFee, RaiseFee, SendReturns,
             ToldReverted, ScanFindsNothing, Told
    <3> QED BY <1>3, <3>1
  <2> QED BY <2>1, <2>2, <2>3
<1>6. CASE wire' = wire
  BY <1>3, <1>6
<1>7. ASSUME NEW p \in Call, Enter(p)
      PROVE  wire' = wire
  BY <1>1, <1>7, EnterFields
<1>8. \A p \in Call : ~X402Step(p)
  BY <1>1, NoX402Step
<1>9. SweepStep => wire' = wire
  BY <1>1, SweepTakes
<1>10. UNCHANGED vars \/ OwnerStep \/ Tick \/ Crash => wire' = wire
  BY DEF vars, OwnerStep, FreezeCard, UnfreezeCard, RevokeCard, NukeAll, Tick, Crash
<1> QED BY <1>4, <1>5, <1>6, <1>7, <1>8, <1>9, <1>10 DEF Next, FiatAuthorize

\* After a step as before it, verdicts are true: what is confirmed was paid, and
\* what is failed was not.
LEMMA VerdictsAreTrue ==
  ASSUME BookInv', "early500" \notin Faults, NEW i \in Charge
  PROVE  /\ rows'[i].status = "confirmed" => i \in PaidOnChain'
         /\ rows'[i].status = "failed" /\ i \in Call => i \notin PaidOnChain'
<1>1. SettleInv' /\ TypeInv' /\ LimitInv' /\ ConfirmedIsMined' /\ MovingIsBooked'
  BY DEF BookInv, MinedInv, LimitInv
<1>2. ASSUME rows'[i].status = "confirmed"
      PROVE  i \in PaidOnChain'
  <2> DEFINE q == rows'[i].tx
  <2>1. q # NoTx /\ wire'[q] = "landed" /\ call'[q].row = i
    BY <1>1, <1>2 DEF ConfirmedIsMined
  <2>2. q \in Call
    BY <1>1, <2>1 DEF TypeInv, TypeOK, ChargeRow
  <2> QED BY <2>1, <2>2 DEF PaidOnChain
<1>3. ASSUME rows'[i].status = "failed", i \in Call, i \in PaidOnChain'
      PROVE  FALSE
  <2>1. PICK q \in Call : wire'[q] = "landed" /\ call'[q].row = i
    BY <1>3 DEF PaidOnChain
  <2>2. i \notin Fiat
    BY <1>3, ChargesAssumption DEF ChargesAssumption
  <2>3. call'[q].lane = "pay" /\ q = i
    <3>1. call'[q] \in CallState
      BY <1>1 DEF TypeInv, TypeOK
    <3> QED BY <1>1, <2>1, <2>2, <3>1
            DEF LimitInv, Books, RowOwners, NoCarves, CallState
  <2> QED BY <1>1, <1>3, <2>1, <2>3 DEF MovingIsBooked, Moving
<1> QED BY <1>2, <1>3

-----------------------------------------------------------------------------
(* The steps of the book.                                                  *)

\* A row that is booked is approved.
LEMMA ApproveStep ==
  ASSUME BookInv', PaidOnChain' = PaidOnChain, NEW k \in Charge,
         rows[k].status = "absent", rows'[k].status = "pending",
         \A i \in Charge \ {k} : rows'[i] = rows[i]
  PROVE  Book!BookNext
<1>1. \A i \in Charge \ {k} : BookOfRows'[i] = BookOfRows[i]
  BY Entries
<1>2. BookOfRows' = [BookOfRows EXCEPT ![k] = BookOfRows'[k]]
  BY <1>1, OnePlace
<1>3. BookOfRows[k].state = "free"
  BY Entries DEF EntryState
<1>4. BookOfRows'[k].state \in {"held", "firm"}
  <2>1. EntryState(rows'[k]) \in {"held", "firm"}
    BY DEF EntryState
  <2> QED BY <2>1, Entries
<1>5. Book!InBudget(BookOfRows')
  BY WithinIsInBudget DEF BookInv, MinedInv, LimitInv, TypeInv, TypeOK
<1>6. Book!Approve(k)
  BY <1>2, <1>3, <1>4, <1>5 DEF Book!Approve
<1> QED BY <1>6 DEF Book!BookNext

\* A row is left as it is in the book, or gets a verdict that may be given.
LeftAlone(i) ==
    /\ SameBooking(rows'[i], rows[i]) /\ rows'[i].created = rows[i].created
    /\ rows[i].kind = "fiat" \/ rows'[i].fee = rows[i].fee
    /\ rows'[i].status = rows[i].status

MayJudge(i) ==
    \/ i \in Fiat /\ rows[i].status # "absent"
    \/ i \in Call /\ rows[i].status = "pending"

\* Verdicts settle and release what is open, or leave the book as it is.
LEMMA VerdictStep ==
  ASSUME BookInv, BookInv', "early500" \notin Faults, PaidOnChain' = PaidOnChain,
         \A i \in Charge : LeftAlone(i) \/ (Judged(i) /\ MayJudge(i))
  PROVE  Book!BookNext
<1> DEFINE settled == {i \in Book!Open \cap PaidOnChain :
                          BookOfRows'[i] = [BookOfRows[i] EXCEPT !.state = "settled"]}
           released == {i \in Book!Open \ PaidOnChain :
                          BookOfRows'[i] = [BookOfRows[i] EXCEPT !.state = "released"]}
<1>1. ASSUME NEW i \in Charge, LeftAlone(i)
      PROVE  BookOfRows'[i] = BookOfRows[i]
  <2>1. EntryState(rows'[i]) = EntryState(rows[i])
    BY <1>1 DEF LeftAlone, EntryState, SameBooking
  <2> QED BY <1>1, <2>1, SameEntry DEF LeftAlone
<1>2. ASSUME NEW f \in Fiat, f \in Charge, Judged(f), rows[f].status # "absent"
      PROVE  BookOfRows'[f] = BookOfRows[f]
  <2>1. rows[f].kind = "fiat" /\ rows'[f].kind = "fiat" /\ rows[f].status # "failed"
    BY <1>2 DEF BookInv, MinedInv, SettleInv, FiatRows, Judged, SameBooking
  <2>2. rows'[f].status \notin {"absent", "failed"}
    BY <1>2, <2>1 DEF Judged, BookInv, MinedInv, SettleInv, FiatRows
  <2>3. EntryState(rows'[f]) = EntryState(rows[f])
    BY <1>2, <2>1, <2>2 DEF EntryState
  <2> QED BY <1>2, <2>3, SameEntry DEF Judged
<1>3. ASSUME NEW p \in Call, p \in Charge, Judged(p), rows[p].status = "pending"
      PROVE  BookOfRows'[p] = BookOfRows[p] \/ p \in settled \cup released
  <2>1. rows[p].kind = "pay" /\ rows'[p].kind = "pay"
    BY <1>3 DEF BookInv, MinedInv, LimitInv, Books, RowKinds, NoCarves, Judged, SameBooking
  <2>2. BookOfRows'[p] = [BookOfRows[p] EXCEPT !.state = EntryState(rows'[p])]
    BY <1>3, SameEntry DEF Judged
  <2>3. BookOfRows[p].state = "held"
    BY <1>3, <2>1, Entries DEF EntryState
  <2>4. p \in Book!Open
    BY <1>3, <2>3 DEF Book!Open
  <2>5. CASE rows'[p].status = "confirmed"
    <3>1. EntryState(rows'[p]) = "settled"
      BY <2>1, <2>5 DEF EntryState
    <3>2. p \in PaidOnChain
      BY <1>3, <2>5, VerdictsAreTrue
    <3> QED BY <2>2, <2>4, <3>1, <3>2
  <2>6. CASE rows'[p].status = "failed"
    <3>1. EntryState(rows'[p]) = "released"
      BY <2>6 DEF EntryState
    <3>2. p \notin PaidOnChain
      BY <1>3, <2>6, VerdictsAreTrue
    <3> QED BY <2>2, <2>4, <3>1, <3>2
  <2>7. CASE rows'[p].status = "settlement_unconfirmed"
    <3>1. EntryState(rows'[p]) = EntryState(rows[p])
      BY <1>3, <2>1, <2>7 DEF EntryState
    <3> QED BY <1>3, <3>1, SameEntry DEF Judged
  <2> QED BY <1>3, <2>5, <2>6, <2>7 DEF Judged
<1>4. ASSUME NEW i \in Charge
      PROVE  BookOfRows'[i] = IF i \in settled
                              THEN [BookOfRows[i] EXCEPT !.state = "settled"]
                              ELSE IF i \in released
                              THEN [BookOfRows[i] EXCEPT !.state = "released"]
                              ELSE BookOfRows[i]
  <2>1. BookOfRows'[i] = BookOfRows[i] \/ i \in settled \cup released
    BY <1>1, <1>2, <1>3 DEF MayJudge
  <2> QED BY <2>1
<1>5. settled \in SUBSET (Book!Open \cap PaidOnChain)
      /\ released \in SUBSET (Book!Open \ PaidOnChain)
  OBVIOUS
<1>6. BookOfRows' = [i \in Charge |-> BookOfRows'[i]]
  BY Entries
<1> HIDE DEF settled, released
<1>7. BookOfRows' = [i \in Charge |->
                       IF i \in settled
                       THEN [BookOfRows[i] EXCEPT !.state = "settled"]
                       ELSE IF i \in released
                       THEN [BookOfRows[i] EXCEPT !.state = "released"]
                       ELSE BookOfRows[i]]
  BY <1>4, <1>6
<1>8. Book!Resolve(settled, released)
  BY <1>7 DEF Book!Resolve
<1> QED BY <1>5, <1>8 DEF Book!BookNext

\* A retry forgets the one released entry under its key.
LEMMA ForgetStep ==
  ASSUME KeepsInv, PaidOnChain' = PaidOnChain, NEW q \in Call, Begin(q)
  PROVE  Book!BookNext \/ BookOfRows' = BookOfRows
<1>1. SettleInv /\ TypeInv /\ KeyFits
  BY DEF KeepsInv, BookInv, MinedInv, SettleInv
<1>2. CASE \A i \in Charge : rows'[i] = rows[i]
  <2>1. \A i \in Charge : BookOfRows'[i] = BookOfRows[i]
    BY <1>2, Entries
  <2> QED BY <2>1, Entries
<1>3. ASSUME NEW k \in Charge, rows'[k] # rows[k]
      PROVE  Book!BookNext
  <2>1. /\ rows'[k] = NoRow /\ rows[k].status = "failed"
        /\ rows[k].card = call[q].card /\ rows[k].key = call[q].key
        /\ call[q].key # NoKey
    BY <1>1, <1>3, BeginRows
  <2>2. k \in Call
    BY <1>1, <2>1, Typed DEF SettleInv, FiatRows
  <2>3. ASSUME NEW i \in Charge \ {k}
        PROVE  rows'[i] = rows[i]
    <3> SUFFICES ASSUME rows'[i] # rows[i] PROVE FALSE
      OBVIOUS
    <3>1. /\ rows[i].status = "failed"
          /\ rows[i].card = call[q].card /\ rows[i].key = call[q].key
      BY <1>1, BeginRows
    <3>2. i \in Call
      BY <1>1, <2>1, <3>1, Typed DEF SettleInv, FiatRows
    <3> QED BY <1>1, <2>1, <2>2, <3>1, <3>2 DEF KeyFits
  <2>4. \A i \in Charge \ {k} : BookOfRows'[i] = BookOfRows[i]
    BY <2>3, Entries
  <2>5. BookOfRows' = [BookOfRows EXCEPT ![k] = BookOfRows'[k]]
    BY <2>4, OnePlace
  <2>6. BookOfRows[k].state = "released"
    BY <2>1, Entries DEF EntryState
  <2>7. BookOfRows'[k] = Book!Blank
    <3>1. /\ NoRow.status = "absent" /\ NoRow.kind = "pay" /\ NoRow.amount = 0
          /\ NoRow.fee = 0 /\ NoRow.created = 0
          /\ NoRow.card = (CHOOSE c \in Card : TRUE)
      BY DEF NoRow
    <3>2. EntryState(rows'[k]) = "free" /\ Approved(rows')[k] = 0
      BY <2>1, <3>1, Entries DEF EntryState
    <3> QED BY <2>1, <3>1, <3>2, Entries DEF Book!Blank
  <2>8. Book!Forget(k)
    BY <2>5, <2>6, <2>7 DEF Book!Forget
  <2> QED BY <2>8 DEF Book!BookNext
<1> QED BY <1>2, <1>3

\* A redemption that is mined pays an entry that was not paid, while it is booked.
LEMMA PayStep ==
  ASSUME KeepsInv, "early500" \notin Faults, NEW p \in Call, Land(p)
  PROVE  Book!BookNext
<1> DEFINE k == call[p].row
<1>1. /\ LimitInv /\ SettleInv /\ TypeInv /\ ConfirmedIsMined
      /\ MovingIsBooked /\ k \in Charge
  BY Typed DEF KeepsInv, BookInv, MinedInv, SettleInv, CallState
<1>2. NoCarves
  BY <1>1 DEF LimitInv
<1>3. /\ wire[p] = "queued" /\ rows' = rows /\ call' = call
      /\ wire'[p] = "landed" /\ \A q \in Call \ {p} : wire'[q] = wire[q]
  BY <1>1, Typed DEF Land
<1>4. k \notin PaidOnChain
  <2> SUFFICES ASSUME NEW q \in Call, wire[q] = "landed", call[q].row = k
               PROVE  FALSE
    BY DEF PaidOnChain
  <2>1. p # q
    BY <1>3
  <2>2. CASE Settling(p) /\ Settling(q)
    BY <1>1, <1>3, <2>1, <2>2 DEF SettleInv, ClaimedFirst
  <2>3. CASE ~Settling(p) \/ ~Settling(q)
    BY <1>1, <2>1, <2>3, Typed DEF SettleInv, LaneOfRow
  <2> QED BY <2>2, <2>3
<1>5. BookOfRows[k].state \in {"held", "firm"}
  <2>1. CASE Settling(p)
    <3>1. /\ rows[k].kind = "fiat" /\ rows[k].status \notin {"absent", "failed"}
      BY <1>1, <2>1 DEF SettleInv, LaneOfRow, FiatRows
    <3>2. EntryState(rows[k]) = "firm"
      BY <3>1 DEF EntryState
    <3> QED BY <1>1, <3>2, Entries
  <2>2. CASE ~Settling(p)
    <3>1. k = p /\ call[p].lane = "pay"
      BY <1>1, <2>2, PayOrSettle DEF Settling
    <3>2. rows[p].status \notin {"absent", "failed"}
      BY <1>1, <1>3, <3>1 DEF MovingIsBooked, Moving
    <3>3. rows[p].status # "confirmed"
      <4> SUFFICES ASSUME rows[p].status = "confirmed" PROVE FALSE
        OBVIOUS
      <4>1. rows[p].tx \in Call /\ wire[rows[p].tx] = "landed" /\ call[rows[p].tx].row = p
        BY <1>1, Typed DEF ConfirmedIsMined, ChargeRow
      <4>2. p \in PaidOnChain
        BY <4>1 DEF PaidOnChain
      <4> QED BY <1>4, <3>1, <4>2
    <3>4. rows[p].kind = "pay" /\ rows[p].status \in ChargeStatus
      BY <1>1, <3>2, Typed DEF LimitInv, Books, RowKinds, NoCarves, ChargeRow
    <3>5. EntryState(rows[p]) = "held"
      BY <3>2, <3>3, <3>4 DEF EntryState, ChargeStatus
    <3> QED BY <1>1, <3>1, <3>5, Entries
  <2> QED BY <2>1, <2>2
<1>6. PaidOnChain' = PaidOnChain \cup {k}
  <2>1. {q \in Call : wire'[q] = "landed"} = {q \in Call : wire[q] = "landed"} \cup {p}
    BY <1>3
  <2> QED BY <1>3, <2>1 DEF PaidOnChain
<1>7. BookOfRows' = BookOfRows
  BY <1>3 DEF BookOfRows, Approved
<1>8. Book!Pay(k)
  BY <1>4, <1>5, <1>6, <1>7 DEF Book!Pay
<1> QED BY <1>1, <1>8 DEF Book!BookNext

\* Every step of the pipeline is a step of the book or leaves it alone.
LEMMA EveryStepKeepsTheBook ==
  ASSUME KeepsInv, KeepsInv', [Next]_vars, "early500" \notin Faults
  PROVE  Book!BookNext \/ UNCHANGED Book!bookVars
<1>1. BookInv /\ BookInv' /\ LimitInv /\ SettleInv /\ TypeInv
  BY DEF KeepsInv, BookInv, MinedInv, LimitInv
<1>2. ASSUME NEW p \in Call, Land(p)
      PROVE  Book!BookNext
  BY <1>2, PayStep
<1>3. CASE PaidOnChain' = PaidOnChain
  <2>1. CASE rows' = rows
    <3>1. BookOfRows' = BookOfRows
      BY <2>1 DEF BookOfRows, Approved
    <3> QED BY <1>3, <3>1 DEF Book!bookVars
  <2>2. ASSUME NEW p \in Call, SpendStep(p)
        PROVE  Book!BookNext \/ UNCHANGED Book!bookVars
    <3>1. /\ call[p].row \in Charge /\ p \in Charge
          /\ Settling(p) => call[p].row \in Fiat /\ rows[call[p].row].kind = "fiat"
                            /\ rows[call[p].row].status # "absent"
          /\ ~Settling(p) => call[p].row = p /\ call[p].lane = "pay"
      BY <1>1, Typed
         DEF CallState, SettleInv, LaneOfRow, FiatRows, LimitInv, Books, RowOwners, NoCarves,
             Settling
    <3>2. CASE Begin(p)
      BY <1>3, <3>2, ForgetStep DEF Book!bookVars
    <3>3. CASE Reserve(p)
      <4>1. CASE Settling(p)
        <5>1. \A i \in Charge : LeftAlone(i)
          BY <1>1, <3>1, <3>3, <4>1, ReserveRows DEF LeftAlone, SameBooking
        <5> QED BY <1>1, <1>3, <5>1, VerdictStep
      <4>2. CASE ~Settling(p)
        <5>1. rows[p].status = "absent"
          BY <1>1, <3>3 DEF Reserve, LimitInv, Books, BookedInTime
        <5>2. rows'[p].status = "pending" /\ \A i \in Charge \ {p} : rows'[i] = rows[i]
          BY <1>1, <3>3, <4>2, ReserveRows
        <5> QED BY <1>1, <1>3, <3>1, <5>1, <5>2, ApproveStep
      <4> QED BY <4>1, <4>2
    <3>4. CASE Broadcast(p) \/ SendReturns(p)
      <4>1. \A i \in Charge : LeftAlone(i)
        BY <1>1, <3>1, <3>4, BroadcastRows, SendReturnsRows DEF LeftAlone, SameBooking
      <4> QED BY <1>1, <1>3, <4>1, VerdictStep
    <3>5. CASE Ends(p)
      <4>1. CASE rows' # rows
        <5>1. /\ call[p].phase \in {"head", "sending", "confirming"}
              /\ \A i \in Charge \ {call[p].row} : rows'[i] = rows[i]
              /\ Judged(call[p].row)
          BY <1>1, <3>5, <4>1, EndRows DEF Judged
        <5>2. MayJudge(call[p].row)
          BY <1>1, <3>1, <5>1 DEF MayJudge, LimitInv, Books, BookedInTime
        <5>3. \A i \in Charge : LeftAlone(i) \/ (Judged(i) /\ MayJudge(i))
          BY <5>1, <5>2 DEF LeftAlone, SameBooking
        <5> QED BY <1>1, <1>3, <5>3, VerdictStep
      <4> QED BY <2>1, <4>1
    <3> QED BY <2>1, <2>2, <3>2, <3>3, <3>4, <3>5
            DEF SpendStep, Ends, QuoteFee, RaiseFee, ToldReverted, ScanFindsNothing, Told
  <2>3. ASSUME NEW q \in Call, Enter(q) \/ ChainStep(q)
        PROVE  rows' = rows
    BY <1>1, <2>3, EnterFields, ChainEffect
  <2>4. \A q \in Call : ~X402Step(q)
    BY <1>1, NoX402Step
  <2>5. ASSUME NEW f \in Fiat, NEW c \in Card, NEW a \in Amounts \ {0},
               FiatAuthorize(f, c, a)
        PROVE  Book!BookNext
    <3>1. /\ rows[f].status = "absent" /\ rows'[f].status = "pending"
          /\ \A i \in Charge \ {f} : rows'[i] = rows[i] /\ f \in Charge
      BY <1>1, <2>5, FiatEffect, Typed DEF FiatAuthorize
    <3>2. f \in Charge
      BY <1>1, Typed
    <3> QED BY <1>1, <1>3, <3>1, <3>2, ApproveStep
  <2>6. CASE SweepStep
    <3>1. ASSUME NEW i \in Charge
          PROVE  LeftAlone(i) \/ (Judged(i) /\ MayJudge(i))
      <4>1. rows[i].kind # "x402" \/ rows[i].status # "pending"
        BY <1>1 DEF LimitInv, Books, RowKinds, NoCarves, Charge
      <4>2. rows'[i] = rows[i] => LeftAlone(i)
        BY DEF LeftAlone, SameBooking
      <4>3. i \in sweep.stale => MayJudge(i)
        BY <1>1 DEF LimitInv, Books, StaleIsStale, MayJudge, Charge
      <4> QED BY <1>1, <2>6, <4>1, <4>2, <4>3, SweepRows DEF Judged
    <3> QED BY <1>1, <1>3, <3>1, VerdictStep
  <2>7. CASE UNCHANGED vars \/ OwnerStep \/ Tick \/ Crash
    BY <2>1, <2>7
       DEF vars, OwnerStep, FreezeCard, UnfreezeCard, RevokeCard, NukeAll, Tick, Crash
  <2> QED BY <2>1, <2>2, <2>3, <2>4, <2>5, <2>6, <2>7 DEF Next
<1> QED BY <1>1, <1>2, <1>3, PaidGrows

\* The empty table is the empty book.
LEMMA InitIsTheBooks == Init => Book!BookInit
<1> SUFFICES ASSUME Init PROVE Book!BookInit
  OBVIOUS
<1>1. ASSUME NEW i \in Charge
      PROVE  BookOfRows[i] = Book!Blank
  <2>1. /\ NoRow.status = "absent" /\ NoRow.kind = "pay" /\ NoRow.amount = 0
        /\ NoRow.fee = 0 /\ NoRow.created = 0
        /\ NoRow.card = (CHOOSE c \in Card : TRUE)
    BY DEF NoRow
  <2>2. rows[i] = NoRow
    BY DEF Init
  <2>3. EntryState(rows[i]) = "free" /\ Approved(rows)[i] = 0
    BY <2>1, <2>2, Entries DEF EntryState
  <2> QED BY <2>1, <2>2, <2>3, Entries DEF Book!Blank
<1>2. BookOfRows = [i \in Charge |-> Book!Blank]
  BY <1>1, Entries
<1>3. PaidOnChain = {}
  BY DEF Init, PaidOnChain
<1> QED BY <1>2, <1>3 DEF Book!BookInit

\* The pipeline implements the book: through all its awaits, retries, sweeps and
\* crashes it approves in one step within every limit, moves the money of a charge at
\* most once and only while it is booked, releases only what never moves, and forgets
\* only what was released (spend.ts, 396-409, 500-618 and 680-772).
THEOREM ThePipelineKeepsTheBook ==
  ASSUME "x402" \notin Lanes, "slow" \notin Faults, "feeClash" \notin Faults,
         "lostReply" \notin Faults, "early500" \notin Faults
  PROVE  Spec => KeepsTheBook
<1>1. KeepsInv /\ [Next]_vars => KeepsInv'
  BY BookKept, KeyKept DEF KeepsInv
<1>2. KeepsInv /\ KeepsInv' /\ [Next]_vars => [Book!BookNext]_Book!bookVars
  BY EveryStepKeepsTheBook
<1> QED BY <1>1, <1>2, InitKeeps, InitIsTheBooks, PTL
        DEF Spec, KeepsTheBook, Book!BookSpec
=============================================================================
