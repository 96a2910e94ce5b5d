---------------------------- MODULE CardLifecycle ----------------------------
(***************************************************************************)
(* The birth and death of the cards of one user: issuance (issuance.ts),   *)
(* freeze, revoke, nuke and delete (ops.ts), the routes that drive them    *)
(* (api/routes.ts, the MCP sub-card tools), and the revocation nonce that  *)
(* is kept both on chain and in the users table.                           *)
(*                                                                         *)
(* A task is a request parked at an await; each action is the code between *)
(* two awaits.  The chain and the relayer are not code of this repository: *)
(* their actions are what the code assumes of them.                        *)
(***************************************************************************)
EXTENDS Integers, FiniteSets

CONSTANTS
    Card,       \* card ids: each is drawn once, by randomUUID()
    NoCard,     \* parent_card_id = null
    Task,       \* requests in the server at one time
    Op,         \* admin operations: each has its own signed leaf
    NoOp,       \* a task that works on no admin operation
    NoNonce,    \* a card id that was never drawn
    Fee,        \* fees, jitter included: the mark of a redemption in the log
    NoFee,
    Faults,     \* "onboard", "prepare", "reread": that read of the nonce may throw;
                \* "feeClash": two redemptions of the user may pay the same fee
    MaxNonce    \* bound: nukes on chain

LifecycleAssumption ==
    /\ NoCard \notin Card /\ NoOp \notin Op /\ NoNonce \notin Nat
    /\ IsFiniteSet(Card)
    /\ NoFee \notin Fee
    /\ Faults \subseteq {"onboard", "prepare", "reread", "feeClash"}
    /\ MaxNonce \in Nat

ASSUME LifecycleAssumption

VARIABLES
    status,   \* cards.status, "absent" when there is no row
    parent,   \* cards.parent_card_id
    nonce,    \* the nonce a card was compiled with (a sub-card's is always 0)
    lapsed,   \* the cards whose own expiry has passed
    pending,  \* prepared root cards that wait for the browser's signature
    op,       \* admin operations, with their entry in pendingAdmin
    task,     \* the requests in the server
    stored,   \* users.revocation_nonce
    chain     \* the NonceEnforcer's nonce, and the delegations disabled

vars == <<status, parent, nonce, lapsed, pending, op, task, stored, chain>>

-----------------------------------------------------------------------------

Dead == {"revoked", "nuked"}
Status == {"absent", "active", "frozen"} \cup Dead

Where == {"idle", "onboard", "sync", "issue", "keys", "mint", "verify", "send",
          "head", "confirm", "reread"}

TaskState ==
    [at : Where, card : Card \cup {NoCard}, op : Op \cup {NoOp}, seen : Nat,
     legs : SUBSET Fee]   \* the fee legs mined since its head read

OpState ==
    [kind : {"none", "revoke", "nuke"}, card : Card \cup {NoCard},
     listed : BOOLEAN, inProgress : BOOLEAN, sends : Nat, fee : Fee \cup {NoFee},
     tx : {"none", "posted", "landed", "failed"}]

TypeOK ==
    /\ status \in [Card -> Status]
    /\ parent \in [Card -> Card \cup {NoCard}]
    /\ nonce \in [Card -> Nat \cup {NoNonce}]
    /\ lapsed \subseteq Card /\ pending \subseteq Card
    /\ op \in [Op -> OpState]
    /\ task \in [Task -> TaskState]
    /\ stored \in Nat
    /\ chain \in [nonce : Nat, disabled : SUBSET Card]

Idle == [at |-> "idle", card |-> NoCard, op |-> NoOp, seen |-> 0, legs |-> {}]
NoneYet == [kind |-> "none", card |-> NoCard, listed |-> FALSE,
            inProgress |-> FALSE, sends |-> 0, fee |-> NoFee, tx |-> "none"]

Init ==
    /\ status = [c \in Card |-> "absent"]
    /\ parent = [c \in Card |-> NoCard]
    /\ nonce = [c \in Card |-> NoNonce]
    /\ lapsed = {} /\ pending = {}
    /\ op = [o \in Op |-> NoneYet]
    /\ task = [t \in Task |-> Idle]
    /\ stored = 0
    /\ chain = [nonce |-> 0, disabled |-> {}]

-----------------------------------------------------------------------------
(* Helpers                                                                 *)

\* Everything delegated below c, whether or not its row is in the table: the
\* least set that holds c and the children of its cards.
Line(c) ==
    {d \in Card :
        \A S \in SUBSET Card :
            c \in S /\ (\A x \in Card : parent[x] \in S => x \in S) => d \in S}

\* subtreeIds: the rows of the table below c, c included.  A row's parent row
\* exists (foreign_keys = ON), so no row is cut off.
Subtree(c) == {d \in Line(c) : status[d] # "absent"}

\* The chain of c, c included.
Chain(c) == {a \in Card : c \in Line(a)}

IsRoot(c) == parent[c] = NoCard

\* Past its expiry; attenuation keeps a child's expiry within its parent's.
Expired(c) == Chain(c) \cap lapsed # {}

SetSubtree(c, s) == [d \in Card |-> IF d \in Subtree(c) THEN s ELSE status[d]]
SetAll(s) == [d \in Card |-> IF status[d] = "absent" THEN "absent" ELSE s]

Goto(t, at) == task' = [task EXCEPT ![t].at = at]
Finish(t) == task' = [task EXCEPT ![t] = Idle]
Park(t, at, c, o) ==
    task' = [task EXCEPT ![t] = [at |-> at, card |-> c, op |-> o,
                                 seen |-> chain.nonce, legs |-> {}]]

\* The values a read of the nonce may return: the node answered some time
\* between the call and now.
NonceRead(t) == task[t].seen .. chain.nonce

Drawn == {c \in Card : nonce[c] # NoNonce}

-----------------------------------------------------------------------------
(* Onboarding and issuance                                                 *)

\* POST /onboard of a wallet that has signed in before, up to the nonce read.
Onboard(t) ==
    /\ task[t].at = "idle"
    /\ Park(t, "onboard", NoCard, NoOp)
    /\ UNCHANGED <<status, parent, nonce, lapsed, pending, op, stored, chain>>

\* The read's answer is stored; a read that throws counts as 0.
OnboardStores(t) ==
    /\ task[t].at = "onboard"
    /\ \/ stored' \in NonceRead(t)
       \/ "onboard" \in Faults /\ stored' = 0
    /\ Finish(t)
    /\ UNCHANGED <<status, parent, nonce, lapsed, pending, op, chain>>

\* POST /cards/prepare, up to the nonce read.
PrepareRoot(t) ==
    /\ task[t].at = "idle"
    /\ Park(t, "sync", NoCard, NoOp)
    /\ UNCHANGED <<status, parent, nonce, lapsed, pending, op, stored, chain>>

\* A root card is compiled with the nonce of the users table, under a fresh id.
PrepareRootCard(c) ==
    /\ c \notin Drawn
    /\ nonce' = [nonce EXCEPT ![c] = stored']
    /\ pending' = pending \cup {c}

\* Mutant: the nonce is not synced again.
MutCachedNonce(t) == stored' = stored

\* The nonce is re-synced, or the cached one used.
NonceSynced(t) ==
    \/ stored' \in NonceRead(t)
    \/ "prepare" \in Faults /\ stored' = stored

\* The card is compiled with it and kept for the browser's signature.
PreparedRoot(t, c) ==
    /\ task[t].at = "sync"
    /\ NonceSynced(t)
    /\ PrepareRootCard(c)
    /\ Finish(t)
    /\ UNCHANGED <<status, parent, lapsed, op, chain>>

\* The entry outlives its TTL.
PendingExpires(c) ==
    /\ c \in pending
    /\ pending' = pending \ {c}
    /\ UNCHANGED <<status, parent, nonce, lapsed, op, task, stored, chain>>

\* POST /cards/finalize: the entry is looked up, and not claimed.
FinalizeRoot(t, c) ==
    /\ task[t].at = "idle"
    /\ c \in pending
    /\ Park(t, "mint", c, NoOp)
    /\ UNCHANGED <<status, parent, nonce, lapsed, pending, op, stored, chain>>

\* issueRootCard, and issueCardForDID that binds the row it stores to a DID, up to
\* the nonce read.
IssueRoot(t) ==
    /\ task[t].at = "idle"
    /\ Park(t, "issue", NoCard, NoOp)
    /\ UNCHANGED <<status, parent, nonce, lapsed, pending, op, stored, chain>>

\* The card is compiled with the nonce read; the signing awaits follow.
IssuedRoot(t, c) ==
    /\ task[t].at = "issue"
    /\ c \notin Drawn
    /\ \E n \in NonceRead(t) : nonce' = [nonce EXCEPT ![c] = n]
    /\ task' = [task EXCEPT ![t].at = "mint", ![t].card = c]
    /\ UNCHANGED <<status, parent, lapsed, pending, op, stored, chain>>

\* parent_card_id and the nonce 0 of a sub-card, once its parent was looked at.
CompileSub(p, c) ==
    /\ status[p] = "active" /\ ~Expired(p)
    /\ c \notin Drawn
    /\ parent' = [parent EXCEPT ![c] = p]
    /\ nonce' = [nonce EXCEPT ![c] = 0]

\* issueSubCard: the keys and the signature are awaited after the look.
IssueSub(t, p, c) ==
    /\ task[t].at = "idle"
    /\ CompileSub(p, c)
    /\ Park(t, "mint", c, NoOp)
    /\ UNCHANGED <<status, lapsed, pending, op, stored, chain>>

\* prepareSubCardForDID: the same for an agent known by its DID, up to the key.
PrepareSubForDID(t, p, c) ==
    /\ task[t].at = "idle"
    /\ CompileSub(p, c)
    /\ Park(t, "keys", c, NoOp)
    /\ UNCHANGED <<status, lapsed, pending, op, stored, chain>>

\* finalizeSubCardForDID: the parent's row is fetched again for its key, whatever
\* its status has become; the signature is awaited.
FinalizeSubForDID(t) ==
    /\ task[t].at = "keys"
    /\ status[parent[task[t].card]] # "absent"
    /\ Goto(t, "mint")
    /\ UNCHANGED <<status, parent, nonce, lapsed, pending, op, stored, chain>>

\* Mutant: the insert does not mind that the parent's row is gone.
MutNoForeignKey(c) == status[c] = "absent"

\* The primary key and the foreign key of the cards table.
MayInsert(c) ==
    /\ status[c] = "absent"
    /\ ~IsRoot(c) => status[parent[c]] # "absent"

\* The row is inserted, active, without another look at anything.
Mint(t) ==
    LET c == task[t].card IN
    /\ task[t].at = "mint"
    /\ MayInsert(c)
    /\ status' = [status EXCEPT ![c] = "active"]
    /\ pending' = pending \ {c}
    /\ Finish(t)
    /\ UNCHANGED <<parent, nonce, lapsed, op, stored, chain>>

\* A refused signature, a failed read, a key conflict: nothing is written.
IssuanceFails(t) ==
    /\ task[t].at \in {"onboard", "sync", "issue", "keys", "mint"}
    /\ Finish(t)
    /\ UNCHANGED <<status, parent, nonce, lapsed, pending, op, stored, chain>>

-----------------------------------------------------------------------------
(* Server-side switches                                                    *)

Freeze(c) ==
    /\ status[c] = "active"
    /\ status' = [status EXCEPT ![c] = "frozen"]
    /\ UNCHANGED <<parent, nonce, lapsed, pending, op, task, stored, chain>>

\* Mutant: whatever is not spendable is thawed.
MutThaw(c) == status[c] \notin {"active", "absent"}

Unfreezable(c) == status[c] = "frozen"

Unfreeze(c) ==
    /\ Unfreezable(c)
    /\ status' = [status EXCEPT ![c] = "active"]
    /\ UNCHANGED <<parent, nonce, lapsed, pending, op, task, stored, chain>>

\* agentRevokeSubcard by an ancestor, and the owner's revoke of a sub-card: the
\* subtree dies in the store alone.
KillSubtree(c) ==
    /\ ~IsRoot(c) /\ status[c] # "absent"
    /\ status' = SetSubtree(c, "revoked")
    /\ UNCHANGED <<parent, nonce, lapsed, pending, op, task, stored, chain>>

IsLive(c) == status[c] \notin Dead \cup {"absent"} /\ ~Expired(c)

\* Mutant: a dead card's descendants are taken to be dead.
MutOnlyTheRoot(c) == ~IsLive(c)

\* The guard of deleteDeadCard, descendants included.
Deletable(c) == \A d \in Subtree(c) : ~IsLive(d)

\* The rows of the whole subtree go.
DeleteDeadCard(c) ==
    /\ status[c] # "absent"
    /\ Deletable(c)
    /\ status' = SetSubtree(c, "absent")
    /\ UNCHANGED <<parent, nonce, lapsed, pending, op, task, stored, chain>>

\* A card's own expiry passes; before its row is there nobody looks at it.
Lapse(c) ==
    /\ status[c] # "absent" /\ c \notin lapsed
    /\ lapsed' = lapsed \cup {c}
    /\ UNCHANGED <<status, parent, nonce, pending, op, task, stored, chain>>

-----------------------------------------------------------------------------
(* Admin operations: prepare, finalize, the loop, the bookkeeping          *)

Entry(kind, c, listed) ==
    [NoneYet EXCEPT !.kind = kind, !.card = c, !.listed = listed]

\* prepareRevoke of a root card.
PrepareRevoke(o, c) ==
    /\ op[o] = NoneYet
    /\ IsRoot(c) /\ status[c] \in {"active", "frozen"}
    /\ op' = [op EXCEPT ![o] = Entry("revoke", c, TRUE)]
    /\ UNCHANGED <<status, parent, nonce, lapsed, pending, task, stored, chain>>

PrepareNuke(o) ==
    /\ op[o] = NoneYet
    /\ op' = [op EXCEPT ![o] = Entry("nuke", NoCard, TRUE)]
    /\ UNCHANGED <<status, parent, nonce, lapsed, pending, task, stored, chain>>

\* The entry outlives its TTL: it is gone from the map, also while a finalize
\* that already found it goes on.
AdminExpires(o) ==
    /\ op[o].listed
    /\ op' = [op EXCEPT ![o].listed = FALSE]
    /\ UNCHANGED <<status, parent, nonce, lapsed, pending, task, stored, chain>>

Claimable(o) == op[o].listed /\ ~op[o].inProgress

\* The finalize routes: lookup, claim, and the await that verifies.
FinalizeAdmin(t, o) ==
    /\ task[t].at = "idle"
    /\ Claimable(o)
    /\ op[o].kind = "revoke" => status[op[o].card] # "absent"
    /\ op' = [op EXCEPT ![o].inProgress = TRUE]
    /\ Park(t, "verify", op[o].card, o)
    /\ UNCHANGED <<status, parent, nonce, lapsed, pending, stored, chain>>

\* Mutant: a refused signature leaves the entry in progress.
MutKeptClaim(o) == UNCHANGED op

Unclaimed(o) == op' = [op EXCEPT ![o].inProgress = FALSE]

\* The signature does not recover to the owner: the entry can be tried again.
BadSignature(t) ==
    /\ task[t].at = "verify"
    /\ Unclaimed(task[t].op)
    /\ Finish(t)
    /\ UNCHANGED <<status, parent, nonce, lapsed, pending, stored, chain>>

\* The second look after the signature: is there anything left to kill?
StillToKill(o) ==
    IF op[o].kind = "revoke"
    THEN status[op[o].card] \in {"active", "frozen"}
    ELSE \E c \in Card : status[c] \in {"active", "frozen"}

\* Mutant: the entry is consumed after the relayer answered.
MutKeptUntilSent(o) == op' = [op EXCEPT ![o].inProgress = FALSE]

\* onValidated: the entry is gone before the relayer hears of it.
Consumed(o) == op' = [op EXCEPT ![o].listed = FALSE, ![o].inProgress = FALSE]

\* inProgress is reset when the handler ends; the entry is out of the map by
\* then, so the reset is not told apart from one made here.
GoodSignature(t) ==
    LET o == task[t].op IN
    /\ task[t].at = "verify"
    /\ Consumed(o)
    /\ IF StillToKill(o) THEN Goto(t, "send") ELSE Finish(t)
    /\ UNCHANGED <<status, parent, nonce, lapsed, pending, stored, chain>>

\* revokeCard and nukeAll, signed by the server: no entry, no second look.
ServerAdmin(t, o, kind, c) ==
    /\ task[t].at = "idle"
    /\ op[o] = NoneYet
    /\ kind = "revoke" => c # NoCard /\ IsRoot(c) /\ status[c] # "absent"
    /\ kind = "nuke" => c = NoCard
    /\ op' = [op EXCEPT ![o] = Entry(kind, c, FALSE)]
    /\ Park(t, "send", c, o)
    /\ UNCHANGED <<status, parent, nonce, lapsed, pending, stored, chain>>

\* What another redemption of the user pays.
FeeIsFree(fee) == "feeClash" \in Faults \/ \A o \in Op : op[o].fee # fee

\* The fee and the estimate fit; the head is read, and legs count from its block on.
AdminHead(t, fee) ==
    LET o == task[t].op IN
    /\ task[t].at = "send"
    /\ FeeIsFree(fee)
    /\ op' = [op EXCEPT ![o].fee = fee]
    /\ Goto(t, "head")
    /\ UNCHANGED <<status, parent, nonce, lapsed, pending, stored, chain>>

AdminSend(t) ==
    LET o == task[t].op IN
    /\ task[t].at = "head"
    /\ op' = [op EXCEPT ![o].sends = @ + 1, ![o].tx = "posted"]
    /\ Goto(t, "confirm")
    /\ UNCHANGED <<status, parent, nonce, lapsed, pending, stored, chain>>

\* Any throw of the loop: an estimate that fails or keeps rising, a relayer
\* error, a revert, a confirmation that does not come in time.  Nothing is
\* written; the transaction may still be mined.
AdminThrows(t) ==
    /\ task[t].at \in {"send", "head", "confirm"}
    /\ Finish(t)
    /\ UNCHANGED <<status, parent, nonce, lapsed, pending, op, stored, chain>>

\* Mutant: any fee leg of the user will do.
MutAnyLeg(t) == op[task[t].op].tx = "landed" \/ task[t].legs # {}

\* The relayer says so, or a fee leg of the right value is in the log.
Confirmed(t) == op[task[t].op].tx = "landed" \/ op[task[t].op].fee \in task[t].legs

\* The transaction is confirmed: the store follows, the nonce is read again.
AdminConfirmed(t) ==
    LET o == task[t].op IN
    /\ task[t].at = "confirm"
    /\ Confirmed(t)
    /\ IF op[o].kind = "revoke"
       THEN status' = SetSubtree(op[o].card, "revoked") /\ Finish(t)
       ELSE status' = SetAll("nuked") /\ Park(t, "reread", NoCard, o)
    /\ UNCHANGED <<parent, nonce, lapsed, pending, op, stored, chain>>

\* The nonce after the bump: read, or one more than the stored one.
NonceAfterNuke(t) ==
    \/ stored' \in NonceRead(t)
    \/ "reread" \in Faults /\ stored' = stored + 1

NukeStores(t) ==
    /\ task[t].at = "reread"
    /\ NonceAfterNuke(t)
    /\ Finish(t)
    /\ UNCHANGED <<status, parent, nonce, lapsed, pending, op, chain>>

\* A fee leg is mined: who looks from an earlier block on can find it.
LegMined(fee) ==
    task' = [t \in Task |-> IF task[t].at \in {"head", "confirm"}
                            THEN [task[t] EXCEPT !.legs = @ \cup {fee}]
                            ELSE task[t]]

\* The chain: disableDelegation, which may be repeated; or the nonce goes up.
Land(o) ==
    /\ op[o].tx = "posted"
    /\ IF op[o].kind = "revoke"
       THEN chain' = [chain EXCEPT !.disabled = @ \cup {op[o].card}]
       ELSE /\ chain.nonce < MaxNonce
            /\ chain' = [chain EXCEPT !.nonce = @ + 1]
    /\ op' = [op EXCEPT ![o].tx = "landed"]
    /\ LegMined(op[o].fee)
    /\ UNCHANGED <<status, parent, nonce, lapsed, pending, stored>>

\* A spend of one of the user's cards is mined.
SpendLands(fee) ==
    /\ FeeIsFree(fee)
    /\ LegMined(fee)
    /\ UNCHANGED <<status, parent, nonce, lapsed, pending, op, stored, chain>>

Revert(o) ==
    /\ op[o].tx = "posted"
    /\ op' = [op EXCEPT ![o].tx = "failed"]
    /\ UNCHANGED <<status, parent, nonce, lapsed, pending, task, stored, chain>>

-----------------------------------------------------------------------------

IssuanceStep(t) ==
    \/ Onboard(t) \/ OnboardStores(t) \/ PrepareRoot(t) \/ IssueRoot(t)
    \/ \E c \in Card : PreparedRoot(t, c) \/ FinalizeRoot(t, c) \/ IssuedRoot(t, c)
    \/ \E p, c \in Card : IssueSub(t, p, c) \/ PrepareSubForDID(t, p, c)
    \/ FinalizeSubForDID(t) \/ Mint(t) \/ IssuanceFails(t)

SwitchStep(c) ==
    \/ Freeze(c) \/ Unfreeze(c) \/ KillSubtree(c) \/ DeleteDeadCard(c)
    \/ Lapse(c) \/ PendingExpires(c)

AdminStep(t) ==
    \/ \E o \in Op : FinalizeAdmin(t, o)
    \/ \E o \in Op, c \in Card : ServerAdmin(t, o, "revoke", c)
    \/ \E o \in Op : ServerAdmin(t, o, "nuke", NoCard)
    \/ BadSignature(t) \/ GoodSignature(t) \/ (\E fee \in Fee : AdminHead(t, fee))
    \/ AdminSend(t) \/ AdminThrows(t) \/ AdminConfirmed(t) \/ NukeStores(t)

OpStep(o) ==
    \/ \E c \in Card : PrepareRevoke(o, c)
    \/ PrepareNuke(o) \/ AdminExpires(o) \/ Land(o) \/ Revert(o)

Next ==
    \/ \E t \in Task : IssuanceStep(t) \/ AdminStep(t)
    \/ \E c \in Card : SwitchStep(c)
    \/ \E o \in Op : OpStep(o)
    \/ \E fee \in Fee : SpendLands(fee)

Spec == Init /\ [][Next]_vars

-----------------------------------------------------------------------------
(* What the lifecycle promises.                                            *)

\* The store never runs ahead of the chain: a root card it calls revoked is one
\* whose delegation is disabled, whatever timed out, failed, was retried or was mined
\* at the same time.  Two redemptions with one fee are excepted: the log does not
\* tell them apart.
RevokedIsDisabled ==
    \A c \in Card :
        status[c] = "revoked" /\ IsRoot(c) => c \in chain.disabled

\* No card is bound to a nonce the chain has not reached, so that the next nuke
\* kills every card there is: a nonce from the future would come alive then.  The
\* stored nonce may be one, after a nuke whose read failed (ops.ts 463).
NukeReachesAll == \A c \in Drawn : nonce[c] <= chain.nonce

\* One signature, one transaction: a prepared operation reaches the relayer at
\* most once, however often and however concurrently it is finalized.
SentOnce == \A o \in Op : op[o].sends <= 1

\* A row's parent row is there, although issuance and deletion overlap.
NoOrphans ==
    \A c \in Card :
        status[c] # "absent" /\ ~IsRoot(c) => status[parent[c]] # "absent"

\* Dead is final: no late step of a request makes a revoked or nuked card
\* spendable again.
DeadStaysDead ==
    [][\A c \in Card :
          status[c] \in Dead => status'[c] \in Dead \cup {"absent"}]_vars

\* The trash can takes dead cards only, also when a sub-card was born under a
\* card that had died in the meantime.
LiveIsNotDeleted ==
    [][\A c \in Card : IsLive(c) => status'[c] # "absent"]_vars

\* No claim outlives its request: an entry that is in progress is one whose
\* signature is being verified, so a refused signature can be tried again.
ClaimIsHeld ==
    \A o \in Op :
        op[o].inProgress => \E t \in Task : task[t].at = "verify" /\ task[t].op = o

=============================================================================
