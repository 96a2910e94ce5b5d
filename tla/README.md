# Remit: a verification development

Remit gives agents spending cards. A card is a chain of ERC-7710 delegations
from the user's account. The server compiles a card's terms into caveats, holds
the leaf keys, runs spends through a relayer, and keeps a SQLite table of
charges from which it refuses what the chain would refuse. A dashboard issues
and kills cards; agents reach their card over MCP. This directory holds TLA+
models of that system, the TLC runs that check them, and theorems that the TLA+
proof system checks. File names below are relative to `src/packages/`.

Contents: [1 inventory](#1-inventory), [2 modules](#2-modules),
[3 runs](#3-runs), [4 findings](#4-findings), [5 proofs](#5-proofs),
[6 what is not modelled](#6-not-modelled), [7 plan](#7-plan).

## 1. Inventory

| Component | Source | State | Operations | What is hard |
|---|---|---|---|---|
| Spend pipeline | `engine/src/spend.ts` | none of its own: charges, statuses | `spend` (also in settlement mode), `confirmRedemption`, `reconcilePending`, `validateSpend`, `assertChainSpendable` | many awaits between check, booking, send and verdict; ambiguous failures; sweeps against live calls |
| x402 payer | `engine/src/x402.ts`, `server/src/mcp/server.ts` | charges | `buildX402Payload`, `paid_fetch`, `finalizeX402Charge` | an await between check and booking; the seller holds a bearer payload |
| Charges table and accounting | `engine/src/store.ts` | `charges`, `cards.status` | insert, update, delete, sums per subtree, sweep queries | subtree sums against ancestor-chain enforcement; `request_id` decides who may touch a row |
| Card tree and terms | `engine/src/store.ts` | `cards.parent_card_id`, terms | ancestor chain, subtree, spend key, period windows | two recursive views that must agree |
| Keyed mutex | `engine/src/mutex.ts` | tail promise per key | `run` | a section that throws must not wedge the key |
| Owner switches, admin operations | `engine/src/ops.ts`, `server/src/api/routes.ts` | `cards.status`, pending operations in memory | freeze, unfreeze, revoke, nuke, delete; prepare and finalize; the admin loop | double finalize, expiry, the chain done but the books not |
| Issuance | `engine/src/issuance.ts` | cards, users, pending maps | root and sub-card prepare and finalize | a parent dies while a child is being issued |
| Term compiler | `engine/src/compiler.ts` | none | `compileCard`, `attenuate` | a child must never reach beyond its parent |
| OAuth grants | `server/src/oauth/*` | clients, requests, codes, tokens, families | authorize, approve, exchange, rotate, revoke, collect | replay against rotation, garbage collection, the death of cards |
| Rate limiter | `server/src/ratelimit.ts` | hits per key | `allow` | the window's edge, calls that arrive late |
| MCP transport, T3N authentication | `server/src/mcp/*` | none: each request builds its session | four lanes to a card | the card is looked up twice, awaits apart |
| Dashboard | `dashboard/app/*` | React state, `sessionStorage` | sign-in, onboarding, issue modal, deck and verbs, consent page | answers that are late, lost or out of order; an account that changes |
| Relayer client, chain | `engine/src/relayer.ts` | none | `send`, `getStatus` | lost answers |
| x402 facilitator, delegations, custody, identity, money, NL compiler | `engine/src/*`, `server/src/venice` | none | cryptography, encoding, RPC | |

How they interact: an MCP tool call takes the mutex of its card tree
(`spendKey`, the root of the ancestor chain) and runs `spend` or
`buildX402Payload` inside it. Both read card statuses and charges, book a row
and hand a signed redemption to the relayer or to a seller. The card network's
webhook decides and books **without** the mutex, in one synchronous step. The
sweep runs on an interval beside everything else, also without the mutex. The
owner's switches change statuses at any moment, and a card's death cascades
over its OAuth grants. The dashboard polls the tree and acts through the
management API; several answers may be in flight. JavaScript runs one section
of code from await to await, so an interleaving is an order of such sections;
the store is synchronous SQLite, so a section is atomic with the database.

What makes each component correct:

- *Accounting*: no interleaving approves more than a card's uses, period budget
  or lifetime budget, whichever card of the subtree spends; what is shown as
  left is what would be taken.
- *Pipeline*: one idempotency key moves money once; an authorization is settled
  once and stays held; money that can still move is on the books; what is
  confirmed was mined; nothing is sent from a frozen or dead chain; what is
  booked is resolved.
- *Mutex*: sections of a tree do not overlap; every waiter is served.
- *Lifecycle*: an operation is sent once; a finalize ends its claim; the store
  is never ahead of the chain; the dead stay dead; no live card is deleted.
- *Attenuation*: no descendant reaches beyond an ancestor; what the server
  admits the chain admits.
- *Grants*: one approval is one credential; a replayed grant dies and stays
  dead; no grant outlives the cascade of its card.
- *Limiter*: no window answers more calls of known credentials than a card's
  ceiling; nobody is shut out for ever.
- *Dashboard*: it opens for known logins only; no wait is silent; a card holds
  what was filled in and belongs to its signer; what is drawn belongs to the
  card on top and catches up with the server; a consent gets one answer.

`PROJECT.json` lists every hazard at its line with the properties that would
catch it, or why none does.

## 2. Modules

| Module | Models |
|---|---|
| `CardTree` | the forest of cards and its limits: `AncestorChain`, `SubtreeIds`, `SpendKey`, `PeriodWindowStart` |
| `Charges` | the charges table, its queries, the refusal engine and the meters of the card tool, as operators over a table |
| `Spend` | the pipeline, the x402 payer, the webhook, the sweep, the mutex |
| `BudgetBook` | abstract: a book of charges, approved within the limits in one step |
| `SpendBook` | `Spend` implements `BudgetBook` |
| `CardLifecycle` | issuance, switches, admin operations, deletion, the nonce |
| `Carving` | attenuation over any depth; the server's checks against the enforcers |
| `Grants` | the OAuth store and its routes, composed with the death of cards |
| `Access` | the lanes to a card and the sliding windows |
| `Consent` | the connect page of the dashboard; `MCAccess` puts it before `Access` |
| `SignIn`, `IssueForm` | sign-in and onboarding; the issue modal on top of it |
| `Deck` | the dashboard over root cards: polls, panels, verbs, danger modals |
| `MC*` | values for the constants, for TLC |
| `SpendProofs`, `SpendMoney` | theorems about `CardTree`, `Charges`, `Spend`; about the money and the refinement `SpendBook` |
| `CarvingProofs`, `LifecycleProofs`, `GrantsProofs`, `ConsoleProofs`, `DeckProofs`, `AccessProofs` | theorems about `Carving`; `CardLifecycle`; `Grants`; `SignIn` and `IssueForm`; `Deck`; `Access` and `Consent` |

How state and actions correspond to the code:

**CardTree, Charges.** Terms are partial functions: a card outside the domain
has no such term. A row that is not in the table is `"absent"`. Sums count atoms
(`Atoms`), which is what a sum of naturals is and can be proved about.
`ChargedTo`, `Approved` and the `*Within` operators say what the limits mean
without the store's queries; `RemainingThisPeriod`, `RemainingLifetime`,
`UsesRemaining` and `MetersAllow` are the meters of the card tool.

**Spend.** `clock` is `now`; `status` is `cards.status`; `rows` the charges;
`queue` the mutex, per key the requests that hold or await it in order; `call`
the requests in the server (their local variables: card, key, amount, the
captured `now`, the fee, the block the redemption is searched from); `wire` what
became of a request's redemption; `log` the fee-leg transfers on chain; `sweep`
the sweep in progress. There is one action per section between two awaits;
`call[p].phase` is the await. A pay or x402 request books a row under its own
id; a settlement works on the row of an authorization. `spend` is
`Replay`/`Begin`, `QuoteFee`, `RaiseFee` (the estimate loop), `Abort` (every
failure before anything is booked), `Reserve` (validate again and book),
`HeadFails`, `RefuseBroadcast`, `Broadcast` (second status check, the claim of a
settlement, the send), `SendReturns`, `SendFails`, and the outcomes of
`confirmRedemption`: `ConfirmByStatus`, `ConfirmByLog`, `ConfirmTimesOut`, and for
a reported failure three steps, since the code awaits in between: `ToldReverted`
(the 500), `ScanFindsNothing` (the log as the node answers), `ConfirmReverted` (the
row is written); `hint` is what a confirmation was told so far. `paid_fetch` is
`BeginX402`, `Abort`, `CarveX402`, `SellerRefuses`, `SellerServes`. The sweep is
`SweepStart` (select stale rows, release orphaned x402 reservations), `SweepScan`,
`SweepFails`, `SweepApply`: rows are judged as they were read, two awaits earlier.
`Crash` forgets requests, queues and the sweep; the store survives.

Outside the repository and therefore assumed: the relayer accepts, rejects or
loses the answer of a send; a transaction is mined once or dropped; log scans
return what is on chain by then; a seller uses a payload at most once and its
echoed fee is the one charged, which the leaf's scope bounds by the headroom; the
card network delivers each authorization once. The settlement executor is not in
the repository: it is taken to select unsettled rows as the store's query does
and to run `spend` under the tree's mutex, as the tools do. One sweep runs at a
time. `Faults` switches on what the environment may do, so that each run says
under which behaviour its properties hold: `crash`; `headBlip`
(`getBlockNumber` throws between booking and send); `lostReply` (`send` throws
although the relayer has the transaction); `scanBlip` (a log scan in a poll
throws); `early500` (the relayer reports failure for a transaction that is or
will be mined); `slow` (a request or transaction outlives the sweep's cutoff);
`feeClash` (two redemptions draw one fee).

**SpendBook.** The refinement mapping reads a book off the table: an absent row
is free, a failed one released, an authorization firm whatever became of its
settlement (a late sweep may relabel a confirmed one), a confirmed payment
settled, a pending or unconfirmed one held. `paid` is the set of rows whose
redemption landed. The refinement holds where the answer of a send is not lost,
the relayer does not err, requests end before the cutoff, fees differ and nothing
is carved;
the findings show what happens with lost answers and carves.

**CardLifecycle.** A task is a request parked at an await (`Where`); an admin
operation is its entry in `pendingAdmin` together with its transaction. `nonce`
is what a card was compiled with; the revocation nonce exists twice, on chain and
in `users`. Root issuance is `PrepareRoot`/`PreparedRoot`/`FinalizeRoot` (signed
by the client) or `IssueRoot`/`IssuedRoot`, sub-cards `IssueSub` and the DID lane,
both ending in `Mint`, which inserts the card if the foreign key allows.
`FinalizeAdmin` claims an entry, `BadSignature` puts it back, `GoodSignature`
consumes it, `AdminHead` is the loop until the estimate fits and the head is read,
`AdminSend` and `AdminThrows` the relayer's answer, `AdminConfirmed` the
bookkeeping, `NukeStores` the nonce after a nuke. A confirmation is evidence, as
in the code: the relayer's status, or a fee leg of the operation's fee among those
mined since the head was read (`legs`), to which the user's other operations and
spends add theirs (`Land`, `SpendLands`). `Faults` says which reads of the nonce
may throw: onboarding's (`"onboard"`), a preparation's (`"prepare"`), or the one
after a nuke (`"reread"`), whose fallback is the stored nonce plus one; and whether
two redemptions may pay one fee (`"feeClash"`). Fee retries inside the admin loop
come down to success or failure.

**Carving.** `terms` and `chain` are the tree as it grows, `booked` and `moved`
what the server and the chain have counted for each card, `uses` and `calls` the
two use counts. `IssueRoot` normalizes and validates, `IssueSub` is `attenuate`
against what is left and the fills that follow it. `Admits` is the server's walk
over the ancestors, `EnforcersAllow` what the caveats of one delegation admit.

**Grants.** A handler awaits its body and then runs to its end, so each is one
action; only the cascade of a revocation that went over the chain is apart
(`RunCascade`). Refusals that change nothing are no actions. Three history
variables carry what properties speak of: who loaded and approved a request,
which grants ended, which cards' cascades ran.

**Access.** Time is kept as ages, an instant being how many ticks ago it was,
so that the limiter runs for ever in finitely many states. A call with a known
credential meets its ceiling at once. Two others captured their time on arrival
and are late: a T3N request is verified over awaits (`Resolves`, `Rejected`), looks
its card up again and only then meets the ceiling (`Opens`); an unknown credential
(`Knocks`) waits for the body to be read before the attempt counts (`Rejected`).

**Consent.** One authorization request as the page sees it. Cards are named by
their owner's login. A call stays servable after the page gave up on it; the
user reloads (`Reopens`, storage may hold the grant) or comes back from the
browser's cache with the page as it was left (`Back`).

**SignIn, IssueForm.** The states of `Home`; `Commit` is React running the
effects of a render, a step of its own since a promise may settle in between;
`seen` is what that render saw. Ceremonies are numbered and nothing stops them.
The modal and the one issuance in flight sit on top: the dashboard is unmounted
whenever the screen changes (`Remounts`), an issuance goes on.

**Deck.** Tree polls, one other request (reveal, rotation, verb, prepare,
finalize), the hero and the open modal; `Elsewhere` is another tab, an agent or
the chain. Effects are a step of their own here too: `seen` is the hero whose
effects ran last, and `Effects`, or the next render (`Draws`), drops what was shown
of the hero before. A click counts as after them (`Uncovered`).

## 3. Runs

Deadlock is not checked: clocks, requests, changes and retries are bounded, so
every instance comes to rest.

| Run | Instance | Properties |
|---|---|---|
| `SpendBudget` | root (lifetime 4, two uses) and sub-card (period 3 every two ticks, expiry); two spends with a key, one authorization with its settlements; revoke, crash | `WithinLimits`, `MetersAgree`, `MovingMoneyIsBooked`, `SpendableWhenSent`, `KeepsTheBook` (the refinement) |
| `SpendRetry` | one card, three requests that may share a key; freeze, crash, `headBlip`, `early500` | `OneRedemptionPerKey`, `ConfirmedIsMined`, `IncludedIsNotFailed` |
| `SpendX402` | root and sub-card as above, without expiry; spends with a fee rebuild, carves; nuke, crash | `OneSectionPerTree`, `WithinLimits`, `ReservationIsResolved` |
| `LivePay` | one card, two requests, one authorization; `slow`, `feeClash`, `lostReply`, no crash | `PendingIsResolved`, `WaitersAreServed`, `SettledOnce`, `FiatStaysHeld` |
| `Lifecycle` | two cards, two requests, two admin operations, two nukes, two fees, mined spends; the reads of the nonce at onboarding and after a nuke may fail | `SentOnce`, `ClaimIsHeld`, `RevokedIsDisabled`, `NukeReachesAll`, `NoOrphans`, `DeadStaysDead`, `LiveIsNotDeleted` |
| `Carving` | trees of three cards under three root terms, 18 asks of one dimension each, two redemptions | `NeverWider`, `ApproveIsCapped`, `ChainAgrees` |
| `Grants` | two logins, two requests, two clients, three cards, three tokens, two ticks | `OneLivePerGrant`, `EndedStaysEnded`, `WitnessStays`, `OnlyTheLoaderGrants`, `LedgerIsHonest` |
| `Console` | two logins, two session changes, one retry, two ceremonies, four forms beside the default | `OnboardedIsKnown`, `NothingDropped`, `CardIsItsSigners`, `BootResolves` |
| `Deck` | two cards, two polls and one other request in flight, effects late, two changes of the server | `PanelIsTheHeros`, `DoneIsDone`, `ScreenCatchesUp` |
| `Access` | the page: two accounts, two answers, three turns; then two cards, two agents, a window of two ticks, one slow request | `OneAnswer`, `CeilingHolds`, `NeverShutOut` |
| `BadX402Overdraw` | an authorization lands while a leaf is signed | violates `WithinLimits` |
| `BadLostReply` | the reply of a send is lost, the agent retries its key | violates `OneRedemptionPerKey` |

Why the bounds are enough. In the pipeline amounts of one or two atoms and fees
of one to three let a charge fit alone and not together. Time is in units of the
sweep's cutoff (`Cutoff = 1`), where the code's comparisons change; `MaxClock`
leaves room for a sweep after the last possible booking, and for the x402 sweep,
which waits six cutoffs, in `SpendX402`. A property relates at most two requests,
or one and the sweep or the webhook; a third request, in `SpendRetry`, is a retry
after a retry. In `Lifecycle` two requests and two operations are one in the
middle of the other, in every pair of kinds; two fees are the operation's own and
one that is not; a second nuke is what makes a nonce be passed, and a failed read
after the first is what puts the stored one ahead. In `Carving` three cards make a
grandchild, which is where an omitted term could come back; one dimension at a time,
since the checks of `attenuate` are independent but for the contract's, whose asks
vary together. In `Grants`
three tokens are an exchange and two rotations, so a replay can meet a family two
generations on; two ticks outlive every credential. In `Console` and `Deck` the
second login, ceremony or card is what an answer can be late for. In `Access` the
window of two ticks has a moment strictly inside it.

Where identities are interchangeable the safety runs use them as a symmetry set;
runs with liveness do not.

*Fairness.* Spend (`LivePay`, `SpendX402`): the steps of a request are weakly
fair, because every await in `spend`, `confirmRedemption` and `paid_fetch` is
bounded by a timeout or a fixed number of polls; so are the relayer and the chain
(a transaction is mined or dropped) and time. The sweep starts on its interval
(weak) and an RPC node answers it again and again, though any one scan may fail
(strong fairness of scan and apply). Sign-in: effects run, the watchdog's timer
fires, a probe ends in an answer or an error; wallet and signature owe nothing.
Deck: the poll's interval fires, and a poll is read and answered again and again
though any one may fail (strong); no request or effect owes anything. Access: time
passes, a verification ends, and so does the body of a bad attempt, since the
server closes connections that idle (`server/src/index.ts:45`). Nobody is forced
to ask, to freeze, to sign, or to crash.

Each property is also run against a version of the module with a plausible bug
(the `Mut*` definitions): a check without its second look, a claim kept, a sweep
that believes a report, a refusal that restarts the window. TLC finds the
property violated in each.

## 4. Findings

The two violation runs are disagreements between the code and what its comments
or tool texts promise; `PROJECT.json` quotes both.

1. *x402 carve against a card-network approval.* `buildX402Payload` checks the
   budget, awaits the signature, then books without checking again. The webhook
   does not take the mutex, so both are booked (`x402.ts:92` to `105`).
2. *A lost reply looks like a send that never happened.* The row becomes
   `failed` with no request id, which is what a retry takes for "never
   broadcast" (`spend.ts:580-588`, `400-404`).

Met while modelling, without a run of their own. Either they weaken a promise
that no line makes in so many words, or the properties above are stated so as to
except them, which their comments say.

- Pipeline: a log scan that fails before a 500 is read makes the 500 final
  (`spend.ts:357`); a transaction included after the node has answered that scan and
  before the verdict is written is failed all the same (`spend.ts:357`, `608`); a head
  read that fails after the booking, or a crash there, leaves a pending row without
  request id that no sweep selects (`spend.ts:556`);
  an x402 payload is released without a second status check (`x402.ts:81`).
- Admin: a revocation is confirmed by a fee leg of its amount (`ops.ts:196-204`), and
  the jitter that makes the amount a fingerprint is one of 1000 numbers
  (`spend.ts:70-75`): a spend or another operation of the user that pays the same can
  confirm one that never landed;
  a nuke whose re-read of the chain fails stores the old nonce plus one,
  which overshoots if a preparation stored the bumped nonce first (`ops.ts:463`), and a
  preparation whose own read fails then compiles a card with it (`routes.ts:266`); a card
  issued with the bumped nonce before the bookkeeping is marked nuked (`ops.ts:453`);
  `issue_card` writes nonce 0 after a nuke.
- Deletion: `deleteDeadCard` is called pure bookkeeping, yet deleting a dead
  sub-card deletes charges that the parent's lifetime and use count still owe on
  chain (`ops.ts:107`).
- Terms: `attenuate` compares the amounts of two periods and not their lengths
  (the ancestor's own window still binds); a child with `increaseAllowance` and
  without `approve` does not inherit `perTradeMax`, although the comment at
  `compiler.ts:500-505` says no such child can meet the cap (the walk over the
  ancestors still does).
- Grants: a frozen card past its expiry passes a consent, since its state is
  frozen before it is expired; `revoke_subcard` does not cascade over OAuth
  tokens (they open nothing, as the lane looks at the card's status); refreshing lacks
  the check of card expiry that its comment says it mirrors.
- T3N lane: the oldest row bound to a DID answers for it, dead or alive, so a
  card issued by `issue_card` may be shadowed by a dead one; slow requests can
  exceed a card's ceiling by the older hits that a later call has dropped, and bad
  attempts, whose body is read first (`mcp/routes.ts:185`), the ceiling of an address.
- Dashboard: a ceremony that outlives its login opens the next one's dashboard;
  an issuance for a DID goes under the next login's token; closing the modal while
  issuing reopens an empty one and loses the URL; an issue that timed out mints
  two cards when retried; a draft in T3N mode re-enables sub-cards although the
  comment at `page.tsx:529` says otherwise; the revoke modal survives a change of
  hero and its Yes revokes the new one; a verb's error may show under the next
  card (`Dossier.tsx:494`); a reveal that is answered after a rotation shows the
  dead URL.
- Consent page: an approval whose answer is lost consumes the request and its
  code is never shown; the saved grant lives 110 s from the answer, the code 120 s
  from its mint; Continue within 1.5 s followed by Back from the browser's cache
  lets the timer redirect once more.

## 5. Proofs

All from named assumptions about the constants, for all values that satisfy
them, and each assumption is evaluated by TLC on its run. They say that bounds
and limits are numbers, that the values that mean "nothing" are not values, and
the following, which the proofs lean on. `TermsAssumption`: cards form a forest,
windows start no later than instant 0. `ChargesAssumption`: requests and
authorizations are finite, disjoint sets. `SpendAssumption`: fees are positive
and within the headroom. `CarvingAssumption`: `Canonical` is idempotent.
`AccessAssumption`: `Tables` are tables of cards; its reserved keys name no card.
`LifecycleAssumption`, `GrantsAssumption`, `NoneIsNoRow`, `SignInAssumption`,
`FormsAssumption`, `DeckAssumption` and `ConsentAssumption` say nothing else.

**`SpendProofs`**: the tables, the mutex and the limits.
- `TypeCorrect`: `Spec => []TypeOK`. `TypeOK` alone is not inductive: a section
  that ends takes the tail of its queue, and a verdict reads the log at a place
  a scan reported. `TypeInv` adds `HoldsMutex` (a request in its section is at
  the head of its queue) and `ScanIsPast`.
- `MutualExclusion`: `Spec => []OneSectionPerTree`, from the same invariant: two
  requests at the head of one queue are one.
- `LimitsHold`: with no slow requests, and not both carves and authorizations,
  `Spec => []WithinLimits`. `WithinLimits` is not inductive: a verdict that
  touched a deleted or failed row would bring it back to life, and a carve books
  what it validated before an await. `Books` says what each parked request and the
  sweep know of the table, `StillFits` that what a carve was told is still true
  while its leaf is signed. The argument: every step but three is *quiet*
  (`QuietWithin`: what is held was held before, for no less). `Reserve` and
  `FiatAuthorize` validate in the step that books (`BookedWithin`) and need no
  mutex. `CarveX402` rests on `StillFits`, and that on the mutex: a step that
  books does so in the section of its own tree, and what is booked on another tree
  is on no card of the chain (`SubtreeIsOneTree`: the subtrees of a chain's cards
  lie in one tree). Below lie `ChainInSubtree` (whoever has c in its chain is in
  c's subtree, so the store's sum covers every charge the chain will hold against
  c) and the arithmetic of `Atoms`. Both conditions are needed: `BadX402Overdraw`
  refutes the statement with carves and authorizations, since the webhook cannot
  wait for the mutex, and a slow request lets the sweep judge a row its request is
  still working on.
- `MetersHold`: `Spec => []MetersAgree`. Meters and checks are computed by
  different code; `LeftCovers` shows that what is left after subtraction covers a
  cost exactly when the checks would take it, for each term of each ancestor.

**`SpendMoney`**: what becomes of the money. Four invariants, each over the one
before; every theorem names the lanes and faults it excludes, and no other.

| Theorem | Property | Excluded | Why |
|---|---|---|---|
| `OneSettlement` | `SettledOnce` | nothing | |
| `ApprovalsStand` | `FiatStaysHeld` | nothing | |
| `SentWhileSpendable` | `SpendableWhenSent` | carves | a payload is released without a second look |
| `ConfirmedAreMined` | `ConfirmedIsMined` | carves, `slow`, `feeClash` | with equal fees a scan takes another charge's fee leg; `slow` is `Books`'s |
| `OneRedemption` | `OneRedemptionPerKey` | and `lostReply` | `BadLostReply` |
| `MoneyIsBooked` | `MovingMoneyIsBooked` | and `early500` | a wrong 500 fails a row whose money moves |
| `IncludedStays` | `IncludedIsNotFailed` | carves, `slow`, `feeClash`, `lostReply`, and `early500` together with `scanBlip` | the scan that would refute the 500 throws |
| `ThePipelineKeepsTheBook` | `KeepsTheBook` | carves, `slow`, `feeClash`, `lostReply`, `early500` | as `MoneyIsBooked` |

- `SettleInv`: a settlement claims its row before it sends, one that decides
  finds it unclaimed, and no step takes a claim back. No argument about time or
  fees enters, which is why its theorems need no condition.
- `MinedInv`: `FeesDiffer`, `RowIsItsCalls` (a row carries fee, card, key and
  block of its request) and `LogIsTheChain` (what landed is in the log, after the
  block the request saw). From these a scan finds its own leg and no other.
- `BookInv`: `SweptIsOver` (what a sweep has read is past flying, so its verdict
  is final), `MovingIsBooked`, and `NoRival`: while a request decides, no other
  moves money under its key. `NoRival` is where the mutex is needed: replay check
  and booking are awaits apart.
- `KeepsInv` adds `KeyFits`: a key has one row, so a retry deletes one entry.
- The refinement has one lemma per kind of step: `ApproveStep` (`Reserve`,
  `FiatAuthorize`), `VerdictStep` (failures release, verdicts and sweeps settle or
  release, several rows at once), `ForgetStep` (a retry clears its dead row),
  `PayStep` (a transaction is mined). Every other step is a stutter of the book.

**`CarvingProofs`**
- `AuthorityOnlyNarrows`: `Spec => []NeverWider`, and `ApproveStaysCapped`:
  `Spec => []ApproveIsCapped`. `TreeInv` says that every card's terms are
  normalized and valid and within those of each ancestor, not just its parent's;
  a child is within its parent by `attenuate`, and within is transitive but for
  the approve cap, which a card without approve loses: hence `Capped`, which
  knows that approve cannot return below such a card.
- `TheServerBinds`: `Spec => []ChainAgrees`. `LedgerInv` says that the enforcers
  of a card have counted no atom the server has not booked to it or below it
  (sums over a subtree cover the sums of its cards, which is where `Sum` as a
  count of units helps), and no more executions than the server's uses may hold:
  a use is at most `PerUse` executions.
  `TypeCorrect` comes with it: what is stored compiles.

**`LifecycleProofs`**
- `LifeInv` joins the types with `CardInv` and `AdminInv`. `DrawnFirst`: a row
  belongs to a drawn card, whose parent is then fixed. `WorkIsKnown`: parked
  requests work on what exists. `RevokesRoots`: a mined revocation has disabled
  its root. `OneHolder`: an operation that is listed or claimed was not sent, and
  until it is sent one request holds it. `MarkInv`: an operation has its fee before
  its transaction, and where fees differ a leg of that fee, seen since the head was
  read, is its own. From all this `OneSignatureOneSend`, `ClaimsAreHeld`,
  `RowsHaveParents`, `TypeCorrect`, and the action properties `DeadForGood` and
  `LiveCardsStay`.
- `RevokedOnChain`: `Spec => []RevokedIsDisabled` where no two redemptions pay the
  same fee (`"feeClash"` not in `Faults`; with it TLC violates the property). A
  redemption of the same fee in the very block of the head read, which the scan
  includes, is part of that exception.
- `NoNonceFromTheFuture`: `Spec => []NukeReachesAll` unless both the read after a
  nuke and the one of a preparation may fail (with both TLC violates it, by the
  overshoot of section 4). With either alone the fallbacks are harmless: the stored
  nonce may run ahead but no card is compiled with it, or it never does. `NonceInv`
  says so, and that no parked request saw a nonce the chain has not reached.

**`GrantsProofs`**
- The invariant `Whole` joins the types, `FamiliesAreGrants` (the tokens of a
  family come from one approved request) and `OneLive` with the history
  variables. From it: `OneCredential`, `DeadGrantsStayDead`, `ReplaysAreNoticed`,
  `GrantsAreTheLoaders`, `CascadesReachAll`, `TypeCorrect`, and
  `ClientsOutliveGrants` (a client is not collected while a credential of its may
  still be used). One lemma per handler.

**`ConsoleProofs`** (`SignIn` and `IssueForm` together)
- `SignInInv`: a probe asks for the login the effects saw, a ceremony that is
  stored made its login known, an open dashboard was opened for a known login.
  From it `DashboardsAreForTheKnown`.
- `IssueInv`: an issuance carries the terms of a form that passed the modal's
  checks, and from preparation on its signer. From it `FormsAreKept`,
  `CardsAreTheirSigners`, and with both `TypeCorrect`.

**`DeckProofs`**
- `DeckInv`: what is shown is of the hero whose effects ran last (`PanelInv`; the
  property speaks of the hero on the screen), an answer on its way says what was done
  (`ServedIsDone`), it reaches the modal that waits for it (`ItsOwnModal`), and a
  danger modal has a hero (`ModalHasHero`). From it `NoOthersCredential`,
  `SaidWhenDone`, `TypeCorrect`.
  The hero is the least number of a set of cards: that there is one is the
  well-foundedness of the naturals.

**`AccessProofs`** (`Access` and `Consent`, each by its own specification)
- `CeilingsHold`: `Spec => []CeilingHolds`, the ceiling of a card. `CountInv` says that
  whatever answered a prompt call of the window still counts (`PromptAreHits`): a late call
  may drop hits, but only those older than the window. `TypeCorrect` adds that no
  age holds more hits than a window answers.
- `OneAnswerEach`: `ConsentSpec => []OneAnswer`. `ConsentInv` says when there can
  be another code or jump: a request is consumed by its answer, an answer on its
  way is the only one, a timer runs towards the only jump.

What proof attempts found. `OnboardedIsKnown` excepted dashboards by a flag that
compared a ceremony's login with the session of the moment, which no invariant
could carry; with four session changes TLC violates it. `SignIn` now records whose
ceremony opened the dashboard (`opener`). The types of `Carving` admitted too much,
since `SUBSET X \ {{}}` need not mean what it looks like; they are parenthesised.

Only model-checked: every liveness property (`PendingIsResolved`,
`WaitersAreServed`, `ReservationIsResolved`, `BootResolves`, `ScreenCatchesUp`,
`NeverShutOut`), since fairness and ENABLED are beyond the prover; and the page in
front of the lanes, composed in `MCAccess`. Every other property of a passing run is stated by
a theorem. No module uses a recursive operator: sums are cardinalities of sets of
units, and trees are least closed sets. Type invariants are defined in their
modules; where they are proved they are not part of a run.

## 6. Not modelled

- Cryptography, encodings, decimal conversion, the contents of transactions
  (leaves, executions, the 7702 authorization), allowance arguments and their
  pins, the request-only checks of `validateSpend`: they read no state. Signatures
  are good or bad.
- `verifyX402`/`settleX402`: no state, and no route mounts them.
- The language model behind drafts: it returns a form or fails, which is all
  `IssueForm` sees.
- JSON-RPC encoding of relayer and MCP, host, origin and size checks, PKCE and
  redirect URIs: checks of a single request.
- The dashboard's layout, tour and themes, its sub-card and fiat panes, the
  read-only card page and the documentation pages.
- Charges of deleted cards: a spend and a deletion are never in one model.
- Windows on chain: the enforcers of `Carving` count in the second of the
  redemption, which is also the server's; the gap between a request and its block
  is not modelled.
- `Consent` runs effects with the step that triggers them; `SignIn` and `Deck`,
  where the gap matters, make them a step.
- Exit animations: `AnimatePresence` keeps a credential overlay on its way out
  (`Dossier.tsx:262-272`), so the old URL stands under the new card's name for its
  length, as it does for the one commit before the effects run (`PanelIsTheHeros`
  excepts both).

## 7. Plan

1. The three lifetimes of a carve (signed, with the seller, released by the
   sweep) in `MinedInv`, so that `MoneyIsBooked` covers bearer payloads.
2. The page and the lanes as one theorem, as `MCAccess` composes them.
