--------------------------- MODULE LifecycleProofs ---------------------------
(***************************************************************************)
(* What CardLifecycle promises, for every set of cards, requests and       *)
(* operations and every number of nukes.                                   *)
(*                                                                         *)
(* None of the promises is inductive.  LifeInv adds what a parked request  *)
(* knows: the card it will insert is drawn, and the operation it works on  *)
(* is its own until the relayer has it.                                    *)
(***************************************************************************)
EXTENDS CardLifecycle, TLAPS

\* A row belongs to a card that was drawn; a card gets its parent as it is drawn.
DrawnFirst ==
    /\ \A c \in Card \ Drawn : status[c] = "absent" /\ parent[c] = NoCard
    /\ pending \subseteq Drawn

\* What the requests work on is there.
WorkIsKnown ==
    /\ \A t \in Task : task[t].at \in {"keys", "mint"} => task[t].card \in Drawn
    /\ \A t \in Task :
          task[t].at \in {"verify", "send", "head", "confirm", "reread"} =>
              task[t].op \in Op /\ op[task[t].op].kind # "none"
    /\ \A o \in Op : op[o].listed => op[o].kind # "none"

\* A revocation is of a root card that was drawn, so its parent never changes;
\* once mined, its delegation is disabled.
RevokesRoots ==
    \A o \in Op : op[o].kind = "revoke" =>
        /\ op[o].card \in Drawn /\ IsRoot(op[o].card)
        /\ op[o].tx = "landed" => op[o].card \in chain.disabled

\* An operation that can still be claimed, or is held, was not sent; until it is
\* sent one request holds it.
Unsent(t) == task[t].at \in {"verify", "send", "head"}

OneHolder ==
    /\ \A o \in Op : op[o].listed => op[o].sends = 0
    /\ \A t \in Task : task[t].at = "verify" =>
          op[task[t].op].inProgress /\ op[task[t].op].sends = 0
    /\ \A t \in Task : task[t].at \in {"send", "head"} =>
          /\ ~op[task[t].op].listed /\ ~op[task[t].op].inProgress
          /\ op[task[t].op].sends = 0
    /\ \A t, u \in Task : Unsent(t) /\ Unsent(u) /\ task[t].op = task[u].op => t = u

\* An operation has its fee before its transaction, and a request sees no leg that
\* was mined before it read the head.
Marked ==
    /\ \A o \in Op : op[o].sends = 0 => op[o].tx = "none"
    /\ \A o \in Op : op[o].tx # "none" => op[o].fee \in Fee
    /\ \A t \in Task : task[t].at \in {"head", "confirm"} => op[task[t].op].fee \in Fee
    /\ \A t \in Task : task[t].at = "confirm" => op[task[t].op].sends # 0
    /\ \A t \in Task : task[t].at \in {"verify", "send"} => task[t].legs = {}

\* Where no two redemptions pay the same fee, a leg of a request's fee is its own.
OwnLegs ==
    /\ \A o, q \in Op : op[o].fee \in Fee /\ op[o].fee = op[q].fee => o = q
    /\ \A t \in Task :
          task[t].at \in {"head", "confirm"} /\ op[task[t].op].fee \in task[t].legs =>
              op[task[t].op].tx = "landed"

FeesDiffer == "feeClash" \notin Faults

\* What is known of the cards, of the administrative work on them, and of the
\* evidence that the work was done.
CardInv == DrawnFirst /\ NoOrphans /\ (FeesDiffer => RevokedIsDisabled)

AdminInv == WorkIsKnown /\ RevokesRoots /\ OneHolder /\ SentOnce /\ ClaimIsHeld

MarkInv == Marked /\ (FeesDiffer => OwnLegs)

LifeInv == TypeOK /\ CardInv /\ AdminInv /\ MarkInv

\* No request holds a nonce the chain has not reached; nor does the users table, where
\* the read of a prepared card may fail and the one after a nuke may not.
NonceInv ==
    /\ TypeOK /\ NukeReachesAll
    /\ \A t \in Task : task[t].seen <= chain.nonce
    /\ "prepare" \in Faults => stored <= chain.nonce

-----------------------------------------------------------------------------
(* The tree of cards.                                                      *)

\* A line is closed under children.
LEMMA LineClosed ==
  ASSUME NEW c \in Card, NEW x \in Card, parent[x] \in Line(c)
  PROVE  x \in Line(c)
BY DEF Line

\* A card is in its own line; any other card of the line has its parent there.
LEMMA LineBelow ==
  ASSUME NEW c \in Card
  PROVE  /\ c \in Line(c) /\ Line(c) \subseteq Card
         /\ \A d \in Line(c) \ {c} : parent[d] \in Line(c)
<1>1. c \in Line(c) /\ Line(c) \subseteq Card
  BY DEF Line
<1>2. ASSUME NEW d \in Line(c) \ {c}, parent[d] \notin Line(c)
      PROVE  FALSE
  <2> DEFINE S == Line(c) \ {d}
  <2>1. c \in S /\ S \in SUBSET Card
    BY <1>1
  <2>2. \A x \in Card : parent[x] \in S => x \in S
    BY <1>2, LineClosed
  <2>3. d \in S
    BY <2>1, <2>2 DEF Line
  <2> QED BY <2>3
<1> QED BY <1>1, <1>2

\* Below a card there is no root card but itself.
LEMMA RootsAreOnTop ==
  ASSUME NEW c \in Card, NEW d \in Subtree(c), IsRoot(d)
  PROVE  d = c
BY LineBelow, LifecycleAssumption DEF Subtree, IsRoot, LifecycleAssumption

-----------------------------------------------------------------------------
(* Steps by what they leave alone.                                         *)

\* The invariant holds of an empty server.
LEMMA InitLife == Init => LifeInv /\ NonceInv
BY LifecycleAssumption
   DEF LifecycleAssumption, Init, LifeInv, CardInv, AdminInv, NonceInv, TypeOK, DrawnFirst,
        Drawn, WorkIsKnown, RevokesRoots,
       OneHolder, Unsent, SentOnce, ClaimIsHeld, RevokedIsDisabled, NoOrphans,
       MarkInv, Marked, OwnLegs, NukeReachesAll, Idle, NoneYet, TaskState, OpState,
       Where, Status, Dead, IsRoot

\* A request's record stays a record as the request moves.
LEMMA TaskMoves ==
  ASSUME TypeOK, NEW t \in Task
  PROVE  /\ Finish(t) => task' \in [Task -> TaskState]
         /\ \A at \in Where : Goto(t, at) => task' \in [Task -> TaskState]
         /\ \A at \in Where, c \in Card :
               [task EXCEPT ![t].at = at, ![t].card = c] \in [Task -> TaskState]
         /\ \A at \in Where, c \in Card \cup {NoCard}, o \in Op \cup {NoOp} :
               Park(t, at, c, o) => task' \in [Task -> TaskState]
<1>0. Idle \in TaskState
  BY DEF Idle, TaskState, Where
<1>1. task[t] \in TaskState /\ chain.nonce \in Nat
  BY DEF TypeOK
<1>2. \A at \in Where : [task[t] EXCEPT !.at = at] \in TaskState
  BY <1>1 DEF TaskState
<1>3. \A at \in Where, c \in Card \cup {NoCard}, o \in Op \cup {NoOp} :
         [at |-> at, card |-> c, op |-> o, seen |-> chain.nonce, legs |-> {}] \in TaskState
  BY <1>1 DEF TaskState
<1>4. ASSUME NEW at \in Where, NEW c \in Card
      PROVE  [task EXCEPT ![t].at = at, ![t].card = c] \in [Task -> TaskState]
  <2>1. [task EXCEPT ![t].at = at] \in [Task -> TaskState]
    BY <1>2 DEF TypeOK
  <2>2. \A f \in [Task -> TaskState] : [f[t] EXCEPT !.card = c] \in TaskState
    BY DEF TaskState
  <2> QED BY <2>1, <2>2
<1>5. task \in [Task -> TaskState]
  BY DEF TypeOK
<1>6. Finish(t) => task' \in [Task -> TaskState]
  BY <1>0, <1>5 DEF Finish
<1>7. \A at \in Where : Goto(t, at) => task' \in [Task -> TaskState]
  BY <1>2, <1>5 DEF Goto
<1>8. \A at \in Where, c \in Card \cup {NoCard}, o \in Op \cup {NoOp} :
         Park(t, at, c, o) => task' \in [Task -> TaskState]
  BY <1>3, <1>5 DEF Park
<1> QED BY <1>4, <1>6, <1>7, <1>8

\* A leg that is mined adds to what the requests can see, and nothing else.
LEMMA LegTask ==
  ASSUME TypeOK, NEW fee \in Fee, LegMined(fee)
  PROVE  /\ task' \in [Task -> TaskState]
         /\ \A u \in Task :
               /\ task'[u].at = task[u].at /\ task'[u].card = task[u].card
               /\ task'[u].op = task[u].op /\ task'[u].seen = task[u].seen
               /\ task'[u].legs = IF task[u].at \in {"head", "confirm"}
                                  THEN task[u].legs \cup {fee} ELSE task[u].legs
<1>1. ASSUME NEW u \in Task
      PROVE  /\ task'[u] \in TaskState
             /\ task'[u].at = task[u].at /\ task'[u].card = task[u].card
             /\ task'[u].op = task[u].op /\ task'[u].seen = task[u].seen
             /\ task'[u].legs = IF task[u].at \in {"head", "confirm"}
                                THEN task[u].legs \cup {fee} ELSE task[u].legs
  <2>1. task[u] \in TaskState
    BY DEF TypeOK
  <2>2. CASE task[u].at \in {"head", "confirm"}
    <3>1. task'[u] = [task[u] EXCEPT !.legs = @ \cup {fee}]
      BY <2>2 DEF LegMined
    <3> QED BY <2>1, <2>2, <3>1 DEF TaskState
  <2>3. CASE task[u].at \notin {"head", "confirm"}
    <3>1. task'[u] = task[u]
      BY <2>3 DEF LegMined
    <3> QED BY <2>1, <2>3, <3>1
  <2> QED BY <2>2, <2>3
<1>2. task' \in [Task -> TaskState]
  BY <1>1 DEF LegMined
<1> QED BY <1>1, <1>2

\* So does an operation's.
LEMMA OpMoves ==
  ASSUME TypeOK, NEW o \in Op \cup {NoOp}
  PROVE  /\ [op EXCEPT ![o].listed = FALSE] \in [Op -> OpState]
         /\ [op EXCEPT ![o].inProgress = TRUE] \in [Op -> OpState]
         /\ [op EXCEPT ![o].inProgress = FALSE] \in [Op -> OpState]
         /\ [op EXCEPT ![o].listed = FALSE, ![o].inProgress = FALSE] \in [Op -> OpState]
         /\ [op EXCEPT ![o].sends = @ + 1, ![o].tx = "posted"] \in [Op -> OpState]
         /\ \A fee \in Fee : [op EXCEPT ![o].fee = fee] \in [Op -> OpState]
         /\ [op EXCEPT ![o].tx = "landed"] \in [Op -> OpState]
         /\ [op EXCEPT ![o].tx = "failed"] \in [Op -> OpState]
<1> DEFINE F == [Op -> OpState]
<1>1. ASSUME NEW f \in F
      PROVE  /\ [f EXCEPT ![o].listed = FALSE] \in F
             /\ \A b \in BOOLEAN : [f EXCEPT ![o].inProgress = b] \in F
             /\ [f EXCEPT ![o].sends = @ + 1] \in F
             /\ \A fee \in Fee : [f EXCEPT ![o].fee = fee] \in F
             /\ \A x \in {"posted", "landed", "failed"} : [f EXCEPT ![o].tx = x] \in F
  <2>1. CASE o \notin Op
    BY <2>1
  <2>2. CASE o \in Op
    <3>1. f[o] \in OpState
      BY <2>2
    <3>2. /\ [f[o] EXCEPT !.listed = FALSE] \in OpState
          /\ \A b \in BOOLEAN : [f[o] EXCEPT !.inProgress = b] \in OpState
      BY <3>1 DEF OpState
    <3>3. /\ [f[o] EXCEPT !.sends = @ + 1] \in OpState
          /\ \A fee \in Fee : [f[o] EXCEPT !.fee = fee] \in OpState
          /\ \A x \in {"posted", "landed", "failed"} : [f[o] EXCEPT !.tx = x] \in OpState
      BY <3>1 DEF OpState
    <3> QED BY <2>2, <3>2, <3>3
  <2> QED BY <2>1, <2>2
<1>2. op \in F
  BY DEF TypeOK
<1>3. [op EXCEPT ![o].listed = FALSE] \in F /\ [op EXCEPT ![o].sends = @ + 1] \in F
  BY <1>1, <1>2
<1>4. /\ [[op EXCEPT ![o].listed = FALSE] EXCEPT ![o].inProgress = FALSE] \in F
      /\ [[op EXCEPT ![o].sends = @ + 1] EXCEPT ![o].tx = "posted"] \in F
  BY <1>1, <1>3
<1> QED BY <1>1, <1>2, <1>4

\* The records an operation starts from.
LEMMA Entries ==
  /\ NoneYet \in OpState
  /\ \A k \in {"revoke", "nuke"}, c \in Card \cup {NoCard}, l \in BOOLEAN :
        Entry(k, c, l) \in OpState
BY DEF Entry, NoneYet, OpState

\* Every step keeps the types: no revocation without a card is ever mined.
LEMMA TypeStep ==
  ASSUME LifeInv, [Next]_vars
  PROVE  TypeOK'
<1>0. /\ TypeOK /\ \A t \in Task : NonceRead(t) \subseteq Nat
      /\ {"active", "frozen", "revoked", "nuked", "absent"} \subseteq Status
  BY DEF LifeInv, TypeOK, NonceRead, TaskState, Status, Dead
<1>1. ASSUME NEW t \in Task, IssuanceStep(t)
      PROVE  TypeOK'
  <2>1. CASE Onboard(t) \/ PrepareRoot(t) \/ IssueRoot(t)
    <3>1. task' \in [Task -> TaskState]
      BY <1>0, <2>1, TaskMoves DEF Onboard, PrepareRoot, IssueRoot, Where
    <3> QED BY <1>0, <2>1, <3>1 DEF Onboard, PrepareRoot, IssueRoot, TypeOK
  <2>2. CASE OnboardStores(t)
    <3>1. task' \in [Task -> TaskState] /\ stored' \in Nat
      BY <1>0, <2>2, TaskMoves DEF OnboardStores
    <3> QED BY <1>0, <2>2, <3>1 DEF OnboardStores, TypeOK
  <2>3. ASSUME NEW c \in Card, PreparedRoot(t, c)
        PROVE  TypeOK'
    <3>1. task' \in [Task -> TaskState] /\ stored' \in Nat
      BY <1>0, <2>3, TaskMoves DEF PreparedRoot, NonceSynced, TypeOK
    <3> QED BY <1>0, <2>3, <3>1 DEF PreparedRoot, PrepareRootCard, TypeOK
  <2>4. ASSUME NEW c \in Card, FinalizeRoot(t, c)
        PROVE  TypeOK'
    <3>1. task' \in [Task -> TaskState]
      BY <1>0, <2>4, TaskMoves DEF FinalizeRoot, Where
    <3> QED BY <1>0, <2>4, <3>1 DEF FinalizeRoot, TypeOK
  <2>5. ASSUME NEW c \in Card, IssuedRoot(t, c)
        PROVE  TypeOK'
    <3>1. task' \in [Task -> TaskState]
      BY <1>0, <2>5, TaskMoves DEF IssuedRoot, Where
    <3>2. nonce' \in [Card -> Nat \cup {NoNonce}]
      BY <1>0, <2>5 DEF IssuedRoot, TypeOK
    <3> QED BY <1>0, <2>5, <3>1, <3>2 DEF IssuedRoot, TypeOK
  <2>6. ASSUME NEW p \in Card, NEW c \in Card,
               IssueSub(t, p, c) \/ PrepareSubForDID(t, p, c)
        PROVE  TypeOK'
    <3>1. task' \in [Task -> TaskState]
      BY <1>0, <2>6, TaskMoves DEF IssueSub, PrepareSubForDID, Where
    <3>2. /\ nonce' \in [Card -> Nat \cup {NoNonce}]
          /\ parent' \in [Card -> Card \cup {NoCard}]
      BY <1>0, <2>6 DEF IssueSub, PrepareSubForDID, CompileSub, TypeOK
    <3> QED BY <1>0, <2>6, <3>1, <3>2 DEF IssueSub, PrepareSubForDID, TypeOK
  <2>7. CASE FinalizeSubForDID(t) \/ IssuanceFails(t)
    <3>1. task' \in [Task -> TaskState]
      BY <1>0, <2>7, TaskMoves DEF FinalizeSubForDID, IssuanceFails, Where
    <3> QED BY <1>0, <2>7, <3>1 DEF FinalizeSubForDID, IssuanceFails, TypeOK
  <2>8. CASE Mint(t)
    <3>1. task' \in [Task -> TaskState]
      BY <1>0, <2>8, TaskMoves DEF Mint
    <3>2. status' \in [Card -> Status]
      BY <1>0, <2>8 DEF Mint, TypeOK
    <3> QED BY <1>0, <2>8, <3>1, <3>2 DEF Mint, TypeOK
  <2> QED BY <1>1, <2>1, <2>2, <2>3, <2>4, <2>5, <2>6, <2>7, <2>8 DEF IssuanceStep
<1>2. ASSUME NEW t \in Task, AdminStep(t)
      PROVE  TypeOK'
  <2>0. task[t].op \in Op \cup {NoOp}
    BY <1>0 DEF TypeOK, TaskState
  <2>1. ASSUME NEW o \in Op, FinalizeAdmin(t, o)
        PROVE  TypeOK'
    <3>1. task' \in [Task -> TaskState]
      BY <1>0, <2>1, TaskMoves DEF FinalizeAdmin, Where, TypeOK, OpState
    <3>2. op' \in [Op -> OpState]
      BY <1>0, <2>1, OpMoves DEF FinalizeAdmin
    <3> QED BY <1>0, <2>1, <3>1, <3>2 DEF FinalizeAdmin, TypeOK
  <2>2. ASSUME NEW o \in Op, NEW k \in {"revoke", "nuke"}, NEW c \in Card \cup {NoCard},
               ServerAdmin(t, o, k, c)
        PROVE  TypeOK'
    <3>1. task' \in [Task -> TaskState]
      BY <1>0, <2>2, TaskMoves DEF ServerAdmin, Where
    <3>2. op' \in [Op -> OpState]
      BY <1>0, <2>2, Entries DEF ServerAdmin, TypeOK
    <3> QED BY <1>0, <2>2, <3>1, <3>2 DEF ServerAdmin, TypeOK
  <2>3. CASE BadSignature(t) \/ GoodSignature(t)
    <3>1. task' \in [Task -> TaskState]
      BY <1>0, <2>3, TaskMoves DEF BadSignature, GoodSignature, Where
    <3>2. op' \in [Op -> OpState]
      <4>1. CASE BadSignature(t)
        BY <1>0, <2>0, <4>1, OpMoves DEF BadSignature, Unclaimed
      <4>2. CASE GoodSignature(t)
        BY <1>0, <2>0, <4>2, OpMoves DEF GoodSignature, Consumed
      <4> QED BY <2>3, <4>1, <4>2
    <3> QED BY <1>0, <2>3, <3>1, <3>2 DEF BadSignature, GoodSignature, TypeOK
  <2>8. ASSUME NEW fee \in Fee, AdminHead(t, fee)
        PROVE  TypeOK'
    <3>1. task' \in [Task -> TaskState]
      BY <1>0, <2>8, TaskMoves DEF AdminHead, Where
    <3>2. op' \in [Op -> OpState]
      BY <1>0, <2>0, <2>8, OpMoves DEF AdminHead
    <3> QED BY <1>0, <2>8, <3>1, <3>2 DEF AdminHead, TypeOK
  <2>4. CASE AdminSend(t)
    <3>1. task' \in [Task -> TaskState]
      BY <1>0, <2>4, TaskMoves DEF AdminSend, Where
    <3>2. op' \in [Op -> OpState]
      BY <1>0, <2>0, <2>4, OpMoves DEF AdminSend
    <3> QED BY <1>0, <2>4, <3>1, <3>2 DEF AdminSend, TypeOK
  <2>5. CASE AdminThrows(t)
    <3>1. task' \in [Task -> TaskState]
      BY <1>0, <2>5, TaskMoves DEF AdminThrows
    <3> QED BY <1>0, <2>5, <3>1 DEF AdminThrows, TypeOK
  <2>6. CASE AdminConfirmed(t)
    <3>1. task' \in [Task -> TaskState]
      BY <1>0, <2>0, <2>6, TaskMoves DEF AdminConfirmed, Where
    <3>2. status' \in [Card -> Status]
      BY <1>0, <2>6 DEF AdminConfirmed, SetSubtree, SetAll, TypeOK
    <3> QED BY <1>0, <2>6, <3>1, <3>2 DEF AdminConfirmed, TypeOK
  <2>7. CASE NukeStores(t)
    <3>1. task' \in [Task -> TaskState]
      BY <1>0, <2>7, TaskMoves DEF NukeStores
    <3>2. stored' \in Nat
      BY <1>0, <2>7 DEF NukeStores, NonceAfterNuke, TypeOK
    <3> QED BY <1>0, <2>7, <3>1, <3>2 DEF NukeStores, TypeOK
  <2> QED BY <1>2, <2>1, <2>2, <2>3, <2>4, <2>5, <2>6, <2>7, <2>8 DEF AdminStep
<1>3. ASSUME NEW c \in Card, SwitchStep(c)
      PROVE  TypeOK'
  <2>1. CASE Freeze(c) \/ Unfreeze(c) \/ Lapse(c) \/ PendingExpires(c)
    BY <1>0, <2>1 DEF Freeze, Unfreeze, Lapse, PendingExpires, TypeOK
  <2>2. CASE KillSubtree(c) \/ DeleteDeadCard(c)
    <3>1. status' \in [Card -> Status]
      BY <1>0, <2>2 DEF KillSubtree, DeleteDeadCard, SetSubtree, TypeOK
    <3> QED BY <1>0, <2>2, <3>1 DEF KillSubtree, DeleteDeadCard, TypeOK
  <2> QED BY <1>3, <2>1, <2>2 DEF SwitchStep
<1>4. ASSUME NEW o \in Op, OpStep(o)
      PROVE  TypeOK'
  <2>1. op' \in [Op -> OpState]
    <3>1. op \in [Op -> OpState]
      BY <1>0 DEF TypeOK
    <3>2. CASE PrepareNuke(o) \/ \E c \in Card : PrepareRevoke(o, c)
      BY <3>1, <3>2, Entries DEF PrepareNuke, PrepareRevoke
    <3>3. CASE AdminExpires(o)
      BY <1>0, <3>3, OpMoves DEF AdminExpires
    <3>4. CASE Revert(o)
      BY <1>0, <3>4, OpMoves DEF Revert
    <3>5. CASE Land(o)
      BY <1>0, <3>5, OpMoves DEF Land
    <3> QED BY <1>4, <3>2, <3>3, <3>4, <3>5 DEF OpStep
  <2>2. chain' \in [nonce : Nat, disabled : SUBSET Card]
    <3>1. CASE Land(o)
      BY <1>0, <3>1 DEF Land, TypeOK, LifeInv, AdminInv, RevokesRoots, Drawn
    <3> QED BY <1>0, <1>4, <3>1
            DEF OpStep, PrepareRevoke, PrepareNuke, AdminExpires, Revert, TypeOK
  <2>3. task' \in [Task -> TaskState]
    <3>1. CASE Land(o)
      BY <1>0, <3>1, LegTask DEF Land, LifeInv, MarkInv, Marked
    <3> QED BY <1>0, <1>4, <3>1
            DEF OpStep, PrepareRevoke, PrepareNuke, AdminExpires, Revert, TypeOK
  <2> QED BY <1>0, <1>4, <2>1, <2>2, <2>3
          DEF OpStep, PrepareRevoke, PrepareNuke, AdminExpires, Land, Revert, TypeOK
<1>5. ASSUME NEW fee \in Fee, SpendLands(fee)
      PROVE  TypeOK'
  BY <1>0, <1>5, LegTask DEF SpendLands, TypeOK
<1>6. CASE UNCHANGED vars
  BY <1>0, <1>6 DEF vars, TypeOK
<1> QED BY <1>1, <1>2, <1>3, <1>4, <1>5, <1>6 DEF Next

-----------------------------------------------------------------------------
(* The requests and the operations.                                        *)

\* A request may wait at these points without holding an operation that was not sent.
Quiet(s) ==
    /\ s.at \notin {"verify", "send", "head"}
    /\ s.at \in {"keys", "mint"} => s.card \in Drawn'
    /\ s.at \in {"confirm", "reread"} => s.op \in Op /\ op[s.op].kind # "none"

\* Cards are only added, under fresh ids; a card's parent stays what it was.
OnlyDraws ==
    /\ Drawn \subseteq Drawn'
    /\ \A c \in Drawn : parent'[c] = parent[c]

\* What holds of requests and operations is not disturbed by a step of a request
\* that holds no signed operation, whatever happens to the cards.
LEMMA QuietTask ==
  ASSUME LifeInv, NEW t \in Task, NEW s \in TaskState, task' = [task EXCEPT ![t] = s],
         task[t].at # "verify", Quiet(s), OnlyDraws, op' = op, chain' = chain
  PROVE  AdminInv'
<1> USE DEF LifeInv, AdminInv
<1>1. \A u \in Task : task'[u] = IF u = t THEN s ELSE task[u]
  BY DEF TypeOK
<1>2. WorkIsKnown'
  BY <1>1 DEF WorkIsKnown, Quiet, OnlyDraws
<1>3. RevokesRoots'
  BY DEF RevokesRoots, OnlyDraws, IsRoot
<1>4. OneHolder'
  BY <1>1 DEF OneHolder, Unsent, Quiet
<1>5. ClaimIsHeld' /\ SentOnce'
  BY <1>1 DEF ClaimIsHeld, SentOnce
<1> QED BY <1>2, <1>3, <1>4, <1>5

\* Nor by a step of no request and no operation.
LEMMA NoTask ==
  ASSUME LifeInv, task' = task, OnlyDraws, op' = op, chain' = chain
  PROVE  AdminInv'
BY DEF LifeInv, AdminInv, WorkIsKnown, RevokesRoots, OnlyDraws, IsRoot, OneHolder,
   Unsent,
       ClaimIsHeld, SentOnce

\* Nor by a leg that is mined.
LEMMA LegAdmin ==
  ASSUME LifeInv, NEW fee \in Fee, SpendLands(fee)
  PROVE  AdminInv'
<1>1. \A u \in Task : /\ task'[u].at = task[u].at /\ task'[u].op = task[u].op
                     /\ task'[u].card = task[u].card
  BY LegTask DEF SpendLands, LifeInv
<1>2. OnlyDraws /\ Drawn' = Drawn /\ op' = op /\ chain' = chain
  BY DEF SpendLands, OnlyDraws, Drawn
<1> QED BY <1>1, <1>2
        DEF LifeInv, AdminInv, WorkIsKnown, RevokesRoots, OnlyDraws, IsRoot, OneHolder,
            Unsent, ClaimIsHeld, SentOnce

\* Where the cards' ids and parents stay, nothing is drawn.
LEMMA SameIds ==
  ASSUME UNCHANGED <<parent, nonce>>
  PROVE  OnlyDraws /\ Drawn' = Drawn
BY DEF OnlyDraws, Drawn

\* A fresh id is added to the drawn ones.
LEMMA DrawsOne ==
  ASSUME TypeOK, NEW c \in Card \ Drawn, NEW n \in Nat, nonce' = [nonce EXCEPT ![c] = n],
         \A d \in Card \ {c} : parent'[d] = parent[d]
  PROVE  OnlyDraws /\ Drawn' = Drawn \cup {c}
BY LifecycleAssumption DEF LifecycleAssumption, OnlyDraws, Drawn, TypeOK

\* Issuance moves requests that hold no operation, and only draws cards.
LEMMA IssuanceAdmin ==
  ASSUME LifeInv, NEW t \in Task, IssuanceStep(t)
  PROVE  AdminInv'
<1>0. /\ TypeOK /\ task[t] \in TaskState /\ chain.nonce \in Nat /\ Idle \in TaskState
      /\ \A v \in Task : NonceRead(v) \subseteq Nat
  BY DEF LifeInv, TypeOK, NonceRead, TaskState, Idle, Where
<1>1. CASE Onboard(t) \/ PrepareRoot(t) \/ IssueRoot(t) \/ \E c \in Card : FinalizeRoot(t, c)
  <2>1. PICK at \in {"onboard", "sync", "issue", "mint"}, c \in Card \cup {NoCard} :
           Park(t, at, c, NoOp) /\ task[t].at = "idle" /\ (at = "mint" => c \in pending)
    BY <1>1 DEF Onboard, PrepareRoot, IssueRoot, FinalizeRoot
  <2> DEFINE s == [at |-> at, card |-> c, op |-> NoOp, seen |-> chain.nonce,
                   legs |-> {}]
  <2>2. OnlyDraws /\ Drawn' = Drawn /\ op' = op /\ chain' = chain
    BY <1>1, SameIds DEF Onboard, PrepareRoot, IssueRoot, FinalizeRoot
  <2>3. s \in TaskState /\ task' = [task EXCEPT ![t] = s]
    BY <1>0, <2>1 DEF Park, TaskState, Where
  <2>4. Quiet(s)
    BY <2>1, <2>2 DEF Quiet, LifeInv, CardInv, DrawnFirst
  <2> HIDE DEF s
  <2> QED BY <2>1, <2>2, <2>3, <2>4, QuietTask
<1>2. CASE OnboardStores(t) \/ IssuanceFails(t) \/ Mint(t)
  <2>1. OnlyDraws /\ op' = op /\ chain' = chain /\ Finish(t) /\ task[t].at # "verify"
    BY <1>2, SameIds DEF OnboardStores, IssuanceFails, Mint
  <2>2. Quiet(Idle)
    BY DEF Quiet, Idle
  <2> QED BY <1>0, <2>1, <2>2, QuietTask DEF Finish
<1>3. CASE FinalizeSubForDID(t)
  <2> DEFINE s == [task[t] EXCEPT !.at = "mint"]
  <2>1. OnlyDraws /\ Drawn' = Drawn /\ op' = op /\ chain' = chain
    BY <1>3, SameIds DEF FinalizeSubForDID
  <2>2. s \in TaskState /\ s.at = "mint" /\ s.card = task[t].card
    BY <1>0 DEF TaskState, Where
  <2>3. task' = [task EXCEPT ![t] = s] /\ task[t].at = "keys"
    BY <1>3 DEF FinalizeSubForDID, Goto
  <2>4. Quiet(s)
    BY <2>1, <2>2, <2>3 DEF Quiet, LifeInv, AdminInv, WorkIsKnown
  <2> HIDE DEF s
  <2> QED BY <2>1, <2>2, <2>3, <2>4, QuietTask
<1>4. ASSUME NEW c \in Card, PreparedRoot(t, c)
      PROVE  AdminInv'
  <2>1. OnlyDraws
    <3>1. stored' \in Nat
      BY <1>0, <1>4 DEF PreparedRoot, NonceSynced, TypeOK
    <3> QED BY <1>0, <1>4, <3>1, DrawsOne DEF PreparedRoot, PrepareRootCard
  <2>2. Quiet(Idle)
    BY DEF Quiet, Idle
  <2> QED BY <1>0, <1>4, <2>1, <2>2, QuietTask DEF PreparedRoot, Finish
<1>5. ASSUME NEW c \in Card, IssuedRoot(t, c)
      PROVE  AdminInv'
  <2> DEFINE s == [task[t] EXCEPT !.at = "mint", !.card = c]
  <2>1. OnlyDraws /\ Drawn' = Drawn \cup {c}
    BY <1>0, <1>5, DrawsOne DEF IssuedRoot
  <2>2. s \in TaskState /\ s.at = "mint" /\ s.card = c
    BY <1>0 DEF TaskState, Where
  <2>3. task' = [task EXCEPT ![t] = s] /\ task[t].at = "issue" /\ op' = op /\ chain' = chain
    BY <1>0, <1>5 DEF IssuedRoot, TypeOK
  <2>4. Quiet(s)
    BY <2>1, <2>2 DEF Quiet
  <2> HIDE DEF s
  <2> QED BY <2>1, <2>2, <2>3, <2>4, QuietTask
<1>6. ASSUME NEW p \in Card, NEW c \in Card, IssueSub(t, p, c) \/ PrepareSubForDID(t, p, c)
      PROVE  AdminInv'
  <2>1. OnlyDraws /\ Drawn' = Drawn \cup {c}
    BY <1>0, <1>6, DrawsOne DEF IssueSub, PrepareSubForDID, CompileSub, TypeOK
  <2>2. PICK at \in {"mint", "keys"} : Park(t, at, c, NoOp)
    BY <1>6 DEF IssueSub, PrepareSubForDID
  <2> DEFINE s == [at |-> at, card |-> c, op |-> NoOp, seen |-> chain.nonce,
                   legs |-> {}]
  <2>3. s \in TaskState /\ task' = [task EXCEPT ![t] = s]
    BY <1>0, <2>2 DEF Park, TaskState, Where
  <2>4. Quiet(s)
    BY <2>1 DEF Quiet
  <2>5. task[t].at # "verify" /\ op' = op /\ chain' = chain
    BY <1>6 DEF IssueSub, PrepareSubForDID
  <2> HIDE DEF s
  <2> QED BY <2>1, <2>3, <2>4, <2>5, QuietTask
<1> QED BY <1>1, <1>2, <1>3, <1>4, <1>5, <1>6 DEF IssuanceStep

\* A claim: the operation is listed and nobody's, so it gets one holder.
LEMMA ClaimAdmin ==
  ASSUME LifeInv, NEW t \in Task, NEW o \in Op, FinalizeAdmin(t, o)
  PROVE  AdminInv'
<1> USE DEF LifeInv, AdminInv
<1>1. /\ task' = [task EXCEPT ![t] = [at |-> "verify", card |-> op[o].card, op |-> o,
                                      seen |-> chain.nonce, legs |-> {}]]
      /\ op' = [op EXCEPT ![o].inProgress = TRUE]
      /\ op[o].listed /\ ~op[o].inProgress /\ task[t].at = "idle"
      /\ UNCHANGED <<parent, nonce, chain>>
  BY DEF FinalizeAdmin, Park, Claimable
<1>2. /\ task'[t].at = "verify" /\ task'[t].op = o
      /\ \A u \in Task \ {t} : task'[u] = task[u]
  BY <1>1 DEF TypeOK
<1>3. /\ op'[o].inProgress /\ op'[o].kind = op[o].kind /\ op'[o].card = op[o].card
      /\ op'[o].listed = op[o].listed /\ op'[o].sends = op[o].sends /\ op'[o].tx = op[o].tx
      /\ \A q \in Op \ {o} : op'[q] = op[q]
  BY <1>1 DEF TypeOK, OpState
<1>4. \A u \in Task \ {t} : Unsent(u) => task[u].op # o
  BY <1>1 DEF OneHolder, Unsent
<1>5. WorkIsKnown'
  BY <1>1, <1>2, <1>3 DEF WorkIsKnown, Drawn
<1>6. RevokesRoots'
  BY <1>1, <1>3 DEF RevokesRoots, IsRoot, Drawn
<1>7. OneHolder'
  <2>1. \A q \in Op : op'[q].listed => op'[q].sends = 0
    BY <1>3 DEF OneHolder
  <2>2. \A u \in Task : task'[u].at = "verify" =>
           op'[task'[u].op].inProgress /\ op'[task'[u].op].sends = 0
    BY <1>1, <1>2, <1>3 DEF OneHolder, WorkIsKnown
  <2>3. \A u \in Task : task'[u].at \in {"send", "head"} =>
           /\ ~op'[task'[u].op].listed /\ ~op'[task'[u].op].inProgress
           /\ op'[task'[u].op].sends = 0
    BY <1>2, <1>3, <1>4 DEF OneHolder, Unsent, WorkIsKnown
  <2>4. \A u, v \in Task : Unsent(u)' /\ Unsent(v)' /\ task'[u].op = task'[v].op => u = v
    BY <1>2, <1>4 DEF OneHolder, Unsent
  <2> QED BY <2>1, <2>2, <2>3, <2>4 DEF OneHolder
<1>8. SentOnce' /\ ClaimIsHeld'
  BY <1>1, <1>2, <1>3 DEF SentOnce, ClaimIsHeld
<1> QED BY <1>5, <1>6, <1>7, <1>8

\* An operation that was never prepared is no request's.
LEMMA FreshIsNobodys ==
  ASSUME LifeInv, NEW o \in Op, op[o] = NoneYet
  PROVE  \A u \in Task : Unsent(u) \/ task[u].at \in {"confirm", "reread"} => task[u].op # o
BY DEF LifeInv, AdminInv, WorkIsKnown, Unsent, NoneYet

\* A prepared operation is signed by the owner later on, or by the server at once.
LEMMA EntryAdmin ==
  ASSUME LifeInv, NEW o \in Op, NEW k \in {"revoke", "nuke"}, NEW c \in Card \cup {NoCard},
         NEW l \in BOOLEAN, op[o] = NoneYet, op' = [op EXCEPT ![o] = Entry(k, c, l)],
         k = "revoke" => c \in Card /\ IsRoot(c) /\ status[c] # "absent",
         UNCHANGED <<parent, nonce, chain>>,
         \/ task' = task
         \/ ~l /\ \E t \in Task : task[t].at = "idle" /\ Park(t, "send", c, o)
  PROVE  AdminInv'
<1> USE DEF LifeInv, AdminInv
<1>1. /\ op'[o] = Entry(k, c, l) /\ \A q \in Op \ {o} : op'[q] = op[q]
  BY DEF TypeOK
<1>2. /\ op'[o].kind = k /\ op'[o].card = c /\ op'[o].listed = l /\ ~op'[o].inProgress
      /\ op'[o].sends = 0 /\ op'[o].tx = "none" /\ ~op[o].inProgress
  <2>1. Entry(k, c, l).kind = k /\ Entry(k, c, l).card = c /\ Entry(k, c, l).tx = "none"
    BY DEF Entry, NoneYet
  <2>2. Entry(k, c, l).sends = 0 /\ ~Entry(k, c, l).inProgress
    BY DEF Entry, NoneYet
  <2>3. Entry(k, c, l).listed = l
    BY DEF Entry, NoneYet
  <2> QED BY <1>1, <2>1, <2>2, <2>3 DEF NoneYet
<1>3. Drawn' = Drawn
  BY DEF Drawn
<1>4. RevokesRoots'
  BY <1>1, <1>2, <1>3, LifecycleAssumption
     DEF RevokesRoots, IsRoot, CardInv, DrawnFirst, LifecycleAssumption
<1>5. SentOnce'
  BY <1>1, <1>2 DEF SentOnce
<1>6. CASE task' = task
  <2>1. WorkIsKnown'
    BY <1>1, <1>2, <1>3, <1>6 DEF WorkIsKnown
  <2>2. OneHolder'
    BY <1>1, <1>2, <1>6, FreshIsNobodys DEF OneHolder, Unsent, WorkIsKnown
  <2>3. ClaimIsHeld'
    BY <1>1, <1>2, <1>6 DEF ClaimIsHeld
  <2> QED BY <1>4, <1>5, <2>1, <2>2, <2>3
<1>7. CASE ~l /\ \E t \in Task : task[t].at = "idle" /\ Park(t, "send", c, o)
  <2>1. PICK t \in Task : task[t].at = "idle" /\ Park(t, "send", c, o)
    BY <1>7
  <2>2. /\ task'[t].at = "send" /\ task'[t].op = o
        /\ \A u \in Task \ {t} : task'[u] = task[u]
    BY <2>1 DEF Park, TypeOK
  <2>3. WorkIsKnown'
    BY <1>1, <1>2, <1>3, <2>1, <2>2 DEF WorkIsKnown
  <2>4. OneHolder'
    BY <1>1, <1>2, <1>7, <2>2, FreshIsNobodys DEF OneHolder, Unsent, WorkIsKnown
  <2>5. ClaimIsHeld'
    BY <1>1, <1>2, <2>1, <2>2 DEF ClaimIsHeld
  <2> QED BY <1>4, <1>5, <2>3, <2>4, <2>5
<1> QED BY <1>6, <1>7

\* The verdict on a signature, and the send: the one holder moves on.
LEMMA HolderAdmin ==
  ASSUME LifeInv, TypeOK', NEW t \in Task,
         \/ BadSignature(t) \/ GoodSignature(t) \/ AdminSend(t)
         \/ \E fee \in Fee : AdminHead(t, fee)
  PROVE  AdminInv'
<1> USE DEF LifeInv, AdminInv
<1> DEFINE o == task[t].op
<1>1. /\ Unsent(t) /\ task[t].op = o /\ o \in Op /\ op[o].kind # "none"
      /\ UNCHANGED <<parent, nonce, chain>>
  BY DEF BadSignature, GoodSignature, AdminHead, AdminSend, Unsent, WorkIsKnown
<1>2. /\ \A u \in Task \ {t} : task'[u] = task[u] /\ (Unsent(u) => task[u].op # o)
      /\ \A q \in Op \ {o} : op'[q] = op[q]
  BY <1>1 DEF BadSignature, GoodSignature, AdminHead, AdminSend, Unclaimed, Consumed, Goto,
     Finish,
              TypeOK, OneHolder
<1>3. /\ op'[o].kind = op[o].kind /\ op'[o].card = op[o].card /\ ~op'[o].inProgress
      /\ op'[o].listed => op[o].listed
      /\ ~AdminSend(t) => op'[o].sends = 0 /\ op'[o].tx = op[o].tx
      /\ AdminSend(t) => op'[o].sends = 1 /\ op'[o].tx = "posted" /\ ~op'[o].listed
  <2>0. op[o] \in OpState /\ op \in [Op -> OpState] /\ op[o].sends = 0
    BY <1>1 DEF TypeOK, OneHolder, Unsent
  <2>1. CASE BadSignature(t)
    BY <1>1, <2>0, <2>1 DEF BadSignature, AdminSend, Unclaimed, OpState
  <2>2. CASE GoodSignature(t)
    BY <1>1, <2>0, <2>2 DEF GoodSignature, AdminSend, Consumed, OpState
  <2>3. ASSUME NEW fee \in Fee, AdminHead(t, fee)
        PROVE  <1>3!1 /\ <1>3!2 /\ <1>3!3 /\ <1>3!4
    BY <1>1, <2>0, <2>3 DEF AdminHead, AdminSend, OneHolder, OpState
  <2>4. CASE AdminSend(t)
    BY <1>1, <2>0, <2>4 DEF AdminSend, OneHolder, OpState
  <2> QED BY <2>1, <2>2, <2>3, <2>4
<1>4. \/ task'[t].at = "idle"
      \/ /\ task'[t].at \in {"send", "head"} /\ task'[t].op = o
         /\ ~op'[o].listed /\ op'[o].sends = 0
      \/ task'[t].at = "confirm" /\ task'[t].op = o
  <2>0. task[t] \in TaskState /\ task \in [Task -> TaskState]
    BY DEF TypeOK
  <2>1. CASE Finish(t)
    BY <2>0, <2>1 DEF Finish, Idle
  <2>2. CASE GoodSignature(t) /\ Goto(t, "send")
    <3>1. task'[t].at = "send" /\ task'[t].op = o
      BY <2>0, <2>2 DEF Goto, TaskState
    <3>2. ~op'[o].listed /\ ~AdminSend(t)
      BY <1>1, <2>2 DEF GoodSignature, AdminSend, Consumed, TypeOK, OpState
    <3> QED BY <1>3, <3>1, <3>2
  <2>3. ASSUME NEW fee \in Fee, AdminHead(t, fee)
        PROVE  <1>4!2
    <3>1. task'[t].at = "head" /\ task'[t].op = o /\ ~AdminSend(t) /\ ~op[o].listed
      BY <2>0, <2>3 DEF AdminHead, AdminSend, Goto, TaskState, OneHolder
    <3> QED BY <1>3, <3>1
  <2>4. CASE AdminSend(t)
    BY <2>0, <2>4 DEF AdminSend, Goto, TaskState
  <2> QED BY <2>1, <2>2, <2>3, <2>4 DEF BadSignature, GoodSignature
<1> HIDE DEF o
<1>5. WorkIsKnown'
  BY <1>1, <1>2, <1>3, <1>4 DEF WorkIsKnown, Drawn
<1>6. RevokesRoots'
  BY <1>1, <1>2, <1>3 DEF RevokesRoots, IsRoot, Drawn
<1>7. OneHolder'
  <2>1. \A q \in Op : op'[q].listed => op'[q].sends = 0
    BY <1>1, <1>2, <1>3 DEF OneHolder
  <2>2. \A u \in Task : task'[u].at = "verify" =>
           op'[task'[u].op].inProgress /\ op'[task'[u].op].sends = 0
    BY <1>1, <1>2, <1>4 DEF OneHolder, Unsent, WorkIsKnown
  <2>3. \A u \in Task : task'[u].at \in {"send", "head"} =>
           /\ ~op'[task'[u].op].listed /\ ~op'[task'[u].op].inProgress
           /\ op'[task'[u].op].sends = 0
    BY <1>1, <1>2, <1>3, <1>4 DEF OneHolder, Unsent, WorkIsKnown
  <2>4. \A u, v \in Task : Unsent(u)' /\ Unsent(v)' /\ task'[u].op = task'[v].op => u = v
    BY <1>1, <1>2, <1>4 DEF OneHolder, Unsent
  <2> QED BY <2>1, <2>2, <2>3, <2>4 DEF OneHolder
<1>8. SentOnce'
  BY <1>2, <1>3 DEF SentOnce
<1>9. ClaimIsHeld'
  BY <1>1, <1>2, <1>3 DEF ClaimIsHeld
<1> QED BY <1>5, <1>6, <1>7, <1>8, <1>9

\* An entry that expires, and the chain, move an operation and no request.
LEMMA ChainAdmin ==
  ASSUME LifeInv, NEW o \in Op, AdminExpires(o) \/ Land(o) \/ Revert(o)
  PROVE  AdminInv'
<1> USE DEF LifeInv, AdminInv
<1>0. \A u \in Task : /\ task'[u].at = task[u].at /\ task'[u].op = task[u].op
                     /\ task'[u].card = task[u].card
  <2>1. CASE Land(o)
    BY <2>1, LegTask DEF Land, MarkInv, Marked
  <2> QED BY <2>1 DEF AdminExpires, Revert
<1>1. UNCHANGED <<status, parent, nonce>> /\ chain.disabled \subseteq chain'.disabled
  BY DEF AdminExpires, Land, Revert, TypeOK
<1>2. /\ \A q \in Op \ {o} : op'[q] = op[q]
      /\ op'[o].kind = op[o].kind /\ op'[o].card = op[o].card /\ op'[o].sends = op[o].sends
      /\ op'[o].inProgress = op[o].inProgress /\ (op'[o].listed => op[o].listed)
  BY DEF AdminExpires, Land, Revert, TypeOK, OpState
<1>3. op[o].kind = "revoke" /\ op'[o].tx = "landed" => op[o].card \in chain'.disabled
  <2>1. CASE AdminExpires(o)
    BY <2>1 DEF AdminExpires, RevokesRoots, TypeOK, OpState
  <2>2. CASE Land(o)
    BY <2>2 DEF Land, TypeOK
  <2>3. CASE Revert(o)
    BY <2>3 DEF Revert, TypeOK, OpState
  <2> QED BY <2>1, <2>2, <2>3
<1>4. WorkIsKnown'
  BY <1>0, <1>1, <1>2 DEF WorkIsKnown, Drawn
<1>5. RevokesRoots'
  BY <1>1, <1>2, <1>3 DEF RevokesRoots, IsRoot, Drawn
<1>6. OneHolder'
  BY <1>0, <1>1, <1>2 DEF OneHolder, Unsent, WorkIsKnown
<1>7. SentOnce' /\ ClaimIsHeld'
  BY <1>0, <1>1, <1>2 DEF SentOnce, ClaimIsHeld
<1> QED BY <1>4, <1>5, <1>6, <1>7

\* After the send a request ends, or reads the nonce again.
LEMMA AfterSend ==
  ASSUME LifeInv, NEW t \in Task, AdminThrows(t) \/ AdminConfirmed(t) \/ NukeStores(t)
  PROVE  AdminInv'
<1>1. OnlyDraws /\ op' = op /\ chain' = chain /\ task[t].at # "verify"
  BY SameIds DEF AdminThrows, AdminConfirmed, NukeStores
<1>2. TypeOK /\ Idle \in TaskState /\ Quiet(Idle)
  BY DEF LifeInv, Quiet, Idle, TaskState, Where
<1>3. CASE Finish(t)
  BY <1>1, <1>2, <1>3, QuietTask DEF Finish
<1>4. CASE AdminConfirmed(t) /\ Park(t, "reread", NoCard, task[t].op)
  <2> DEFINE s == [at |-> "reread", card |-> NoCard, op |-> task[t].op,
                   seen |-> chain.nonce, legs |-> {}]
  <2>1. task[t].op \in Op /\ op[task[t].op].kind # "none"
    BY <1>4 DEF AdminConfirmed, LifeInv, AdminInv, WorkIsKnown
  <2>2. s \in TaskState /\ Quiet(s) /\ task' = [task EXCEPT ![t] = s]
    BY <1>2, <1>4, <2>1 DEF Park, Quiet, TaskState, Where, TypeOK
  <2> HIDE DEF s
  <2> QED BY <1>1, <2>2, QuietTask
<1> QED BY <1>3, <1>4 DEF AdminThrows, AdminConfirmed, NukeStores

\* All together.
LEMMA AdminKept ==
  ASSUME LifeInv, [Next]_vars
  PROVE  AdminInv'
<1>1. ASSUME NEW t \in Task, AdminStep(t)
      PROVE  AdminInv'
  <2>1. CASE \E o \in Op : FinalizeAdmin(t, o)
    BY <2>1, ClaimAdmin
  <2>2. ASSUME NEW o \in Op, NEW k \in {"revoke", "nuke"}, NEW c \in Card \cup {NoCard},
               ServerAdmin(t, o, k, c)
        PROVE  AdminInv'
    BY <2>2, EntryAdmin, LifecycleAssumption DEF ServerAdmin, LifecycleAssumption
  <2>3. CASE \/ BadSignature(t) \/ GoodSignature(t) \/ AdminSend(t)
             \/ \E fee \in Fee : AdminHead(t, fee)
    BY <2>3, TypeStep, HolderAdmin
  <2>4. CASE AdminThrows(t) \/ AdminConfirmed(t) \/ NukeStores(t)
    BY <2>4, AfterSend
  <2> QED BY <1>1, <2>1, <2>2, <2>3, <2>4 DEF AdminStep
<1>2. ASSUME NEW c \in Card, SwitchStep(c)
      PROVE  AdminInv'
  BY <1>2, SameIds, NoTask
     DEF SwitchStep, Freeze, Unfreeze, KillSubtree, DeleteDeadCard, Lapse, PendingExpires
<1>3. ASSUME NEW o \in Op, OpStep(o)
      PROVE  AdminInv'
  <2>1. ASSUME NEW c \in Card, PrepareRevoke(o, c)
        PROVE  AdminInv'
    BY <2>1, EntryAdmin DEF PrepareRevoke
  <2>2. CASE PrepareNuke(o)
    BY <2>2, EntryAdmin DEF PrepareNuke
  <2> QED BY <1>3, <2>1, <2>2, ChainAdmin DEF OpStep
<1>4. CASE UNCHANGED vars
  BY <1>4, SameIds, NoTask DEF vars
<1> QED BY <1>1, <1>2, <1>3, <1>4, IssuanceAdmin, LegAdmin DEF Next

-----------------------------------------------------------------------------
(* The cards.                                                              *)

\* Rows that stay keep their promises as ids are drawn and the chain moves on.
LEMMA RowsStay ==
  ASSUME LifeInv, OnlyDraws, status' = status, pending' \subseteq Drawn',
         \A c \in Card \ Drawn' : parent'[c] = parent[c],
         chain.disabled \subseteq chain'.disabled
  PROVE  CardInv'
<1> USE DEF LifeInv, CardInv
<1>1. Drawn \subseteq Card /\ Drawn' \subseteq Card
  BY DEF Drawn
<1>2. \A c \in Card : status[c] # "absent" => c \in Drawn /\ parent'[c] = parent[c]
  BY DEF DrawnFirst, OnlyDraws
<1>3. DrawnFirst'
  BY <1>1, <1>2 DEF DrawnFirst, OnlyDraws
<1>4. (FeesDiffer => RevokedIsDisabled)'
  BY <1>2 DEF FeesDiffer, RevokedIsDisabled, IsRoot
<1>5. NoOrphans'
  BY <1>2 DEF NoOrphans, IsRoot
<1> QED BY <1>3, <1>4, <1>5

\* Issuance: a new id, or the row of one.
LEMMA IssuanceCards ==
  ASSUME LifeInv, NEW t \in Task, IssuanceStep(t)
  PROVE  CardInv'
<1>0. /\ TypeOK /\ pending \subseteq Drawn /\ \A v \in Task : NonceRead(v) \subseteq Nat
  BY DEF LifeInv, CardInv, DrawnFirst, TypeOK, NonceRead, TaskState
<1>1. CASE \/ Onboard(t) \/ OnboardStores(t) \/ PrepareRoot(t) \/ IssueRoot(t)
           \/ (\E c \in Card : FinalizeRoot(t, c)) \/ FinalizeSubForDID(t)
           \/ IssuanceFails(t)
  BY <1>0, <1>1, SameIds, RowsStay
     DEF Onboard, OnboardStores, PrepareRoot, IssueRoot, FinalizeRoot, FinalizeSubForDID,
         IssuanceFails
<1>2. ASSUME NEW c \in Card,
             \/ PreparedRoot(t, c) \/ IssuedRoot(t, c)
             \/ \E p \in Card : IssueSub(t, p, c) \/ PrepareSubForDID(t, p, c)
      PROVE  CardInv'
  <2>1. /\ c \notin Drawn /\ status' = status /\ chain' = chain
        /\ pending' \subseteq pending \cup {c}
        /\ \A d \in Card \ {c} : parent'[d] = parent[d]
    BY <1>0, <1>2 DEF PreparedRoot, PrepareRootCard, IssuedRoot, IssueSub,
                      PrepareSubForDID, CompileSub, TypeOK
  <2>2. \E n \in Nat : nonce' = [nonce EXCEPT ![c] = n]
    <3>1. CASE PreparedRoot(t, c)
      BY <1>0, <3>1 DEF PreparedRoot, NonceSynced, PrepareRootCard, TypeOK
    <3>2. CASE IssuedRoot(t, c)
      BY <1>0, <3>2 DEF IssuedRoot
    <3>3. CASE \E p \in Card : IssueSub(t, p, c) \/ PrepareSubForDID(t, p, c)
      BY <3>3 DEF IssueSub, PrepareSubForDID, CompileSub
    <3> QED BY <1>2, <3>1, <3>2, <3>3
  <2>3. OnlyDraws /\ Drawn' = Drawn \cup {c}
    BY <1>0, <2>1, <2>2, DrawsOne
  <2> QED BY <1>0, <2>1, <2>3, RowsStay
<1>3. CASE Mint(t)
  <2> DEFINE c == task[t].card
  <2>1. c \in Drawn /\ c \in Card /\ status' = [status EXCEPT ![c] = "active"]
        /\ MayInsert(c) /\ UNCHANGED <<parent, nonce, chain>> /\ pending' \subseteq pending
    BY <1>3 DEF Mint, LifeInv, AdminInv, WorkIsKnown, Drawn
  <2>2. \A d \in Card : status'[d] = IF d = c THEN "active" ELSE status[d]
    BY <1>0, <2>1 DEF TypeOK
  <2> HIDE DEF c
  <2>3. DrawnFirst'
    BY <1>0, <2>1, <2>2 DEF LifeInv, CardInv, DrawnFirst, Drawn
  <2>4. (FeesDiffer => RevokedIsDisabled)'
    BY <2>1, <2>2 DEF FeesDiffer, LifeInv, CardInv, RevokedIsDisabled, IsRoot
  <2>5. NoOrphans'
    BY <1>0, <2>1, <2>2 DEF LifeInv, CardInv, NoOrphans, IsRoot, MayInsert, TypeOK
  <2> QED BY <2>3, <2>4, <2>5 DEF CardInv
<1> QED BY <1>1, <1>2, <1>3 DEF IssuanceStep

\* A subtree dies together: no row of it is a root card but the one named, and a
\* deleted card leaves no child behind.
LEMMA SubtreeCards ==
  ASSUME LifeInv, NEW c \in Card, NEW s \in {"revoked", "absent"},
         status' = SetSubtree(c, s), UNCHANGED <<parent, nonce, pending, chain>>,
         FeesDiffer /\ s = "revoked" => ~IsRoot(c) \/ c \in chain.disabled
  PROVE  CardInv'
<1> USE DEF LifeInv, CardInv
<1>1. \A d \in Card : status'[d] = IF d \in Subtree(c) THEN s ELSE status[d]
  BY DEF SetSubtree
<1>2. \A d \in Subtree(c) : d \in Card /\ d \in Line(c) /\ status[d] # "absent"
  BY LineBelow DEF Subtree
<1>3. DrawnFirst'
  BY <1>1, <1>2 DEF DrawnFirst, Drawn
<1>4. (FeesDiffer => RevokedIsDisabled)'
  BY <1>1, <1>2, RootsAreOnTop DEF FeesDiffer, RevokedIsDisabled, IsRoot
<1>5. NoOrphans'
  <2> SUFFICES ASSUME NEW d \in Card, status'[d] # "absent", parent[d] # NoCard
               PROVE  status'[parent[d]] # "absent"
    BY DEF NoOrphans, IsRoot
  <2>1. status[d] # "absent" /\ parent[d] \in Card /\ status[parent[d]] # "absent"
    BY <1>1, <1>2 DEF NoOrphans, IsRoot, TypeOK
  <2>2. parent[d] \in Subtree(c) => d \in Subtree(c)
    BY <1>2, <2>1, LineClosed, LineBelow DEF Subtree
  <2> QED BY <1>1, <2>1, <2>2
<1> QED BY <1>3, <1>4, <1>5

\* All together.
LEMMA CardsKept ==
  ASSUME LifeInv, [Next]_vars
  PROVE  CardInv'
<1>0. TypeOK /\ pending \subseteq Drawn
  BY DEF LifeInv, CardInv, DrawnFirst
<1>1. ASSUME NEW c \in Card, SwitchStep(c)
      PROVE  CardInv'
  <2>1. CASE Freeze(c) \/ Unfreeze(c)
    <3>1. /\ UNCHANGED <<parent, nonce, pending, chain>>
          /\ \A d \in Card \ {c} : status'[d] = status[d]
          /\ status[c] # "absent" /\ status'[c] \notin {"absent", "revoked"}
      BY <1>0, <2>1 DEF Freeze, Unfreeze, Unfreezable, TypeOK
    <3> QED BY <1>0, <3>1 DEF FeesDiffer, LifeInv, CardInv, DrawnFirst, Drawn,
                                RevokedIsDisabled, NoOrphans, IsRoot, TypeOK
  <2>2. CASE KillSubtree(c) \/ DeleteDeadCard(c)
    BY <2>2, SubtreeCards DEF KillSubtree, DeleteDeadCard
  <2>3. CASE Lapse(c) \/ PendingExpires(c)
    BY <1>0, <2>3, SameIds, RowsStay DEF Lapse, PendingExpires
  <2> QED BY <1>1, <2>1, <2>2, <2>3 DEF SwitchStep
<1>2. ASSUME NEW t \in Task, AdminConfirmed(t)
      PROVE  CardInv'
  <2> DEFINE o == task[t].op
  <2>1. /\ o \in Op /\ UNCHANGED <<parent, nonce, pending, chain>>
        /\ FeesDiffer => op[o].tx = "landed"
    BY <1>2 DEF AdminConfirmed, Confirmed, LifeInv, AdminInv, WorkIsKnown, MarkInv, OwnLegs
  <2>2. CASE op[o].kind = "revoke"
    <3>1. op[o].card \in Card /\ (FeesDiffer => op[o].card \in chain.disabled)
      BY <2>1, <2>2 DEF LifeInv, AdminInv, RevokesRoots, Drawn
    <3> QED BY <1>2, <2>1, <2>2, <3>1, SubtreeCards DEF AdminConfirmed
  <2>3. CASE op[o].kind # "revoke"
    <3>1. \A d \in Card : status'[d] = IF status[d] = "absent" THEN "absent" ELSE "nuked"
      BY <1>2, <2>3 DEF AdminConfirmed, SetAll
    <3> HIDE DEF o
    <3> QED BY <1>0, <2>1, <3>1 DEF FeesDiffer, LifeInv, CardInv, DrawnFirst, Drawn,
                                    RevokedIsDisabled, NoOrphans, IsRoot, TypeOK
  <2> QED BY <2>2, <2>3
<1>3. ASSUME NEW t \in Task, AdminStep(t), ~AdminConfirmed(t)
      PROVE  CardInv'
  BY <1>0, <1>3, SameIds, RowsStay
     DEF AdminStep, FinalizeAdmin, ServerAdmin, BadSignature, GoodSignature, AdminHead,
         AdminSend, AdminThrows, NukeStores
<1>4. ASSUME NEW o \in Op, OpStep(o)
      PROVE  CardInv'
  <2>1. chain.disabled \subseteq chain'.disabled
    BY <1>0, <1>4 DEF OpStep, PrepareRevoke, PrepareNuke, AdminExpires, Land,
       Revert, TypeOK
  <2> QED BY <1>0, <1>4, <2>1, SameIds, RowsStay
          DEF OpStep, PrepareRevoke, PrepareNuke, AdminExpires, Land, Revert
<1>5. CASE UNCHANGED vars \/ \E fee \in Fee : SpendLands(fee)
  BY <1>0, <1>5, SameIds, RowsStay DEF vars, SpendLands
<1> QED BY <1>1, <1>2, <1>3, <1>4, <1>5, IssuanceCards DEF Next

-----------------------------------------------------------------------------
(* The evidence.                                                           *)

\* The operations keep their fees and transactions, and a request that moves does not
\* get to the head or the confirmation, or to a signature with legs in hand.
LEMMA MovesKeepMarks ==
  ASSUME LifeInv, NEW t \in Task,
         \A u \in Task \ {t} : task'[u] = task[u],
         task'[t].at \notin {"head", "confirm"},
         task'[t].at \in {"verify", "send"} => task'[t].legs = {},
         \A o \in Op : /\ op'[o].fee = op[o].fee /\ op'[o].tx = op[o].tx
                       /\ op'[o].sends = op[o].sends
  PROVE  MarkInv'
<1> USE DEF LifeInv, MarkInv
<1>1. \A u \in Task : task[u].at \in {"head", "confirm"} => task[u].op \in Op
  BY DEF AdminInv, WorkIsKnown
<1>2. Marked'
  BY <1>1 DEF Marked
<1>3. (FeesDiffer => OwnLegs)'
  BY <1>1 DEF FeesDiffer, OwnLegs
<1> QED BY <1>2, <1>3

\* The head read: the fee is new, nothing was sent, and no leg is in sight.
LEMMA HeadMarks ==
  ASSUME LifeInv, NEW t \in Task, NEW fee \in Fee, AdminHead(t, fee)
  PROVE  MarkInv'
<1> USE DEF LifeInv, MarkInv, AdminInv
<1> DEFINE o == task[t].op
<1>1. /\ o \in Op /\ op[o].sends = 0 /\ op[o].tx = "none" /\ task[t].legs = {}
      /\ \A u \in Task \ {t} : task[u].at \in {"head", "confirm"} => task[u].op \in Op \ {o}
  BY DEF AdminHead, WorkIsKnown, OneHolder, Unsent, Marked
<1>2. /\ op'[o].fee = fee /\ op'[o].tx = op[o].tx /\ op'[o].sends = op[o].sends
      /\ \A q \in Op \ {o} : op'[q] = op[q]
  BY <1>1 DEF AdminHead, TypeOK, OpState
<1>3. /\ task'[t].at = "head" /\ task'[t].op = o /\ task'[t].legs = {}
      /\ \A u \in Task \ {t} : task'[u] = task[u]
  BY <1>1 DEF AdminHead, Goto, TypeOK, TaskState
<1>4. FeesDiffer => \A q \in Op : op[q].fee # fee
  BY DEF AdminHead, FeeIsFree, FeesDiffer
<1> HIDE DEF o
<1>5. Marked'
  BY <1>1, <1>2, <1>3 DEF Marked
<1>6. (FeesDiffer => OwnLegs)'
  BY <1>1, <1>2, <1>3, <1>4 DEF FeesDiffer, OwnLegs
<1> QED BY <1>5, <1>6

\* The send: no leg of its fee was mined before.
LEMMA SendMarks ==
  ASSUME LifeInv, NEW t \in Task, AdminSend(t)
  PROVE  MarkInv'
<1> USE DEF LifeInv, MarkInv, AdminInv
<1> DEFINE o == task[t].op
<1>1. /\ o \in Op /\ op[o].sends = 0 /\ op[o].tx = "none" /\ op[o].fee \in Fee
      /\ task[t].op = o
      /\ \A u \in Task \ {t} : task[u].at \in {"head", "confirm"} => task[u].op \in Op \ {o}
  BY DEF AdminSend, WorkIsKnown, OneHolder, Unsent, Marked
<1>2. /\ op'[o].fee = op[o].fee /\ op'[o].tx = "posted" /\ op'[o].sends = 1
      /\ \A q \in Op \ {o} : op'[q] = op[q]
  BY <1>1 DEF AdminSend, TypeOK, OpState
<1>3. /\ task'[t].at = "confirm" /\ task'[t].op = o /\ task'[t].legs = task[t].legs
      /\ task[t].at = "head" /\ \A u \in Task \ {t} : task'[u] = task[u]
  BY <1>1 DEF AdminSend, Goto, TypeOK, TaskState
<1> HIDE DEF o
<1>5. Marked'
  BY <1>1, <1>2, <1>3 DEF Marked
<1>6. (FeesDiffer => OwnLegs)'
  BY <1>1, <1>2, <1>3 DEF FeesDiffer, OwnLegs
<1> QED BY <1>5, <1>6

\* A leg is mined: of a spend, or of the operation that has landed by it.
LEMMA LegMarks ==
  ASSUME LifeInv, NEW fee \in Fee, LegMined(fee),
         \A q \in Op : /\ op'[q].fee = op[q].fee /\ op'[q].sends = op[q].sends
                       /\ op[q].tx = "landed" => op'[q].tx = "landed"
                       /\ op'[q].tx # "none" => op[q].tx # "none",
         FeesDiffer => \A q \in Op : op[q].fee = fee => op'[q].tx = "landed"
  PROVE  MarkInv'
<1> USE DEF LifeInv, MarkInv
<1>1. \A u \in Task :
         /\ task'[u].at = task[u].at /\ task'[u].op = task[u].op
         /\ task'[u].legs = IF task[u].at \in {"head", "confirm"}
                            THEN task[u].legs \cup {fee} ELSE task[u].legs
  BY LegTask
<1>2. \A u \in Task : task[u].at \in {"head", "confirm"} => task[u].op \in Op
  BY DEF AdminInv, WorkIsKnown
<1>3. Marked'
  <2>1. \A q \in Op : op'[q].sends = 0 => op'[q].tx = "none"
    BY DEF Marked
  <2>2. \A q \in Op : op'[q].tx # "none" => op'[q].fee \in Fee
    BY DEF Marked
  <2>3. ASSUME NEW u \in Task, task'[u].at \in {"head", "confirm"}
        PROVE  /\ op'[task'[u].op].fee \in Fee
               /\ task'[u].at = "confirm" => op'[task'[u].op].sends # 0
    <3>1. task[u].at = task'[u].at /\ task'[u].op = task[u].op /\ task[u].op \in Op
      BY <1>1, <1>2, <2>3
    <3> QED BY <2>3, <3>1 DEF Marked
  <2>4. ASSUME NEW u \in Task, task'[u].at \in {"verify", "send"}
        PROVE  task'[u].legs = {}
    BY <1>1, <2>4 DEF Marked
  <2> QED BY <2>1, <2>2, <2>3, <2>4 DEF Marked
<1>4. (FeesDiffer => OwnLegs)'
  BY <1>1, <1>2 DEF FeesDiffer, OwnLegs
<1> QED BY <1>3, <1>4

\* All together.
LEMMA MarksKept ==
  ASSUME LifeInv, [Next]_vars
  PROVE  MarkInv'
<1> USE DEF LifeInv
<1>0. TypeOK /\ MarkInv
  OBVIOUS
<1>1. ASSUME NEW t \in Task, IssuanceStep(t)
      PROVE  MarkInv'
  <2>1. /\ \A u \in Task \ {t} : task'[u] = task[u]
        /\ task'[t].at \notin {"verify", "send", "head", "confirm"}
    <3>1. CASE Finish(t)
      BY <3>1 DEF Finish, Idle, TypeOK
    <3>2. ASSUME NEW at \in {"onboard", "sync", "issue", "mint", "keys"},
                 NEW c, NEW o, Park(t, at, c, o)
          PROVE  <2>1!1 /\ <2>1!2
      BY <3>2 DEF Park, TypeOK
    <3>3. CASE Goto(t, "mint")
      BY <3>3 DEF Goto, TypeOK, TaskState
    <3>4. ASSUME NEW c \in Card, IssuedRoot(t, c)
          PROVE  <2>1!1 /\ <2>1!2
      BY <3>4 DEF IssuedRoot, TypeOK, TaskState
    <3> QED BY <1>1, <3>1, <3>2, <3>3, <3>4
            DEF IssuanceStep, Onboard, OnboardStores, PrepareRoot, IssueRoot, PreparedRoot,
                FinalizeRoot, IssueSub, PrepareSubForDID, FinalizeSubForDID, Mint,
                IssuanceFails
  <2>2. op' = op
    BY <1>1 DEF IssuanceStep, Onboard, OnboardStores, PrepareRoot, IssueRoot, PreparedRoot,
                FinalizeRoot, IssuedRoot, IssueSub, PrepareSubForDID, FinalizeSubForDID,
                Mint, IssuanceFails
  <2> QED BY <2>1, <2>2, MovesKeepMarks
<1>2. ASSUME NEW t \in Task, NEW o \in Op, NEW k \in {"revoke", "nuke"},
             NEW c \in Card \cup {NoCard}, ServerAdmin(t, o, k, c)
      PROVE  MarkInv'
  <2>1. /\ \A u \in Task \ {t} : task'[u] = task[u]
        /\ task'[t].at = "send" /\ task'[t].legs = {}
    BY <1>2 DEF ServerAdmin, Park, TypeOK
  <2>2. \A q \in Op : /\ op'[q].fee = op[q].fee /\ op'[q].tx = op[q].tx
                      /\ op'[q].sends = op[q].sends
    BY <1>2 DEF ServerAdmin, Entry, NoneYet, TypeOK
  <2> QED BY <2>1, <2>2, MovesKeepMarks
<1>3. ASSUME NEW t \in Task, NEW o \in Op, FinalizeAdmin(t, o)
      PROVE  MarkInv'
  <2>1. /\ \A u \in Task \ {t} : task'[u] = task[u]
        /\ task'[t].at = "verify" /\ task'[t].legs = {}
    BY <1>3 DEF FinalizeAdmin, Park, TypeOK
  <2>2. \A q \in Op : /\ op'[q].fee = op[q].fee /\ op'[q].tx = op[q].tx
                      /\ op'[q].sends = op[q].sends
    BY <1>3 DEF FinalizeAdmin, TypeOK, OpState
  <2> QED BY <2>1, <2>2, MovesKeepMarks
<1>4. ASSUME NEW t \in Task,
             \/ BadSignature(t) \/ GoodSignature(t) \/ AdminThrows(t)
             \/ AdminConfirmed(t) \/ NukeStores(t)
      PROVE  MarkInv'
  <2>1. /\ \A u \in Task \ {t} : task'[u] = task[u]
        /\ task'[t].at \in {"idle", "send", "reread"}
        /\ task'[t].at = "send" => task'[t].legs = {}
    <3>1. CASE Finish(t)
      BY <3>1 DEF Finish, Idle, TypeOK
    <3>2. CASE GoodSignature(t) /\ Goto(t, "send")
      BY <3>2 DEF Goto, GoodSignature, TypeOK, TaskState, MarkInv, Marked
    <3>3. CASE Park(t, "reread", NoCard, task[t].op)
      BY <3>3 DEF Park, TypeOK
    <3> QED BY <1>4, <3>1, <3>2, <3>3
            DEF BadSignature, GoodSignature, AdminThrows, AdminConfirmed, NukeStores
  <2>2. \A q \in Op : /\ op'[q].fee = op[q].fee /\ op'[q].tx = op[q].tx
                      /\ op'[q].sends = op[q].sends
    BY <1>4 DEF BadSignature, GoodSignature, AdminThrows, AdminConfirmed, NukeStores,
                Unclaimed, Consumed, TypeOK, OpState
  <2> QED BY <2>1, <2>2, MovesKeepMarks
<1>5. ASSUME NEW o \in Op, OpStep(o)
      PROVE  MarkInv'
  <2>1. ASSUME Land(o)
        PROVE  MarkInv'
    <3>1. op[o].fee \in Fee /\ op[o].tx = "posted" /\ LegMined(op[o].fee)
      BY <2>1 DEF Land, MarkInv, Marked
    <3>2. /\ op'[o].fee = op[o].fee /\ op'[o].sends = op[o].sends
          /\ op'[o].tx = "landed" /\ \A q \in Op \ {o} : op'[q] = op[q]
      BY <2>1 DEF Land, TypeOK, OpState
    <3>3. FeesDiffer => \A q \in Op : op[q].fee = op[o].fee => q = o
      BY <3>1 DEF MarkInv, OwnLegs
    <3> QED BY <3>1, <3>2, <3>3, LegMarks
  <2>2. ASSUME Revert(o)
        PROVE  MarkInv'
    <3>1. /\ task' = task /\ op[o].tx = "posted" /\ op'[o].tx = "failed"
          /\ op'[o].fee = op[o].fee /\ op'[o].sends = op[o].sends
          /\ \A q \in Op \ {o} : op'[q] = op[q]
      BY <2>2 DEF Revert, TypeOK, OpState
    <3>2. \A u \in Task : task[u].at \in {"head", "confirm"} => task[u].op \in Op
      BY DEF AdminInv, WorkIsKnown
    <3>3. Marked'
      BY <3>1, <3>2 DEF MarkInv, Marked
    <3>4. (FeesDiffer => OwnLegs)'
      BY <3>1, <3>2 DEF MarkInv, FeesDiffer, OwnLegs
    <3> QED BY <3>3, <3>4 DEF MarkInv
  <2>3. ASSUME ~Land(o), ~Revert(o)
        PROVE  MarkInv'
    <3>1. task' = task
      BY <1>5, <2>3 DEF OpStep, PrepareRevoke, PrepareNuke, AdminExpires
    <3>2. \A q \in Op : /\ op'[q].fee = op[q].fee /\ op'[q].tx = op[q].tx
                        /\ op'[q].sends = op[q].sends
      <4>1. CASE PrepareNuke(o) \/ \E c \in Card : PrepareRevoke(o, c)
        <5>1. PICK k \in {"revoke", "nuke"}, c \in Card \cup {NoCard} :
                 op[o] = NoneYet /\ op' = [op EXCEPT ![o] = Entry(k, c, TRUE)]
          BY <4>1 DEF PrepareNuke, PrepareRevoke
        <5>2. /\ Entry(k, c, TRUE).fee = NoneYet.fee /\ Entry(k, c, TRUE).tx = NoneYet.tx
              /\ Entry(k, c, TRUE).sends = NoneYet.sends
          BY DEF Entry, NoneYet
        <5> QED BY <5>1, <5>2 DEF TypeOK
      <4>2. CASE AdminExpires(o)
        BY <4>2 DEF AdminExpires, TypeOK, OpState
      <4> QED BY <1>5, <2>3, <4>1, <4>2 DEF OpStep
    <3>3. \A u \in Task : task[u].at \in {"head", "confirm"} => task[u].op \in Op
      BY DEF AdminInv, WorkIsKnown
    <3>4. Marked'
      BY <3>1, <3>2, <3>3 DEF MarkInv, Marked
    <3>5. (FeesDiffer => OwnLegs)'
      BY <3>1, <3>2, <3>3 DEF MarkInv, FeesDiffer, OwnLegs
    <3> QED BY <3>4, <3>5 DEF MarkInv
  <2> QED BY <2>1, <2>2, <2>3
<1>6. ASSUME NEW fee \in Fee, SpendLands(fee)
      PROVE  MarkInv'
  <2>1. LegMined(fee) /\ op' = op /\ (FeesDiffer => \A q \in Op : op[q].fee # fee)
    BY <1>6 DEF SpendLands, FeeIsFree, FeesDiffer
  <2> QED BY <2>1, LegMarks
<1>7. CASE op' = op /\ task' = task
  BY <1>0, <1>7 DEF MarkInv, Marked, FeesDiffer, OwnLegs
<1> QED BY <1>1, <1>2, <1>3, <1>4, <1>5, <1>6, <1>7, HeadMarks, SendMarks, LifecycleAssumption
        DEF Next, AdminStep, SwitchStep, Freeze, Unfreeze, KillSubtree, DeleteDeadCard,
            Lapse, PendingExpires, vars, LifecycleAssumption

-----------------------------------------------------------------------------
(* The nonce.                                                              *)

\* No step binds a card to a nonce from the future: a prepared card takes what was read
\* since its request began, or a stored nonce that only a failed read after a nuke
\* could have put ahead.
LEMMA NonceKept ==
  ASSUME LifeInv, NonceInv, [Next]_vars, 
         ~({"prepare", "reread"} \subseteq Faults)
  PROVE  NonceInv'
<1>0. /\ TypeOK /\ TypeOK' /\ ("prepare" \in Faults => stored <= chain.nonce)
      /\ \A c \in Card : nonce[c] # NoNonce => nonce[c] <= chain.nonce
      /\ \A t \in Task : task[t].seen <= chain.nonce
  BY TypeStep DEF NonceInv, NukeReachesAll, Drawn
<1>1. /\ chain.nonce \in Nat /\ chain'.nonce \in Nat /\ chain.nonce <= chain'.nonce
      /\ stored \in Nat /\ stored' \in Nat
  <2>1. chain.nonce \in Nat /\ chain'.nonce \in Nat /\ stored \in Nat /\ stored' \in Nat
    BY <1>0 DEF TypeOK
  <2>2. ASSUME NEW o \in Op, Land(o)
        PROVE  chain.nonce <= chain'.nonce
    BY <1>0, <2>1, <2>2 DEF Land, TypeOK
  <2>3. CASE chain' = chain
    BY <2>1, <2>3
  <2> QED BY <2>1, <2>2, <2>3
          DEF Next, IssuanceStep, AdminStep, SwitchStep, OpStep, Onboard, OnboardStores,
              PrepareRoot, IssueRoot, PreparedRoot, FinalizeRoot, IssuedRoot, IssueSub,
              PrepareSubForDID, FinalizeSubForDID, Mint, IssuanceFails, FinalizeAdmin,
              ServerAdmin, BadSignature, GoodSignature, AdminHead, AdminSend, AdminThrows,
              AdminConfirmed, NukeStores, Freeze, Unfreeze, KillSubtree, DeleteDeadCard,
              Lapse, PendingExpires, PrepareRevoke, PrepareNuke, AdminExpires, Revert,
              SpendLands, vars
<1>2. \A t \in Task :
         task[t].seen \in Nat /\ \A n \in NonceRead(t) : n \in Nat /\ n <= chain.nonce
  BY <1>0, <1>1 DEF NonceRead, TypeOK, TaskState
<1>3. ASSUME NEW t \in Task, IssuanceStep(t) \/ AdminStep(t)
      PROVE  /\ "prepare" \in Faults => stored' <= chain.nonce
             /\ \A c \in Card : nonce'[c] # NoNonce => nonce'[c] <= chain.nonce
             /\ \A u \in Task : task'[u].seen <= chain.nonce
  <2>1. "prepare" \in Faults => stored' <= chain.nonce
    <3>1. CASE OnboardStores(t)
      BY <1>1, <1>2, <3>1 DEF OnboardStores
    <3>2. CASE NukeStores(t)
      BY <1>2, <3>2 DEF NukeStores, NonceAfterNuke
    <3>3. CASE \E c \in Card : PreparedRoot(t, c)
      BY <1>0, <1>2, <3>3 DEF PreparedRoot, NonceSynced
    <3>4. CASE stored' = stored
      BY <1>0, <3>4
    <3> QED BY <1>3, <3>1, <3>2, <3>3, <3>4
            DEF IssuanceStep, AdminStep, Onboard, PrepareRoot, IssueRoot, FinalizeRoot,
                IssuedRoot, IssueSub, PrepareSubForDID, FinalizeSubForDID, Mint,
                IssuanceFails, FinalizeAdmin, ServerAdmin, BadSignature, GoodSignature,
                AdminHead, AdminSend, AdminThrows, AdminConfirmed
  <2>2. \/ nonce' = nonce
        \/ \E c \in Card, n \in Nat : nonce' = [nonce EXCEPT ![c] = n] /\ n <= chain.nonce
    <3>1. ASSUME NEW c \in Card, PreparedRoot(t, c)
          PROVE  nonce' = [nonce EXCEPT ![c] = stored'] /\ stored' <= chain.nonce
      BY <1>2, <2>1, <3>1 DEF PreparedRoot, NonceSynced, PrepareRootCard
    <3>2. ASSUME NEW c \in Card, IssuedRoot(t, c)
          PROVE  \E n \in Nat : nonce' = [nonce EXCEPT ![c] = n] /\ n <= chain.nonce
      BY <1>2, <3>2 DEF IssuedRoot
    <3>3. ASSUME NEW p \in Card, NEW c \in Card, IssueSub(t, p, c) \/ PrepareSubForDID(t, p, c)
          PROVE  nonce' = [nonce EXCEPT ![c] = 0] /\ 0 <= chain.nonce
      BY <1>1, <3>3 DEF IssueSub, PrepareSubForDID, CompileSub
    <3> QED BY <1>1, <1>3, <2>1, <3>1, <3>2, <3>3
            DEF IssuanceStep, AdminStep, Onboard, OnboardStores, PrepareRoot, IssueRoot,
                FinalizeRoot, FinalizeSubForDID, Mint, IssuanceFails, FinalizeAdmin,
                ServerAdmin, BadSignature, GoodSignature, AdminHead, AdminSend, AdminThrows,
                AdminConfirmed, NukeStores
  <2>3. /\ \A u \in Task \ {t} : task'[u] = task[u]
        /\ task'[t].seen \in {0, chain.nonce, task[t].seen}
    <3>1. CASE Finish(t)
      BY <1>0, <3>1 DEF Finish, Idle, TypeOK
    <3>2. ASSUME NEW at, Goto(t, at)
          PROVE  <2>3!1 /\ <2>3!2
      BY <1>0, <3>2 DEF Goto, TypeOK, TaskState
    <3>3. ASSUME NEW at, NEW c, NEW o, Park(t, at, c, o)
          PROVE  <2>3!1 /\ <2>3!2
      BY <1>0, <3>3 DEF Park, TypeOK
    <3>4. ASSUME NEW c \in Card, IssuedRoot(t, c)
          PROVE  <2>3!1 /\ <2>3!2
      BY <1>0, <3>4 DEF IssuedRoot, TypeOK, TaskState
    <3> QED BY <1>3, <3>1, <3>2, <3>3, <3>4
            DEF IssuanceStep, AdminStep, Onboard, OnboardStores, PrepareRoot, IssueRoot,
                PreparedRoot, FinalizeRoot, IssueSub, PrepareSubForDID, FinalizeSubForDID,
                Mint, IssuanceFails, FinalizeAdmin, ServerAdmin, BadSignature,
                GoodSignature, AdminHead, AdminSend, AdminThrows, AdminConfirmed, NukeStores
  <2>4. \A c \in Card : nonce'[c] # NoNonce => nonce'[c] <= chain.nonce
    BY <1>0, <2>2 DEF TypeOK
  <2>5. \A u \in Task : task'[u].seen <= chain.nonce
    BY <1>0, <1>1, <1>2, <2>3
  <2> QED BY <2>1, <2>4, <2>5
<1>4. CASE UNCHANGED <<nonce, stored>> /\ \A u \in Task : task'[u].seen = task[u].seen
  BY <1>0, <1>1, <1>2, <1>4, LifecycleAssumption
     DEF NonceInv, NukeReachesAll, Drawn, TypeOK, LifecycleAssumption
<1>5. ASSUME NEW t \in Task, IssuanceStep(t) \/ AdminStep(t)
      PROVE  NonceInv'
  <2>1. chain' = chain
    BY <1>5
       DEF IssuanceStep, AdminStep, Onboard, OnboardStores, PrepareRoot, IssueRoot,
           PreparedRoot, FinalizeRoot, IssuedRoot, IssueSub, PrepareSubForDID,
           FinalizeSubForDID, Mint, IssuanceFails, FinalizeAdmin, ServerAdmin, BadSignature,
           GoodSignature, AdminHead, AdminSend, AdminThrows, AdminConfirmed, NukeStores
  <2> QED BY <1>0, <1>3, <1>5, <2>1 DEF NonceInv, NukeReachesAll, Drawn
<1>6. ASSUME NEW o \in Op, Land(o)
      PROVE  NonceInv'
  BY <1>0, <1>4, <1>6, LegTask DEF Land, LifeInv, MarkInv, Marked
<1>7. ASSUME NEW fee \in Fee, SpendLands(fee)
      PROVE  NonceInv'
  BY <1>0, <1>4, <1>7, LegTask DEF SpendLands
<1> QED BY <1>4, <1>5, <1>6, <1>7
        DEF Next, SwitchStep, OpStep, Freeze, Unfreeze, KillSubtree, DeleteDeadCard, Lapse,
            PendingExpires, PrepareRevoke, PrepareNuke, AdminExpires, Revert, vars

-----------------------------------------------------------------------------
(* The rows a step may change, and how.                                    *)

\* One row becomes spendable or frozen that was not dead; a subtree dies or, when
\* nothing in it is live, is deleted; everything is nuked.
LEMMA StatusMoves ==
  ASSUME LifeInv, [Next]_vars
  PROVE  \/ status' = status
         \/ \E c \in Card, s \in {"active", "frozen"} :
               /\ status[c] \in {"absent", "active", "frozen"}
               /\ status' = [status EXCEPT ![c] = s]
         \/ \E c \in Card : status' = SetSubtree(c, "revoked")
         \/ \E c \in Card : Deletable(c) /\ status' = SetSubtree(c, "absent")
         \/ status' = SetAll("nuked")
<1> DEFINE P == \/ status' = status
                \/ \E c \in Card, s \in {"active", "frozen"} :
                      /\ status[c] \in {"absent", "active", "frozen"}
                      /\ status' = [status EXCEPT ![c] = s]
                \/ \E c \in Card : status' = SetSubtree(c, "revoked")
                \/ \E c \in Card : Deletable(c) /\ status' = SetSubtree(c, "absent")
                \/ status' = SetAll("nuked")
<1>1. ASSUME NEW c \in Card, SwitchStep(c)
      PROVE  P
  BY <1>1 DEF SwitchStep, Freeze, Unfreeze, Unfreezable, KillSubtree,
     DeleteDeadCard, Lapse,
              PendingExpires
<1>2. ASSUME NEW t \in Task, Mint(t)
      PROVE  P
  BY <1>2 DEF Mint, MayInsert, LifeInv, AdminInv, WorkIsKnown, Drawn
<1>3. ASSUME NEW t \in Task, AdminConfirmed(t)
      PROVE  P
  BY <1>3 DEF AdminConfirmed, LifeInv, AdminInv, WorkIsKnown, RevokesRoots, Drawn
<1>4. ASSUME NEW t \in Task, IssuanceStep(t), ~Mint(t)
      PROVE  P
  BY <1>4 DEF IssuanceStep, Onboard, OnboardStores, PrepareRoot, IssueRoot,
     PreparedRoot,
              FinalizeRoot, IssuedRoot, IssueSub, PrepareSubForDID, FinalizeSubForDID,
              IssuanceFails
<1>5. ASSUME NEW t \in Task, AdminStep(t), ~AdminConfirmed(t)
      PROVE  P
  BY <1>5 DEF AdminStep, FinalizeAdmin, ServerAdmin, BadSignature, GoodSignature,
              AdminHead, AdminSend, AdminThrows, NukeStores
<1>6. ASSUME NEW o \in Op, OpStep(o)
      PROVE  P
  BY <1>6 DEF OpStep, PrepareRevoke, PrepareNuke, AdminExpires, Land, Revert
<1> QED BY <1>1, <1>2, <1>3, <1>4, <1>5, <1>6 DEF Next, SpendLands, vars

-----------------------------------------------------------------------------
(* The theorems.                                                           *)

\* The inductive invariant of the lifecycle holds in every reachable state.
THEOREM LifecycleHolds == Spec => []LifeInv
<1>1. LifeInv /\ [Next]_vars => LifeInv'
  BY TypeStep, AdminKept, CardsKept, MarksKept DEF LifeInv
<1> QED BY InitLife, <1>1, PTL DEF Spec

\* The variables of the lifecycle have their types (ops.ts, issuance.ts, store.ts).
THEOREM TypeCorrect == Spec => []TypeOK
BY LifecycleHolds, PTL DEF LifeInv

\* A prepared operation is sent to the relayer at most once, however many finalize
\* requests carry it and however its entry expires meanwhile (ops.ts, pendingAdmin).
THEOREM OneSignatureOneSend == Spec => []SentOnce
BY LifecycleHolds, PTL DEF LifeInv, AdminInv

\* No claim on a prepared operation outlives the request that made it (ops.ts,
\* inProgress).
THEOREM ClaimsAreHeld == Spec => []ClaimIsHeld
BY LifecycleHolds, PTL DEF LifeInv, AdminInv

\* Where no two redemptions of the user pay the same fee, a root card the store calls
\* revoked is disabled on chain, although the revocation is told from a fee leg in the
\* log and spends are mined beside it (spend.ts, waitForConfirmation; ops.ts, revoke).
THEOREM RevokedOnChain ==
  ASSUME "feeClash" \notin Faults
  PROVE  Spec => []RevokedIsDisabled
<1>1. LifeInv => RevokedIsDisabled
  BY DEF LifeInv, CardInv, FeesDiffer
<1> QED BY LifecycleHolds, <1>1, PTL

\* Issuance and deletion that overlap leave no row without its parent's row
\* (store.ts, the foreign key; ops.ts, deleteDeadCard).
THEOREM RowsHaveParents == Spec => []NoOrphans
BY LifecycleHolds, PTL DEF LifeInv, CardInv

\* Unless the read after a nuke and the one of a prepared card may both fail, no card
\* carries a nonce the chain has not reached, so the next nuke reaches it: the stored
\* nonce may run ahead, and the cards do not follow it (ops.ts, nuke; issuance.ts).
THEOREM NoNonceFromTheFuture ==
  ASSUME ~({"prepare", "reread"} \subseteq Faults)
  PROVE  Spec => []NukeReachesAll
<1>1. LifeInv /\ NonceInv /\ [Next]_vars => NonceInv'
  BY NonceKept
<1>2. NonceInv => NukeReachesAll
  BY DEF NonceInv
<1> QED BY InitLife, LifecycleHolds, <1>1, <1>2, PTL DEF Spec

\* No late step of a request makes a revoked or nuked card spendable again
\* (ops.ts; store.ts, updateCardStatus).
THEOREM DeadForGood == Spec => DeadStaysDead
<1>1. ASSUME LifeInv, [Next]_vars, NEW c \in Card, status[c] \in Dead
      PROVE  status'[c] \in Dead \cup {"absent"}
  BY <1>1, StatusMoves DEF Dead, SetSubtree, SetAll, LifeInv, TypeOK
<1>2. LifeInv /\ [Next]_vars
        => [\A c \in Card : status[c] \in Dead => status'[c] \in Dead \cup {"absent"}]_vars
  BY <1>1
<1> QED BY LifecycleHolds, <1>2, PTL DEF Spec, DeadStaysDead

\* A card that can still spend is not deleted, not even as a late sub-card of a dead
\* one (ops.ts, deleteDeadCard).
THEOREM LiveCardsStay == Spec => LiveIsNotDeleted
<1>1. ASSUME LifeInv, [Next]_vars, NEW c \in Card, IsLive(c)
      PROVE  status'[c] # "absent"
  <2>1. status[c] \in {"active", "frozen"}
    BY <1>1 DEF LifeInv, TypeOK, Status, IsLive, Dead
  <2>2. ASSUME NEW d \in Card, Deletable(d), status' = SetSubtree(d, "absent")
        PROVE  status'[c] # "absent"
    BY <1>1, <2>1, <2>2 DEF Deletable, SetSubtree
  <2> QED BY <1>1, <2>1, <2>2, StatusMoves DEF SetSubtree, SetAll, LifeInv, TypeOK
<1>2. LifeInv /\ [Next]_vars
        => [\A c \in Card : IsLive(c) => status'[c] # "absent"]_vars
  BY <1>1
<1> QED BY LifecycleHolds, <1>2, PTL DEF Spec, LiveIsNotDeleted

=============================================================================
