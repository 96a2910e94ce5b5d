-------------------------------- MODULE Deck --------------------------------
(***************************************************************************)
(* The dashboard of a signed-in owner: the card on top (the hero), what is *)
(* shown about it, and the verbs that act on it (Dashboard in page.tsx,    *)
(* Dossier, Verbs, RevokeButton, DeleteButton, NukeModal, DangerModal).    *)
(* The screen lives on answers that arrive late, out of order or not at    *)
(* all, while other tabs and the chain change the cards.                   *)
(*                                                                         *)
(* Root cards only, in the order of their creation.  A change of state and *)
(* the commit of its render are one step; the effects that watch the hero  *)
(* run some time after it (Effects).  Texts of errors are left out, and    *)
(* the admin operations behind a finalize are those of CardLifecycle.      *)
(***************************************************************************)
EXTENDS Naturals, FiniteSets

CONSTANTS
    Card,        \* an interval of Nat: the server lists them in this order
    None,
    Requests,    \* bound: tree requests in flight, numbered
    MaxFlights,  \* bound: other requests in flight
    MaxEvents    \* bound: changes of the server's state

DeckAssumption ==
    /\ Card \subseteq Nat /\ None \notin Card
    /\ {MaxFlights, MaxEvents} \cup Requests \subseteq Nat

ASSUME DeckAssumption

VARIABLES
    status,    \* the server's cards; "none" before they are issued
    events,    \* counts what MaxEvents bounds
    tree,      \* the cards as last drawn
    sel,       \* selId
    seen,      \* heroRef: the hero whose effects ran last
    asks,      \* GET /tree in flight
    feed,      \* whose activity is drawn
    loads,     \* cards whose details are in flight
    connect,   \* the credential overlay: connectOpen, and the card of connectUrl
    reveal,    \* GET /cards/:id/url in flight
    rotation,  \* POST /cards/:id/rotate in flight
    verb,      \* freeze or unfreeze in flight, then the refresh it awaits
    modal,     \* the destructive-action modal on the screen
    op         \* revoke, delete or nuke in flight

server == <<status, events>>
overlay == <<connect, reveal, rotation>>
danger == <<modal, op>>
vars == <<server, tree, sel, seen, asks, feed, loads, overlay, verb, danger>>

Status == {"none", "active", "frozen", "dead", "gone"}
Optional(S) == {None} \cup S

NoAsk == [at |-> "idle", tree |-> [c \in Card |-> "none"]]
Hidden == [open |-> FALSE, url |-> None]
NoVerb == [kind |-> "none", card |-> None, at |-> "idle", slot |-> None]
NoModal == [kind |-> "none", phase |-> "confirm", card |-> None]
NoOp == [kind |-> "none", card |-> None, at |-> "idle", mine |-> FALSE]

DeckTypeOK ==
    /\ status \in [Card -> Status] /\ events \in 0 .. MaxEvents
    /\ tree \in [Card -> Status \ {"gone"}] /\ {sel, seen} \subseteq Optional(Card)
    /\ \A i \in Requests : asks[i].at \in {"idle", "asked", "read"}
    /\ feed \in Optional(Card) /\ loads \subseteq Card
    /\ connect.open \in BOOLEAN /\ connect.url \in Optional(Card)
    /\ {reveal, rotation} \subseteq Optional(Card)
    /\ verb.at \in {"idle", "asked", "served", "refreshing"}
    /\ modal.phase \in {"confirm", "busy", "done", "error"}
    /\ op.at \in {"idle", "asked", "prepared", "served"}

Live(s) == s \in {"active", "frozen"}

\* What GET /tree answers: a deleted card has no row.
View == [c \in Card |-> IF status[c] = "gone" THEN "none" ELSE status[c]]

Least(S) == IF S = {} THEN None ELSE CHOOSE c \in S : \A b \in S : c <= b
Shown(t) == {c \in Card : t[c] # "none"}

\* The selection, else the first live card, else the first.
HeroOf(t, s) ==
    IF s # None /\ s \in Shown(t) THEN s
    ELSE IF \E c \in Card : Live(t[c]) THEN Least({c \in Card : Live(t[c])})
    ELSE Least(Shown(t))

Hero == HeroOf(tree, sel)

\* Cards are numbered as they are issued.
InOrder(c) == status[c] # "none" => \A b \in Card : b < c => status[b] # "none"

Init ==
    /\ status \in [Card -> {"none", "active"}] /\ \A c \in Card : InOrder(c)
    /\ events = 0
    /\ tree = [c \in Card |-> "none"] /\ sel = None /\ seen = None
    /\ asks = [i \in Requests |-> NoAsk]
    /\ feed = None /\ loads = {}
    /\ connect = Hidden /\ reveal = None /\ rotation = None
    /\ verb = NoVerb /\ modal = NoModal /\ op = NoOp

-----------------------------------------------------------------------------
(* The server, and whoever else changes it.                                *)

Counts == events < MaxEvents /\ events' = events + 1

Becomes(c, s) ==
    \/ status[c] = "none" /\ s = "active"
    \/ status[c] = "active" /\ s \in {"frozen", "dead"}
    \/ status[c] = "frozen" /\ s \in {"active", "dead"}
    \/ status[c] = "dead" /\ s = "gone"

\* Another tab, an agent, an expiry.
Elsewhere(c, s) ==
    /\ Counts /\ Becomes(c, s)
    /\ status' = [status EXCEPT ![c] = s]
    /\ InOrder(c)'
    /\ UNCHANGED <<tree, sel, seen, asks, feed, loads, overlay, verb, danger>>

-----------------------------------------------------------------------------
(* Redrawing.  The delete button, with its modal, exists for a dead hero   *)
(* only, and a commit takes it away.  A new hero drops what was shown of   *)
(* the old one when its effects run: until then the screen shows the old   *)
(* one's under the new one's name.                                         *)

\* The effects of the Dossier and the Dashboard, if the last commit has a new hero.
RunEffects ==
    /\ seen' = Hero
    /\ feed' = IF seen = Hero THEN feed ELSE None
    /\ connect' = IF seen = Hero THEN connect ELSE Hidden

\* Draws tree t under selection s, with modal m and operation o.  React runs the effects
\* of one commit before it renders the next, if they have not run by then.
Draws(t, s, m, o) ==
    LET h == HeroOf(t, s)
        unmounts == \/ m.kind = "revoke" /\ h = None
                    \/ m.kind = "delete" /\ (h = None \/ Live(t[h]))
    IN  /\ RunEffects
        /\ tree' = t /\ sel' = s
        /\ modal' = IF unmounts THEN NoModal ELSE m
        /\ op' = IF unmounts THEN [o EXCEPT !.mine = FALSE] ELSE o

\* They have not waited for that.
Effects ==
    /\ seen # Hero
    /\ RunEffects
    /\ UNCHANGED <<server, tree, sel, asks, loads, reveal, rotation, verb, danger>>

\* Nothing covers the deck.  A click on it counts as after the effects: its own update
\* runs them first, and it reads nothing that they change.
Uncovered == modal = NoModal /\ ~connect.open /\ seen = Hero

\* goTo, from the carousel.
Select(c) ==
    /\ Uncovered
    /\ c \in Shown(tree) \ {Hero}
    /\ Draws(tree, c, modal, op)
    /\ UNCHANGED <<server, asks, loads, reveal, rotation, verb>>

-----------------------------------------------------------------------------
(* The tree, polled every three seconds and after every verb.              *)

Free(i) == asks[i] = NoAsk /\ \A j \in Requests : asks[j] = NoAsk => i <= j

Poll(i) ==
    /\ Free(i)
    /\ asks' = [asks EXCEPT ![i].at = "asked"]
    /\ UNCHANGED <<server, tree, sel, seen, feed, loads, overlay, verb, danger>>

TreeReads(i) ==
    /\ asks[i].at = "asked"
    /\ asks' = [asks EXCEPT ![i] = [at |-> "read", tree |-> View]]
    /\ UNCHANGED <<server, tree, sel, seen, feed, loads, overlay, verb, danger>>

\* Mutant: what marks a request in flight is not cleared.
MutEnds(i) ==
    /\ asks' = [asks EXCEPT ![i].at = "stuck"]
    /\ verb' = verb

\* act() is busy until its refresh has ended, well or badly.
Ends(i) ==
    /\ asks' = [asks EXCEPT ![i] = NoAsk]
    /\ verb' = IF verb.slot = i THEN NoVerb ELSE verb

TreeLands(i) ==
    /\ asks[i].at = "read"
    /\ Ends(i)
    /\ Draws(asks[i].tree, sel, modal, op)
    /\ UNCHANGED <<server, loads, reveal, rotation>>

TreeFails(i) ==
    /\ asks[i] # NoAsk
    /\ Ends(i)
    /\ UNCHANGED <<server, tree, sel, seen, feed, loads, overlay, danger>>

-----------------------------------------------------------------------------

Flights ==
    Cardinality(loads) +
    Cardinality({r \in {<<1, reveal>>, <<2, rotation>>, <<3, verb.card>>} : r[2] # None}) +
    (IF op = NoOp THEN 0 ELSE 1)

MayFly == Flights < MaxFlights

-----------------------------------------------------------------------------
(* The hero's details.                                                     *)

\* The interval of the last effect.
Load ==
    /\ MayFly /\ seen # None
    /\ loads' = loads \cup {seen}
    /\ UNCHANGED <<server, tree, sel, seen, asks, feed, overlay, verb, danger>>

\* The flag the cleanup of the effect clears, and not the change of the hero.
LoadIsLive(c) == c = seen

Loaded(c) ==
    /\ c \in loads
    /\ loads' = loads \ {c}
    /\ feed' = IF LoadIsLive(c) THEN c ELSE feed
    /\ UNCHANGED <<server, tree, sel, seen, asks, overlay, verb, danger>>

-----------------------------------------------------------------------------
(* The credential.                                                         *)

\* Mutant: no look at the hero when the answer comes.
MutAnyHero(c) == TRUE

\* heroRef, which the effects set.
StillHero(c) == c = seen

Reveal ==
    /\ Uncovered /\ reveal = None /\ MayFly
    /\ Hero # None /\ Live(tree[Hero])
    /\ reveal' = Hero
    /\ UNCHANGED <<server, tree, sel, seen, asks, feed, loads, connect, rotation>>
    /\ UNCHANGED <<verb, danger>>

RevealEnds(ok) ==
    /\ reveal # None
    /\ connect' = IF ok /\ StillHero(reveal) THEN [open |-> TRUE, url |-> reveal] ELSE connect
    /\ reveal' = None
    /\ UNCHANGED <<server, tree, sel, seen, asks, feed, loads, rotation, verb, danger>>

CloseConnect ==
    /\ connect.open
    /\ connect' = [connect EXCEPT !.open = FALSE]
    /\ UNCHANGED <<server, tree, sel, seen, asks, feed, loads, reveal, rotation, verb, danger>>

Rotate ==
    /\ connect.open /\ Hero # None /\ rotation = None /\ MayFly
    /\ rotation' = Hero
    /\ UNCHANGED <<server, tree, sel, seen, asks, feed, loads, connect, reveal, verb, danger>>

\* The new secret replaces the URL, open or not.
RotationEnds(ok) ==
    /\ rotation # None
    /\ connect' = IF ok /\ StillHero(rotation)
                  THEN [connect EXCEPT !.url = rotation] ELSE connect
    /\ rotation' = None
    /\ UNCHANGED <<server, tree, sel, seen, asks, feed, loads, reveal, verb, danger>>

-----------------------------------------------------------------------------
(* Freeze and unfreeze.                                                    *)

Act ==
    /\ Uncovered /\ verb = NoVerb /\ MayFly
    /\ Hero # None /\ Live(tree[Hero])
    /\ verb' = [kind |-> IF tree[Hero] = "active" THEN "freeze" ELSE "unfreeze",
                card |-> Hero, at |-> "asked", slot |-> None]
    /\ UNCHANGED <<server, tree, sel, seen, asks, feed, loads, overlay, danger>>

ActServed ==
    /\ verb.at = "asked" /\ Counts
    /\ status[verb.card] = IF verb.kind = "freeze" THEN "active" ELSE "frozen"
    /\ status' = [status EXCEPT ![verb.card] =
                                  IF verb.kind = "freeze" THEN "frozen" ELSE "active"]
    /\ verb' = [verb EXCEPT !.at = "served"]
    /\ UNCHANGED <<tree, sel, seen, asks, feed, loads, overlay, danger>>

ActRefreshes(i) ==
    /\ verb.at = "served" /\ Free(i)
    /\ asks' = [asks EXCEPT ![i].at = "asked"]
    /\ verb' = [verb EXCEPT !.at = "refreshing", !.slot = i]
    /\ UNCHANGED <<server, tree, sel, seen, feed, loads, overlay, danger>>

ActFails ==
    /\ verb.at \in {"asked", "served"}
    /\ verb' = NoVerb
    /\ UNCHANGED <<server, tree, sel, seen, asks, feed, loads, overlay, danger>>

-----------------------------------------------------------------------------
(* Revoke, delete and nuke: confirm, busy, done or error.                  *)

Offered(kind) ==
    \/ kind = "revoke" /\ Hero # None /\ Live(tree[Hero])
    \/ kind = "delete" /\ Hero # None /\ tree[Hero] = "dead"
    \/ kind = "nuke" /\ \E c \in Card : Live(tree[c])

OpenDanger(kind) ==
    /\ Uncovered /\ Offered(kind)
    /\ modal' = [NoModal EXCEPT !.kind = kind]
    /\ UNCHANGED <<server, tree, sel, seen, asks, feed, loads, overlay, verb, op>>

CloseDanger ==
    /\ modal # NoModal /\ modal.phase # "busy"
    /\ modal' = NoModal
    /\ UNCHANGED <<server, tree, sel, seen, asks, feed, loads, overlay, verb, op>>

\* go(): of the card that is the hero by now.  Bound: one at a time.
Confirm ==
    /\ modal # NoModal /\ modal.phase \in {"confirm", "error"} /\ op = NoOp /\ MayFly
    /\ modal' = [modal EXCEPT !.phase = "busy", !.card = Hero]
    /\ op' = [kind |-> modal.kind, card |-> Hero, at |-> "asked", mine |-> TRUE]
    /\ UNCHANGED <<server, tree, sel, seen, asks, feed, loads, overlay, verb>>

Prepare ==
    /\ op.at = "asked" /\ op.kind # "delete"
    /\ op.kind = "revoke" => Live(status[op.card])
    /\ op' = [op EXCEPT !.at = "prepared"]
    /\ UNCHANGED <<server, tree, sel, seen, asks, feed, loads, overlay, verb, modal>>

\* Mutant: done when it is sent.
MutEarly == op.at = "asked"

\* The answer that says it is done.
Answered == op.at = "served"

\* The owner signs in between.
Finalize ==
    /\ op.at = "prepared" /\ Counts
    /\ op.kind = "revoke" => Live(status[op.card])
    /\ status' = [c \in Card |-> IF Live(status[c]) /\ op.kind \in {"nuke", "revoke"}
                                    /\ (op.kind = "nuke" \/ c = op.card)
                                 THEN "dead" ELSE status[c]]
    /\ op' = [op EXCEPT !.at = "served"]
    /\ UNCHANGED <<tree, sel, seen, asks, feed, loads, overlay, verb, modal>>

Deletes ==
    /\ op.at = "asked" /\ op.kind = "delete" /\ Counts
    /\ status[op.card] = "dead"
    /\ status' = [status EXCEPT ![op.card] = "gone"]
    /\ op' = [op EXCEPT !.at = "served"]
    /\ UNCHANGED <<tree, sel, seen, asks, feed, loads, overlay, verb, modal>>

\* onDeleted drops the selection, whatever it is by now.
OpLands ==
    /\ op # NoOp /\ Answered
    /\ Draws(tree, IF op.kind = "delete" THEN None ELSE sel,
             IF op.mine THEN [modal EXCEPT !.phase = "done"] ELSE modal, NoOp)
    /\ UNCHANGED <<server, asks, loads, reveal, rotation, verb>>

OpFails ==
    /\ op # NoOp
    /\ modal' = IF op.mine THEN [modal EXCEPT !.phase = "error"] ELSE modal
    /\ op' = NoOp
    /\ UNCHANGED <<server, tree, sel, seen, asks, feed, loads, overlay, verb>>

Next ==
    \/ \E c \in Card : Select(c) \/ Loaded(c) \/ \E s \in Status : Elsewhere(c, s)
    \/ \E i \in Requests :
          Poll(i) \/ TreeReads(i) \/ TreeLands(i) \/ TreeFails(i) \/ ActRefreshes(i)
    \/ Effects \/ Load
    \/ Reveal \/ Rotate \/ CloseConnect
    \/ \E ok \in BOOLEAN : RevealEnds(ok) \/ RotationEnds(ok)
    \/ Act \/ ActServed \/ ActFails
    \/ \E kind \in {"revoke", "delete", "nuke"} : OpenDanger(kind)
    \/ CloseDanger \/ Confirm \/ Prepare \/ Finalize \/ Deletes \/ OpLands \/ OpFails

\* The interval fires, and a server that is polled for ever answers now and then.
Fairness ==
    /\ WF_vars(\E i \in Requests : Poll(i))
    /\ SF_vars(\E i \in Requests : TreeReads(i))
    /\ SF_vars(\E i \in Requests : TreeLands(i))

Spec == Init /\ [][Next]_vars /\ Fairness

-----------------------------------------------------------------------------
(* Correctness.                                                            *)

\* Once the effects of the last render have run, the credential and the activity on
\* the screen are those of the card on top, also when their answers come after the
\* hero has changed, before the effects or after them (page.tsx 335-339, Dossier
\* 117-131): a URL stands under another card's name for one commit at most.
PanelIsTheHeros ==
    seen = Hero => connect.url \in {None, Hero} /\ feed \in {None, Hero}

\* "Card Revoked" and "Card Deleted" are said only of a card the server has
\* killed or removed, whatever other tabs do meanwhile.
DoneIsDone ==
    /\ modal.phase = "done" /\ modal.kind = "revoke" => status[modal.card] \in {"dead", "gone"}
    /\ modal.phase = "done" /\ modal.kind = "delete" => status[modal.card] = "gone"

\* Late answers may draw an old tree over a newer one, but once the cards stand
\* still the screen shows them as they are, and goes on to.
ScreenCatchesUp == <>[](tree = View)
=============================================================================
