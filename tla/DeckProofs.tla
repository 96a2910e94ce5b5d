---------------------------- MODULE DeckProofs ----------------------------
(***************************************************************************)
(* What the dashboard shows of a card and says of it, for all cards and    *)
(* any number of requests and changes of the server.                       *)
(*                                                                         *)
(* A credential or an activity belongs to the hero whose effects ran last, *)
(* also while another hero is on the screen already (PanelInv).  That      *)
(* "Card Revoked" and "Card Deleted" are true is not inductive: it needs   *)
(* what a served operation has done (ServedIsDone), whose modal it will    *)
(* tell (ItsOwnModal), and that no modal acts on a hero that is none       *)
(* (ModalHasHero).                                                         *)
(***************************************************************************)
EXTENDS Deck, WellFoundedInduction, TLAPS

Trees == [Card -> Status \ {"gone"}]

AskRecord == [at : {"idle", "asked", "read"}, tree : Trees]
ConnectRecord == [open : BOOLEAN, url : Optional(Card)]
VerbRecord ==
    [kind : {"none", "freeze", "unfreeze"}, card : Optional(Card),
     at : {"idle", "asked", "served", "refreshing"}, slot : Optional(Requests)]
ModalRecord ==
    [kind : {"none", "revoke", "delete", "nuke"}, card : Optional(Card),
     phase : {"confirm", "busy", "done", "error"}]
OpRecord ==
    [kind : {"none", "revoke", "delete", "nuke"}, card : Optional(Card),
     at : {"idle", "asked", "prepared", "served"}, mine : BOOLEAN]

\* The answers on their way are trees, and what is shown is about cards.
DeckTypes ==
    /\ status \in [Card -> Status]
    /\ tree \in Trees /\ sel \in Optional(Card) /\ seen \in Optional(Card)
    /\ asks \in [Requests -> AskRecord]
    /\ feed \in Optional(Card) /\ loads \subseteq Card
    /\ connect \in ConnectRecord
    /\ reveal \in Optional(Card) /\ rotation \in Optional(Card)
    /\ events \in 0 .. MaxEvents
    /\ verb \in VerbRecord
    /\ modal \in ModalRecord
    /\ op \in OpRecord

\* What is over for a card: killed, or removed.
Done(kind, c) ==
    \/ kind = "revoke" /\ c \in Card /\ status[c] \in {"dead", "gone"}
    \/ kind = "delete" /\ c \in Card /\ status[c] = "gone"
    \/ kind \notin {"revoke", "delete"}

\* The answer on its way says what was done; no delete waits for a signature.
ServedIsDone ==
    /\ op.at = "served" => Done(op.kind, op.card)
    /\ op.at = "prepared" => op.kind # "delete"

\* An operation tells the modal that started it, which waits for it.
ItsOwnModal ==
    op.mine => modal.phase = "busy" /\ modal.kind = op.kind /\ modal.card = op.card

\* There is a hero to revoke or delete, and there was one.
ModalHasHero ==
    /\ modal.kind \in {"revoke", "delete"} => Hero \in Card
    /\ op.kind \in {"revoke", "delete"} => op.card \in Card

SaidIsDone == modal.phase = "done" => Done(modal.kind, modal.card)

\* What is shown is of the hero whose effects ran last.
PanelInv == connect.url \in {None, seen} /\ feed \in {None, seen}

DeckInv ==
    /\ DeckTypes /\ PanelInv
    /\ ServedIsDone /\ ItsOwnModal /\ ModalHasHero /\ SaidIsDone

-----------------------------------------------------------------------------
(* The hero.                                                               *)

\* A set of numbers that is not empty has a least one.
LEMMA LeastExists ==
  ASSUME NEW S \in SUBSET Nat, S # {}
  PROVE  \E c \in S : \A b \in S : c <= b
<1> DEFINE R == {ss \in Nat \X Nat : ss[1] < ss[2]}
<1>1. IsWellFoundedOn(R, Nat)
  <2>1. OpToRel(<, Nat) = R
    BY DEF OpToRel
  <2> QED BY <2>1, NatLessThanWellFounded
<1>2. PICK c \in S : \A b \in S : ~(<<b, c>> \in R)
  <2> HIDE DEF R
  <2> QED BY <1>1, WFMin
<1>3. \A b \in S : c <= b
  <2> SUFFICES ASSUME NEW b \in S PROVE c <= b
    OBVIOUS
  <2>1. <<b, c>> \in Nat \X Nat => ~(b < c)
    BY <1>2
  <2> QED BY <2>1
<1> QED BY <1>3

\* The first card of some is one of them.
LEMMA LeastIsOne ==
  ASSUME NEW S \in SUBSET Card
  PROVE  /\ Least(S) \in Optional(Card)
         /\ S # {} => Least(S) \in S
<1>1. CASE S = {}
  BY <1>1 DEF Least, Optional
<1>2. CASE S # {}
  <2>1. S \subseteq Nat
    BY DeckAssumption DEF DeckAssumption
  <2>2. \E c \in S : \A b \in S : c <= b
    BY <1>2, <2>1, LeastExists
  <2>3. Least(S) \in S
    BY <1>2, <2>2 DEF Least
  <2> QED BY <2>3 DEF Optional
<1> QED BY <1>1, <1>2

\* The hero is one of the cards that are drawn, or none.
LEMMA HeroIsCard ==
  ASSUME NEW t \in Trees, NEW s \in Optional(Card)
  PROVE  HeroOf(t, s) \in Optional(Card)
<1>1. Shown(t) \subseteq Card /\ {c \in Card : Live(t[c])} \subseteq Card
  BY DEF Shown
<1>2. Least(Shown(t)) \in Optional(Card) /\ Least({c \in Card : Live(t[c])}) \in Optional(Card)
  BY <1>1, LeastIsOne
<1>3. s \in Shown(t) => s \in Optional(Card)
  BY DEF Shown, Optional
<1> QED BY <1>2, <1>3 DEF HeroOf

-----------------------------------------------------------------------------
(* Types.                                                                  *)

LEMMA Empties ==
  /\ None \in Optional(Card) /\ Card \subseteq Optional(Card) /\ None \notin Card
  /\ None \in Optional(Requests) /\ Requests \subseteq Optional(Requests)
  /\ NoAsk \in AskRecord
  /\ Hidden \in ConnectRecord
  /\ NoVerb \in VerbRecord
  /\ NoModal \in ModalRecord
  /\ NoOp \in OpRecord
<1>1. None \in Optional(Card) /\ None \in Optional(Requests)
  BY DEF Optional
<1>2. [c \in Card |-> "none"] \in Trees
  BY DEF Status, Trees
<1> QED BY <1>1, <1>2, DeckAssumption
        DEF AskRecord, ConnectRecord, VerbRecord, ModalRecord, OpRecord, NoAsk, Hidden,
            NoVerb, NoModal, NoOp, Optional, DeckAssumption

\* What the server answers is a tree.
LEMMA ViewType == ASSUME DeckTypes PROVE View \in Trees
BY DEF DeckTypes, View, Status, Trees

LEMMA InitDeck == Init => DeckInv
<1> SUFFICES ASSUME Init PROVE DeckInv
  OBVIOUS
<1>1. status \in [Card -> Status] /\ tree \in Trees
  BY DEF Init, Status, Trees
<1>2. events \in 0 .. MaxEvents
  BY DeckAssumption DEF Init, DeckAssumption
<1>3. DeckTypes
  BY <1>1, <1>2, Empties DEF Init, DeckTypes
<1>4. PanelInv
  BY DEF Init, PanelInv, Hidden
<1>5. ServedIsDone /\ ItsOwnModal /\ ModalHasHero /\ SaidIsDone
  BY DEF Init, ServedIsDone, ItsOwnModal, ModalHasHero, SaidIsDone, NoModal, NoOp
<1> QED BY <1>3, <1>4, <1>5 DEF DeckInv

\* A redraw with things of their types leaves them their types.
LEMMA DrawsType ==
  ASSUME DeckTypes,
         NEW t \in Trees, NEW s \in Optional(Card),
         NEW m \in ModalRecord,
         NEW o \in OpRecord,
         Draws(t, s, m, o)
  PROVE  /\ tree' \in Trees /\ sel' \in Optional(Card) /\ seen' \in Optional(Card)
         /\ feed' \in Optional(Card)
         /\ connect' \in ConnectRecord
         /\ modal' \in ModalRecord
         /\ op' \in OpRecord
<1>1. Hero \in Optional(Card)
  BY HeroIsCard DEF DeckTypes, Hero
<1> QED BY <1>1, Empties DEF Draws, RunEffects, DeckTypes, OpRecord

\* A request of the tree comes or goes and leaves the verb a verb.
LEMMA AsksType ==
  ASSUME DeckTypes, NEW i \in Requests
  PROVE  /\ [asks EXCEPT ![i].at = "asked"] \in [Requests -> AskRecord]
         /\ [asks EXCEPT ![i] = [at |-> "read", tree |-> View]] \in [Requests -> AskRecord]
         /\ Ends(i) => asks' \in [Requests -> AskRecord] /\ verb' \in VerbRecord
<1>1. asks \in [Requests -> AskRecord] /\ verb \in VerbRecord
  BY DEF DeckTypes
<1>2. [asks[i] EXCEPT !.at = "asked"] \in AskRecord
  BY <1>1 DEF AskRecord
<1>3. [at |-> "read", tree |-> View] \in AskRecord
  BY ViewType DEF AskRecord
<1> QED BY <1>1, <1>2, <1>3, Empties DEF Ends

LEMMA DeckTypeStep ==
  ASSUME DeckInv, Next
  PROVE  DeckTypes'
<1>0. DeckTypes
  BY DEF DeckInv
<1>1. Hero \in Optional(Card)
  BY <1>0, HeroIsCard DEF DeckTypes, Hero, Trees
<1>2. Counts => events' \in 0 .. MaxEvents
  BY <1>0, DeckAssumption DEF Counts, DeckTypes, DeckAssumption
<1>3. CASE \E c \in Card : Select(c)
  <2> PICK c \in Card : Select(c)
    BY <1>3
  <2>1. /\ Draws(tree, c, modal, op)
        /\ c \in Optional(Card)
    BY Empties DEF Select
  <2> QED BY <1>0, <2>1, DrawsType DEF Select, DeckTypes, server
<1>4. CASE \E c \in Card : Loaded(c)
  <2> PICK c \in Card : Loaded(c)
    BY <1>4
  <2>1. feed' \in Optional(Card)
    BY <1>0, Empties DEF Loaded, DeckTypes
  <2> QED BY <1>0, <2>1 DEF Loaded, DeckTypes, server, overlay, danger
<1>5. CASE \E c \in Card, s \in Status : Elsewhere(c, s)
  <2> PICK c \in Card, s \in Status : Elsewhere(c, s)
    BY <1>5
  <2>1. status' \in [Card -> Status]
    BY <1>0 DEF Elsewhere, DeckTypes
  <2> QED BY <1>0, <1>2, <2>1 DEF Elsewhere, DeckTypes, overlay, danger
<1>6. CASE \E i \in Requests : Poll(i) \/ TreeReads(i)
  <2> PICK i \in Requests : Poll(i) \/ TreeReads(i)
    BY <1>6
  <2>1. asks' \in [Requests -> AskRecord]
    BY <1>0, AsksType DEF Poll, TreeReads
  <2> QED BY <1>0, <2>1 DEF Poll, TreeReads, DeckTypes, server, overlay, danger
<1>7. CASE \E i \in Requests : TreeLands(i)
  <2> PICK i \in Requests : TreeLands(i)
    BY <1>7
  <2>1. asks[i].tree \in Trees
    BY <1>0 DEF DeckTypes, AskRecord
  <2>2. Draws(asks[i].tree, sel, modal, op) /\ Ends(i)
    BY DEF TreeLands
  <2> QED BY <1>0, <2>1, <2>2, DrawsType, AsksType DEF TreeLands, DeckTypes, server
<1>8. CASE \E i \in Requests : TreeFails(i)
  BY <1>0, <1>8, AsksType DEF TreeFails, DeckTypes, server, overlay, danger
<1>9. CASE \E i \in Requests : ActRefreshes(i)
  <2> PICK i \in Requests : ActRefreshes(i)
    BY <1>9
  <2>1. asks' \in [Requests -> AskRecord]
    BY <1>0, AsksType DEF ActRefreshes
  <2>2. verb' \in VerbRecord
    BY <1>0, Empties DEF ActRefreshes, DeckTypes, VerbRecord
  <2> QED BY <1>0, <2>1, <2>2 DEF ActRefreshes, DeckTypes, server, overlay, danger
<1>22. CASE Effects
  BY <1>0, <1>1, <1>22, Empties DEF Effects, RunEffects, DeckTypes, server, danger
<1>10. CASE Load
  <2>1. loads' \subseteq Card
    BY <1>0, <1>10 DEF Load, DeckTypes, Optional
  <2> QED BY <1>0, <1>10, <2>1 DEF Load, DeckTypes, server, overlay, danger
<1>11. CASE Reveal \/ Rotate
  BY <1>0, <1>1, <1>11 DEF Reveal, Rotate, DeckTypes, server, danger
<1>12. CASE CloseConnect
  <2>1. connect' \in ConnectRecord
    BY <1>0, <1>12 DEF CloseConnect, DeckTypes, ConnectRecord
  <2> QED BY <1>0, <1>12, <2>1 DEF CloseConnect, DeckTypes, server, danger
<1>13. CASE \E ok \in BOOLEAN : RevealEnds(ok) \/ RotationEnds(ok)
  <2> PICK ok \in BOOLEAN : RevealEnds(ok) \/ RotationEnds(ok)
    BY <1>13
  <2>1. connect' \in ConnectRecord
    <3>1. connect \in ConnectRecord /\ reveal \in Optional(Card) /\ rotation \in Optional(Card)
      BY <1>0 DEF DeckTypes
    <3>2. [open |-> TRUE, url |-> reveal] \in ConnectRecord
      BY <3>1 DEF ConnectRecord
    <3>3. [connect EXCEPT !.url = rotation] \in ConnectRecord
      BY <3>1 DEF ConnectRecord
    <3> QED BY <3>1, <3>2, <3>3 DEF RevealEnds, RotationEnds
  <2> QED BY <1>0, <2>1, Empties DEF RevealEnds, RotationEnds, DeckTypes, server,
             danger
<1>14. CASE Act \/ ActServed \/ ActFails
  <2>1. verb' \in VerbRecord
    BY <1>0, <1>1, <1>14, Empties DEF Act, ActServed, ActFails, DeckTypes, VerbRecord
  <2>2. status' \in [Card -> Status] /\ events' \in 0 .. MaxEvents
    BY <1>0, <1>2, <1>14 DEF Act, ActServed, ActFails, DeckTypes, server, Status
  <2> QED BY <1>0, <1>14, <2>1, <2>2 DEF Act, ActServed, ActFails, DeckTypes,
             overlay, danger
<1>15. CASE \E kind \in {"revoke", "delete", "nuke"} : OpenDanger(kind)
  <2> PICK kind \in {"revoke", "delete", "nuke"} : OpenDanger(kind)
    BY <1>15
  <2>1. modal' \in ModalRecord
    BY Empties DEF OpenDanger, ModalRecord
  <2> QED BY <1>0, <2>1 DEF OpenDanger, DeckTypes, server, overlay
<1>16. CASE CloseDanger
  BY <1>0, <1>16, Empties DEF CloseDanger, DeckTypes, server, overlay
<1>17. CASE Confirm
  <2>1. modal' \in ModalRecord /\ op' \in OpRecord
    BY <1>0, <1>1, <1>17 DEF Confirm, DeckTypes, ModalRecord, OpRecord
  <2> QED BY <1>0, <1>17, <2>1 DEF Confirm, DeckTypes, server, overlay
<1>18. CASE Prepare
  <2>1. op' \in OpRecord
    BY <1>0, <1>18 DEF Prepare, DeckTypes, OpRecord
  <2> QED BY <1>0, <1>18, <2>1 DEF Prepare, DeckTypes, server, overlay
<1>19. CASE Finalize \/ Deletes
  <2>1. op' \in OpRecord
    BY <1>0, <1>19 DEF Finalize, Deletes, DeckTypes, OpRecord
  <2>2. status' \in [Card -> Status] /\ events' \in 0 .. MaxEvents
    BY <1>0, <1>2, <1>19 DEF Finalize, Deletes, DeckTypes, Status
  <2> QED BY <1>0, <1>19, <2>1, <2>2 DEF Finalize, Deletes, DeckTypes, overlay
<1>20. CASE OpLands
  <2> DEFINE m == IF op.mine THEN [modal EXCEPT !.phase = "done"] ELSE modal
             s == IF op.kind = "delete" THEN None ELSE sel
  <2>1. m \in ModalRecord /\ s \in Optional(Card)
    BY <1>0, Empties DEF DeckTypes, ModalRecord
  <2>2. Draws(tree, s, m, NoOp) /\ tree \in Trees
    BY <1>0, <1>20 DEF OpLands, DeckTypes
  <2> HIDE DEF m, s
  <2> QED BY <1>0, <1>20, <2>1, <2>2, DrawsType, Empties DEF OpLands, DeckTypes,
             server
<1>21. CASE OpFails
  <2>1. modal' \in ModalRecord
    BY <1>0, <1>21 DEF OpFails, DeckTypes, ModalRecord
  <2> QED BY <1>0, <1>21, <2>1, Empties DEF OpFails, DeckTypes, server, overlay
<1> QED BY <1>3, <1>4, <1>5, <1>6, <1>7, <1>8, <1>9, <1>10, <1>11, <1>12, <1>13,
           <1>14, <1>15,
           <1>16, <1>17, <1>18, <1>19, <1>20, <1>21, <1>22 DEF Next

-----------------------------------------------------------------------------
(* What is shown.                                                          *)

\* A redraw runs the effects of the last one.
LEMMA DrawsPanel ==
  ASSUME PanelInv, RunEffects
  PROVE  PanelInv'
<1>1. CASE seen = Hero
  BY <1>1 DEF RunEffects, PanelInv
<1>2. CASE seen # Hero
  BY <1>2 DEF RunEffects, PanelInv, Hidden
<1> QED BY <1>1, <1>2

LEMMA PanelStep ==
  ASSUME DeckTypes, PanelInv, Next
  PROVE  PanelInv'
<1>1. CASE \/ \E c \in Card : Select(c)
           \/ \E i \in Requests : TreeLands(i)
           \/ OpLands \/ Effects
  BY <1>1, DrawsPanel DEF Select, TreeLands, OpLands, Effects, Draws
<1>4. CASE seen' = seen /\ feed' = feed /\ connect' = connect
  BY <1>4 DEF PanelInv
<1>5. CASE \E c \in Card : Loaded(c)
  BY <1>5 DEF Loaded, LoadIsLive, PanelInv, overlay
<1>6. CASE CloseConnect
  <2>1. connect'.url = connect.url
    BY <1>6 DEF CloseConnect, DeckTypes, ConnectRecord
  <2> QED BY <1>6, <2>1 DEF CloseConnect, PanelInv
<1>7. CASE \E ok \in BOOLEAN : RevealEnds(ok) \/ RotationEnds(ok)
  <2> PICK ok \in BOOLEAN : RevealEnds(ok) \/ RotationEnds(ok)
    BY <1>7
  <2>1. connect'.url = connect.url \/ connect'.url = seen
    BY DEF RevealEnds, RotationEnds, StillHero, DeckTypes, ConnectRecord
  <2> QED BY <2>1 DEF RevealEnds, RotationEnds, PanelInv
<1>8. CASE \/ \E c \in Card, s \in Status : Elsewhere(c, s)
           \/ \E i \in Requests : Poll(i) \/ TreeReads(i) \/ TreeFails(i) \/ ActRefreshes(i)
           \/ Load \/ Reveal \/ Rotate \/ Act \/ ActServed \/ ActFails
  BY <1>4, <1>8 DEF Elsewhere, Poll, TreeReads, TreeFails, ActRefreshes, Load, Reveal,
                    Rotate, Act, ActServed, ActFails, overlay
<1>9. CASE \/ \E kind \in {"revoke", "delete", "nuke"} : OpenDanger(kind)
           \/ CloseDanger \/ Confirm \/ Prepare \/ Finalize \/ Deletes \/ OpFails
  BY <1>4, <1>9 DEF OpenDanger, CloseDanger, Confirm, Prepare, Finalize, Deletes, OpFails,
                    overlay
<1> QED BY <1>1, <1>5, <1>6, <1>7, <1>8, <1>9 DEF Next

-----------------------------------------------------------------------------
(* What is said.                                                           *)

\* What is over for a card stays over.
LEMMA DoneStays ==
  ASSUME DeckInv, Next, NEW kind, NEW c, Done(kind, c)
  PROVE  Done(kind, c)'
<1> USE DEF DeckInv
<1>0. status \in [Card -> Status]
  BY DEF DeckTypes
<1>2. CASE status' = status
  BY <1>2 DEF Done
<1>3. CASE \A d \in Card : /\ status[d] \in {"dead", "gone"} => status'[d] \in {"dead", "gone"}
                           /\ status[d] = "gone" => status'[d] = "gone"
  BY <1>3 DEF Done
<1>4. CASE \E d \in Card, s \in Status : Elsewhere(d, s)
  BY <1>0, <1>3, <1>4 DEF Elsewhere, Becomes
<1>5. CASE ActServed
  BY <1>0, <1>3, <1>5 DEF ActServed
<1>6. CASE Finalize
  BY <1>0, <1>3, <1>6 DEF Finalize, Live
<1>7. CASE Deletes
  BY <1>0, <1>3, <1>7 DEF Deletes
<1>8. CASE \/ \E d \in Card : Select(d) \/ Loaded(d)
           \/ \E i \in Requests :
                 Poll(i) \/ TreeReads(i) \/ TreeLands(i) \/ TreeFails(i) \/ ActRefreshes(i)
           \/ Effects \/ Load \/ Reveal \/ Rotate \/ CloseConnect \/ Act \/ ActFails
           \/ \E ok \in BOOLEAN : RevealEnds(ok) \/ RotationEnds(ok)
  BY <1>2, <1>8 DEF Select, Loaded, Poll, TreeReads, TreeLands, TreeFails,
     ActRefreshes, Effects, Load, Reveal,
                    Rotate, CloseConnect, Act, ActFails, RevealEnds, RotationEnds, server
<1>9. CASE \/ \E k \in {"revoke", "delete", "nuke"} : OpenDanger(k)
           \/ CloseDanger \/ Confirm \/ Prepare \/ OpLands \/ OpFails
  BY <1>2, <1>9 DEF OpenDanger, CloseDanger, Confirm, Prepare, OpLands, OpFails,
     server
<1> QED BY <1>4, <1>5, <1>6, <1>7, <1>8, <1>9 DEF Next

\* A redraw closes a modal whose hero is gone, and tells its operation so.
LEMMA DrawsModal ==
  ASSUME NEW t \in Trees, NEW s \in Optional(Card), NEW m \in ModalRecord, NEW o \in OpRecord,
         Draws(t, s, m, o),
         o.mine => m.phase = "busy" /\ m.kind = o.kind /\ m.card = o.card
  PROVE  /\ modal' \in {m, NoModal}
         /\ op'.at = o.at /\ op'.kind = o.kind /\ op'.card = o.card
         /\ modal'.kind \in {"revoke", "delete"} => Hero' \in Card
         /\ ItsOwnModal'
<1>1. Hero' = HeroOf(t, s)
  BY DEF Draws, Hero, HeroOf, Shown, Least, Live
<1>2. HeroOf(t, s) # None => HeroOf(t, s) \in Card
  BY HeroIsCard DEF Optional, Trees
<1>3. NoModal.kind = "none"
  BY DEF NoModal
<1>4. CASE modal' = NoModal /\ op' = [o EXCEPT !.mine = FALSE]
  <2>1. op'.at = o.at /\ op'.kind = o.kind /\ op'.card = o.card /\ ~op'.mine
    BY <1>4 DEF OpRecord
  <2> QED BY <1>3, <1>4, <2>1 DEF ItsOwnModal
<1>5. CASE /\ modal' = m /\ op' = o
           /\ m.kind \in {"revoke", "delete"} => HeroOf(t, s) # None
  BY <1>1, <1>2, <1>5 DEF ItsOwnModal
<1> QED BY <1>4, <1>5 DEF Draws

\* Steps of others leave a modal and an operation with what they know.
LEMMA OthersSayNothing ==
  ASSUME DeckInv, Next, tree' = tree, sel' = sel, modal' = modal, op' = op
  PROVE  ServedIsDone' /\ ItsOwnModal' /\ ModalHasHero' /\ SaidIsDone'
<1> USE DEF DeckInv
<1>1. Hero' = Hero
  BY DEF Hero, HeroOf, Shown, Least, Live
<1>2. ServedIsDone'
  <2>1. PICK k, c : k = op.kind /\ c = op.card
    OBVIOUS
  <2>2. op.at = "served" => Done(k, c)'
    BY <2>1, DoneStays DEF ServedIsDone
  <2> QED BY <2>1, <2>2 DEF ServedIsDone, Done
<1>3. SaidIsDone'
  <2>1. PICK k, c : k = modal.kind /\ c = modal.card
    OBVIOUS
  <2>2. modal.phase = "done" => Done(k, c)'
    BY <2>1, DoneStays DEF SaidIsDone
  <2> QED BY <2>1, <2>2 DEF SaidIsDone, Done
<1> QED BY <1>1, <1>2, <1>3 DEF ItsOwnModal, ModalHasHero

LEMMA SaidStep ==
  ASSUME DeckInv, Next
  PROVE  ServedIsDone' /\ ItsOwnModal' /\ ModalHasHero' /\ SaidIsDone'
<1> USE DEF DeckInv
<1>1. modal \in ModalRecord /\ op \in OpRecord /\ tree \in Trees /\ sel \in Optional(Card)
  BY DEF DeckTypes
<1>2. tree' = tree /\ sel' = sel => Hero' = Hero
  BY DEF Hero, HeroOf, Shown, Least, Live
<1>3. \A k, c : Done(k, c) => Done(k, c)'
  BY DoneStays
<1>4. CASE \/ \E c \in Card : Select(c)
           \/ \E i \in Requests : TreeLands(i)
  <2>1. PICK t \in Trees, s \in Optional(Card) : Draws(t, s, modal, op)
    <3>1. \A c \in Card : Select(c) => c \in Optional(Card) /\ Draws(tree, c, modal, op)
      BY Empties DEF Select
    <3>2. \A i \in Requests :
             TreeLands(i) => asks[i].tree \in Trees /\ Draws(asks[i].tree, sel, modal, op)
      BY DEF TreeLands, DeckTypes, AskRecord
    <3> QED BY <1>1, <1>4, <3>1, <3>2
  <2>2. op.mine => modal.phase = "busy" /\ modal.kind = op.kind /\ modal.card = op.card
    BY DEF ItsOwnModal
  <2>3. /\ modal' \in {modal, NoModal} /\ ItsOwnModal'
        /\ op'.at = op.at /\ op'.kind = op.kind /\ op'.card = op.card
        /\ modal'.kind \in {"revoke", "delete"} => Hero' \in Card
    BY <1>1, <2>1, <2>2, DrawsModal
  <2>4. status' = status
    BY <1>4 DEF Select, TreeLands, server
  <2>5. ServedIsDone'
    BY <2>3, <2>4 DEF ServedIsDone, Done
  <2>6. SaidIsDone'
    BY <2>3, <2>4 DEF SaidIsDone, Done, NoModal
  <2>7. ModalHasHero'
    BY <2>3 DEF ModalHasHero
  <2> QED BY <2>3, <2>5, <2>6, <2>7
<1>5. CASE OpLands
  <2> DEFINE m == IF op.mine THEN [modal EXCEPT !.phase = "done"] ELSE modal
             s == IF op.kind = "delete" THEN None ELSE sel
  <2>1. m \in ModalRecord /\ s \in Optional(Card)
    BY <1>1, Empties DEF ModalRecord
  <2>2. m.kind = modal.kind /\ m.card = modal.card
    BY <1>1 DEF ModalRecord
  <2>3. m.phase = "done" => Done(m.kind, m.card)
    <3>1. CASE op.mine
      BY <1>5, <2>2, <3>1 DEF OpLands, Answered, ServedIsDone, ItsOwnModal
    <3>2. CASE ~op.mine
      BY <3>2 DEF SaidIsDone
    <3> QED BY <3>1, <3>2
  <2>4. Draws(tree, s, m, NoOp) /\ status' = status
    BY <1>5 DEF OpLands, server
  <2> HIDE DEF m, s
  <2>5. ~NoOp.mine /\ NoOp.at = "idle" /\ NoOp.kind = "none"
    BY DEF NoOp
  <2>6. /\ modal' \in {m, NoModal} /\ ItsOwnModal'
        /\ op'.at = "idle" /\ op'.kind = "none"
        /\ modal'.kind \in {"revoke", "delete"} => Hero' \in Card
    BY <1>1, <2>1, <2>4, <2>5, Empties, DrawsModal
  <2>7. ServedIsDone' /\ ModalHasHero'
    BY <2>6 DEF ServedIsDone, ModalHasHero
  <2>8. SaidIsDone'
    BY <2>3, <2>4, <2>6 DEF SaidIsDone, Done, NoModal
  <2> QED BY <2>6, <2>7, <2>8
<1>6. CASE \E kind \in {"revoke", "delete", "nuke"} : OpenDanger(kind)
  <2> PICK kind \in {"revoke", "delete", "nuke"} : OpenDanger(kind)
    BY <1>6
  <2>1. /\ modal'.kind = kind /\ modal'.phase = "confirm" /\ op' = op /\ status' = status
        /\ Hero' = Hero /\ modal = NoModal
    BY <1>2 DEF OpenDanger, Uncovered, NoModal, server
  <2>2. kind \in {"revoke", "delete"} => Hero \in Card
    <3>1. Hero \in Optional(Card)
      BY <1>1, HeroIsCard DEF Hero, Trees
    <3> QED BY <3>1 DEF OpenDanger, Offered, Optional
  <2>3. ~op.mine
    BY <2>1 DEF ItsOwnModal, NoModal
  <2> QED BY <2>1, <2>2, <2>3 DEF ServedIsDone, ItsOwnModal, ModalHasHero,
             SaidIsDone, Done
<1>7. CASE CloseDanger
  <2>1. /\ modal' = NoModal /\ op' = op /\ status' = status /\ modal.phase # "busy"
    BY <1>7 DEF CloseDanger, server
  <2>2. ~op.mine
    BY <2>1 DEF ItsOwnModal
  <2> QED BY <2>1, <2>2 DEF ServedIsDone, ItsOwnModal, ModalHasHero, SaidIsDone,
             Done, NoModal
<1>8. CASE Confirm
  <2>1. /\ modal'.kind = modal.kind /\ modal'.phase = "busy" /\ modal'.card = Hero
        /\ op' = [kind |-> modal.kind, card |-> Hero, at |-> "asked", mine |-> TRUE]
        /\ Hero' = Hero
    BY <1>1, <1>2, <1>8 DEF Confirm, ModalRecord
  <2> QED BY <2>1 DEF ServedIsDone, ItsOwnModal, ModalHasHero, SaidIsDone
<1>9. CASE Prepare
  <2>1. /\ op'.kind = op.kind /\ op'.card = op.card /\ op'.mine = op.mine
        /\ op'.at = "prepared" /\ op.kind # "delete"
        /\ modal' = modal /\ status' = status /\ Hero' = Hero
    BY <1>1, <1>2, <1>9 DEF Prepare, OpRecord, server
  <2> QED BY <2>1 DEF ServedIsDone, ItsOwnModal, ModalHasHero, SaidIsDone, Done
<1>10. CASE Finalize \/ Deletes
  <2>1. /\ op'.kind = op.kind /\ op'.card = op.card /\ op'.mine = op.mine
        /\ modal' = modal /\ Hero' = Hero
    BY <1>1, <1>2, <1>10 DEF Finalize, Deletes, OpRecord
  <2>2. ServedIsDone'
    <3>1. CASE op.kind \in {"revoke", "delete"}
      <4>1. op.card \in Card
        BY <3>1 DEF ModalHasHero
      <4>2. status \in [Card -> Status]
        BY DEF DeckTypes
      <4>3. CASE Finalize
        <5>1. op.kind \in {"nuke", "revoke"} => status'[op.card] = "dead"
          BY <3>1, <4>1, <4>3 DEF Finalize
        <5>2. op.kind = "delete" => FALSE
          BY <4>3 DEF Finalize, ServedIsDone
        <5> QED BY <2>1, <3>1, <4>1, <5>1, <5>2 DEF ServedIsDone, Done
      <4>4. CASE Deletes
        BY <2>1, <4>1, <4>2, <4>4 DEF Deletes, ServedIsDone, Done
      <4> QED BY <1>10, <4>3, <4>4
    <3>2. CASE op.kind \notin {"revoke", "delete"}
      BY <2>1, <3>2 DEF ServedIsDone, Done
    <3> QED BY <3>1, <3>2
  <2>3. SaidIsDone'
    <3>1. PICK k, c : k = modal.kind /\ c = modal.card
      OBVIOUS
    <3>2. modal.phase = "done" => Done(k, c)'
      BY <1>3, <3>1 DEF SaidIsDone
    <3> QED BY <2>1, <3>1, <3>2 DEF SaidIsDone, Done
  <2> QED BY <2>1, <2>2, <2>3 DEF ItsOwnModal, ModalHasHero
<1>11. CASE OpFails
  <2>1. /\ op' = NoOp /\ status' = status /\ Hero' = Hero /\ modal'.kind = modal.kind
        /\ modal' = modal \/ modal'.phase = "error"
    BY <1>1, <1>2, <1>11 DEF OpFails, ModalRecord, server
  <2> QED BY <2>1 DEF ServedIsDone, ItsOwnModal, ModalHasHero, SaidIsDone, Done, NoOp
<1>12. CASE tree' = tree /\ sel' = sel /\ modal' = modal /\ op' = op
  BY <1>12, OthersSayNothing
<1>13. CASE \/ \E c \in Card : Loaded(c)
            \/ \E c \in Card, s \in Status : Elsewhere(c, s)
            \/ \E i \in Requests : Poll(i) \/ TreeReads(i) \/ TreeFails(i) \/ ActRefreshes(i)
            \/ Effects \/ Load \/ Reveal \/ Rotate \/ CloseConnect
            \/ Act \/ ActServed \/ ActFails
            \/ \E ok \in BOOLEAN : RevealEnds(ok) \/ RotationEnds(ok)
  BY <1>12, <1>13 DEF Effects, Loaded, Elsewhere, Poll, TreeReads, TreeFails, ActRefreshes,
     Load, Reveal, Rotate,
                      CloseConnect, Act, ActServed, ActFails, RevealEnds, RotationEnds, danger
<1> QED BY <1>4, <1>5, <1>6, <1>7, <1>8, <1>9, <1>10, <1>11, <1>13 DEF Next

-----------------------------------------------------------------------------
(* The theorems.                                                           *)

LEMMA DeckHolds == Spec => []DeckInv
<1>1. DeckInv /\ [Next]_vars => DeckInv'
  <2> SUFFICES ASSUME DeckInv, [Next]_vars PROVE DeckInv'
    OBVIOUS
  <2>1. CASE Next
    <3>1. PanelInv'
      BY <2>1, PanelStep DEF DeckInv
    <3> QED BY <2>1, <3>1, DeckTypeStep, SaidStep DEF DeckInv
  <2>2. CASE UNCHANGED vars
    <3> USE <2>2 DEF vars, server, overlay, danger
    <3>1. Hero' = Hero
      BY DEF Hero, HeroOf, Shown, Least, Live
    <3>2. DeckTypes' /\ PanelInv'
      BY <3>1 DEF DeckInv, DeckTypes, PanelInv
    <3>3. status' = status /\ modal' = modal /\ op' = op
      OBVIOUS
    <3>4. ServedIsDone' /\ SaidIsDone'
      BY <3>3 DEF DeckInv, ServedIsDone, SaidIsDone, Done
    <3>5. ItsOwnModal' /\ ModalHasHero'
      BY <3>1, <3>3 DEF DeckInv, ItsOwnModal, ModalHasHero
    <3> QED BY <3>2, <3>4, <3>5 DEF DeckInv
  <2> QED BY <2>1, <2>2
<1> QED BY <1>1, InitDeck, PTL DEF Spec

\* The variables of the dashboard have their types in every reachable state.
THEOREM TypeCorrect == Spec => []DeckTypeOK
<1>1. DeckInv => DeckTypeOK
  BY DEF DeckInv, DeckTypes, DeckTypeOK, Trees, AskRecord, ConnectRecord,
     VerbRecord, ModalRecord, OpRecord
<1> QED BY <1>1, DeckHolds, PTL

\* Once the effects of the last render have run, a credential or an activity never
\* stands under another card's name, in whatever order answers, polls, selections and
\* effects come (page.tsx 335-339, Dossier 117-131).
THEOREM NoOthersCredential == Spec => []PanelIsTheHeros
<1>1. DeckInv => PanelIsTheHeros
  BY DEF DeckInv, PanelInv, PanelIsTheHeros
<1> QED BY <1>1, DeckHolds, PTL

\* "Card Revoked" and "Card Deleted" are said only of a card the server has
\* killed or removed, for all cards and through every change elsewhere.
THEOREM SaidWhenDone == Spec => []DoneIsDone
<1>1. DeckInv => DoneIsDone
  BY DEF DeckInv, SaidIsDone, Done, DoneIsDone
<1> QED BY <1>1, DeckHolds, PTL
=============================================================================
