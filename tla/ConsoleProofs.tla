--------------------------- MODULE ConsoleProofs ---------------------------
(***************************************************************************)
(* The browser up to an issued card: a dashboard is open only for a login  *)
(* the server knows, a card holds all that was filled in, and it is its    *)
(* signer's; for all logins, ceremonies, retries and forms.                *)
(*                                                                         *)
(* OnboardedIsKnown is not inductive: a probe's answer, a ceremony's end   *)
(* and the flag they set outlive the session they were for.  SignInInv     *)
(* says whom each of them is about: the login the effects last saw.        *)
(***************************************************************************)
EXTENDS IssueForm, TLAPS

Someone == {None} \cup Login

\* What the effects saw in their last run was there to be seen.
SeenType ==
    seen \in [ready : BOOLEAN, session : Someone, wallet : BOOLEAN, signer : BOOLEAN,
              onboarded : BOOLEAN, probed : BOOLEAN, attempt : Nat]

\* The probe that counts is about the login the effects last saw.
ProbeIsOfTheSeen ==
    /\ probe.reply # "none" => probe.login = seen.session
    /\ probe.reply = "yes" => probe.login \in known

\* Only a login has a ceremony, and the server stores what it answers for.
StoredIsKnown ==
    \A c \in Ceremonies :
        /\ ceremony[c].at # "idle" => ceremony[c].login \in Login
        /\ ceremony[c].at = "stored" => ceremony[c].login \in known

\* The dashboard was opened for a login the server knows.
OpenedForTheKnown ==
    onboarded => (IF opener = None THEN seen.session ELSE opener) \in known

SignInInv == TypeOK /\ SeenType /\ ProbeIsOfTheSeen /\ StoredIsKnown /\ OpenedForTheKnown

\* An issuance carries the terms of a form that passed the modal's checks.
IssueType ==
    issue \in [at : {"none", "preparing", "prepared", "signed", "for did", "issued"},
               login : Someone, account : Someone, owner : Someone, filled : Fields,
               terms : [pay : BOOLEAN, contract : BOOLEAN, allowance : BOOLEAN],
               view : {"form", "deck", "gone"}]

WholeForm ==
    /\ issue.terms = BuildTerms(issue.filled)
    /\ ScopeIsWhole(issue.filled) /\ AllowanceHasScope(issue.filled)

\* An account that was prepared is the one that finalizes, and the signer's.
PreparedIsTheSigners ==
    /\ issue.at = "for did" => issue.account = None
    /\ issue.at = "issued" /\ issue.account # None => issue.owner = issue.login

ModalType == modal \in [open : BOOLEAN, fields : Fields, drafting : BOOLEAN, issued : BOOLEAN]

IssueInv == IssueType /\ WholeForm /\ PreparedIsTheSigners /\ ModalType

ConsoleInv == SignInInv /\ IssueInv

-----------------------------------------------------------------------------
(* The sign-in: types.                                                     *)

\* The type invariant, one variable at a time.
LEMMA SignInTypes ==
  TypeOK <=>
    /\ ready \in BOOLEAN /\ wallet \in BOOLEAN /\ signer \in BOOLEAN
    /\ onboarded \in BOOLEAN /\ probed \in BOOLEAN /\ error \in BOOLEAN
    /\ slow \in BOOLEAN /\ started \in BOOLEAN
    /\ session \in Someone /\ opener \in Someone
    /\ attempt \in 0 .. MaxRetries /\ changes \in 0 .. MaxSessions
    /\ probe \in [login : Someone, reply : {"none", "asked", "yes", "no"}]
    /\ ceremony \in [Ceremonies -> [login : Someone, by : Someone,
                                    at : {"idle", "signing", "sent", "stored", "refused"}]]
    /\ known \subseteq Login
BY Zenon DEF TypeOK, Someone

\* What the effects see has its type.
LEMMA DepsType ==
  ASSUME TypeOK
  PROVE  /\ Did \in Someone
         /\ Deps \in [ready : BOOLEAN, session : Someone, wallet : BOOLEAN, signer : BOOLEAN,
                      onboarded : BOOLEAN, probed : BOOLEAN, attempt : Nat]
<1>1. Did \in Someone
  BY SignInTypes DEF Did, Someone
<1>2. attempt \in Nat
  BY SignInTypes, SignInAssumption DEF SignInAssumption
<1> QED BY <1>1, <1>2, SignInTypes DEF Deps

LEMMA InitSignIn == Init => SignInInv
<1> SUFFICES ASSUME Init PROVE SignInInv
  OBVIOUS
<1>1. None \in Someone /\ None \notin Login
  BY SignInAssumption DEF Someone, SignInAssumption
<1>2. attempt \in 0 .. MaxRetries /\ changes \in 0 .. MaxSessions
  BY SignInAssumption DEF Init, SignInAssumption
<1>3. TypeOK
  BY <1>1, <1>2, SignInTypes DEF Init, NoProbe, Idle
<1>4. SeenType
  BY <1>1 DEF Init, SeenType, Blank
<1>5. ProbeIsOfTheSeen /\ StoredIsKnown /\ OpenedForTheKnown
  BY DEF Init, ProbeIsOfTheSeen, StoredIsKnown, OpenedForTheKnown, NoProbe, Idle
<1> QED BY <1>3, <1>4, <1>5 DEF SignInInv

LEMMA CommitType ==
  ASSUME TypeOK, SeenType, Commit
  PROVE  TypeOK' /\ SeenType'
<1>1. /\ ready' = ready /\ session' = session /\ wallet' = wallet /\ signer' = signer
      /\ changes' = changes /\ attempt' = attempt /\ known' = known
  BY DEF Commit, privy
<1>2. /\ onboarded' \in BOOLEAN /\ probed' \in BOOLEAN /\ error' \in BOOLEAN
      /\ slow' \in BOOLEAN /\ started' \in BOOLEAN
  BY DEF Commit
<1>3. opener' \in Someone
  BY SignInTypes DEF Commit, Someone
<1>4. probe' \in [login : Someone, reply : {"none", "asked", "yes", "no"}]
  BY SignInTypes, DepsType DEF Commit, NoProbe, Someone
<1>5. ceremony' \in [Ceremonies -> [login : Someone, by : Someone,
                                    at : {"idle", "signing", "sent", "stored", "refused"}]]
  <2>1. [login |-> Did, by |-> None, at |-> "signing"] \in
          [login : Someone, by : Someone, at : {"idle", "signing", "sent", "stored", "refused"}]
    BY DepsType DEF Someone
  <2>2. CASE Starts
    <3>1. PICK c \in Ceremonies :
             ceremony' = [ceremony EXCEPT ![c] = [login |-> Did, by |-> None, at |-> "signing"]]
      BY <2>2 DEF Commit
    <3> QED BY <2>1, <3>1, SignInTypes
  <2>3. CASE ~Starts
    BY <2>3, SignInTypes DEF Commit
  <2> QED BY <2>2, <2>3
<1>6. SeenType'
  BY DepsType DEF Commit, SeenType
<1>7. TypeOK'
  <2>1. /\ ready' \in BOOLEAN /\ wallet' \in BOOLEAN /\ signer' \in BOOLEAN /\ session' \in Someone
        /\ attempt' \in 0 .. MaxRetries /\ changes' \in 0 .. MaxSessions /\ known' \subseteq Login
    BY <1>1, SignInTypes
  <2> QED BY <1>2, <1>3, <1>4, <1>5, <2>1, Zenon DEF TypeOK, Someone
<1> QED BY <1>6, <1>7

LEMMA SignInTypeStep ==
  ASSUME TypeOK, SeenType, StoredIsKnown, SignInNext
  PROVE  TypeOK' /\ SeenType'
<1> DEFINE Runs == [login : Someone, by : Someone,
                    at : {"idle", "signing", "sent", "stored", "refused"}]
<1>0. None \in Someone /\ Idle \in Runs /\ NoProbe \in [login : Someone, reply : {"none", "asked", "yes", "no"}]
  BY DEF Someone, Idle, NoProbe
<1>1. CASE Commit
  BY <1>1, CommitType
<1>2. CASE ~Commit
  <2>1. CASE Wakes
    <3>1. TypeOK'
      BY <2>1, SignInTypes, Zenon DEF Wakes, home, TypeOK, Someone
    <3> QED BY <2>1, <3>1 DEF Wakes, home, SeenType
  <2>2. CASE WalletLands
    <3>1. wallet' \in BOOLEAN /\ signer' \in BOOLEAN
      BY <2>2, SignInTypes DEF WalletLands
    <3>2. TypeOK'
      BY <2>2, <3>1, SignInTypes, Zenon DEF WalletLands, home, TypeOK, Someone
    <3> QED BY <2>2, <3>2 DEF WalletLands, home, SeenType
  <2>3. CASE \E d \in {None} \cup Login : Session(d)
    <3> PICK d \in Someone : Session(d)
      BY <2>3 DEF Someone
    <3>1. changes' \in 0 .. MaxSessions
      BY SignInTypes, SignInAssumption DEF Session, SignInAssumption
    <3>2. TypeOK'
      BY <3>1, SignInTypes, Zenon DEF Session, home, TypeOK, Someone
    <3> QED BY <3>2 DEF Session, home, SeenType
  <2>4. CASE Watchdog
    <3>1. TypeOK'
      BY <2>4, SignInTypes, Zenon DEF Watchdog, privy, TypeOK, Someone
    <3> QED BY <2>4, <3>1 DEF Watchdog, SeenType
  <2>5. CASE ProbeReads
    <3>1. probe' \in [login : Someone, reply : {"none", "asked", "yes", "no"}]
      BY <2>5, SignInTypes DEF ProbeReads
    <3>2. TypeOK'
      BY <2>5, <3>1, SignInTypes, Zenon DEF ProbeReads, privy, TypeOK, Someone
    <3> QED BY <2>5, <3>2 DEF ProbeReads, SeenType
  <2>6. CASE \E ok \in BOOLEAN : ProbeEnds(ok)
    <3> PICK ok \in BOOLEAN : ProbeEnds(ok)
      BY <2>6
    <3>1. onboarded' \in BOOLEAN /\ opener' \in Someone /\ probe' = NoProbe
      BY <1>0, SignInTypes DEF ProbeEnds
    <3>2. TypeOK'
      BY <1>0, <3>1, SignInTypes, Zenon DEF ProbeEnds, privy, TypeOK, Someone
    <3> QED BY <3>2 DEF ProbeEnds, SeenType
  <2>7. CASE \E c \in Ceremonies : Signs(c) \/ Onboards(c)
    <3> PICK c \in Ceremonies : Signs(c) \/ Onboards(c)
      BY <2>7
    <3>1. ceremony' \in [Ceremonies -> Runs]
      BY SignInTypes DEF Signs, Onboards
    <3>2. known' \subseteq Login
      <4>1. CASE Signs(c)
        BY <4>1, SignInTypes DEF Signs
      <4>2. CASE Onboards(c)
        <5>1. ceremony[c].login \in Login
          BY <4>2 DEF Onboards, StoredIsKnown
        <5> QED BY <4>2, <5>1, SignInTypes DEF Onboards
      <4> QED BY <4>1, <4>2
    <3>3. TypeOK'
      BY <3>1, <3>2, SignInTypes, Zenon DEF Signs, Onboards, privy, home, TypeOK,
         Someone
    <3> QED BY <3>3 DEF Signs, Onboards, home, SeenType
  <2>8. CASE \E c \in Ceremonies : Succeeds(c) \/ Fails(c)
    <3> PICK c \in Ceremonies : Succeeds(c) \/ Fails(c)
      BY <2>8
    <3>1. ceremony' \in [Ceremonies -> Runs]
      BY <1>0, SignInTypes DEF Succeeds, Fails
    <3>2. ceremony[c].login \in Someone
      BY SignInTypes
    <3>3. /\ onboarded' \in BOOLEAN /\ error' \in BOOLEAN /\ started' \in BOOLEAN /\ opener' \in Someone
      BY <3>2, SignInTypes DEF Succeeds, Fails
    <3>4. TypeOK'
      BY <3>1, <3>3, SignInTypes, Zenon DEF Succeeds, Fails, privy, TypeOK, Someone
    <3> QED BY <3>4 DEF Succeeds, Fails, SeenType
  <2>9. CASE Retry
    <3>1. attempt' \in 0 .. MaxRetries
      BY <2>9, SignInTypes, SignInAssumption DEF Retry, SignInAssumption
    <3>2. TypeOK'
      BY <2>9, <3>1, SignInTypes, Zenon DEF Retry, privy, TypeOK, Someone
    <3> QED BY <2>9, <3>2 DEF Retry, SeenType
  <2>10. CASE \E ok \in BOOLEAN : Reload(ok)
    <3> PICK ok \in BOOLEAN : Reload(ok)
      BY <2>10
    <3>1. session' \in Someone /\ attempt' \in 0 .. MaxRetries
      BY <1>0, SignInTypes, SignInAssumption DEF Reload, SignInAssumption
    <3>2. ceremony' \in [Ceremonies -> Runs]
      BY <1>0 DEF Reload
    <3>3. known' \subseteq Login
      <4>1. PICK served \in SUBSET {c \in Ceremonies : ceremony[c].at = "sent" /\ ProofHolds(c)} :
              known' = known \cup {ceremony[c].login : c \in served}
        BY DEF Reload
      <4>2. \A c \in served : ceremony[c].login \in Login
        BY DEF StoredIsKnown
      <4> QED BY <4>1, <4>2, SignInTypes
    <3>4. TypeOK'
      BY <1>0, <3>1, <3>2, <3>3, SignInTypes, Zenon DEF Reload, TypeOK, Someone
    <3> QED BY <1>0, <3>4 DEF Reload, SeenType, Blank
  <2> QED BY <1>2, <2>1, <2>2, <2>3, <2>4, <2>5, <2>6, <2>7, <2>8, <2>9, <2>10 DEF
             SignInNext
<1> QED BY <1>1, <1>2

-----------------------------------------------------------------------------
(* The sign-in: whom its flags are about.                                  *)

\* The effects notice every change of the login they watch.
LEMMA ALoginIsNoticed ==
  ASSUME TypeOK, Commit
  PROVE  /\ seen'.session = Did
         /\ ~ProbeRestarts => seen.session = Did
         /\ ~Switched => seen.session \in {None, Did}
<1>1. Deps.session = Did
  BY DEF Deps
<1> QED BY <1>1 DEF Commit, ProbeRestarts, Switched

\* The server forgets nobody.
LEMMA KnownOnlyGrows ==
  ASSUME SignInNext PROVE known \subseteq known'
<1>1. CASE \E c \in Ceremonies : Signs(c) \/ Onboards(c) \/ Succeeds(c) \/ Fails(c)
  BY <1>1 DEF Signs, Onboards, Succeeds, Fails
<1>2. CASE \E ok \in BOOLEAN : ProbeEnds(ok) \/ Reload(ok)
  BY <1>2 DEF ProbeEnds, Reload
<1>3. CASE Wakes \/ WalletLands \/ Commit \/ Watchdog \/ ProbeReads \/ Retry
  BY <1>3 DEF Wakes, WalletLands, Commit, Watchdog, ProbeReads, Retry
<1>4. CASE \E d \in {None} \cup Login : Session(d)
  BY <1>4 DEF Session
<1> QED BY <1>1, <1>2, <1>3, <1>4 DEF SignInNext

LEMMA StoredStep ==
  ASSUME TypeOK, StoredIsKnown, SignInNext
  PROVE  StoredIsKnown'
<1> SUFFICES ASSUME NEW c \in Ceremonies
             PROVE  /\ ceremony'[c].at # "idle" => ceremony'[c].login \in Login
                    /\ ceremony'[c].at = "stored" => ceremony'[c].login \in known'
  BY DEF StoredIsKnown
<1>1. /\ ceremony[c].at # "idle" => ceremony[c].login \in Login
      /\ ceremony[c].at = "stored" => ceremony[c].login \in known'
  BY KnownOnlyGrows DEF StoredIsKnown
<1>2. \A b \in Ceremonies :
         /\ ceremony[b] \in [login : Someone, by : Someone,
                             at : {"idle", "signing", "sent", "stored", "refused"}]
         /\ Idle.at = "idle"
  BY SignInTypes DEF Idle
<1>3. CASE ceremony'[c] = ceremony[c]
  BY <1>1, <1>3
<1>4. CASE ceremony'[c] = Idle
  BY <1>2, <1>4
<1>5. CASE Commit /\ Starts
  <2>1. PICK b \in Ceremonies :
          ceremony' = [ceremony EXCEPT ![b] = [login |-> Did, by |-> None, at |-> "signing"]]
    BY <1>5 DEF Commit
  <2>2. Did \in Login
    BY <1>5, DepsType DEF Starts, Someone
  <2>3. CASE c = b
    <3>1. ceremony'[c] = [login |-> Did, by |-> None, at |-> "signing"]
      BY <2>1, <2>3, SignInTypes
    <3> QED BY <2>2, <3>1
  <2>4. CASE c # b
    BY <1>3, <2>1, <2>4, SignInTypes
  <2> QED BY <2>3, <2>4
<1>6. CASE \E b \in Ceremonies : Signs(b) \/ Onboards(b)
  <2> PICK b \in Ceremonies : Signs(b) \/ Onboards(b)
    BY <1>6
  <2>1. ceremony[b].at # "idle" /\ ceremony[b].login \in Login
    BY DEF Signs, Onboards, StoredIsKnown
  <2>2. ceremony'[b].login = ceremony[b].login
    BY <1>2, SignInTypes DEF Signs, Onboards
  <2>3. ceremony'[b].at = "stored" => ceremony[b].login \in known'
    BY <1>2, SignInTypes DEF Signs, Onboards
  <2>4. c # b => ceremony'[c] = ceremony[c]
    BY SignInTypes DEF Signs, Onboards
  <2> QED BY <1>3, <2>1, <2>2, <2>3, <2>4
<1>7. CASE \E b \in Ceremonies : Succeeds(b) \/ Fails(b)
  <2> PICK b \in Ceremonies : Succeeds(b) \/ Fails(b)
    BY <1>7
  <2>1. ceremony' = [ceremony EXCEPT ![b] = Idle]
    BY DEF Succeeds, Fails
  <2> QED BY <1>3, <1>4, <2>1, SignInTypes
<1>8. CASE Commit /\ ~Starts
  BY <1>3, <1>8 DEF Commit
<1>9. CASE \E ok \in BOOLEAN : Reload(ok)
  BY <1>4, <1>9 DEF Reload
<1>10. CASE \/ Wakes \/ WalletLands \/ Watchdog \/ ProbeReads \/ Retry
            \/ \E d \in {None} \cup Login : Session(d)
            \/ \E ok \in BOOLEAN : ProbeEnds(ok)
  BY <1>3, <1>10 DEF Wakes, WalletLands, Watchdog, ProbeReads, Retry, Session,
     ProbeEnds
<1> QED BY <1>5, <1>6, <1>7, <1>8, <1>9, <1>10 DEF SignInNext

LEMMA ProbeStep ==
  ASSUME TypeOK, ProbeIsOfTheSeen, SignInNext
  PROVE  ProbeIsOfTheSeen'
<1>1. known \subseteq known'
  BY KnownOnlyGrows
<1>2. NoProbe.reply = "none"
  BY DEF NoProbe
<1>3. CASE Commit
  <2>1. CASE ProbeRestarts
    <3>1. probe' = NoProbe \/ probe' = [login |-> Did, reply |-> "asked"]
      BY <1>3, <2>1 DEF Commit
    <3> QED BY <1>2, <1>3, <3>1, ALoginIsNoticed DEF ProbeIsOfTheSeen
  <2>2. CASE ~ProbeRestarts
    <3>1. probe' = probe /\ seen'.session = seen.session
      BY <1>3, <2>2, ALoginIsNoticed DEF Commit
    <3> QED BY <1>1, <3>1 DEF ProbeIsOfTheSeen
  <2> QED BY <2>1, <2>2
<1>4. CASE ProbeReads
  <2>1. /\ probe'.login = probe.login /\ seen' = seen /\ known' = known /\ probe.reply = "asked"
        /\ probe'.reply = (IF probe.login \in known THEN "yes" ELSE "no")
    BY <1>4, SignInTypes DEF ProbeReads
  <2> QED BY <2>1 DEF ProbeIsOfTheSeen
<1>5. CASE probe' = NoProbe
  BY <1>2, <1>5 DEF ProbeIsOfTheSeen
<1>6. CASE probe' = probe /\ seen' = seen
  BY <1>1, <1>6 DEF ProbeIsOfTheSeen
<1>7. CASE \E ok \in BOOLEAN : ProbeEnds(ok) \/ Reload(ok)
  BY <1>5, <1>7 DEF ProbeEnds, Reload
<1>8. CASE \/ Wakes \/ WalletLands \/ Watchdog \/ Retry
           \/ \E d \in {None} \cup Login : Session(d)
           \/ \E c \in Ceremonies : Signs(c) \/ Onboards(c) \/ Succeeds(c) \/ Fails(c)
  BY <1>6, <1>8 DEF Wakes, WalletLands, Watchdog, Retry, Session, Signs, Onboards,
     Succeeds, Fails, home
<1> QED BY <1>3, <1>4, <1>7, <1>8 DEF SignInNext

LEMMA OpenedStep ==
  ASSUME SignInInv, SignInNext
  PROVE  OpenedForTheKnown'
<1> USE DEF SignInInv
<1>1. known \subseteq known'
  BY KnownOnlyGrows
<1>2. None \notin known
  BY SignInTypes, SignInAssumption DEF SignInAssumption
<1>3. CASE ~onboarded'
  BY <1>3 DEF OpenedForTheKnown
<1>4. CASE (onboarded' => onboarded) /\ opener' = opener /\ seen' = seen
  BY <1>1, <1>4 DEF OpenedForTheKnown
<1>5. CASE Commit
  <2>1. CASE Switched
    BY <1>3, <1>5, <2>1 DEF Commit
  <2>2. CASE ~Switched
    <3>1. /\ onboarded' => onboarded
          /\ opener' = opener /\ known' = known
          /\ seen'.session = Did /\ seen.session \in {None, Did}
      BY <1>5, <2>2, ALoginIsNoticed DEF Commit
    <3> QED BY <1>2, <3>1 DEF OpenedForTheKnown
  <2> QED BY <2>1, <2>2
<1>6. CASE \E ok \in BOOLEAN : ProbeEnds(ok)
  <2> PICK ok \in BOOLEAN : ProbeEnds(ok)
    BY <1>6
  <2>1. CASE ok
    <3>1. opener' = None /\ probe.reply = "yes" /\ seen' = seen
      BY <2>1 DEF ProbeEnds
    <3>2. seen.session \in known
      BY <3>1 DEF ProbeIsOfTheSeen
    <3> QED BY <1>1, <3>1, <3>2 DEF OpenedForTheKnown
  <2>2. CASE ~ok
    BY <1>4, <2>2 DEF ProbeEnds
  <2> QED BY <2>1, <2>2
<1>7. CASE \E c \in Ceremonies : Succeeds(c)
  <2> PICK c \in Ceremonies : Succeeds(c)
    BY <1>7
  <2>1. opener' = ceremony[c].login /\ ceremony[c].login \in known
    BY DEF Succeeds, StoredIsKnown
  <2>2. opener' # None
    BY <1>2, <2>1
  <2> QED BY <1>1, <2>1, <2>2 DEF OpenedForTheKnown
<1>8. CASE \E ok \in BOOLEAN : Reload(ok)
  BY <1>3, <1>8 DEF Reload
<1>9. CASE \/ Wakes \/ WalletLands \/ Watchdog \/ Retry \/ ProbeReads
           \/ \E d \in {None} \cup Login : Session(d)
           \/ \E c \in Ceremonies : Signs(c) \/ Onboards(c) \/ Fails(c)
  BY <1>4, <1>9 DEF Wakes, WalletLands, Watchdog, Retry, ProbeReads, Session,
     Signs, Onboards, Fails, home
<1> QED BY <1>5, <1>6, <1>7, <1>8, <1>9 DEF SignInNext

LEMMA SignInStep ==
  ASSUME SignInInv, SignInNext
  PROVE  SignInInv'
<1>1. TypeOK' /\ SeenType'
  BY SignInTypeStep DEF SignInInv
<1>2. StoredIsKnown' /\ ProbeIsOfTheSeen'
  BY StoredStep, ProbeStep DEF SignInInv
<1>3. OpenedForTheKnown'
  BY OpenedStep
<1> QED BY <1>1, <1>2, <1>3 DEF SignInInv

-----------------------------------------------------------------------------
(* The issuance.                                                           *)

\* The empty form and the closed modal.
LEMMA Empties ==
  /\ Defaults \in Fields
  /\ Closed \in [open : BOOLEAN, fields : Fields, drafting : BOOLEAN, issued : BOOLEAN]
  /\ Opened \in [open : BOOLEAN, fields : Fields, drafting : BOOLEAN, issued : BOOLEAN]
<1>1. Defaults \in Fields
  BY DEF Defaults, Fields
<1>2. Closed \in [open : BOOLEAN, fields : Fields, drafting : BOOLEAN, issued : BOOLEAN]
  BY <1>1 DEF Closed
<1>3. Opened \in [open : BOOLEAN, fields : Fields, drafting : BOOLEAN, issued : BOOLEAN]
  BY <1>2 DEF Opened
<1> QED BY <1>1, <1>2, <1>3

\* The issuance that is none: of the empty form, and booked for nobody.
LEMMA NoIssueFacts ==
  /\ NoIssue \in [at : {"none", "preparing", "prepared", "signed", "for did", "issued"},
                  login : Someone, account : Someone, owner : Someone, filled : Fields,
                  terms : [pay : BOOLEAN, contract : BOOLEAN, allowance : BOOLEAN],
                  view : {"form", "deck", "gone"}]
  /\ NoIssue.at = "none"
  /\ NoIssue.terms = BuildTerms(NoIssue.filled)
  /\ ScopeIsWhole(NoIssue.filled) /\ AllowanceHasScope(NoIssue.filled)
<1>1. BuildTerms(Defaults) \in [pay : BOOLEAN, contract : BOOLEAN, allowance : BOOLEAN]
  BY DEF BuildTerms, Defaults
<1>2. NoIssue \in [at : {"none", "preparing", "prepared", "signed", "for did", "issued"},
                  login : Someone, account : Someone, owner : Someone, filled : Fields,
                  terms : [pay : BOOLEAN, contract : BOOLEAN, allowance : BOOLEAN],
                  view : {"form", "deck", "gone"}]
  BY <1>1, Empties DEF NoIssue, Someone
<1>3. NoIssue.at = "none" /\ NoIssue.filled = Defaults /\ NoIssue.terms = BuildTerms(Defaults)
  BY DEF NoIssue
<1>4. ScopeIsWhole(Defaults) /\ AllowanceHasScope(Defaults)
  BY DEF ScopeIsWhole, AllowanceHasScope, Defaults
<1> QED BY <1>2, <1>3, <1>4

\* The issuance goes on, or is over, with what it was pressed with.
LEMMA SameForm ==
  ASSUME IssueType, WholeForm, IssueType',
         issue'.filled = issue.filled, issue'.terms = issue.terms
  PROVE  WholeForm'
BY DEF WholeForm, ScopeIsWhole, AllowanceHasScope

LEMMA FormStep ==
  ASSUME TypeOK, IssueInv, FormNext
  PROVE  IssueInv'
<1> USE DEF IssueInv
<1>0. session \in Someone
  BY SignInTypes
<1>1. CASE issue' = issue /\ ModalType'
  BY <1>1 DEF IssueType, WholeForm, PreparedIsTheSigners
<1>2. CASE issue' = NoIssue /\ ModalType'
  <2>1. IssueType' /\ WholeForm' /\ PreparedIsTheSigners'
    BY <1>2, NoIssueFacts DEF IssueType, WholeForm, PreparedIsTheSigners,
       ScopeIsWhole, AllowanceHasScope
  <2> QED BY <1>2, <2>1
<1>3. CASE OpenModal
  BY <1>1, <1>3, Empties DEF OpenModal, ModalType
<1>4. CASE CloseModal
  <2>1. ModalType'
    BY <1>4, Empties DEF CloseModal, ModalType
  <2>2. /\ issue'.at = issue.at /\ issue'.account = issue.account
        /\ issue'.owner = issue.owner /\ issue'.login = issue.login
        /\ issue'.filled = issue.filled /\ issue'.terms = issue.terms
        /\ IssueType'
    BY <1>4 DEF CloseModal, IssueType
  <2>3. WholeForm'
    BY <2>2, SameForm
  <2> QED BY <2>1, <2>2, <2>3 DEF PreparedIsTheSigners
<1>5. CASE Compile
  BY <1>1, <1>5 DEF Compile, ModalType
<1>6. CASE \E f \in Forms : Edit(f) \/ ApplyDraft(f)
  <2> PICK f \in Forms : Edit(f) \/ ApplyDraft(f)
    BY <1>6
  <2>1. f \in Fields
    BY FormsAssumption DEF FormsAssumption
  <2> QED BY <1>1, <2>1 DEF Edit, ApplyDraft, ModalType
<1>7. CASE Issue
  <2>1. modal.fields \in Fields
    BY DEF ModalType
  <2>2. BuildTerms(modal.fields) \in [pay : BOOLEAN, contract : BOOLEAN, allowance : BOOLEAN]
    BY <2>1 DEF BuildTerms, Fields
  <2>3. IssueType'
    BY <1>0, <1>7, <2>1, <2>2 DEF Issue, IssueType, Someone
  <2>4. WholeForm'
    BY <1>7 DEF Issue, WholeForm, ScopeIsWhole, AllowanceHasScope
  <2>5. PreparedIsTheSigners' /\ ModalType'
    BY <1>7 DEF Issue, PreparedIsTheSigners, ModalType
  <2> QED BY <2>3, <2>4, <2>5
<1>8. CASE Prepares
  <2>1. /\ IssueType' /\ issue'.at = "prepared" /\ ModalType'
        /\ issue'.filled = issue.filled /\ issue'.terms = issue.terms
    BY <1>0, <1>8 DEF Prepares, IssueType, ModalType
  <2> QED BY <2>1, SameForm DEF PreparedIsTheSigners
<1>9. CASE SignDelegation
  <2>1. /\ IssueType' /\ issue'.at = "signed" /\ ModalType'
        /\ issue'.filled = issue.filled /\ issue'.terms = issue.terms
    BY <1>9 DEF SignDelegation, IssueType, ModalType
  <2> QED BY <2>1, SameForm DEF PreparedIsTheSigners
<1>10. CASE Finalizes
  <2>1. /\ IssueType' /\ issue'.at = "issued" /\ ModalType'
        /\ issue'.owner = session /\ issue'.login = issue.login
        /\ issue'.filled = issue.filled /\ issue'.terms = issue.terms
    BY <1>0, <1>10 DEF Finalizes, IssueType, ModalType
  <2>2. session = issue.login
    BY <1>10 DEF Finalizes, OwnPrepare, SignatureRecovers
  <2> QED BY <2>1, <2>2, SameForm DEF PreparedIsTheSigners
<1>11. CASE IssuesForDID
  <2>1. /\ IssueType' /\ issue'.at = "issued" /\ ModalType' /\ issue'.account = None
        /\ issue'.filled = issue.filled /\ issue'.terms = issue.terms
    BY <1>0, <1>11 DEF IssuesForDID, IssueType, ModalType, PreparedIsTheSigners
  <2> QED BY <2>1, SameForm DEF PreparedIsTheSigners
<1>12. CASE IssueLands
  <2>1. ModalType'
    BY <1>12, Empties DEF IssueLands, ModalType
  <2> QED BY <1>2, <1>12, <2>1 DEF IssueLands
<1>13. CASE IssueFails
  BY <1>2, <1>13 DEF IssueFails, ModalType
<1> QED BY <1>3, <1>4, <1>5, <1>6, <1>7, <1>8, <1>9, <1>10, <1>11, <1>12, <1>13
           DEF FormNext

\* The page takes the modal and, when it is reloaded, the issuance with it.
LEMMA RemountStep ==
  ASSUME IssueInv, Remounts
  PROVE  IssueInv'
<1> USE DEF IssueInv
<1>1. ModalType'
  BY Empties DEF Remounts, ModalType
<1>2. CASE issue' = NoIssue
  BY <1>1, <1>2, NoIssueFacts DEF IssueType, WholeForm, PreparedIsTheSigners,
     ScopeIsWhole, AllowanceHasScope
<1>3. CASE issue' = issue
  BY <1>1, <1>3 DEF IssueType, WholeForm, PreparedIsTheSigners
<1>4. CASE issue' = [issue EXCEPT !.view = "gone"]
  <2>1. /\ issue'.at = issue.at /\ issue'.account = issue.account
        /\ issue'.owner = issue.owner /\ issue'.login = issue.login
        /\ issue'.filled = issue.filled /\ issue'.terms = issue.terms
        /\ IssueType'
    BY <1>4 DEF IssueType
  <2> QED BY <1>1, <2>1, SameForm DEF PreparedIsTheSigners
<1> QED BY <1>2, <1>3, <1>4 DEF Remounts

-----------------------------------------------------------------------------
(* The theorems.                                                           *)

\* ConsoleInv, and with it all that follows, holds in every reachable state.
LEMMA ConsoleHolds == ConsoleSpec => []ConsoleInv
<1>1. ConsoleInit => ConsoleInv
  <2> SUFFICES ASSUME ConsoleInit PROVE ConsoleInv
    OBVIOUS
  <2>1. SignInInv
    BY InitSignIn DEF ConsoleInit
  <2>2. IssueInv
    BY Empties, NoIssueFacts
    DEF ConsoleInit, FormInit, IssueInv, IssueType, ModalType, WholeForm, PreparedIsTheSigners
  <2> QED BY <2>1, <2>2 DEF ConsoleInv
<1>2. ConsoleInv /\ [ConsoleNext]_consoleVars => ConsoleInv'
  <2> SUFFICES ASSUME ConsoleInv, [ConsoleNext]_consoleVars PROVE ConsoleInv'
    OBVIOUS
  <2>1. SignInInv /\ TypeOK /\ IssueInv
    BY DEF ConsoleInv, SignInInv
  <2>2. CASE SignInNext /\ Remounts
    BY <2>1, <2>2, SignInStep, RemountStep DEF ConsoleInv
  <2>3. vars' = vars => SignInInv'
    BY <2>1 DEF SignInInv, TypeOK, SeenType, ProbeIsOfTheSeen, StoredIsKnown,
       OpenedForTheKnown, vars, privy, home
  <2>4. CASE FormNext
    <3>1. vars' = vars
      BY <2>4 DEF FormNext, OpenModal, CloseModal, Compile, Issue, Edit,
         ApplyDraft, Prepares,
                  SignDelegation, Finalizes, IssuesForDID, IssueLands, IssueFails
    <3> QED BY <2>1, <2>3, <2>4, <3>1, FormStep DEF ConsoleInv
  <2>5. CASE UNCHANGED consoleVars
    <3>1. vars' = vars /\ modal' = modal /\ issue' = issue
      BY <2>5 DEF consoleVars, formVars
    <3>2. IssueInv'
      BY <2>1, <3>1 DEF IssueInv, IssueType, WholeForm, PreparedIsTheSigners,
         ModalType
    <3> QED BY <2>3, <3>1, <3>2 DEF ConsoleInv
  <2> QED BY <2>2, <2>4, <2>5 DEF ConsoleNext
<1> QED BY <1>1, <1>2, PTL DEF ConsoleSpec

\* The variables of the page, its modal and its issuance have their types in
\* every reachable state.
THEOREM TypeCorrect == ConsoleSpec => []ConsoleTypeOK
<1>1. ConsoleInv => ConsoleTypeOK
  BY DEF ConsoleInv, SignInInv, IssueInv, IssueType, ModalType, ConsoleTypeOK
<1> QED BY <1>1, ConsoleHolds, PTL

\* Once the effects have run, a dashboard that no stray ceremony opened belongs
\* to a login the server knows, through every order of sessions, wallets, probes,
\* ceremonies, timeouts and reloads (page.tsx 36-176).
THEOREM DashboardsAreForTheKnown == ConsoleSpec => []OnboardedIsKnown
<1>1. ConsoleInv => OnboardedIsKnown
  <2> SUFFICES ASSUME ConsoleInv, seen = Deps, OnDashboard, opener \in {None, session}
               PROVE  session \in known
    BY DEF OnboardedIsKnown
  <2>1. (IF opener = None THEN seen.session ELSE opener) \in known
    BY DEF ConsoleInv, SignInInv, OpenedForTheKnown, OnDashboard
  <2>2. seen.session = session
    BY DEF Deps, Did, OnDashboard
  <2> QED BY <2>1, <2>2
<1> QED BY <1>1, ConsoleHolds, PTL

\* An issued card holds all that was filled in when Issue was pressed, for all
\* forms, drafts and edits in between (page.tsx 572-661).
THEOREM FormsAreKept == ConsoleSpec => []NothingDropped
<1>1. ConsoleInv => NothingDropped
  <2> SUFFICES ASSUME ConsoleInv PROVE NothingDropped
    OBVIOUS
  <2>1. issue.filled \in Fields /\ WholeForm
    BY DEF ConsoleInv, IssueInv, IssueType
  <2> QED BY <2>1 DEF NothingDropped, WholeForm, ScopeIsWhole, AllowanceHasScope,
             BuildTerms, Fields
<1> QED BY <1>1, ConsoleHolds, PTL

\* A client-signed card is booked for the login whose wallet signed it, whoever
\* signs in between the click, the prepare and the finalize.
THEOREM CardsAreTheirSigners == ConsoleSpec => []CardIsItsSigners
<1>1. ConsoleInv => CardIsItsSigners
  BY DEF ConsoleInv, IssueInv, PreparedIsTheSigners, CardIsItsSigners
<1> QED BY <1>1, ConsoleHolds, PTL
=============================================================================
