------------------------------ MODULE IssueForm ------------------------------
(***************************************************************************)
(* The issue modal of the dashboard (IssueModal in dashboard/app/page.tsx) *)
(* and the two ways it issues a card, on top of SignIn: the dashboard and  *)
(* its modal are unmounted whenever the screen changes, but an issuance in *)
(* flight goes on, under the token of whoever is signed in by then.        *)
(*                                                                         *)
(* A field is filled or empty; the half-filled forms are what matters.     *)
(***************************************************************************)
EXTENDS SignIn

CONSTANT Forms   \* bound: what the fields are edited or drafted to

VARIABLES
    modal,    \* the modal, Closed when not on the screen
    issue     \* the issuance in flight (bound: one at a time)

formVars == <<modal, issue>>
consoleVars == <<vars, formVars>>

Fields == [pay : BOOLEAN, targets : BOOLEAN, methods : BOOLEAN, allowance : BOOLEAN, t3n : BOOLEAN]

FormsAssumption == Forms \subseteq Fields

ASSUME FormsAssumption

Defaults == [pay |-> TRUE, targets |-> FALSE, methods |-> FALSE, allowance |-> FALSE, t3n |-> FALSE]

\* A modal is busy while the issuance in flight is its own.
Closed == [open |-> FALSE, fields |-> Defaults, drafting |-> FALSE, issued |-> FALSE]
Opened == [Closed EXCEPT !.open = TRUE]

\* What of a form gets into the terms.
BuildTerms(f) ==
    [pay |-> f.pay,
     contract |-> f.targets /\ f.methods,
     allowance |-> f.targets /\ f.methods /\ f.allowance]

NoIssue ==
    [at |-> "none", login |-> None, account |-> None, owner |-> None,
     filled |-> Defaults, terms |-> BuildTerms(Defaults), view |-> "gone"]

FormInit == modal = Closed /\ issue = NoIssue

-----------------------------------------------------------------------------
(* The modal.                                                              *)

OpenModal ==
    /\ OnDashboard /\ ~modal.open
    /\ modal' = Opened
    /\ UNCHANGED <<vars, issue>>

\* Escape, Cancel, Done, the scrim: also while an issuance is in flight.
CloseModal ==
    /\ modal.open
    /\ modal' = Closed
    /\ issue' = IF issue.view = "form" THEN [issue EXCEPT !.view = "deck"] ELSE issue
    /\ UNCHANGED vars

Edit(f) ==
    /\ modal.open /\ ~modal.issued
    /\ modal' = [modal EXCEPT !.fields = f]
    /\ UNCHANGED <<vars, issue>>

Compile ==
    /\ modal.open /\ ~modal.issued /\ ~modal.drafting
    /\ modal' = [modal EXCEPT !.drafting = TRUE]
    /\ UNCHANGED <<vars, issue>>

\* A draft fills every field but the agent's DID; without one nothing changes.
ApplyDraft(f) ==
    /\ modal.drafting
    /\ f.t3n = modal.fields.t3n
    /\ f # modal.fields => f.targets = f.methods /\ (f.allowance => f.targets)
    /\ modal' = [modal EXCEPT !.drafting = FALSE, !.fields = f]
    /\ UNCHANGED <<vars, issue>>

\* Mutant: an allowance without a scope is dropped in silence.
MutNoScopeCheck(f) == TRUE

ScopeIsWhole(f) == f.targets = f.methods
AllowanceHasScope(f) == f.allowance => f.targets
NotEmpty(f) == f.pay \/ (f.targets /\ f.methods)

Issue ==
    /\ modal.open /\ ~modal.issued /\ issue = NoIssue
    /\ ScopeIsWhole(modal.fields)
    /\ AllowanceHasScope(modal.fields)
    /\ NotEmpty(modal.fields)
    /\ issue' = [at |-> IF modal.fields.t3n THEN "for did" ELSE "preparing",
                 login |-> session, account |-> None, owner |-> None,
                 filled |-> modal.fields, terms |-> BuildTerms(modal.fields), view |-> "form"]
    /\ UNCHANGED <<vars, modal>>

-----------------------------------------------------------------------------
(* The server, for whom the token names.                                   *)

\* boundUser: the wallet of the token's login, which must be onboarded.
Prepares ==
    /\ issue.at = "preparing" /\ session \in known
    /\ issue' = [issue EXCEPT !.at = "prepared", !.account = session]
    /\ UNCHANGED <<vars, modal>>

\* With the wallet the page held when Issue was pressed.
SignDelegation ==
    /\ issue.at = "prepared"
    /\ issue' = [issue EXCEPT !.at = "signed"]
    /\ UNCHANGED <<vars, modal>>

\* Mutant: anybody's prepare is finalized.
MutAnyPrepare == TRUE

OwnPrepare == session = issue.account
SignatureRecovers == issue.login = issue.account

Finalizes ==
    /\ issue.at = "signed" /\ session \in known
    /\ OwnPrepare /\ SignatureRecovers
    /\ issue' = [issue EXCEPT !.at = "issued", !.owner = session]
    /\ UNCHANGED <<vars, modal>>

\* Signed by the server's own key: no account is prepared.
IssuesForDID ==
    /\ issue.at = "for did" /\ session \in known
    /\ issue' = [issue EXCEPT !.at = "issued", !.owner = session]
    /\ UNCHANGED <<vars, modal>>

\* setIssuedUrl reaches the modal that asked; onIssued opens one either way.
IssueLands ==
    /\ issue.at = "issued"
    /\ modal' = IF issue.view = "form" THEN [modal EXCEPT !.issued = TRUE]
                ELSE IF issue.view = "deck" /\ ~modal.open THEN Opened
                ELSE modal
    /\ issue' = NoIssue
    /\ UNCHANGED vars

\* Refusals, declined signatures, timeouts, and answers lost on the way back.
IssueFails ==
    /\ issue # NoIssue
    /\ issue' = NoIssue
    /\ UNCHANGED <<vars, modal>>

FormNext ==
    \/ OpenModal \/ CloseModal \/ Compile \/ Issue
    \/ \E f \in Forms : Edit(f) \/ ApplyDraft(f)
    \/ Prepares \/ SignDelegation \/ Finalizes \/ IssuesForDID
    \/ IssueLands \/ IssueFails

-----------------------------------------------------------------------------
(* The page.                                                               *)

\* The dashboard leaves the screen and takes the modal with it; a reload also
\* takes the issuance.
Remounts ==
    /\ modal' = IF OnDashboard' THEN modal ELSE Closed
    /\ issue' = IF (ready /\ ~ready') \/ issue = NoIssue THEN NoIssue
                ELSE IF OnDashboard' THEN issue ELSE [issue EXCEPT !.view = "gone"]

ConsoleNext == (SignInNext /\ Remounts) \/ FormNext

ConsoleInit == Init /\ FormInit

ConsoleSpec ==
    ConsoleInit /\ [][ConsoleNext]_consoleVars /\ SignInFairness

-----------------------------------------------------------------------------
(* Correctness.                                                            *)

ConsoleTypeOK ==
    /\ TypeOK
    /\ modal \in [open : BOOLEAN, fields : Fields, drafting : BOOLEAN, issued : BOOLEAN]
    /\ issue.at \in {"none", "preparing", "prepared", "signed", "for did", "issued"}
    /\ issue.view \in {"form", "deck", "gone"}

\* A card holds all that was filled in when Issue was pressed: a half-filled
\* contract scope, or an allowance without one, never vanishes from the terms
\* (page.tsx 600-612), whatever drafts and edits land while it is being signed.
NothingDropped ==
    issue.at = "issued" =>
        /\ issue.terms.pay = issue.filled.pay
        /\ issue.filled.targets \/ issue.filled.methods => issue.terms.contract
        /\ issue.filled.allowance => issue.terms.allowance

\* A client-signed card is booked for the login whose wallet signed it, also when
\* another account signs in between the click, the prepare and the finalize.
CardIsItsSigners ==
    issue.at = "issued" /\ issue.account # None => issue.owner = issue.login
=============================================================================
