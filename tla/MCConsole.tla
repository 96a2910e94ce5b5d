------------------------------ MODULE MCConsole ------------------------------
(***************************************************************************)
(* IssueForm with its sign-in, checked as one page.                        *)
(***************************************************************************)
EXTENDS IssueForm

Form(pay, targets, methods, allowance, t3n) ==
    [pay |-> pay, targets |-> targets, methods |-> methods, allowance |-> allowance, t3n |-> t3n]

\* A whole scope with an allowance, half a scope, an allowance without a scope,
\* an agent's DID; a budget alone is what the modal opens with.
FourForms ==
    {Form(FALSE, TRUE, TRUE, TRUE, FALSE), Form(TRUE, TRUE, FALSE, FALSE, FALSE),
     Form(TRUE, FALSE, FALSE, TRUE, FALSE), Form(TRUE, FALSE, FALSE, FALSE, TRUE)}
=============================================================================
