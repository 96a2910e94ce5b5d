------------------------------ MODULE MCAccess ------------------------------
(***************************************************************************)
(* An agent's two doors: its user answers the consent page, and then it    *)
(* calls.  Two cards and two agents of one DID; the page and the calls     *)
(* share nothing but the order: the page is put back when it is left, and   *)
(* the cards are then what they may have become.                           *)
(***************************************************************************)
EXTENDS Access, Consent

VARIABLE door

allVars == <<vars, pageVars, door>>

\* The first card's row, the second's, each with the agent of its DID binding.
Table(s1, a1, s2, a2) ==
    [c \in Card |-> IF c = 1 THEN [status |-> s1, agent |-> a1] ELSE [status |-> s2, agent |-> a2]]

\* Empty; a bound card; a dead bound card before a live one; an unbound card
\* before a bound one.
SmallTables ==
    {Table("none", None, "none", None)}
    \cup {Table("live", a, "none", None) : a \in Agent}
    \cup {Table("dead", a, "live", a) : a \in Agent}
    \cup {Table("live", None, "live", a) : a \in Agent}

DoorsInit ==
    /\ Init /\ \A c \in Card : row[c].status = "none"
    /\ ConsentInit /\ door = "consent"

Enters ==
    /\ door = "consent" /\ door' = "mcp"
    /\ session' = NoLogin /\ page' = Blank /\ away' = FALSE /\ calls' = {}
    /\ server' = [open |-> TRUE, user |-> NoLogin]
    /\ browser' = [loopback |-> FALSE, storage |-> FALSE]
    /\ saved' = FALSE /\ turns' = 0
    /\ presses' = 0 /\ codes' = 0 /\ denials' = 0 /\ jumps' = 0
    /\ row' \in Tables /\ UNCHANGED <<changes, hits, req, prompt>>

DoorsNext ==
    \/ door = "consent" /\ ConsentNext /\ UNCHANGED <<vars, door>>
    \/ Enters
    \/ door = "mcp" /\ Next /\ UNCHANGED <<pageVars, door>>

Doors == DoorsInit /\ [][DoorsNext]_allVars /\ Fairness
=============================================================================
