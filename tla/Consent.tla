------------------------------ MODULE Consent ------------------------------
(***************************************************************************)
(* The consent page (dashboard app/connect/page.tsx) for one authorization *)
(* request: it loads the request and the cards of whoever is signed in,    *)
(* sends one answer, shows the code it gets and may go on to the app by    *)
(* itself.  Calls time out, answers are lost, the account changes under    *)
(* the page, and the user reloads it or comes back to it.                  *)
(*                                                                         *)
(* A card is named by its owner's login.  The calls of the page take the   *)
(* token of the session that starts them.  What the routes do to the       *)
(* request's row is a part of Grants; here it is what the page can see.    *)
(***************************************************************************)
EXTENDS Naturals, FiniteSets

CONSTANTS
    Login, NoLogin,
    Known,        \* logins that are onboarded
    MaxPresses,   \* bound: answers sent
    MaxTurns      \* bound: changes of the session and reloads

ConsentAssumption ==
    /\ NoLogin \notin Login /\ Known \subseteq Login
    /\ {MaxPresses, MaxTurns} \subseteq Nat

ASSUME ConsentAssumption

VARIABLES
    session,   \* the login of useRemit
    page,      \* the state of the page's components
    away,      \* the browser has left for the app
    calls,     \* API calls the page waits for or the server may still serve
    server,    \* the request's row: open, and the login it is bound to
    browser,   \* what does not change: a loopback redirect; storage that works
    saved,     \* sessionStorage holds the grant
    turns,     \* counts what MaxTurns bounds
    presses, codes, denials, jumps   \* history: answers sent, codes minted,
                                     \* requests denied, redirects not asked for

pageVars == <<session, page, away, calls, server, browser, saved, turns,
              presses, codes, denials, jumps>>

Someone == {NoLogin} \cup Login

Blank ==
    [info |-> FALSE, cards |-> NoLogin, picked |-> NoLogin, phase |-> "idle",
     granted |-> "no", err |-> FALSE, timer |-> FALSE]

ApiCall(id, kind, card) ==
    [id |-> id, kind |-> kind, by |-> session, card |-> card, at |-> "sent", awaited |-> TRUE]

ConsentInit ==
    /\ session = NoLogin /\ page = Blank /\ away = FALSE /\ calls = {}
    /\ server = [open |-> TRUE, user |-> NoLogin]
    /\ browser \in [loopback : BOOLEAN, storage : BOOLEAN]
    /\ saved = FALSE /\ turns = 0
    /\ presses = 0 /\ codes = 0 /\ denials = 0 /\ jumps = 0

-----------------------------------------------------------------------------
(* The session and the load of the request.                                *)

Turns == turns < MaxTurns /\ turns' = turns + 1

\* The load's dependencies are `authenticated` and the request, so another
\* account that takes the place of the first loads nothing and resets nothing.
SessionBecomes(l) ==
    /\ l # session /\ Turns
    /\ session' = l
    /\ calls' = IF session = NoLogin THEN calls \cup {[ApiCall(0, "load", NoLogin) EXCEPT !.by = l]}
                ELSE calls
    /\ UNCHANGED <<page, away, server, browser, saved, presses, codes, denials, jumps>>

Onboarded(by) == by \in Known

\* ownedRequest: who may act on the request, and that it is theirs from then on.
May(by) == Onboarded(by) /\ server.open /\ server.user \in {NoLogin, by}

Bound(by) == [server EXCEPT !.user = by]

ServesLoad(c) ==
    /\ c.kind = "load" /\ c.at = "sent"
    /\ server' = IF May(c.by) THEN Bound(c.by) ELSE server
    /\ calls' = (calls \ {c}) \cup {[c EXCEPT !.at = IF May(c.by) THEN "ok" ELSE "refused"]}
    /\ UNCHANGED <<session, page, away, browser, saved, turns, presses, codes, denials, jumps>>

Answered(c, kind) == ~away /\ c.kind = kind /\ c.at = "ok" /\ c.awaited

Loads(c) ==
    /\ Answered(c, "load")
    /\ page' = [page EXCEPT !.info = TRUE, !.cards = c.by]
    /\ calls' = calls \ {c}
    /\ UNCHANGED <<session, away, server, browser, saved, turns, presses, codes, denials, jumps>>

-----------------------------------------------------------------------------
(* The answer.                                                             *)

\* The picker is up: not the granted screen, the sign-in, an error or the wait.
Choosing == ~away /\ page.granted = "no" /\ session # NoLogin /\ page.info

Pick ==
    /\ Choosing /\ page.picked # page.cards
    /\ page' = [page EXCEPT !.picked = page.cards]
    /\ UNCHANGED <<session, away, calls, server, browser, saved, turns, presses, codes, denials, jumps>>

Press(kind) ==
    /\ Choosing /\ page.phase = "idle" /\ presses < MaxPresses
    /\ kind = "approve" => page.picked # NoLogin
    /\ page' = [page EXCEPT !.phase = "submitting", !.err = FALSE]
    /\ calls' = calls \cup {ApiCall(presses + 1, kind, page.picked)}
    /\ presses' = presses + 1
    /\ UNCHANGED <<session, away, server, browser, saved, turns, codes, denials, jumps>>

\* Mutant: an approval leaves the request in place until its code is exchanged.
MutConsumed(c) == [Bound(c.by) EXCEPT !.open = c.kind = "approve"]

\* deleteRequest, before the code is minted.
Consumed(c) == [Bound(c.by) EXCEPT !.open = FALSE]

\* A card that is another's, or dead by now, is refused after the request is bound.
ServesAnswer(c, cardIsLive) ==
    /\ c.kind \in {"approve", "deny"} /\ c.at = "sent"
    /\ LET served == May(c.by) /\ (c.kind = "approve" => c.card = c.by /\ cardIsLive)
       IN  /\ server' = IF served THEN Consumed(c) ELSE IF May(c.by) THEN Bound(c.by) ELSE server
           /\ codes' = IF served /\ c.kind = "approve" THEN codes + 1 ELSE codes
           /\ denials' = IF served /\ c.kind = "deny" THEN denials + 1 ELSE denials
           /\ calls' = (calls \ {c}) \cup {[c EXCEPT !.at = IF served THEN "ok" ELSE "refused"]}
    /\ UNCHANGED <<session, page, away, browser, saved, turns, presses, jumps>>

\* parseGrant: a redirect to the app's own port may find nobody there.
GoesByItself == ~browser.loopback

\* The code is kept for a way back, if the browser lets the page, and shown.
Approved(c) ==
    /\ Answered(c, "approve")
    /\ page' = [page EXCEPT !.granted = "fresh", !.timer = GoesByItself]
    /\ saved' = browser.storage
    /\ calls' = calls \ {c}
    /\ UNCHANGED <<session, away, server, browser, turns, presses, codes, denials, jumps>>

Denied(c) ==
    /\ Answered(c, "deny")
    /\ page' = [page EXCEPT !.phase = "redirecting"]
    /\ away' = TRUE /\ jumps' = jumps + 1
    /\ calls' = calls \ {c}
    /\ UNCHANGED <<session, server, browser, saved, turns, presses, codes, denials>>

\* Refused, timed out or lost: a call the server has not seen may still reach it.
Fails(c) ==
    /\ c.awaited /\ ~away
    /\ page' = IF c.kind = "load" THEN [page EXCEPT !.err = TRUE]
               ELSE [page EXCEPT !.err = TRUE, !.phase = "idle"]
    /\ calls' = (calls \ {c}) \cup (IF c.at = "sent" THEN {[c EXCEPT !.awaited = FALSE]} ELSE {})
    /\ UNCHANGED <<session, away, server, browser, saved, turns, presses, codes, denials, jumps>>

\* Nobody waits for it, and it is over or never arrived.
Forgotten(c) ==
    /\ ~c.awaited
    /\ calls' = calls \ {c}
    /\ UNCHANGED <<session, page, away, server, browser, saved, turns, presses, codes, denials, jumps>>

\* gc: nobody answered in ten minutes.
RequestExpires ==
    /\ server.open
    /\ server' = [server EXCEPT !.open = FALSE]
    /\ UNCHANGED <<session, page, away, calls, browser, saved, turns, presses, codes, denials, jumps>>

-----------------------------------------------------------------------------
(* On to the app, and back.                                                *)

\* After 1.5 s, never to a loopback port and never for a restored grant.
AutoContinue ==
    /\ ~away /\ page.timer
    /\ page' = [page EXCEPT !.timer = FALSE]
    /\ away' = TRUE /\ jumps' = jumps + 1
    /\ UNCHANGED <<session, calls, server, browser, saved, turns, presses, codes, denials>>

Continue ==
    /\ ~away /\ page.granted # "no"
    /\ away' = TRUE
    /\ UNCHANGED <<session, page, calls, server, browser, saved, turns, presses, codes, denials, jumps>>

\* The page as it was left, its timers included, from the browser's cache.
Back ==
    /\ away /\ Turns
    /\ away' = FALSE
    /\ UNCHANGED <<session, page, calls, server, browser, saved, presses, codes, denials, jumps>>

\* A reload, or a way back without the cache: the saved grant is shown again.
Reopens ==
    /\ Turns
    /\ away' = FALSE
    /\ page' = [Blank EXCEPT !.granted = IF saved THEN "restored" ELSE "no"]
    /\ calls' = {[c EXCEPT !.awaited = FALSE] : c \in calls}
                \cup (IF session = NoLogin THEN {} ELSE {ApiCall(0, "load", NoLogin)})
    /\ UNCHANGED <<session, server, browser, saved, presses, codes, denials, jumps>>

\* 110 s after the answer the saved copy is of no use.
SavedExpires ==
    /\ saved /\ saved' = FALSE
    /\ UNCHANGED <<session, page, away, calls, server, browser, turns, presses, codes, denials, jumps>>

ConsentNext ==
    \/ \E l \in Someone : SessionBecomes(l)
    \/ \E c \in calls : ServesLoad(c) \/ Loads(c) \/ Approved(c) \/ Denied(c) \/ Fails(c) \/ Forgotten(c)
    \/ \E c \in calls, cardIsLive \in BOOLEAN : ServesAnswer(c, cardIsLive)
    \/ \E kind \in {"approve", "deny"} : Press(kind)
    \/ Pick \/ RequestExpires \/ AutoContinue \/ Continue \/ Back \/ Reopens \/ SavedExpires

-----------------------------------------------------------------------------
(* Correctness.                                                            *)

\* However often the answer is pressed, lost, retried, reloaded or given by
\* another account (page.tsx 143-175), a request gets one: one code or one
\* denial.  The page leaves for the app by itself at most once, and what it shows
\* or keeps as granted was granted (page.tsx 116-127, 101-114).
OneAnswer ==
    /\ codes + denials <= 1
    /\ jumps <= 1
    /\ page.granted # "no" \/ saved => codes = 1
=============================================================================
