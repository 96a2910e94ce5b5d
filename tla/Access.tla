------------------------------- MODULE Access -------------------------------
(***************************************************************************)
(* How an MCP request finds its card, and how often it may (serve in       *)
(* mcp/routes.ts, verifyT3NRequest, RateLimiter).  A bearer URL or an      *)
(* access token is looked up at once.  A T3N request is verified over      *)
(* several awaits, while cards are bound, unbound, issued and deleted, and *)
(* a request whose credential is unknown is read to its end first: both    *)
(* meet the ceiling late, with the time of their arrival.                  *)
(*                                                                         *)
(* Time is kept as ages: an instant is how many ticks ago it was, so the   *)
(* limiter runs for ever in finitely many states.  Requests that end in    *)
(* 405, 413, 421 or 401 for a dead card change nothing and are left out,   *)
(* and so is the limiter's garbage collection, which forgets what no call  *)
(* of its moment would count.                                              *)
(***************************************************************************)
EXTENDS Naturals, FiniteSets

CONSTANTS
    Card,         \* an interval of Nat, in the order of issuance
    Agent, None,
    Request,      \* the requests that take their time
    Virtual, Ip,  \* what cardless sessions share, and where bad attempts come from
    Window,       \* windowMs, in ticks
    MaxCalls,     \* limit of perCard
    MaxBad,       \* limit of badSecret
    Tables,       \* bound: the tables the server starts over
    MaxDelay,     \* bound: ticks a verification, or a body, takes
    MaxChanges    \* bound: changes of the cards

Row == [status : {"none", "live", "dead", "gone"}, agent : {None} \cup Agent]

AccessAssumption ==
    /\ Card \subseteq Nat /\ None \notin Card \cup Agent
    /\ {Virtual, Ip} \cap Card = {} /\ Virtual # Ip
    /\ {MaxDelay, MaxChanges} \subseteq Nat
    /\ {Window, MaxCalls, MaxBad} \subseteq Nat \ {0}
    /\ Tables \subseteq [Card -> Row]

ASSUME AccessAssumption

VARIABLES
    row,      \* the cards table: status, and the agent its DID binding names
    changes,  \* counts what MaxChanges bounds
    hits,     \* RateLimiter.hits: how many of each age
    req,      \* T3N requests, and bad attempts whose body is still being read
    prompt    \* history: the bearer and token calls a card answered in this window

vars == <<row, changes, hits, req, prompt>>

Key == Card \cup {Virtual, Ip}
Ages == 0 .. Window + MaxDelay - 1

LimitOf(k) == IF k = Ip THEN MaxBad ELSE MaxCalls

Idle == [at |-> "idle", signer |-> None, age |-> 0, card |-> None]

TypeOK ==
    /\ row \in [Card -> Row] /\ changes \in 0 .. MaxChanges
    /\ hits \in [Key -> [Ages -> 0 .. MaxCalls + MaxBad]]
    /\ prompt \in [Card -> [0 .. Window - 1 -> 0 .. MaxCalls]]
    /\ req \in [Request -> [at : {"idle", "draining", "recovering", "resolved", "served"},
                            signer : {None} \cup Agent, age : 0 .. MaxDelay,
                            card : {None, Virtual} \cup Card]]

Init ==
    /\ row \in Tables /\ changes = 0
    /\ hits = [k \in Key |-> [a \in Ages |-> 0]]
    /\ prompt = [c \in Card |-> [a \in 0 .. Window - 1 |-> 0]]
    /\ req = [r \in Request |-> Idle]

-----------------------------------------------------------------------------
(* The sliding window, for a call that arrived `age` ticks ago.            *)

\* The hits of the ages in S: an age, and a number among those of that age.
Hits(f, S) == UNION {{a} \X (1 .. f[a]) : a \in S}

Sum(f, S) == Cardinality(Hits(f, S))

\* Mutant: the window is a tick short.
MutKept(age) == {a \in Ages : a + 1 < Window + age}

Kept(age) == {a \in Ages : a < Window + age}

Allows(k, age) == Sum(hits[k], Kept(age)) < LimitOf(k)

Recorded(k, age) ==
    [a \in Ages |->
        (IF a \in Kept(age) THEN hits[k][a] ELSE 0) + (IF a = age THEN 1 ELSE 0)]

\* Mutant: a refusal restarts the window.
MutRefused(k, age) ==
    [a \in Ages |-> IF a = age THEN LimitOf(k) ELSE IF a \in Kept(age) THEN hits[k][a] ELSE 0]

\* A refusal drops what is old and records nothing.
Refused(k, age) == [a \in Ages |-> IF a \in Kept(age) THEN hits[k][a] ELSE 0]

Meets(k, age) ==
    hits' = [hits EXCEPT ![k] = IF Allows(k, age) THEN Recorded(k, age) ELSE Refused(k, age)]

-----------------------------------------------------------------------------
(* Bearer URLs and access tokens.                                          *)

\* A known credential: nothing is awaited between the clock and the ceiling.
Call(c) ==
    /\ row[c].status = "live"
    /\ Meets(c, 0)
    /\ prompt' = IF Allows(c, 0) THEN [prompt EXCEPT ![c][0] = @ + 1] ELSE prompt
    /\ UNCHANGED <<row, changes, req>>

\* An unknown one: the body is read before the attempt meets its ceiling.
Knocks(r) ==
    /\ req[r].at = "idle"
    /\ req' = [req EXCEPT ![r].at = "draining"]
    /\ UNCHANGED <<row, changes, hits, prompt>>

\* A bad attempt of either lane that did not have to wait.
BadAttempt ==
    /\ Meets(Ip, 0)
    /\ UNCHANGED <<row, changes, req, prompt>>

-----------------------------------------------------------------------------
(* T3N requests of one DID.                                                *)

Least(S) == IF S = {} THEN None ELSE CHOOSE c \in S : \A b \in S : c <= b

\* getCardByDID: the oldest row bound to the DID, dead or alive.
CardByDID == Least({c \in Card : row[c].agent # None})

Arrives(r, signer) ==
    /\ req[r].at = "idle"
    /\ req' = [req EXCEPT ![r] = [Idle EXCEPT !.at = "recovering", !.signer = signer]]
    /\ UNCHANGED <<row, changes, hits, prompt>>

\* Without a binding, and without the SDK's key derivation, any signer will do.
SignerMatches(r) == CardByDID # None => row[CardByDID].agent = req[r].signer

Resolves(r) ==
    /\ req[r].at = "recovering" /\ SignerMatches(r)
    /\ req' = [req EXCEPT ![r].at = "resolved"]
    /\ UNCHANGED <<row, changes, hits, prompt>>

\* A signature that does not verify, or the end of an unknown caller's body.
Rejected(r) ==
    /\ req[r].at \in {"draining", "recovering"}
    /\ Meets(Ip, req[r].age)
    /\ req' = [req EXCEPT ![r] = Idle]
    /\ UNCHANGED <<row, changes, prompt>>

\* After the quote, if there is one: the card is looked up again.
Opens(r) ==
    /\ req[r].at = "resolved"
    /\ LET card == IF CardByDID = None THEN Virtual ELSE CardByDID
       IN  IF card # Virtual /\ row[card].status = "dead"
           THEN req' = [req EXCEPT ![r] = Idle] /\ UNCHANGED hits
           ELSE /\ Meets(card, req[r].age)
                /\ req' = [req EXCEPT ![r] =
                             IF Allows(card, req[r].age)
                             THEN [@ EXCEPT !.at = "served", !.card = card] ELSE Idle]
    /\ UNCHANGED <<row, changes, prompt>>

Ends(r) ==
    /\ req[r].at = "served"
    /\ req' = [req EXCEPT ![r] = Idle]
    /\ UNCHANGED <<row, changes, hits, prompt>>

-----------------------------------------------------------------------------
(* What happens to the cards meanwhile.                                    *)

Changes(c, new) ==
    /\ changes < MaxChanges /\ changes' = changes + 1
    /\ row' = [row EXCEPT ![c] = new]
    /\ UNCHANGED <<hits, prompt>>

IsNext(c) == row[c].status = "none" /\ \A b \in Card : b < c => row[b].status # "none"

\* The management API: a card with or without an agent.
Issues(c, agent) ==
    /\ IsNext(c)
    /\ Changes(c, [status |-> "live", agent |-> agent])
    /\ UNCHANGED req

\* The tool issue_card of a served T3N session, which binds to its signer.
IssueCard(r, c) ==
    /\ req[r].at = "served" /\ IsNext(c)
    /\ Changes(c, [status |-> "live", agent |-> req[r].signer])
    /\ UNCHANGED req

\* bind-did and unbind-did, of dead cards too.
Binds(c, agent) ==
    /\ row[c].status \in {"live", "dead"} /\ row[c].agent # agent
    /\ Changes(c, [row[c] EXCEPT !.agent = agent])
    /\ UNCHANGED req

\* Revoked or nuked, whoever asked.
Dies(c) ==
    /\ row[c].status = "live"
    /\ Changes(c, [row[c] EXCEPT !.status = "dead"])
    /\ UNCHANGED req

Deleted(c) ==
    /\ row[c].status = "dead"
    /\ Changes(c, [status |-> "gone", agent |-> None])
    /\ UNCHANGED req

-----------------------------------------------------------------------------

\* Bound: no verification and no body is still under way after MaxDelay ticks.
Waiting(r) == req[r].at \in {"draining", "recovering", "resolved"}

Tick ==
    /\ \A r \in Request : Waiting(r) => req[r].age < MaxDelay
    /\ req' = [r \in Request |-> IF Waiting(r) THEN [req[r] EXCEPT !.age = @ + 1] ELSE req[r]]
    /\ hits' = [k \in Key |-> [a \in Ages |-> IF a = 0 THEN 0 ELSE hits[k][a - 1]]]
    /\ prompt' = [c \in Card |-> [a \in 0 .. Window - 1 |-> IF a = 0 THEN 0 ELSE prompt[c][a - 1]]]
    /\ UNCHANGED <<row, changes>>

Next ==
    \/ \E c \in Card : Call(c) \/ Dies(c) \/ Deleted(c)
    \/ BadAttempt
    \/ \E r \in Request, signer \in Agent : Arrives(r, signer)
    \/ \E r \in Request : Knocks(r) \/ Resolves(r) \/ Rejected(r) \/ Opens(r) \/ Ends(r)
    \/ \E c \in Card, agent \in {None} \cup Agent : Issues(c, agent) \/ Binds(c, agent)
    \/ \E r \in Request, c \in Card : IssueCard(r, c)
    \/ Tick

\* Time passes; a verification, which computes and asks nobody, ends, and a body
\* ends with its connection, which the server closes when it idles (index.ts 45).
Fairness ==
    /\ WF_vars(Tick)
    /\ \A r \in Request : WF_vars(Rejected(r)) /\ WF_vars(Opens(r))

Spec == Init /\ [][Next]_vars /\ Fairness

-----------------------------------------------------------------------------
(* Correctness.                                                            *)

\* In any window of the limiter's length a card answers at most its ceiling of
\* bearer and token calls (mcp/routes.ts 65-66), although slow T3N requests,
\* counted back at the time of their arrival, drop and add hits in between.
CeilingHolds == \A c \in Card : Sum(prompt[c], 0 .. Window - 1) <= MaxCalls

\* A client that hammers on is slowed and never shut out: however many calls are
\* refused, there comes a time again when the next one is served.
NeverShutOut == \A k \in Key : []<>Allows(k, 0)
=============================================================================
