-------------------------------- MODULE Grants --------------------------------
(***************************************************************************)
(* The OAuth lane: registered clients, consent requests, single-use codes, *)
(* rotating tokens, and how they die with their card (oauth/store.ts,      *)
(* oauth/routes.ts, the consent and revocation routes of api/routes.ts).   *)
(*                                                                         *)
(* A handler awaits its body and then runs to the end without an await, so *)
(* each is one action; only the cascade of a revocation that went over the *)
(* chain runs after one.  Refusals that change nothing are no actions:     *)
(* wrong client, redirect, PKCE verifier or resource, expired codes and    *)
(* tokens.  Sessions are those of owners; the operator's is left out.  A   *)
(* frozen card gets codes and tokens like an active one: both are "live".  *)
(***************************************************************************)
EXTENDS Integers, Sequences, FiniteSets

CONSTANTS
    User, Card, Client, Request,
    None,
    Owner,          \* the user of each card
    Above,          \* a card and its ancestors
    Expiry,         \* terms.expiry of each card, or None
    RequestTtl, CodeTtl, RefreshTtl,  \* in units of the clock
    ClientTtl,      \* 30 days without a token
    CodeGrace,      \* an hour after expiry
    TokenGrace,     \* a day after expiry
    MaxTokens, MaxClock   \* bounds: tokens minted, clock

Optional(S) == {None} \cup S

GrantsAssumption ==
    /\ None \notin Nat /\ None \notin User \cup Card \cup Client \cup Request
    /\ Owner \in [Card -> User]
    /\ Above \in [Card -> SUBSET Card]
    /\ \A c \in Card : c \in Above[c]
    /\ Expiry \in [Card -> Optional(Nat)]
    /\ {RequestTtl, CodeTtl, RefreshTtl, ClientTtl,
        CodeGrace, TokenGrace, MaxTokens, MaxClock} \subseteq Nat

ASSUME GrantsAssumption

VARIABLES
    clock,
    client,    \* oauth_clients: when each registered, None without a row
    request,   \* oauth_requests
    code,      \* oauth_codes, by the request that was approved
    token,     \* oauth_tokens, in the order they were minted; None once reaped
    status,    \* cards.status; "killed" is revoked by an agent
    cascade,   \* cards whose token cascade is still to run
    seen,      \* ids handed out: clients and requests never come twice
    loader,    \* history: the login that first loaded a request
    ends,      \* history: refresh_expires_at of each minted token
    ended      \* history: grants that were replayed or revoked

vars == <<clock, client, request, code, token, status, cascade, seen, loader, ends, ended>>

-----------------------------------------------------------------------------

RequestRow == [client : Client, user : Optional(User), expires : Nat]
CodeRow == [client : Client, card : Card, user : User, used : BOOLEAN, expires : Nat]
TokenRow ==
    [family : 1 .. MaxTokens, grant : Request, client : Client, card : Card,
     ends : Nat, revoked : BOOLEAN]

ASSUME NoneIsNoRow == None \notin TokenRow

Serials == DOMAIN token

TypeOK ==
    /\ clock \in 0 .. MaxClock
    /\ client \in [Client -> Optional(0 .. MaxClock)]
    /\ request \in [Request -> Optional(RequestRow)]
    /\ code \in [Request -> Optional(CodeRow)]
    /\ token \in Seq(Optional(TokenRow)) /\ Len(token) <= MaxTokens
    /\ ends \in Seq(Nat) /\ Len(ends) = Len(token)
    /\ status \in [Card -> {"live", "revoked", "killed", "deleted"}]
    /\ cascade \subseteq Card /\ seen \subseteq Client \cup Request
    /\ loader \in [Request -> Optional(User)]
    /\ ended \subseteq Request

Init ==
    /\ clock = 0
    /\ client = [a \in Client |-> None]
    /\ request = [r \in Request |-> None]
    /\ code = [r \in Request |-> None]
    /\ token = <<>>
    /\ status = [c \in Card |-> "live"]
    /\ cascade = {}
    /\ seen = {}
    /\ loader = [r \in Request |-> None]
    /\ ends = <<>>
    /\ ended = {}

-----------------------------------------------------------------------------
(* Rows                                                                    *)

Row(i) == i \in Serials /\ token[i] # None
LiveRow(i) == Row(i) /\ ~token[i].revoked

\* Mutant: a rotated or revoked row is reaped at once.
MutReapRevoked(t) == t.revoked \/ t.ends + TokenGrace < clock

\* Reaped when the next token is minted: the refresh window and a day are over.
Reapable(t) == t.ends + TokenGrace < clock

\* The table with some rows revoked.
RevokedRows(S) ==
    [i \in Serials |-> IF i \in S THEN [token[i] EXCEPT !.revoked = TRUE] ELSE token[i]]

RevokedFamily(f) == RevokedRows({i \in Serials : Row(i) /\ token[i].family = f})
RevokedGrant(r) == RevokedRows({i \in Serials : Row(i) /\ token[i].grant = r})
RevokedOfCards(S) == RevokedRows({i \in Serials : Row(i) /\ token[i].card \in S})

Subtree(c) == {d \in Card : c \in Above[d]}
Expired(c) == Expiry[c] # None /\ Expiry[c] <= clock

-----------------------------------------------------------------------------
(* Clients and consent                                                     *)

\* A registration without tokens ages out.
Aged(a) ==
    /\ client[a] # None /\ client[a] + ClientTtl < clock
    /\ \A i \in Serials : Row(i) => token[i].client # a

Register(a) ==
    /\ a \notin seen
    /\ seen' = seen \cup {a}
    /\ client' = [b \in Client |-> IF b = a THEN clock ELSE IF Aged(b) THEN None ELSE client[b]]
    /\ UNCHANGED <<clock, request, code, token, status, cascade, loader, ends, ended>>

Open(r) == request[r] # None /\ clock <= request[r].expires

NewRequest(a) == [client |-> a, user |-> None, expires |-> clock + RequestTtl]

Authorize(a, r) ==
    /\ client[a] # None /\ r \notin seen
    /\ seen' = seen \cup {r}
    /\ request' = [q \in Request |->
                      IF q = r THEN NewRequest(a)
                      ELSE IF Open(q) THEN request[q] ELSE None]
    /\ UNCHANGED <<clock, client, code, token, status, cascade, loader, ends, ended>>

\* Mutant: any login may act on a request.
MutOwnsAny(u, r) == Open(r)

\* ownedRequest: the first login to load a request is the only one to see it.
Owns(u, r) == Open(r) /\ request[r].user \in {None, u}

Loaded(u, r) == loader' = [loader EXCEPT ![r] = IF @ = None THEN u ELSE @]

LoadRequest(u, r) ==
    /\ Owns(u, r) /\ request[r].user = None
    /\ request' = [request EXCEPT ![r].user = u]
    /\ Loaded(u, r)
    /\ UNCHANGED <<clock, client, code, token, status, cascade, seen, ends, ended>>

\* A live card may be frozen, and a frozen one passes although it is expired.
\* Codes an hour past their expiry go when the next one is minted.
Approve(u, r, c) ==
    /\ Owns(u, r)
    /\ Owner[c] = u /\ status[c] = "live"
    /\ request' = [request EXCEPT ![r] = None]
    /\ Loaded(u, r)
    /\ code' = [q \in Request |->
                   IF q = r THEN [client |-> request[r].client, card |-> c, user |-> u,
                                  used |-> FALSE, expires |-> clock + CodeTtl]
                   ELSE IF code[q] # None /\ code[q].expires + CodeGrace < clock THEN None
                   ELSE code[q]]
    /\ UNCHANGED <<clock, client, token, status, cascade, seen, ends, ended>>

Deny(u, r) ==
    /\ Owns(u, r)
    /\ request' = [request EXCEPT ![r] = None]
    /\ Loaded(u, r)
    /\ UNCHANGED <<clock, client, code, token, status, cascade, seen, ends, ended>>

-----------------------------------------------------------------------------
(* The token endpoint                                                      *)

NewToken(family, r, a, c) ==
    [family |-> family, grant |-> r, client |-> a, card |-> c,
     ends |-> clock + RefreshTtl, revoked |-> FALSE]

\* createToken: reap, then insert.
Minted(rows, row) ==
    /\ Len(token) < MaxTokens
    /\ token' = Append([i \in Serials |->
                           IF Row(i) /\ Reapable(rows[i]) THEN None ELSE rows[i]], row)
    /\ ends' = Append(ends, row.ends)

\* Mutant: a code is redeemed whatever became of its card.
MutAnyCard(c) == TRUE

Grantable(c) == status[c] = "live" /\ ~Expired(c)

Exchange(r) ==
    /\ code[r] # None /\ clock <= code[r].expires /\ ~code[r].used
    /\ client[code[r].client] # None
    /\ Grantable(code[r].card)
    /\ code' = [code EXCEPT ![r].used = TRUE]
    /\ Minted(token, NewToken(Len(token) + 1, r, code[r].client, code[r].card))
    /\ UNCHANGED <<clock, client, request, status, cascade, seen, loader, ended>>

\* A used code comes again, from any registered client: everything minted from it
\* dies.
ReplayCode(r) ==
    /\ code[r] # None /\ clock <= code[r].expires /\ code[r].used
    /\ \E a \in Client : client[a] # None
    /\ token' = RevokedGrant(r)
    /\ ended' = ended \cup {r}
    /\ UNCHANGED <<clock, client, request, code, status, cascade, seen, loader, ends>>

\* Mutant: the presented row stays usable.
MutKeepsOld(i) == token

\* claimForRotation.
Claimed(i) == RevokedRows({i})

Rotate(i) ==
    /\ LiveRow(i) /\ clock <= token[i].ends
    /\ status[token[i].card] = "live"
    /\ Minted(Claimed(i), NewToken(token[i].family, token[i].grant,
                                   token[i].client, token[i].card))
    /\ UNCHANGED <<clock, client, request, code, status, cascade, seen, loader, ended>>

\* Mutant: an expired token is refused before it is found to be rotated out.
MutExpiryFirst(i) == Row(i) /\ token[i].revoked /\ clock <= token[i].ends

\* A rotated-out refresh token, expired or not.
IsReplay(i) == Row(i) /\ token[i].revoked

\* Any client may have held it; the history remembers what ought to be noticed.
ReplayRefresh(i) ==
    /\ Row(i) /\ token[i].revoked
    /\ token' = IF IsReplay(i) THEN RevokedFamily(token[i].family) ELSE token
    /\ ended' = ended \cup {token[i].grant}
    /\ UNCHANGED <<clock, client, request, code, status, cascade, seen, loader, ends>>

RefreshDead(i) ==
    /\ LiveRow(i) /\ clock <= token[i].ends
    /\ status[token[i].card] # "live"
    /\ token' = RevokedFamily(token[i].family)
    /\ ended' = ended \cup {token[i].grant}
    /\ UNCHANGED <<clock, client, request, code, status, cascade, seen, loader, ends>>

\* RFC 7009: either half of any row names its family.
Revoke(i) ==
    /\ Row(i)
    /\ token' = RevokedFamily(token[i].family)
    /\ ended' = ended \cup {token[i].grant}
    /\ UNCHANGED <<clock, client, request, code, status, cascade, seen, loader, ends>>

-----------------------------------------------------------------------------
(* Cards die                                                               *)

StatusOf(S, s) == [c \in Card |-> IF c \in S /\ status[c] # "deleted" THEN s ELSE status[c]]

\* The owner's revocation of a root card, or of all, confirmed on chain: the
\* cascade comes when the handler resumes.
Kill(S) ==
    /\ \E c \in S : status[c] = "live"
    /\ status' = StatusOf(S, "revoked")
    /\ cascade' = cascade \cup S
    /\ UNCHANGED <<clock, client, request, code, token, seen, loader, ends, ended>>

RevokeRoot(c) == Above[c] = {c} /\ status[c] = "live" /\ Kill(Subtree(c))
Nuke(u) == Kill({c \in Card : Owner[c] = u})

\* The cards whose tokens the cascade revokes: those it finds in the store.
Reached(S) == {c \in S : status[c] # "deleted"}

RunCascade(S) ==
    /\ S # {}
    /\ token' = RevokedOfCards(Reached(S))
    /\ cascade' = cascade \ S
    /\ UNCHANGED <<clock, client, request, code, status, seen, loader, ends, ended>>

\* prepareRevoke of a sub-card: dead at once, and its tokens with it.
RevokeSub(c) ==
    /\ Above[c] # {c} /\ status[c] = "live"
    /\ status' = StatusOf(Subtree(c), "revoked")
    /\ token' = RevokedOfCards(Reached(Subtree(c)))
    /\ UNCHANGED <<clock, client, request, code, cascade, seen, loader, ends, ended>>

\* The revoke_subcard tool: no cascade.
AgentRevoke(c) ==
    /\ Above[c] # {c} /\ status[c] = "live"
    /\ status' = StatusOf(Subtree(c), "killed")
    /\ UNCHANGED <<clock, client, request, code, token, cascade, seen, loader, ends, ended>>

DeleteDead(c) ==
    /\ status[c] # "deleted"
    /\ \A d \in Subtree(c) : status[d] = "live" => Expired(d)
    /\ status' = StatusOf(Subtree(c), "deleted")
    /\ token' = RevokedOfCards(Reached(Subtree(c)))
    /\ UNCHANGED <<clock, client, request, code, cascade, seen, loader, ends, ended>>

Tick ==
    /\ clock < MaxClock
    /\ clock' = clock + 1
    /\ UNCHANGED <<client, request, code, token, status, cascade, seen, loader, ends, ended>>

Next ==
    \/ \E a \in Client : Register(a)
    \/ \E a \in Client, r \in Request : Authorize(a, r)
    \/ \E u \in User, r \in Request : LoadRequest(u, r) \/ Deny(u, r)
    \/ \E u \in User, r \in Request, c \in Card : Approve(u, r, c)
    \/ \E r \in Request : Exchange(r) \/ ReplayCode(r)
    \/ \E i \in Serials : Rotate(i) \/ ReplayRefresh(i) \/ RefreshDead(i) \/ Revoke(i)
    \/ \E c \in Card : RevokeRoot(c) \/ RevokeSub(c) \/ AgentRevoke(c) \/ DeleteDead(c)
    \/ \E u \in User : Nuke(u)
    \/ RunCascade(cascade)
    \/ Tick

Spec == Init /\ [][Next]_vars

-----------------------------------------------------------------------------
(* What the lane promises.                                                 *)

\* One approval is one credential: all rows of a grant are of one family, and at
\* most one of them is not revoked, over any number of exchanges and rotations.
OneLivePerGrant ==
    \A i, j \in Serials :
        /\ Row(i) /\ Row(j) /\ token[i].grant = token[j].grant
        => /\ token[i].family = token[j].family
           /\ LiveRow(i) /\ LiveRow(j) => i = j

\* A grant that was replayed, by its code or by a rotated refresh token, or that
\* was revoked, stays dead: nothing of it works and nothing new comes of it.
EndedStaysEnded == \A i \in Serials : LiveRow(i) => token[i].grant \notin ended

\* Every refresh token still in its window has its row, rotated out or not: the
\* garbage collection of a later mint never takes the row that a replay within
\* that window is noticed by.
WitnessStays == \A i \in Serials : clock <= ends[i] => Row(i)

\* A grant is for a card of the login that first loaded its consent request,
\* whoever else holds the link.
OnlyTheLoaderGrants ==
    /\ \A r \in Request : code[r] # None =>
          code[r].user = loader[r] /\ Owner[code[r].card] = loader[r]
    /\ \A i \in Serials : Row(i) => Owner[token[i].card] = loader[token[i].grant]

\* Once an owner's revocation or deletion has run its cascade no unrevoked row
\* names the card, codes redeemed and tokens rotated meanwhile included.
LedgerIsHonest ==
    \A i \in Serials :
        LiveRow(i) /\ token[i].card \notin cascade =>
            status[token[i].card] \in {"live", "killed"}

\* The client of a token that can still be refreshed is registered.
HoldersAreRegistered ==
    \A i \in Serials : LiveRow(i) /\ clock <= token[i].ends => client[token[i].client] # None
===============================================================================
