---------------------------- MODULE GrantsProofs ----------------------------
(***************************************************************************)
(* The promises of the OAuth lane for any number of logins, cards, clients *)
(* and requests, any lifetimes and any card tree.                          *)
(***************************************************************************)
EXTENDS Grants, SequenceTheorems, TLAPS

-----------------------------------------------------------------------------
(* The token table                                                         *)

\* What a row says, its revocation aside.
Same(s, t) ==
    /\ s.family = t.family /\ s.grant = t.grant /\ s.client = t.client
    /\ s.card = t.card /\ s.ends = t.ends

Table == Optional(TokenRow)

\* Serial numbers count from one.
LEMMA SerialsCount ==
    ASSUME TypeOK
    PROVE  /\ Len(token) \in Nat /\ Serials = 1 .. Len(token)
           /\ \A i \in Serials : token[i] \in Table
           /\ \A i \in Serials : Row(i) => token[i] \in TokenRow
           /\ DOMAIN ends = Serials
BY DEF TypeOK, Serials, Row, Table, Optional

\* Times and bounds are numbers.
LEMMA Numbers ==
    /\ RequestTtl \in Nat /\ CodeTtl \in Nat /\ RefreshTtl \in Nat
    /\ TokenGrace \in Nat /\ MaxTokens \in Nat /\ MaxClock \in Nat
    /\ None \notin Nat
BY GrantsAssumption DEF GrantsAssumption

LEMMA ClockCounts == TypeOK => clock \in Nat
BY Numbers DEF TypeOK

\* A revoked row is a row, and differs in nothing else.
LEMMA RevokedRow ==
    ASSUME NEW t \in TokenRow
    PROVE  LET s == [t EXCEPT !.revoked = TRUE] IN
           s \in TokenRow /\ s # None /\ Same(s, t) /\ s.revoked
<1>1. [t EXCEPT !.revoked = TRUE] \in TokenRow
  BY DEF TokenRow
<1> QED
  BY <1>1, NoneIsNoRow DEF TokenRow, Same

\* Revoking rows keeps every row and what it says.
LEMMA RevokedTable ==
    ASSUME TypeOK, NEW S, \A i \in S : Row(i)
    PROVE  LET rows == RevokedRows(S) IN
           /\ rows \in Seq(Table) /\ Len(rows) = Len(token) /\ DOMAIN rows = Serials
           /\ \A i \in Serials : rows[i] # None <=> token[i] # None
           /\ \A i \in Serials : Row(i) => rows[i] \in TokenRow /\ Same(rows[i], token[i])
           /\ \A i \in Serials : Row(i) =>
                 (~rows[i].revoked <=> ~token[i].revoked /\ i \notin S)
<1> DEFINE rows == RevokedRows(S)
<1>1. /\ Len(token) \in Nat /\ Serials = 1 .. Len(token)
      /\ \A i \in Serials : token[i] \in Table
      /\ \A i \in Serials : Row(i) => token[i] \in TokenRow
  BY SerialsCount
<1>2. /\ DOMAIN rows = Serials
      /\ \A i \in Serials :
            rows[i] = IF i \in S THEN [token[i] EXCEPT !.revoked = TRUE] ELSE token[i]
  BY DEF RevokedRows
<1> HIDE DEF rows
<1>3. ASSUME NEW i \in Serials, i \in S
      PROVE  /\ rows[i] \in TokenRow /\ rows[i] # None /\ Same(rows[i], token[i])
             /\ rows[i].revoked /\ Row(i)
  BY <1>1, <1>2, <1>3, RevokedRow
<1>4. ASSUME NEW i \in Serials, i \notin S
      PROVE  rows[i] = token[i]
  BY <1>2, <1>4
<1>5. \A i \in Serials : rows[i] \in Table
  BY <1>1, <1>3, <1>4 DEF Table, Optional
<1>6. rows = [i \in 1 .. Len(token) |-> rows[i]]
  BY <1>1, <1>2 DEF rows, RevokedRows
<1>7. rows \in Seq(Table) /\ Len(rows) = Len(token)
  <2>1. rows \in [1 .. Len(token) -> Table]
    BY <1>1, <1>5, <1>6
  <2> QED
    BY <1>1, <2>1
<1>8. \A i \in Serials : Row(i) => Same(token[i], token[i])
  BY DEF Same
<1>9. \A i \in Serials : rows[i] # None <=> token[i] # None
  BY <1>3, <1>4 DEF Row
<1>10. \A i \in Serials : Row(i) => rows[i] \in TokenRow /\ Same(rows[i], token[i])
  BY <1>1, <1>3, <1>4, <1>8
<1>11. \A i \in Serials : Row(i) =>
          (~rows[i].revoked <=> ~token[i].revoked /\ i \notin S)
  BY <1>3, <1>4
<1> QED
  BY <1>2, <1>7, <1>9, <1>10, <1>11 DEF rows

\* A table of revoked rows put in place.
Revoking(S) ==
    /\ \A i \in S : i \in Serials /\ Row(i)
    /\ token' = RevokedRows(S) /\ ends' = ends

\* A row minted over such a table.
Minting(S, row) ==
    /\ \A i \in S : i \in Serials /\ Row(i)
    /\ row \in TokenRow
    /\ Minted(RevokedRows(S), row)

\* What a step may do to rows that exist: nothing comes back and nothing is
\* rewritten; those in S are revoked; what disappears is past its window.
Carried(S) ==
    /\ \A i \in Serials : Row(i)' => Row(i) /\ Same(token'[i], token[i])
    /\ \A i \in Serials : LiveRow(i)' => LiveRow(i) /\ i \notin S
    /\ \A i \in Serials : Row(i) /\ clock <= token[i].ends => Row(i)'
    /\ \A i \in Serials : ends'[i] = ends[i]

LEMMA RevokingCarries ==
    ASSUME TypeOK, NEW S, Revoking(S)
    PROVE  /\ Serials' = Serials /\ Carried(S)
           /\ token' \in Seq(Table) /\ Len(token') = Len(token)
<1> DEFINE rows == RevokedRows(S)
<1>1. /\ rows \in Seq(Table) /\ Len(rows) = Len(token) /\ DOMAIN rows = Serials
      /\ \A i \in Serials : rows[i] # None <=> token[i] # None
      /\ \A i \in Serials : Row(i) => rows[i] \in TokenRow /\ Same(rows[i], token[i])
      /\ \A i \in Serials : Row(i) =>
            (~rows[i].revoked <=> ~token[i].revoked /\ i \notin S)
  BY RevokedTable DEF Revoking
<1>2. token' = rows /\ ends' = ends
  BY DEF Revoking
<1> HIDE DEF rows
<1>3. Serials' = Serials
  BY <1>1, <1>2 DEF Serials
<1>4. \A i \in Serials : Row(i)' <=> Row(i)
  BY <1>1, <1>2, <1>3 DEF Row
<1>5. \A i \in Serials : LiveRow(i)' => LiveRow(i) /\ i \notin S
  BY <1>1, <1>2, <1>4 DEF LiveRow
<1>6. \A i \in Serials : Row(i)' => Row(i) /\ Same(token'[i], token[i])
  BY <1>1, <1>2, <1>4
<1> QED
  BY <1>1, <1>2, <1>3, <1>4, <1>5, <1>6 DEF Carried

LEMMA MintingCarries ==
    ASSUME TypeOK, NEW S, NEW row, Minting(S, row)
    PROVE  LET n == Len(token) + 1 IN
           /\ Len(token) < MaxTokens
           /\ n \in Nat /\ n \notin Serials /\ Serials' = Serials \cup {n}
           /\ Carried(S)
           /\ token' \in Seq(Table) /\ Len(token') = n
           /\ token'[n] = row /\ row # None /\ ends'[n] = row.ends
           /\ ends' \in Seq(Nat) /\ Len(ends') = n
<1> DEFINE n == Len(token) + 1
           rows == RevokedRows(S)
           kept == [i \in Serials |-> IF Row(i) /\ Reapable(rows[i]) THEN None ELSE rows[i]]
<1>1. /\ rows \in Seq(Table) /\ Len(rows) = Len(token) /\ DOMAIN rows = Serials
      /\ \A i \in Serials : rows[i] # None <=> token[i] # None
      /\ \A i \in Serials : Row(i) => rows[i] \in TokenRow /\ Same(rows[i], token[i])
      /\ \A i \in Serials : Row(i) =>
            (~rows[i].revoked <=> ~token[i].revoked /\ i \notin S)
  BY RevokedTable DEF Minting
<1>2. Len(token) < MaxTokens /\ token' = Append(kept, row) /\ ends' = Append(ends, row.ends)
  BY DEF Minting, Minted
<1>3. /\ row \in TokenRow /\ row \in Table /\ row # None /\ row.ends \in Nat
  BY NoneIsNoRow DEF Minting, Table, Optional, TokenRow
<1>4. /\ Len(token) \in Nat /\ Serials = 1 .. Len(token)
      /\ \A i \in Serials : token[i] \in Table
      /\ DOMAIN ends = Serials
  BY SerialsCount
<1>5. ends \in Seq(Nat) /\ Len(ends) = Len(token)
  BY DEF TypeOK
<1> HIDE DEF rows
<1>6. \A i \in Serials : rows[i] \in Table
  BY <1>1, <1>4
<1>7. kept \in [1 .. Len(token) -> Table]
  BY <1>4, <1>6 DEF Table, Optional
<1>8. kept \in Seq(Table) /\ Len(kept) = Len(token)
  BY <1>4, <1>7
<1>9. \A i \in Serials :
         kept[i] = IF Row(i) /\ Reapable(rows[i]) THEN None ELSE rows[i]
  OBVIOUS
<1> HIDE DEF kept
<1>10. /\ token' \in Seq(Table) /\ Len(token') = n
       /\ token'[n] = row /\ \A i \in Serials : token'[i] = kept[i]
  BY <1>2, <1>3, <1>4, <1>8
<1>11. /\ ends' \in Seq(Nat) /\ Len(ends') = n
       /\ ends'[n] = row.ends /\ \A i \in Serials : ends'[i] = ends[i]
  BY <1>2, <1>3, <1>4, <1>5
<1>12. n \in Nat /\ n \notin Serials /\ Serials' = Serials \cup {n}
  <2>1. Serials' = 1 .. n
    BY <1>10 DEF Serials
  <2> QED
    BY <1>4, <2>1
<1>14. \A i \in Serials : Row(i)' => Row(i) /\ token'[i] = rows[i]
  BY <1>1, <1>9, <1>10, <1>12 DEF Row
<1>15. \A i \in Serials : Row(i)' => Row(i) /\ Same(token'[i], token[i])
  BY <1>1, <1>14
<1>16. \A i \in Serials : LiveRow(i)' => LiveRow(i) /\ i \notin S
  BY <1>1, <1>14 DEF LiveRow
<1>17. ASSUME NEW i \in Serials, Row(i), clock <= token[i].ends
       PROVE  Row(i)'
  <2>1. rows[i].ends = token[i].ends /\ token[i].ends \in Nat /\ rows[i] # None
    BY <1>1, <1>17 DEF Same, TokenRow, Row
  <2>2. ~Reapable(rows[i])
    BY <1>17, <2>1, Numbers, ClockCounts DEF Reapable
  <2> QED
    BY <1>9, <1>10, <1>12, <2>1, <2>2 DEF Row
<1>18. Carried(S)
  BY <1>11, <1>15, <1>16, <1>17 DEF Carried
<1> QED
  BY <1>2, <1>3, <1>10, <1>11, <1>12, <1>18 DEF n
-----------------------------------------------------------------------------
(* The actions on the table                                                *)

\* A minted row is a row.
LEMMA NewTokenIsRow ==
    ASSUME TypeOK, NEW f \in 1 .. MaxTokens, NEW r \in Request, NEW a \in Client,
           NEW c \in Card
    PROVE  NewToken(f, r, a, c) \in TokenRow
<1>1. clock + RefreshTtl \in Nat
  BY Numbers, ClockCounts
<1> QED
  BY <1>1 DEF NewToken, TokenRow

\* Serial numbers stay within the bound.
LEMMA SerialsAreBounded ==
    ASSUME TypeOK
    PROVE  Serials \subseteq 1 .. MaxTokens
BY SerialsCount, Numbers DEF TypeOK

LEMMA ExchangeMints ==
    ASSUME TypeOK, NEW r \in Request, Exchange(r)
    PROVE  /\ code[r] \in CodeRow
           /\ Minting({}, NewToken(Len(token) + 1, r, code[r].client, code[r].card))
<1>1. code[r] \in CodeRow
  BY DEF TypeOK, Exchange, Optional
<1>2. Len(token) \in Nat /\ Serials = 1 .. Len(token) /\ DOMAIN token = Serials
  BY SerialsCount DEF Serials
<1>3. Len(token) < MaxTokens
  BY DEF Exchange, Minted
<1>4. Len(token) + 1 \in 1 .. MaxTokens
  BY <1>2, <1>3, Numbers
<1>5. NewToken(Len(token) + 1, r, code[r].client, code[r].card) \in TokenRow
  BY <1>1, <1>4, NewTokenIsRow DEF CodeRow
<1>6. token = RevokedRows({})
  <2>1. token = [i \in Serials |-> token[i]]
    BY <1>2 DEF TypeOK
  <2> QED
    BY <2>1 DEF RevokedRows
<1> QED
  BY <1>1, <1>5, <1>6 DEF Exchange, Minting

LEMMA RotateMints ==
    ASSUME TypeOK, NEW i \in Serials, Rotate(i)
    PROVE  /\ token[i] \in TokenRow
           /\ Minting({i}, NewToken(token[i].family, token[i].grant,
                                    token[i].client, token[i].card))
<1>1. Row(i) /\ token[i] \in TokenRow
  BY SerialsCount DEF Rotate, LiveRow
<1>2. NewToken(token[i].family, token[i].grant, token[i].client, token[i].card) \in TokenRow
  BY <1>1, NewTokenIsRow DEF TokenRow
<1> QED
  BY <1>1, <1>2 DEF Rotate, Minting, Claimed

\* The rows of a family, of a grant, of some cards.
OfFamily(f) == {i \in Serials : Row(i) /\ token[i].family = f}
OfGrant(r) == {i \in Serials : Row(i) /\ token[i].grant = r}
OfCards(S) == {i \in Serials : Row(i) /\ token[i].card \in S}

LEMMA OthersRevoke ==
    ASSUME TypeOK
    PROVE  /\ \A r \in Request : ReplayCode(r) => Revoking(OfGrant(r))
           /\ \A i \in Serials :
                 ReplayRefresh(i) \/ RefreshDead(i) \/ Revoke(i) =>
                    Row(i) /\ Revoking(OfFamily(token[i].family))
           /\ \A S : RunCascade(S) => Revoking(OfCards(Reached(S)))
           /\ \A c \in Card : RevokeSub(c) \/ DeleteDead(c) =>
                 Revoking(OfCards(Reached(Subtree(c))))
<1>1. \A r \in Request : ReplayCode(r) => Revoking(OfGrant(r))
  BY DEF ReplayCode, Revoking, RevokedGrant, OfGrant
<1>2. \A i \in Serials :
         ReplayRefresh(i) => Row(i) /\ Revoking(OfFamily(token[i].family))
  BY DEF ReplayRefresh, IsReplay, Revoking, RevokedFamily, OfFamily
<1>3. \A i \in Serials :
         RefreshDead(i) => Row(i) /\ Revoking(OfFamily(token[i].family))
  BY DEF RefreshDead, LiveRow, Revoking, RevokedFamily, OfFamily
<1>4. \A i \in Serials :
         Revoke(i) => Row(i) /\ Revoking(OfFamily(token[i].family))
  BY DEF Revoke, Revoking, RevokedFamily, OfFamily
<1>5. \A S : RunCascade(S) => Revoking(OfCards(Reached(S)))
  BY DEF RunCascade, Revoking, RevokedOfCards, OfCards
<1>6. \A c \in Card : RevokeSub(c) => Revoking(OfCards(Reached(Subtree(c))))
  BY DEF RevokeSub, Revoking, RevokedOfCards, OfCards
<1>7. \A c \in Card : DeleteDead(c) => Revoking(OfCards(Reached(Subtree(c))))
  BY DEF DeleteDead, Revoking, RevokedOfCards, OfCards
<1> QED
  BY <1>1, <1>2, <1>3, <1>4, <1>5, <1>6, <1>7

\* The steps that leave the table as it is.
Quiet ==
    \/ \E a \in Client : Register(a)
    \/ \E a \in Client, r \in Request : Authorize(a, r)
    \/ \E u \in User, r \in Request : LoadRequest(u, r) \/ Deny(u, r)
    \/ \E u \in User, r \in Request, c \in Card : Approve(u, r, c)
    \/ \E c \in Card : RevokeRoot(c) \/ AgentRevoke(c)
    \/ \E u \in User : Nuke(u)
    \/ Tick
    \/ UNCHANGED vars

LEMMA QuietIsQuiet ==
    ASSUME Quiet
    PROVE  token' = token /\ ends' = ends
BY DEF Quiet, Register, Authorize, LoadRequest, Deny, Approve, RevokeRoot, AgentRevoke,
       Nuke, Kill, Tick, vars

\* Every step leaves the table, revokes rows of it, or mints over it.
LEMMA Kinds ==
    ASSUME TypeOK, [Next]_vars
    PROVE  \/ Quiet
           \/ \E S : Revoking(S)
           \/ \E S : \E row : Minting(S, row)
<1>1. CASE \E r \in Request : Exchange(r)
  BY <1>1, ExchangeMints
<1>2. CASE \E i \in Serials : Rotate(i)
  BY <1>2, RotateMints
<1>3. CASE \E r \in Request : ReplayCode(r)
  BY <1>3, OthersRevoke
<1>4. CASE \E i \in Serials : ReplayRefresh(i) \/ RefreshDead(i) \/ Revoke(i)
  BY <1>4, OthersRevoke
<1>5. CASE RunCascade(cascade)
  BY <1>5, OthersRevoke
<1>6. CASE \E c \in Card : RevokeSub(c) \/ DeleteDead(c)
  BY <1>6, OthersRevoke
<1> QED
  BY <1>1, <1>2, <1>3, <1>4, <1>5, <1>6 DEF Next, Quiet

-----------------------------------------------------------------------------
(* Types                                                                   *)

\* What a step does to the table and its history keeps their types.
LEMMA TableKeepsType ==
    ASSUME TypeOK, [Next]_vars
    PROVE  /\ token' \in Seq(Table) /\ Len(token') <= MaxTokens
           /\ ends' \in Seq(Nat) /\ Len(ends') = Len(token')
<1>1. CASE Quiet
  BY <1>1, QuietIsQuiet DEF TypeOK, Table
<1>2. CASE \E S : Revoking(S)
  BY <1>2, RevokingCarries DEF Revoking, TypeOK
<1>3. CASE \E S : \E row : Minting(S, row)
  <2>1. PICK S, row : Minting(S, row)
    BY <1>3
  <2> QED
    BY <2>1, MintingCarries, SerialsCount, Numbers
<1> QED
  BY <1>1, <1>2, <1>3, Kinds
\* The statuses, the cascade, the ids and the history keep their types.
LEMMA LedgerKeepsType ==
    ASSUME TypeOK, [Next]_vars
    PROVE  /\ clock' \in 0 .. MaxClock
           /\ status' \in [Card -> {"live", "revoked", "killed", "deleted"}]
           /\ cascade' \subseteq Card /\ seen' \subseteq Client \cup Request
           /\ ended' \subseteq Request
<1> USE DEF TypeOK
<1>1. CASE UNCHANGED vars
  BY <1>1 DEF vars
<1>2. CASE Tick
  BY <1>2, Numbers DEF Tick
<1>3. ASSUME NEW a \in Client, NEW r \in Request, NEW u \in User, NEW c \in Card,
             \/ Register(a) \/ Authorize(a, r) \/ LoadRequest(u, r) \/ Deny(u, r)
             \/ Approve(u, r, c) \/ Exchange(r)
      PROVE  /\ UNCHANGED <<clock, status, cascade, ended>>
             /\ seen' \subseteq Client \cup Request
  BY <1>3 DEF Register, Authorize, LoadRequest, Deny, Approve, Exchange
<1>4. ASSUME NEW r \in Request, ReplayCode(r)
      PROVE  UNCHANGED <<clock, status, cascade, seen>> /\ ended' \subseteq Request
  BY <1>4 DEF ReplayCode
<1>5. ASSUME NEW i \in Serials, ReplayRefresh(i) \/ RefreshDead(i) \/ Revoke(i) \/ Rotate(i)
      PROVE  UNCHANGED <<clock, status, cascade, seen>> /\ ended' \subseteq Request
  <2>1. token[i] \in TokenRow
    BY <1>5, SerialsCount DEF ReplayRefresh, RefreshDead, Revoke, Rotate, LiveRow, Row
  <2>2. token[i].grant \in Request
    BY <2>1 DEF TokenRow
  <2> QED
    BY <1>5, <2>2 DEF ReplayRefresh, RefreshDead, Revoke, Rotate
<1>6. ASSUME NEW S, S \subseteq Card, Kill(S)
      PROVE  /\ UNCHANGED <<clock, seen, ended>> /\ cascade' \subseteq Card
             /\ status' \in [Card -> {"live", "revoked", "killed", "deleted"}]
  BY <1>6 DEF Kill, StatusOf
<1>7. \A c \in Card : Subtree(c) \subseteq Card
  BY DEF Subtree
<1>8. ASSUME NEW c \in Card, RevokeRoot(c)
      PROVE  /\ UNCHANGED <<clock, seen, ended>> /\ cascade' \subseteq Card
             /\ status' \in [Card -> {"live", "revoked", "killed", "deleted"}]
  BY <1>6, <1>7, <1>8 DEF RevokeRoot
<1>9. ASSUME NEW u \in User, Nuke(u)
      PROVE  /\ UNCHANGED <<clock, seen, ended>> /\ cascade' \subseteq Card
             /\ status' \in [Card -> {"live", "revoked", "killed", "deleted"}]
  <2>1. {c \in Card : Owner[c] = u} \subseteq Card
    OBVIOUS
  <2> QED
    BY <1>6, <1>9, <2>1 DEF Nuke
<1>10. ASSUME NEW c \in Card, RevokeSub(c) \/ AgentRevoke(c) \/ DeleteDead(c)
       PROVE  /\ UNCHANGED <<clock, cascade, seen, ended>>
              /\ status' \in [Card -> {"live", "revoked", "killed", "deleted"}]
  BY <1>10 DEF RevokeSub, AgentRevoke, DeleteDead, StatusOf
<1>11. CASE RunCascade(cascade)
  BY <1>11 DEF RunCascade
<1> HIDE DEF TypeOK
<1>12. CASE \E a \in Client : Register(a)
  BY <1>12 DEF TypeOK, Register
<1>13. CASE \E a \in Client, r \in Request : Authorize(a, r)
  BY <1>13 DEF TypeOK, Authorize
<1>14. CASE \E u \in User, r \in Request : LoadRequest(u, r) \/ Deny(u, r)
  BY <1>14 DEF TypeOK, LoadRequest, Deny
<1>15. CASE \E r \in Request : Exchange(r) \/ ReplayCode(r)
  BY <1>4, <1>15 DEF TypeOK, Exchange
<1>16. CASE \E u \in User, r \in Request, c \in Card : Approve(u, r, c)
  BY <1>16 DEF TypeOK, Approve
<1>17. CASE \E i \in Serials : Rotate(i) \/ ReplayRefresh(i) \/ RefreshDead(i) \/ Revoke(i)
  BY <1>5, <1>17 DEF TypeOK
<1>18. CASE \E c \in Card : RevokeRoot(c) \/ RevokeSub(c) \/ AgentRevoke(c) \/ DeleteDead(c)
  BY <1>8, <1>10, <1>18 DEF TypeOK
<1>19. CASE \E u \in User : Nuke(u)
  BY <1>9, <1>19 DEF TypeOK
<1> QED
  BY <1>1, <1>2, <1>11, <1>12, <1>13, <1>14, <1>15, <1>16, <1>17, <1>18, <1>19 DEF Next

\* Clients, requests, codes and logins keep their types.
LEMMA ConsentKeepsType ==
    ASSUME TypeOK, [Next]_vars
    PROVE  /\ client' \in [Client -> Optional(0 .. MaxClock)]
           /\ request' \in [Request -> Optional(RequestRow)]
           /\ code' \in [Request -> Optional(CodeRow)]
           /\ loader' \in [Request -> Optional(User)]
<1>1. ASSUME NEW a \in Client, Register(a)
      PROVE  /\ UNCHANGED <<request, code, loader>>
             /\ client' \in [Client -> Optional(0 .. MaxClock)]
  BY <1>1 DEF TypeOK, Register, Optional
<1>2. ASSUME NEW a \in Client, NEW r \in Request, Authorize(a, r)
      PROVE  /\ UNCHANGED <<client, code, loader>>
             /\ request' \in [Request -> Optional(RequestRow)]
  <2>1. clock + RequestTtl \in Nat
    BY Numbers, ClockCounts
  <2>2. NewRequest(a) \in RequestRow
    BY <2>1 DEF NewRequest, RequestRow, Optional
  <2>3. \A q \in Request : request[q] \in Optional(RequestRow)
    BY DEF TypeOK
  <2> QED
    BY <1>2, <2>2, <2>3 DEF Authorize, Optional
<1>3. ASSUME NEW u \in User, NEW r \in Request
      PROVE  Loaded(u, r) => loader' \in [Request -> Optional(User)]
  BY DEF TypeOK, Loaded, Optional
<1>4. ASSUME NEW u \in User, NEW r \in Request, LoadRequest(u, r)
      PROVE  /\ UNCHANGED <<client, code>>
             /\ request' \in [Request -> Optional(RequestRow)]
  <2> DEFINE row == [request[r] EXCEPT !.user = u]
  <2>1. request[r] \in RequestRow
    BY <1>4 DEF TypeOK, LoadRequest, Owns, Open, Optional
  <2>2. row \in RequestRow
    BY <2>1 DEF RequestRow, Optional
  <2>3. request' = [request EXCEPT ![r] = row]
    BY <1>4 DEF LoadRequest
  <2> QED
    BY <1>4, <2>2, <2>3 DEF TypeOK, LoadRequest, Optional
<1>5. ASSUME NEW u \in User, NEW r \in Request, Deny(u, r)
      PROVE  /\ UNCHANGED <<client, code>>
             /\ request' \in [Request -> Optional(RequestRow)]
  BY <1>5 DEF TypeOK, Deny, Optional
<1>6. ASSUME NEW u \in User, NEW r \in Request, NEW c \in Card, Approve(u, r, c)
      PROVE  /\ UNCHANGED client
             /\ request' \in [Request -> Optional(RequestRow)]
             /\ code' \in [Request -> Optional(CodeRow)]
  <2> DEFINE row == [client |-> request[r].client, card |-> c, user |-> u,
                     used |-> FALSE, expires |-> clock + CodeTtl]
  <2>1. request[r] \in RequestRow
    BY <1>6 DEF TypeOK, Approve, Owns, Open, Optional
  <2>2. clock + CodeTtl \in Nat
    BY Numbers, ClockCounts
  <2>3. row \in CodeRow
    BY <2>1, <2>2 DEF CodeRow, RequestRow
  <2>4. \A q \in Request : code[q] \in Optional(CodeRow)
    BY DEF TypeOK
  <2>5. code' = [q \in Request |->
                    IF q = r THEN row
                    ELSE IF code[q] # None /\ code[q].expires + CodeGrace < clock THEN None
                    ELSE code[q]]
    BY <1>6 DEF Approve
  <2> HIDE DEF row
  <2>6. code' \in [Request -> Optional(CodeRow)]
    BY <2>3, <2>4, <2>5 DEF Optional
  <2> QED
    BY <1>6, <2>6 DEF TypeOK, Approve, Optional
<1>7. ASSUME NEW r \in Request, Exchange(r)
      PROVE  /\ UNCHANGED <<client, request, loader>>
             /\ code' \in [Request -> Optional(CodeRow)]
  <2> DEFINE row == [code[r] EXCEPT !.used = TRUE]
  <2>1. row \in CodeRow
    BY <1>7, ExchangeMints DEF CodeRow
  <2>2. code' = [code EXCEPT ![r] = row]
    BY <1>7 DEF Exchange
  <2> QED
    BY <1>7, <2>1, <2>2 DEF TypeOK, Exchange, Optional
<1>8. CASE \E a \in Client : Register(a)
  BY <1>1, <1>8 DEF TypeOK
<1>9. CASE \E a \in Client, r \in Request : Authorize(a, r)
  BY <1>2, <1>9 DEF TypeOK
<1>10. CASE \E u \in User, r \in Request : LoadRequest(u, r)
  BY <1>3, <1>4, <1>10 DEF TypeOK, LoadRequest
<1>11. CASE \E u \in User, r \in Request : Deny(u, r)
  BY <1>3, <1>5, <1>11 DEF TypeOK, Deny
<1>12. CASE \E u \in User, r \in Request, c \in Card : Approve(u, r, c)
  BY <1>3, <1>6, <1>12 DEF TypeOK, Approve
<1>13. CASE \E r \in Request : Exchange(r)
  BY <1>7, <1>13 DEF TypeOK
<1>14. CASE UNCHANGED <<client, request, code, loader>>
  BY <1>14 DEF TypeOK
<1> QED
  BY <1>8, <1>9, <1>10, <1>11, <1>12, <1>13, <1>14
     DEF Next, ReplayCode, Rotate, ReplayRefresh, RefreshDead, Revoke, RevokeRoot, Nuke, Kill,
         RevokeSub, AgentRevoke, DeleteDead, RunCascade, Tick, vars

\* The lane's variables have their types in every reachable state: no rotation,
\* replay or cascade reaches past the table, and a row is never half a row.
THEOREM TypeCorrect == Spec => []TypeOK
<1>1. Init => TypeOK
  BY Numbers DEF Init, TypeOK, Optional
<1>2. TypeOK /\ [Next]_vars => TypeOK'
  BY TableKeepsType, LedgerKeepsType, ConsentKeepsType DEF TypeOK, Table
<1> QED
  BY <1>1, <1>2, PTL DEF Spec
-----------------------------------------------------------------------------
(* Consent                                                                 *)

\* An id is open, then approved, then spent, and never comes back; its user is
\* the login that first loaded it.
Consent(r) ==
    /\ r \notin seen => loader[r] = None /\ request[r] = None /\ code[r] = None
    /\ request[r] # None => code[r] = None /\ request[r].user = loader[r]
    /\ code[r] # None => code[r].user = loader[r] /\ Owner[code[r].card] = loader[r]

\* No code of r can be redeemed, now or later.
Spent(r) ==
    /\ r \in seen /\ request[r] = None
    /\ code[r] # None => code[r].used

Grants0 ==
    /\ \A r \in Request : Consent(r)
    /\ \A r \in ended : Spent(r)
    /\ \A i \in Serials : Row(i) =>
          Spent(token[i].grant) /\ Owner[token[i].card] = loader[token[i].grant]

\* What is spent stays spent, and its login stays who it was.
Keeps(r) == Consent(r)' /\ (Spent(r) => Spent(r)' /\ loader'[r] = loader[r])

LEMMA ConsentKept ==
    ASSUME TypeOK, [Next]_vars, NEW r \in Request, Consent(r)
    PROVE  Keeps(r)
<1>1. ASSUME NEW a \in Client, Register(a)
      PROVE  Keeps(r)
  <2>1. UNCHANGED <<request, code, loader>> /\ seen \subseteq seen'
    BY <1>1 DEF Register
  <2> QED
    BY <2>1 DEF Consent, Spent, Keeps
<1>2. ASSUME NEW a \in Client, NEW q \in Request, Authorize(a, q)
      PROVE  Keeps(r)
  <2>1. /\ q \notin seen /\ seen' = seen \cup {q} /\ UNCHANGED <<code, loader>>
        /\ request'[q] = NewRequest(a)
        /\ r # q => request'[r] \in {None, request[r]}
    BY <1>2 DEF Authorize
  <2>2. CASE r = q
    BY <2>1, <2>2 DEF Consent, Spent, NewRequest, Keeps
  <2>3. CASE r # q
    BY <2>1, <2>3 DEF Consent, Spent, Keeps
  <2> QED
    BY <2>2, <2>3
<1>3. ASSUME NEW u \in User, NEW q \in Request, Owns(u, q), Loaded(u, q), UNCHANGED seen
      PROVE  /\ r # q => loader'[r] = loader[r]
             /\ r = q => request[r] # None /\ r \in seen /\ loader'[r] = u /\ code[r] = None
  BY <1>3 DEF TypeOK, Owns, Open, Loaded, Consent
<1>4. ASSUME NEW u \in User, NEW q \in Request, LoadRequest(u, q)
      PROVE  Keeps(r)
  <2> DEFINE row == [request[q] EXCEPT !.user = u]
  <2>1. UNCHANGED <<code, seen>> /\ request' = [request EXCEPT ![q] = row]
    BY <1>4 DEF LoadRequest
  <2>2. request[q] \in RequestRow
    BY <1>4 DEF TypeOK, LoadRequest, Owns, Open, Optional
  <2>3. row.user = u
    BY <2>2 DEF RequestRow
  <2>4. (r # q => request'[r] = request[r]) /\ (r = q => request'[r] = row)
    BY <2>1 DEF TypeOK
  <2>5. /\ r # q => loader'[r] = loader[r]
        /\ r = q => request[r] # None /\ r \in seen /\ loader'[r] = u /\ code[r] = None
    BY <1>3, <1>4 DEF LoadRequest
  <2> HIDE DEF row
  <2>6. CASE r = q
    BY <2>1, <2>3, <2>4, <2>5, <2>6 DEF Consent, Spent, Keeps
  <2>7. CASE r # q
    BY <2>1, <2>4, <2>5, <2>7 DEF Consent, Spent, Keeps
  <2> QED
    BY <2>6, <2>7
<1>5. ASSUME NEW u \in User, NEW q \in Request, Deny(u, q)
      PROVE  Keeps(r)
  <2>1. /\ UNCHANGED <<code, seen>>
        /\ (r # q => request'[r] = request[r]) /\ (r = q => request'[r] = None)
    BY <1>5 DEF Deny, TypeOK
  <2>2. /\ r # q => loader'[r] = loader[r]
        /\ r = q => request[r] # None /\ r \in seen /\ loader'[r] = u /\ code[r] = None
    BY <1>3, <1>5 DEF Deny
  <2> QED
    BY <2>1, <2>2 DEF Consent, Spent, Keeps
<1>6. ASSUME NEW u \in User, NEW q \in Request, NEW c \in Card, Approve(u, q, c)
      PROVE  Keeps(r)
  <2>1. /\ UNCHANGED seen
        /\ (r # q => request'[r] = request[r]) /\ (r = q => request'[r] = None)
    BY <1>6 DEF Approve, TypeOK
  <2>2. /\ r # q => loader'[r] = loader[r]
        /\ r = q => request[r] # None /\ r \in seen /\ loader'[r] = u /\ code[r] = None
    BY <1>3, <1>6 DEF Approve
  <2>3. r # q => code'[r] \in {None, code[r]}
    BY <1>6 DEF Approve
  <2>4. r = q => code'[r].user = u /\ Owner[code'[r].card] = u
    BY <1>6 DEF Approve
  <2>5. CASE r = q
    BY <2>1, <2>2, <2>4, <2>5 DEF Consent, Spent, Keeps
  <2>6. CASE r # q
    BY <2>1, <2>2, <2>3, <2>6 DEF Consent, Spent, Keeps
  <2> QED
    BY <2>5, <2>6
<1>7. ASSUME NEW q \in Request, Exchange(q)
      PROVE  Keeps(r)
  <2> DEFINE row == [code[q] EXCEPT !.used = TRUE]
  <2>1. code[q] \in CodeRow /\ code[q] # None
    BY <1>7, ExchangeMints DEF Exchange
  <2>2. row.used /\ row.user = code[q].user /\ row.card = code[q].card
    BY <2>1 DEF CodeRow
  <2>3. UNCHANGED <<request, seen, loader>> /\ code' = [code EXCEPT ![q] = row]
    BY <1>7 DEF Exchange
  <2>4. (r # q => code'[r] = code[r]) /\ (r = q => code'[r] = row)
    BY <2>3 DEF TypeOK
  <2> HIDE DEF row
  <2>5. CASE r = q
    BY <2>1, <2>2, <2>3, <2>4, <2>5 DEF Consent, Spent, Keeps
  <2>6. CASE r # q
    BY <2>3, <2>4, <2>6 DEF Consent, Spent, Keeps
  <2> QED
    BY <2>5, <2>6
<1>8. CASE UNCHANGED <<request, code, seen, loader>>
  BY <1>8 DEF Consent, Spent, Keeps
<1> QED
  BY <1>1, <1>2, <1>4, <1>5, <1>6, <1>7, <1>8
     DEF Next, ReplayCode, Rotate, ReplayRefresh, RefreshDead, Revoke, RevokeRoot, Nuke, Kill,
         RevokeSub, AgentRevoke, DeleteDead, RunCascade, Tick, vars

\* A redeemed code is spent.
LEMMA ExchangeSpends ==
    ASSUME TypeOK, NEW r \in Request, Consent(r), Exchange(r)
    PROVE  ~Spent(r) /\ Spent(r)'
<1> DEFINE row == [code[r] EXCEPT !.used = TRUE]
<1>1. code[r] \in CodeRow /\ code[r] # None /\ ~code[r].used
  BY ExchangeMints DEF Exchange
<1>2. row.used
  BY <1>1 DEF CodeRow
<1>3. UNCHANGED <<request, seen>> /\ code' = [code EXCEPT ![r] = row]
  BY DEF Exchange
<1>4. code'[r] = row
  BY <1>3 DEF TypeOK
<1> QED
  BY <1>1, <1>2, <1>3, <1>4 DEF Consent, Spent

-----------------------------------------------------------------------------
(* The invariant                                                           *)

\* The rows of a grant: spent, of one family, of the login's own card, of a
\* registered client; their history.
Sound(i) ==
    /\ Spent(token[i].grant)
    /\ Owner[token[i].card] = loader[token[i].grant]
    /\ token[i].ends = ends[i]
    /\ token[i].family <= Len(token)
    /\ client[token[i].client] # None

\* The deleted cards have no live rows.
NoneOfDeleted == \A i \in Serials : LiveRow(i) => status[token[i].card] # "deleted"

GrantInv ==
    /\ TypeOK
    /\ \A r \in Request : Consent(r)
    /\ \A r \in ended : Spent(r)
    /\ \A i \in Serials : Row(i) => Sound(i)
    /\ EndedStaysEnded
    /\ WitnessStays
    /\ LedgerIsHonest
    /\ NoneOfDeleted

\* Old rows only get older.
LEMMA StepCarries ==
    ASSUME TypeOK, [Next]_vars
    PROVE  Serials \subseteq Serials' /\ Carried({}) /\ Len(token) <= Len(token')
<1>1. \A S : Carried(S) => Carried({})
  BY DEF Carried
<1>2. CASE Quiet
  <2>1. token' = token /\ ends' = ends
    BY <1>2, QuietIsQuiet
  <2>2. Serials' = Serials /\ Len(token') = Len(token) /\ Len(token) \in Nat
    BY <2>1, SerialsCount DEF Serials
  <2>3. \A i \in Serials : (Row(i)' <=> Row(i)) /\ (LiveRow(i)' <=> LiveRow(i))
    BY <2>1, <2>2 DEF Row, LiveRow
  <2> QED
    BY <2>1, <2>2, <2>3 DEF Carried, Same
<1>3. CASE \E S : Revoking(S)
  BY <1>1, <1>3, RevokingCarries, SerialsCount
<1>4. CASE \E S : \E row : Minting(S, row)
  <2>1. PICK S, row : Minting(S, row)
    BY <1>4
  <2> QED
    BY <1>1, <2>1, MintingCarries, SerialsCount
<1> QED
  BY <1>2, <1>3, <1>4, Kinds

\* What is known of a row that a step mints.
MintedBy(n, t) ==
    /\ n = Len(token) + 1 /\ Len(token') = n
    /\ token'[n] = t /\ t # None /\ ends'[n] = t.ends
    /\ t \in TokenRow /\ t.ends = clock + RefreshTtl

\* New rows come from an exchange or a rotation.
LEMMA NewRows ==
    ASSUME TypeOK, [Next]_vars, NEW n \in Serials', n \notin Serials
    PROVE  \/ \E r \in Request :
                 /\ Exchange(r)
                 /\ MintedBy(n, NewToken(Len(token) + 1, r, code[r].client, code[r].card))
           \/ \E i \in Serials :
                 /\ Rotate(i) /\ Row(i) /\ ~LiveRow(i)'
                 /\ MintedBy(n, NewToken(token[i].family, token[i].grant,
                                         token[i].client, token[i].card))
<1>1. ASSUME Quiet \/ \E S : Revoking(S)
      PROVE  Serials' = Serials
  BY <1>1, QuietIsQuiet, RevokingCarries DEF Serials
<1>2. ~Quiet /\ ~\E S : Revoking(S)
  BY <1>1
<1>3. (\E r \in Request : Exchange(r)) \/ (\E i \in Serials : Rotate(i))
  BY <1>2, OthersRevoke DEF Next, Quiet
<1>4. ASSUME NEW f, NEW g, NEW a, NEW c
      PROVE  NewToken(f, g, a, c).ends = clock + RefreshTtl
  BY DEF NewToken
<1>5. ASSUME NEW S, NEW row, Minting(S, row), row.ends = clock + RefreshTtl
      PROVE  MintedBy(n, row) /\ Carried(S)
  <2>1. /\ Serials' = Serials \cup {Len(token) + 1} /\ Len(token') = Len(token) + 1
        /\ token'[Len(token) + 1] = row /\ row # None /\ ends'[Len(token) + 1] = row.ends
        /\ Carried(S)
    BY <1>5, MintingCarries
  <2>2. n = Len(token) + 1
    BY <2>1
  <2> QED
    BY <1>5, <2>1, <2>2 DEF MintedBy, Minting
<1>6. CASE \E r \in Request : Exchange(r)
  <2>1. PICK r \in Request : Exchange(r)
    BY <1>6
  <2>2. Minting({}, NewToken(Len(token) + 1, r, code[r].client, code[r].card))
    BY <2>1, ExchangeMints
  <2>3. MintedBy(n, NewToken(Len(token) + 1, r, code[r].client, code[r].card))
    BY <1>4, <1>5, <2>2
  <2> QED
    BY <2>1, <2>3
<1>7. CASE \E i \in Serials : Rotate(i)
  <2>1. PICK i \in Serials : Rotate(i)
    BY <1>7
  <2>2. Minting({i}, NewToken(token[i].family, token[i].grant,
                              token[i].client, token[i].card))
    BY <2>1, RotateMints
  <2>3. /\ MintedBy(n, NewToken(token[i].family, token[i].grant,
                                token[i].client, token[i].card))
        /\ Carried({i})
    BY <1>4, <1>5, <2>2
  <2>4. ~LiveRow(i)' /\ Row(i)
    BY <2>1, <2>3 DEF Carried, Rotate, LiveRow
  <2> QED
    BY <2>1, <2>3, <2>4
<1> QED
  BY <1>3, <1>6, <1>7

-----------------------------------------------------------------------------
(* Every step keeps the invariant, part by part                            *)

\* A client with a row keeps its registration.
LEMMA ClientKept ==
    ASSUME TypeOK, [Next]_vars, NEW i \in Serials, Row(i), NEW a \in Client,
           a = token[i].client, client[a] # None
    PROVE  client'[a] # None
<1>1. ASSUME NEW b \in Client, Register(b)
      PROVE  client'[a] # None
  <2>1. ~Aged(a)
    BY DEF Aged
  <2>2. clock # None
    BY Numbers, ClockCounts
  <2> QED
    BY <1>1, <2>1, <2>2 DEF Register
<1>2. CASE UNCHANGED client
  BY <1>2
<1> QED
  BY <1>1, <1>2
     DEF Next, Authorize, LoadRequest, Deny, Approve, Exchange, ReplayCode, Rotate,
         ReplayRefresh, RefreshDead, Revoke, RevokeRoot, Nuke, Kill,
         RevokeSub, AgentRevoke, DeleteDead, RunCascade, Tick, vars

\* The rows stay sound.
LEMMA SoundKept ==
    ASSUME GrantInv, [Next]_vars, NEW i \in Serials', Row(i)'
    PROVE  Sound(i)'
<1>1. TypeOK /\ \A r \in Request : Keeps(r)
  BY ConsentKept DEF GrantInv
<1>2. ASSUME NEW j \in Serials, Row(j)
      PROVE  \E g \in Request, a \in Client :
                /\ token[j] \in TokenRow /\ Sound(j)
                /\ g = token[j].grant /\ a = token[j].client
                /\ Spent(g)' /\ loader'[g] = loader[g] /\ client'[a] # None
  <2>1. Sound(j) /\ token[j] \in TokenRow
    BY <1>1, <1>2, SerialsCount DEF GrantInv
  <2>2. PICK g \in Request, a \in Client : g = token[j].grant /\ a = token[j].client
    BY <2>1 DEF TokenRow
  <2>3. Spent(g)' /\ loader'[g] = loader[g]
    BY <1>1, <2>1, <2>2 DEF Keeps, Sound
  <2>4. client'[a] # None
    BY <1>1, <1>2, <2>1, <2>2, ClientKept DEF Sound
  <2> QED
    BY <2>1, <2>2, <2>3, <2>4
<1>3. Len(token) \in Nat
  BY <1>1, SerialsCount
<1>4. CASE i \in Serials
  <2>1. Row(i) /\ Same(token'[i], token[i]) /\ ends'[i] = ends[i] /\ Len(token) <= Len(token')
    BY <1>1, <1>4, StepCarries DEF Carried
  <2>2. PICK g \in Request, a \in Client :
                /\ token[i] \in TokenRow /\ Sound(i)
                /\ g = token[i].grant /\ a = token[i].client
                /\ Spent(g)' /\ loader'[g] = loader[g] /\ client'[a] # None
    BY <1>2, <1>4, <2>1
  <2>3. token[i].family \in Nat
    BY <2>2 DEF TokenRow
  <2>4. Len(token') \in Nat
    BY <1>1, TableKeepsType
  <2>5. token[i].family <= Len(token')
    BY <1>3, <2>1, <2>2, <2>3, <2>4 DEF Sound
  <2> QED
    BY <2>1, <2>2, <2>5 DEF Sound, Same
<1>5. CASE i \notin Serials
  <2>1. ASSUME NEW r \in Request, Exchange(r),
               MintedBy(i, NewToken(Len(token) + 1, r, code[r].client, code[r].card))
        PROVE  Sound(i)'
    <3>1. code[r] # None /\ client[code[r].client] # None /\ UNCHANGED <<client, loader>>
      BY <2>1 DEF Exchange
    <3>2. Spent(r)' /\ Owner[code[r].card] = loader[r]
      BY <1>1, <2>1, <3>1, ExchangeSpends DEF GrantInv, Consent
    <3>3. /\ token'[i].grant = r /\ token'[i].card = code[r].card
          /\ token'[i].client = code[r].client
          /\ token'[i].family = Len(token) + 1 /\ Len(token') = Len(token) + 1
          /\ token'[i].ends = ends'[i]
      BY <2>1 DEF MintedBy, NewToken
    <3>4. Len(token) + 1 <= Len(token) + 1
      BY <1>3
    <3> QED
      BY <3>1, <3>2, <3>3, <3>4 DEF Sound
  <2>2. ASSUME NEW j \in Serials, Rotate(j), Row(j),
               MintedBy(i, NewToken(token[j].family, token[j].grant,
                                    token[j].client, token[j].card))
        PROVE  Sound(i)'
    <3>1. PICK g \in Request, a \in Client :
                /\ token[j] \in TokenRow /\ Sound(j)
                /\ g = token[j].grant /\ a = token[j].client
                /\ Spent(g)' /\ loader'[g] = loader[g] /\ client'[a] # None
      BY <1>2, <2>2
    <3>2. /\ token'[i].grant = g /\ token'[i].card = token[j].card
          /\ token'[i].client = a
          /\ token'[i].family = token[j].family /\ Len(token') = Len(token) + 1
          /\ token'[i].ends = ends'[i]
      BY <2>2, <3>1 DEF MintedBy, NewToken
    <3>3. token[j].family \in Nat
      BY <3>1 DEF TokenRow
    <3>4. token[j].family <= Len(token) + 1
      BY <1>3, <3>1, <3>3 DEF Sound
    <3> QED
      BY <3>1, <3>2, <3>4 DEF Sound
  <2> QED
    BY <1>1, <1>5, <2>1, <2>2, NewRows
<1> QED
  BY <1>4, <1>5

\* The steps that end a grant.
Ending ==
    \/ \E r \in Request : ReplayCode(r)
    \/ \E i \in Serials : ReplayRefresh(i) \/ RefreshDead(i) \/ Revoke(i)

LEMMA EndingEnds ==
    ASSUME [Next]_vars, ~Ending
    PROVE  ended' = ended
<1>1. \A a \in Client : Register(a) => ended' = ended
  BY DEF Register
<1>2. \A a \in Client, r \in Request : Authorize(a, r) => ended' = ended
  BY DEF Authorize
<1>3. \A u \in User, r \in Request :
         /\ LoadRequest(u, r) \/ Deny(u, r) => ended' = ended
         /\ \A c \in Card : Approve(u, r, c) => ended' = ended
  BY DEF LoadRequest, Deny, Approve
<1>4. \A r \in Request : Exchange(r) => ended' = ended
  BY DEF Exchange
<1>5. \A i \in Serials : Rotate(i) => ended' = ended
  BY DEF Rotate
<1>6. \A c \in Card :
         RevokeRoot(c) \/ RevokeSub(c) \/ AgentRevoke(c) \/ DeleteDead(c) => ended' = ended
  BY DEF RevokeRoot, Kill, RevokeSub, AgentRevoke, DeleteDead
<1>7. \A u \in User : Nuke(u) => ended' = ended
  BY DEF Nuke, Kill
<1>8. RunCascade(cascade) \/ Tick \/ UNCHANGED vars => ended' = ended
  BY DEF RunCascade, Tick, vars
<1> QED
  BY <1>1, <1>2, <1>3, <1>4, <1>5, <1>6, <1>7, <1>8 DEF Next, Ending

\* Grants that have ended are spent.
LEMMA EndedKept ==
    ASSUME GrantInv, [Next]_vars, NEW r \in ended'
    PROVE  Spent(r)'
<1>1. TypeOK /\ \A q \in Request : Keeps(q)
  BY ConsentKept DEF GrantInv
<1>2. r \in Request
  BY <1>1, LedgerKeepsType
<1>3. Spent(r)
  <2>1. CASE r \in ended
    BY <2>1 DEF GrantInv
  <2>2. ASSUME NEW q \in Request, ReplayCode(q)
        PROVE  r \in ended \/ Spent(r)
    BY <2>2, <1>2 DEF ReplayCode, GrantInv, Consent, Spent
  <2>3. ASSUME NEW i \in Serials, ReplayRefresh(i) \/ RefreshDead(i) \/ Revoke(i)
        PROVE  r \in ended \/ Spent(r)
    <3>1. Row(i) /\ ended' = ended \cup {token[i].grant}
      BY <2>3 DEF ReplayRefresh, RefreshDead, Revoke, LiveRow
    <3> QED
      BY <3>1 DEF GrantInv, Sound
  <2>4. CASE UNCHANGED ended
    BY <2>1, <2>4
  <2> QED
    BY <2>1, <2>2, <2>3, <2>4, EndingEnds DEF Ending
<1> QED
  BY <1>1, <1>2, <1>3 DEF Keeps

\* The parts of the invariant that relate rows.
FamiliesAreGrants ==
    \A i, j \in Serials : Row(i) /\ Row(j) =>
        (token[i].grant = token[j].grant <=> token[i].family = token[j].family)
OneLive ==
    \A i, j \in Serials :
        LiveRow(i) /\ LiveRow(j) /\ token[i].grant = token[j].grant => i = j

\* An old row looks as it did.
LEMMA OldRow ==
    ASSUME GrantInv, [Next]_vars, NEW i \in Serials, Row(i)'
    PROVE  /\ i \in Serials' /\ Row(i) /\ Sound(i) /\ token[i] \in TokenRow
           /\ Same(token'[i], token[i]) /\ (LiveRow(i)' => LiveRow(i))
           /\ token[i].family < Len(token) + 1
<1>1. Row(i) /\ Same(token'[i], token[i]) /\ i \in Serials' /\ (LiveRow(i)' => LiveRow(i))
  BY StepCarries DEF Carried, GrantInv
<1>2. Sound(i) /\ token[i] \in TokenRow /\ Len(token) \in Nat
  BY <1>1, SerialsCount DEF GrantInv
<1>3. token[i].family \in Nat /\ token[i].family <= Len(token)
  BY <1>2 DEF TokenRow, Sound
<1>4. token[i].family < Len(token) + 1
  BY <1>2, <1>3
<1> QED
  BY <1>1, <1>2, <1>4

\* A new row against an old one: of another grant and family, or of the one it
\* rotates, which was the live row.
NewAgainst(n, j) ==
    \/ /\ token'[n].grant # token[j].grant
       /\ token'[n].family # token[j].family
    \/ /\ token'[n].grant = token[j].grant
       /\ token'[n].family = token[j].family
       /\ ~LiveRow(j)'

LEMMA NewAgainstOld ==
    ASSUME GrantInv, FamiliesAreGrants, OneLive, [Next]_vars,
           NEW n \in Serials', n \notin Serials, NEW j \in Serials, Row(j)'
    PROVE  NewAgainst(n, j)
<1>1. /\ Row(j) /\ Sound(j) /\ (LiveRow(j)' => LiveRow(j)) /\ Len(token) \in Nat
      /\ token[j].family < Len(token) + 1 /\ token[j] \in TokenRow
  BY OldRow, SerialsCount DEF GrantInv
<1>2. ASSUME NEW r \in Request, Exchange(r),
             MintedBy(n, NewToken(Len(token) + 1, r, code[r].client, code[r].card))
      PROVE  NewAgainst(n, j)
  <2>1. ~Spent(r)
    BY <1>2, ExchangeSpends DEF GrantInv
  <2>2. token'[n].grant = r /\ token'[n].family = Len(token) + 1
    BY <1>2 DEF MintedBy, NewToken
  <2>3. token[j].grant # r
    BY <1>1, <2>1 DEF Sound
  <2>4. token[j].family # Len(token) + 1
    <3>1. token[j].family \in Nat
      BY <1>1 DEF TokenRow
    <3> QED
      BY <1>1, <3>1
  <2> QED
    BY <2>2, <2>3, <2>4 DEF NewAgainst
<1>3. ASSUME NEW i \in Serials, Rotate(i), Row(i), ~LiveRow(i)',
             MintedBy(n, NewToken(token[i].family, token[i].grant,
                                  token[i].client, token[i].card))
      PROVE  NewAgainst(n, j)
  <2>1. token'[n].grant = token[i].grant /\ token'[n].family = token[i].family
    BY <1>3 DEF MintedBy, NewToken
  <2>2. token[i].grant = token[j].grant <=> token[i].family = token[j].family
    BY <1>1, <1>3 DEF FamiliesAreGrants
  <2>3. token[i].grant = token[j].grant /\ LiveRow(j)' => i = j
    BY <1>1, <1>3 DEF OneLive, Rotate
  <2>4. token[i].grant = token[j].grant => ~LiveRow(j)'
    BY <1>3, <2>3
  <2> QED
    BY <2>1, <2>2, <2>4 DEF NewAgainst
<1> QED
  BY <1>2, <1>3, NewRows DEF GrantInv

\* There is one new row at most.
LEMMA OneNewRow ==
    ASSUME TypeOK, [Next]_vars,
           NEW n \in Serials', n \notin Serials, NEW m \in Serials', m \notin Serials
    PROVE  n = m
<1>1. \A k \in Serials' : k \notin Serials => k = Len(token) + 1
  BY NewRows DEF MintedBy
<1> QED
  BY <1>1

LEMMA RelationsKept ==
    ASSUME GrantInv, FamiliesAreGrants, OneLive, [Next]_vars
    PROVE  FamiliesAreGrants' /\ OneLive'
<1> SUFFICES ASSUME NEW i \in Serials', NEW j \in Serials', Row(i)', Row(j)'
             PROVE  /\ token'[i].grant = token'[j].grant <=> token'[i].family = token'[j].family
                    /\ LiveRow(i)' /\ LiveRow(j)' /\ token'[i].grant = token'[j].grant => i = j
  <2>1. \A i \in Serials' : LiveRow(i)' => Row(i)'
    BY DEF LiveRow
  <2> QED
    BY <2>1 DEF FamiliesAreGrants, OneLive
<1>1. CASE i \in Serials /\ j \in Serials
  <2>1. /\ Row(i) /\ Same(token'[i], token[i]) /\ (LiveRow(i)' => LiveRow(i))
        /\ Row(j) /\ Same(token'[j], token[j]) /\ (LiveRow(j)' => LiveRow(j))
    BY <1>1, OldRow
  <2> QED
    BY <1>1, <2>1 DEF Same, FamiliesAreGrants, OneLive
<1>2. ASSUME NEW n \in Serials', n \notin Serials, NEW k \in Serials, Row(k)'
      PROVE  /\ token'[n].grant = token'[k].grant <=> token'[n].family = token'[k].family
             /\ token'[n].grant = token'[k].grant => ~LiveRow(k)'
  <2>1. NewAgainst(n, k)
    BY <1>2, NewAgainstOld
  <2>2. Same(token'[k], token[k])
    BY <1>2, OldRow
  <2> QED
    BY <2>1, <2>2 DEF NewAgainst, Same
<1>3. CASE i \notin Serials /\ j \in Serials
  BY <1>2, <1>3
<1>4. CASE i \in Serials /\ j \notin Serials
  BY <1>2, <1>4
<1>5. CASE i \notin Serials /\ j \notin Serials
  BY <1>5, OneNewRow DEF GrantInv
<1> QED
  BY <1>1, <1>3, <1>4, <1>5

\* What has ended stays dead.
LEMMA EndedStays ==
    ASSUME GrantInv, FamiliesAreGrants, [Next]_vars
    PROVE  EndedStaysEnded'
<1> SUFFICES ASSUME NEW i \in Serials', LiveRow(i)'
             PROVE  token'[i].grant \notin ended'
  BY DEF EndedStaysEnded
<1>1. Row(i)'
  BY DEF LiveRow
<1>2. CASE i \notin Serials
  <2>1. ASSUME NEW r \in Request, Exchange(r),
               MintedBy(i, NewToken(Len(token) + 1, r, code[r].client, code[r].card))
        PROVE  token'[i].grant \notin ended'
    <3>1. token'[i].grant = r /\ ended' = ended
      BY <2>1 DEF MintedBy, NewToken, Exchange
    <3>2. ~Spent(r)
      BY <2>1, ExchangeSpends DEF GrantInv
    <3> QED
      BY <3>1, <3>2 DEF GrantInv
  <2>2. ASSUME NEW j \in Serials, Rotate(j),
               MintedBy(i, NewToken(token[j].family, token[j].grant,
                                    token[j].client, token[j].card))
        PROVE  token'[i].grant \notin ended'
    <3>1. token'[i].grant = token[j].grant /\ ended' = ended /\ LiveRow(j)
      BY <2>2 DEF MintedBy, NewToken, Rotate
    <3> QED
      BY <3>1 DEF GrantInv, EndedStaysEnded
  <2> QED
    BY <1>2, <2>1, <2>2, NewRows DEF GrantInv
<1>3. CASE i \in Serials
  <2>1. Row(i) /\ LiveRow(i) /\ token'[i].grant = token[i].grant
    BY <1>1, <1>3, OldRow DEF Same
  <2>2. token[i].grant \notin ended
    BY <1>3, <2>1 DEF GrantInv, EndedStaysEnded
  <2>3. ASSUME NEW S, Revoking(S)
        PROVE  i \notin S
    BY <1>3, <2>3, RevokingCarries DEF Carried, GrantInv
  <2>4. ASSUME NEW r \in Request, ReplayCode(r)
        PROVE  token[i].grant \notin ended'
    <3>1. i \notin OfGrant(r)
      BY <2>3, <2>4, OthersRevoke DEF GrantInv
    <3>2. token[i].grant # r
      BY <1>3, <2>1, <3>1 DEF OfGrant
    <3> QED
      BY <2>2, <2>4, <3>2 DEF ReplayCode
  <2>5. ASSUME NEW j \in Serials, ReplayRefresh(j) \/ RefreshDead(j) \/ Revoke(j)
        PROVE  token[i].grant \notin ended'
    <3>1. Row(j) /\ i \notin OfFamily(token[j].family)
      BY <2>3, <2>5, OthersRevoke DEF GrantInv
    <3>2. token[i].family # token[j].family
      BY <1>3, <2>1, <3>1 DEF OfFamily
    <3>3. token[i].grant # token[j].grant
      BY <1>3, <2>1, <2>5, <3>1, <3>2 DEF FamiliesAreGrants
    <3> QED
      BY <2>2, <2>5, <3>3 DEF ReplayRefresh, RefreshDead, Revoke
  <2>6. ASSUME UNCHANGED ended
        PROVE  token[i].grant \notin ended'
    BY <2>2, <2>6
  <2>7. token[i].grant \notin ended'
    BY <2>4, <2>5, <2>6, EndingEnds DEF Ending
  <2> QED
    BY <2>1, <2>7
<1> QED
  BY <1>2, <1>3

\* Time only goes on.
LEMMA ClockMoves ==
    ASSUME [Next]_vars
    PROVE  clock' = clock \/ clock' = clock + 1
<1>1. \A a \in Client : Register(a) => clock' = clock
  BY DEF Register
<1>2. \A a \in Client, r \in Request : Authorize(a, r) => clock' = clock
  BY DEF Authorize
<1>3. \A u \in User, r \in Request :
         /\ LoadRequest(u, r) \/ Deny(u, r) => clock' = clock
         /\ \A c \in Card : Approve(u, r, c) => clock' = clock
  BY DEF LoadRequest, Deny, Approve
<1>4. \A r \in Request : Exchange(r) \/ ReplayCode(r) => clock' = clock
  BY DEF Exchange, ReplayCode
<1>5. \A i \in Serials :
         Rotate(i) \/ ReplayRefresh(i) \/ RefreshDead(i) \/ Revoke(i) => clock' = clock
  BY DEF Rotate, ReplayRefresh, RefreshDead, Revoke
<1>6. \A c \in Card :
         RevokeRoot(c) \/ RevokeSub(c) \/ AgentRevoke(c) \/ DeleteDead(c) => clock' = clock
  BY DEF RevokeRoot, Kill, RevokeSub, AgentRevoke, DeleteDead
<1>7. \A u \in User : Nuke(u) => clock' = clock
  BY DEF Nuke, Kill
<1>8. RunCascade(cascade) => clock' = clock
  BY DEF RunCascade
<1>9. Tick => clock' = clock + 1
  BY DEF Tick
<1>10. UNCHANGED vars => clock' = clock
  BY DEF vars
<1> QED
  BY <1>1, <1>2, <1>3, <1>4, <1>5, <1>6, <1>7, <1>8, <1>9, <1>10 DEF Next

\* The witnesses stay.
LEMMA WitnessKept ==
    ASSUME GrantInv, [Next]_vars
    PROVE  WitnessStays'
<1> SUFFICES ASSUME NEW i \in Serials', clock' <= ends'[i]
             PROVE  Row(i)'
  BY DEF WitnessStays
<1>1. CASE i \notin Serials
  <2>1. i \in Serials' /\ token'[i] # None
    BY <1>1, NewRows DEF MintedBy, GrantInv
  <2> QED
    BY <2>1 DEF Row
<1>2. CASE i \in Serials
  <2>1. ends'[i] = ends[i] /\ (Row(i) /\ clock <= token[i].ends => Row(i)')
    BY <1>2, StepCarries DEF Carried, GrantInv
  <2>2. clock \in Nat /\ clock' \in Nat /\ ends[i] \in Nat
    BY <1>2, ClockCounts, LedgerKeepsType, SerialsCount, Numbers DEF GrantInv, TypeOK
  <2>3. clock <= clock'
    <3>1. clock' = clock \/ clock' = clock + 1
      BY ClockMoves
    <3> QED
      BY <2>2, <3>1
  <2>4. clock <= ends[i]
    BY <2>1, <2>2, <2>3
  <2>5. Row(i) /\ token[i].ends = ends[i]
    BY <1>2, <2>4 DEF GrantInv, WitnessStays, Sound
  <2> QED
    BY <2>1, <2>4, <2>5
<1> QED
  BY <1>1, <1>2

\* What is so of a card that still has a live row, after a step.
CardKept(c) ==
    /\ status'[c] # "deleted"
    /\ c \notin cascade' => status'[c] \in {"live", "killed"}

\* Before it.
CardFit(c) ==
    /\ status[c] # "deleted"
    /\ c \notin cascade => status[c] \in {"live", "killed"}

LEMMA StatusAfter ==
    ASSUME TypeOK, NEW S, NEW s, NEW c \in Card, status' = StatusOf(S, s)
    PROVE  /\ c \notin S => status'[c] = status[c]
           /\ c \in S /\ status[c] # "deleted" => status'[c] = s
BY DEF StatusOf

\* A card with a live row that survives a step is not dead unless its cascade is
\* to come.
LEMMA CardsFit ==
    ASSUME TypeOK, [Next]_vars, NEW i \in Serials, Row(i), LiveRow(i)',
           NEW c \in Card, c = token[i].card, CardFit(c)
    PROVE  CardKept(c)
<1>1. ASSUME NEW S, Revoking(S)
      PROVE  i \notin S
  BY <1>1, RevokingCarries DEF Carried
<1>2. CASE UNCHANGED <<status, cascade>>
  BY <1>2 DEF CardFit, CardKept
<1>3. ASSUME NEW S, Kill(S)
      PROVE  CardKept(c)
  <2>1. status' = StatusOf(S, "revoked") /\ cascade' = cascade \cup S
    BY <1>3 DEF Kill
  <2>2. CASE c \in S
    <3>1. status'[c] = "revoked"
      BY <2>1, <2>2, StatusAfter DEF CardFit
    <3> QED
      BY <2>1, <2>2, <3>1 DEF CardKept
  <2>3. CASE c \notin S
    <3>1. status'[c] = status[c]
      BY <2>1, <2>3, StatusAfter
    <3> QED
      BY <2>1, <2>3, <3>1 DEF CardFit, CardKept
  <2> QED
    BY <2>2, <2>3
<1>4. ASSUME NEW d \in Card, AgentRevoke(d)
      PROVE  CardKept(c)
  <2>1. status' = StatusOf(Subtree(d), "killed") /\ cascade' = cascade
    BY <1>4 DEF AgentRevoke
  <2>2. status'[c] = status[c] \/ status'[c] = "killed"
    BY <2>1, StatusAfter DEF CardFit
  <2> QED
    BY <2>1, <2>2 DEF CardFit, CardKept
<1>5. ASSUME NEW d \in Card, RevokeSub(d) \/ DeleteDead(d)
      PROVE  CardKept(c)
  <2>1. i \notin OfCards(Reached(Subtree(d)))
    BY <1>1, <1>5, OthersRevoke
  <2>2. c \notin Reached(Subtree(d))
    BY <2>1 DEF OfCards
  <2>3. c \notin Subtree(d)
    BY <2>2 DEF CardFit, Reached
  <2>4. status'[c] = status[c] /\ cascade' = cascade
    BY <1>5, <2>3, StatusAfter DEF RevokeSub, DeleteDead
  <2> QED
    BY <2>4 DEF CardFit, CardKept
<1>6. ASSUME RunCascade(cascade)
      PROVE  CardKept(c)
  <2>1. i \notin OfCards(Reached(cascade))
    BY <1>1, <1>6, OthersRevoke
  <2>2. c \notin Reached(cascade)
    BY <2>1 DEF OfCards
  <2>3. c \notin cascade
    BY <2>2 DEF CardFit, Reached
  <2>4. status' = status
    BY <1>6 DEF RunCascade
  <2> QED
    BY <2>3, <2>4 DEF CardFit, CardKept
<1>7. \A a \in Client : Register(a) => UNCHANGED <<status, cascade>>
  BY DEF Register
<1>8. \A a \in Client, r \in Request : Authorize(a, r) => UNCHANGED <<status, cascade>>
  BY DEF Authorize
<1>9. \A u \in User, r \in Request :
         /\ LoadRequest(u, r) \/ Deny(u, r) => UNCHANGED <<status, cascade>>
         /\ \A d \in Card : Approve(u, r, d) => UNCHANGED <<status, cascade>>
  BY DEF LoadRequest, Deny, Approve
<1>10. \A r \in Request : Exchange(r) \/ ReplayCode(r) => UNCHANGED <<status, cascade>>
  BY DEF Exchange, ReplayCode
<1>11. \A j \in Serials : Rotate(j) \/ ReplayRefresh(j) \/ RefreshDead(j) \/ Revoke(j) =>
           UNCHANGED <<status, cascade>>
  BY DEF Rotate, ReplayRefresh, RefreshDead, Revoke
<1>12. \A d \in Card : RevokeRoot(d) => CardKept(c)
  BY <1>3 DEF RevokeRoot
<1>13. \A u \in User : Nuke(u) => CardKept(c)
  BY <1>3 DEF Nuke
<1>14. Tick \/ UNCHANGED vars => UNCHANGED <<status, cascade>>
  BY DEF Tick, vars
<1> QED
  BY <1>2, <1>4, <1>5, <1>6, <1>7, <1>8, <1>9, <1>10, <1>11, <1>12, <1>13, <1>14 DEF Next

LEMMA LedgerKept ==
    ASSUME GrantInv, [Next]_vars
    PROVE  LedgerIsHonest' /\ NoneOfDeleted'
<1> SUFFICES ASSUME NEW i \in Serials', LiveRow(i)'
             PROVE  CardKept(token'[i].card)
  BY DEF LedgerIsHonest, NoneOfDeleted, CardKept
<1>1. CASE i \in Serials
  <2>1. Row(i) /\ LiveRow(i) /\ token'[i].card = token[i].card /\ token[i].card \in Card
    BY <1>1, OldRow DEF LiveRow, Same, TokenRow
  <2>2. CardFit(token[i].card)
    BY <1>1, <2>1 DEF GrantInv, LedgerIsHonest, NoneOfDeleted, CardFit
  <2> QED
    BY <1>1, <2>1, <2>2, CardsFit DEF GrantInv
<1>2. CASE i \notin Serials
  <2>1. ASSUME NEW r \in Request, Exchange(r),
               MintedBy(i, NewToken(Len(token) + 1, r, code[r].client, code[r].card))
        PROVE  CardKept(token'[i].card)
    <3>1. token'[i].card = code[r].card /\ status' = status
      BY <2>1 DEF MintedBy, NewToken, Exchange
    <3>2. status[code[r].card] = "live"
      BY <2>1 DEF Exchange, Grantable
    <3> QED
      BY <3>1, <3>2 DEF CardKept
  <2>2. ASSUME NEW j \in Serials, Rotate(j),
               MintedBy(i, NewToken(token[j].family, token[j].grant,
                                    token[j].client, token[j].card))
        PROVE  CardKept(token'[i].card)
    <3>1. token'[i].card = token[j].card /\ status' = status /\ status[token[j].card] = "live"
      BY <2>2 DEF MintedBy, NewToken, Rotate
    <3> QED
      BY <3>1 DEF CardKept
  <2> QED
    BY <1>2, <2>1, <2>2, NewRows DEF GrantInv
<1> QED
  BY <1>1, <1>2

-----------------------------------------------------------------------------
(* The theorems                                                            *)

\* The invariant, its parts that relate rows included.
Whole == GrantInv /\ FamiliesAreGrants /\ OneLive

LEMMA WholeHolds == Spec => []Whole
<1>1. Init => Whole
  <2> SUFFICES ASSUME Init
               PROVE  Whole
    OBVIOUS
  <2>1. Serials = {}
    BY DEF Init, Serials
  <2>2. TypeOK
    BY Numbers DEF Init, TypeOK, Optional
  <2>3. \A r \in Request : Consent(r)
    BY DEF Init, Consent
  <2>4. ended = {}
    BY DEF Init
  <2> QED
    BY <2>1, <2>2, <2>3, <2>4
       DEF Whole, GrantInv, FamiliesAreGrants, OneLive, EndedStaysEnded, WitnessStays,
           LedgerIsHonest, NoneOfDeleted, LiveRow, Row, Init
<1>2. Whole /\ [Next]_vars => Whole'
  <2> SUFFICES ASSUME Whole, [Next]_vars
               PROVE  Whole'
    OBVIOUS
  <2> USE DEF Whole
  <2>1. TypeOK'
    BY TableKeepsType, LedgerKeepsType, ConsentKeepsType DEF TypeOK, Table, GrantInv
  <2>2. \A r \in Request : Consent(r)'
    BY ConsentKept DEF Keeps, GrantInv
  <2>3. \A r \in ended' : Spent(r)'
    BY EndedKept
  <2>4. \A i \in Serials' : Row(i)' => Sound(i)'
    BY SoundKept
  <2>5. FamiliesAreGrants' /\ OneLive'
    BY RelationsKept
  <2>6. EndedStaysEnded' /\ WitnessStays' /\ LedgerIsHonest' /\ NoneOfDeleted'
    BY EndedStays, WitnessKept, LedgerKept
  <2> QED
    BY <2>1, <2>2, <2>3, <2>4, <2>5, <2>6 DEF GrantInv
<1> QED
  BY <1>1, <1>2, PTL DEF Spec

\* One approval is one credential, whatever is exchanged, rotated or replayed:
\* a code is redeemed once and a rotation takes the place of what it rotates.
THEOREM OneCredential == Spec => []OneLivePerGrant
<1>1. Whole => OneLivePerGrant
  BY DEF Whole, FamiliesAreGrants, OneLive, OneLivePerGrant
<1> QED
  BY <1>1, WholeHolds, PTL

\* A grant that its owner revoked, that was replayed, or whose refresh met a dead
\* card stays dead.
THEOREM DeadGrantsStayDead == Spec => []EndedStaysEnded
<1>1. Whole => EndedStaysEnded
  BY DEF Whole, GrantInv
<1> QED
  BY <1>1, WholeHolds, PTL

\* Whatever lifetimes and grace are configured, no collection takes the row of a
\* refresh token still in its window, so its replay within it is noticed.
THEOREM ReplaysAreNoticed == Spec => []WitnessStays
<1>1. Whole => WitnessStays
  BY DEF Whole, GrantInv
<1> QED
  BY <1>1, WholeHolds, PTL

\* A grant is for a card of the login that first loaded its consent request.
THEOREM GrantsAreTheLoaders == Spec => []OnlyTheLoaderGrants
<1>1. Whole => OnlyTheLoaderGrants
  BY DEF Whole, GrantInv, Consent, Sound, OnlyTheLoaderGrants
<1> QED
  BY <1>1, WholeHolds, PTL

\* Once the cascade of an owner's revocation or deletion has run, no unrevoked
\* row names a card of it, for any tree of cards.
THEOREM CascadesReachAll == Spec => []LedgerIsHonest
<1>1. Whole => LedgerIsHonest
  BY DEF Whole, GrantInv
<1> QED
  BY <1>1, WholeHolds, PTL

\* The client of a token that can still be refreshed is registered.
THEOREM ClientsOutliveGrants == Spec => []HoldersAreRegistered
<1>1. Whole => HoldersAreRegistered
  BY DEF Whole, GrantInv, Sound, LiveRow, HoldersAreRegistered
<1> QED
  BY <1>1, WholeHolds, PTL
=============================================================================
