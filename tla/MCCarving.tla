------------------------------ MODULE MCCarving ------------------------------
(***************************************************************************)
(* Values for the constants of Carving: a composite root card, what agents *)
(* may ask for one dimension at a time, and a tree of three cards.         *)
(***************************************************************************)
EXTENDS Carving, TLC

CONSTANTS c1, c2, c3, usdc, router, shop, swap, approve, approveUint, transfer

Canon == [s \in {swap, approve, approveUint, transfer} |->
             IF s = approveUint THEN approve ELSE s]

Every(n, s) == [amount |-> n, seconds |-> s]
Scope(targets, selectors, tokens, cap) ==
    [targets |-> targets, selectors |-> selectors, tokens |-> tokens, perTradeMax |-> cap]

\* Nothing is asked for: the money terms are inherited.
Silent ==
    [period |-> None, lifetime |-> None, contract |-> None, expiry |-> None,
     maxUses |-> None, perTxMax |-> None, merchants |-> None, subcards |-> TRUE]

Wide == Scope({router, usdc}, {swap, approveUint}, None, 2)

Roots ==
    { [Silent EXCEPT !.lifetime = 5, !.maxUses = 2, !.contract = Wide, !.expiry = 2],
      [Silent EXCEPT !.period = Every(3, 1), !.merchants = {shop}, !.perTxMax = 1],
      [Silent EXCEPT !.contract = Scope({router}, {swap}, {usdc}, None), !.maxUses = 1] }

Contracts ==
    { Scope({router}, {swap}, None, None), Scope({router}, {swap}, {usdc}, None),
      Scope({router, usdc}, {approveUint}, None, None),
      Scope({router}, {approve}, None, 3), Scope({shop}, {swap}, {shop}, 1) }

Asked ==
    {Silent, [Silent EXCEPT !.subcards = FALSE]}
    \cup {[Silent EXCEPT !.contract = ct] : ct \in Contracts}
    \cup {[Silent EXCEPT !.lifetime = n] : n \in {2, 6}}
    \cup {[Silent EXCEPT !.period = Every(n, 2)] : n \in {2, 4}}
    \cup {[Silent EXCEPT !.expiry = n] : n \in {1, 3}}
    \cup {[Silent EXCEPT !.maxUses = n, !.perTxMax = n] : n \in {1, 2}}
    \cup {[Silent EXCEPT !.merchants = m] : m \in {{}, {shop}, {shop, router}}}

Same == Permutations(Card)
=============================================================================
