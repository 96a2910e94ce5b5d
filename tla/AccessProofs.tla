---------------------------- MODULE AccessProofs ----------------------------
(***************************************************************************)
(* An agent's two doors, for all users, cards and limits: an authorization *)
(* request gets one answer, and no window answers more prompt calls than   *)
(* its ceiling.                                                            *)
(*                                                                         *)
(* CeilingHolds is not inductive: that a prompt call fits says something   *)
(* about the limiter's hits, which slow calls drop and add to.  It needs   *)
(* that no prompt call of the window is ever dropped (PromptAreHits).      *)
(*                                                                         *)
(* OneAnswer is not inductive: a second code would need a request that is  *)
(* still open after the first, and a second jump an answer, or a timer,    *)
(* that is still to come.  ConsentInv says when there can be one.          *)
(***************************************************************************)
EXTENDS Access, Consent, FiniteSetTheorems, WellFoundedInduction, TLAPS

-----------------------------------------------------------------------------
(* Sums of hits.                                                           *)

\* There are n hits of an age that has n.
LEMMA HitsOfAge ==
  ASSUME NEW n \in Nat
  PROVE  IsFiniteSet(1 .. n) /\ Cardinality(1 .. n) = n
<1>1. 1 \in Int /\ n \in Int
  OBVIOUS
<1>2. IsFiniteSet(1 .. n) /\ Cardinality(1 .. n) = IF 1 > n THEN 0 ELSE n - 1 + 1
  BY <1>1, FS_Interval
<1> QED BY <1>2

\* Finitely many ages have finitely many hits, and their sum is a number.
LEMMA HitsFinite ==
  ASSUME NEW A, NEW f \in [A -> Nat], NEW S \in SUBSET A, IsFiniteSet(S)
  PROVE  IsFiniteSet(Hits(f, S)) /\ Sum(f, S) \in Nat
<1> DEFINE B == {{a} \X (1 .. f[a]) : a \in S}
           g == [a \in S |-> {a} \X (1 .. f[a])]
<1>1. g \in Surjection(S, B)
  BY DEF Surjection
<1>2. IsFiniteSet(B)
  BY <1>1, FS_Surjection
<1>3. \A T \in B : IsFiniteSet(T)
  <2>1. ASSUME NEW a \in S
        PROVE  IsFiniteSet({a} \X (1 .. f[a]))
    <3>1. f[a] \in Nat
      OBVIOUS
    <3>2. IsFiniteSet({a}) /\ IsFiniteSet(1 .. f[a])
      BY <3>1, FS_Singleton, HitsOfAge
    <3> QED BY <3>2, FS_Product
  <2> QED BY <2>1
<1>4. IsFiniteSet(Hits(f, S))
  BY <1>2, <1>3, FS_UNION DEF Hits
<1> QED BY <1>4, FS_CardinalityType DEF Sum

\* More ages, or ages with more hits, add up to no less.
LEMMA SumMonotone ==
  ASSUME NEW A, NEW f \in [A -> Nat], NEW S \in SUBSET A,
         NEW B, NEW g \in [B -> Nat], NEW T \in SUBSET B, IsFiniteSet(T),
         S \subseteq T, \A a \in S : f[a] <= g[a]
  PROVE  Sum(f, S) <= Sum(g, T)
<1>1. ASSUME NEW a \in S
      PROVE  {a} \X (1 .. f[a]) \subseteq Hits(g, T)
  <2>1. f[a] \in Nat /\ g[a] \in Nat /\ f[a] <= g[a] /\ a \in T
    OBVIOUS
  <2>2. 1 .. f[a] \subseteq 1 .. g[a]
    BY <2>1
  <2> QED BY <2>1, <2>2 DEF Hits
<1>2. Hits(f, S) \subseteq Hits(g, T)
  BY <1>1 DEF Hits
<1> QED BY <1>2, HitsFinite, FS_Subset DEF Sum

\* One more hit adds one.
LEMMA SumAdds ==
  ASSUME NEW A, NEW f \in [A -> Nat], NEW S \in SUBSET A, IsFiniteSet(S), NEW a \in S
  PROVE  Sum([f EXCEPT ![a] = f[a] + 1], S) <= Sum(f, S) + 1
<1> DEFINE g == [f EXCEPT ![a] = f[a] + 1]
<1>1. f[a] \in Nat /\ g \in [A -> Nat] /\ g[a] = f[a] + 1 /\ \A b \in S \ {a} : g[b] = f[b]
  OBVIOUS
<1>2. 1 .. g[a] = (1 .. f[a]) \cup {f[a] + 1}
  BY <1>1
<1>3. Hits(g, S) \subseteq Hits(f, S) \cup {<<a, f[a] + 1>>}
  <2>1. ASSUME NEW b \in S
        PROVE  {b} \X (1 .. g[b]) \subseteq Hits(f, S) \cup {<<a, f[a] + 1>>}
    <3>1. CASE b = a
      BY <1>2, <3>1 DEF Hits
    <3>2. CASE b # a
      BY <1>1, <3>2 DEF Hits
    <3> QED BY <3>1, <3>2
  <2> HIDE DEF g
  <2> QED BY <2>1 DEF Hits
<1>4. IsFiniteSet(Hits(f, S)) /\ Cardinality(Hits(f, S)) \in Nat
  BY HitsFinite DEF Sum
<1>5. /\ IsFiniteSet(Hits(f, S) \cup {<<a, f[a] + 1>>})
      /\ Cardinality(Hits(f, S) \cup {<<a, f[a] + 1>>}) <= Cardinality(Hits(f, S)) + 1
  <2>1. ASSUME NEW H, NEW x, IsFiniteSet(H), Cardinality(H) \in Nat
        PROVE  IsFiniteSet(H \cup {x}) /\ Cardinality(H \cup {x}) <= Cardinality(H) + 1
    <3>1. /\ IsFiniteSet(H \cup {x})
          /\ \/ Cardinality(H \cup {x}) = Cardinality(H)
             \/ Cardinality(H \cup {x}) = Cardinality(H) + 1
      BY <2>1, FS_AddElement
    <3> QED BY <2>1, <3>1
  <2> QED BY <1>4, <2>1
<1>6. /\ Cardinality(Hits(g, S)) <= Cardinality(Hits(f, S) \cup {<<a, f[a] + 1>>})
      /\ Cardinality(Hits(g, S)) \in Nat
      /\ Cardinality(Hits(f, S) \cup {<<a, f[a] + 1>>}) \in Nat
  BY <1>3, <1>5, FS_Subset, FS_CardinalityType
<1> HIDE DEF g
<1>7. Cardinality(Hits(g, S)) <= Cardinality(Hits(f, S)) + 1
  BY <1>4, <1>5, <1>6
<1> QED BY <1>7 DEF Sum, g

\* A tick later there are no more: the oldest are gone, and nothing is new.
LEMMA SumAges ==
  ASSUME NEW n \in Nat, NEW f \in [0 .. n -> Nat]
  PROVE  Sum([a \in 0 .. n |-> IF a = 0 THEN 0 ELSE f[a - 1]], 0 .. n) <= Sum(f, 0 .. n)
<1> DEFINE g == [a \in 0 .. n |-> IF a = 0 THEN 0 ELSE f[a - 1]]
           back == [h \in Hits(g, 0 .. n) |-> <<h[1] - 1, h[2]>>]
<1>1. IsFiniteSet(0 .. n)
  BY FS_Interval
<1>2. g \in [0 .. n -> Nat]
  OBVIOUS
<1>3. ASSUME NEW h \in Hits(g, 0 .. n)
      PROVE  /\ h = <<h[1], h[2]>> /\ h[1] \in 1 .. n
             /\ <<h[1] - 1, h[2]>> \in Hits(f, 0 .. n)
  <2>1. PICK a \in 0 .. n : h \in {a} \X (1 .. g[a])
    BY DEF Hits
  <2>2. h = <<a, h[2]>> /\ h[1] = a /\ h[2] \in 1 .. g[a]
    BY <2>1
  <2>3. a # 0
    BY <2>2
  <2>4. a - 1 \in 0 .. n /\ g[a] = f[a - 1]
    BY <2>3
  <2>5. <<a - 1, h[2]>> \in {a - 1} \X (1 .. f[a - 1])
    BY <2>2, <2>4
  <2> QED BY <2>2, <2>3, <2>4, <2>5 DEF Hits
<1>4. back \in Injection(Hits(g, 0 .. n), Hits(f, 0 .. n))
  <2>1. back \in [Hits(g, 0 .. n) -> Hits(f, 0 .. n)]
    BY <1>3
  <2>2. ASSUME NEW h \in Hits(g, 0 .. n), NEW j \in Hits(g, 0 .. n), back[h] = back[j]
        PROVE  h = j
    <3>1. h[1] - 1 = j[1] - 1 /\ h[2] = j[2]
      BY <2>2
    <3>2. h = <<h[1], h[2]>> /\ h[1] \in 1 .. n
      BY <1>3
    <3>3. j = <<j[1], j[2]>> /\ j[1] \in 1 .. n
      BY <1>3
    <3>4. h[1] = j[1]
      BY <3>1, <3>2, <3>3
    <3> QED BY <3>1, <3>2, <3>3, <3>4
  <2> QED BY <2>1, <2>2 DEF Injection, IsInjective
<1>5. IsFiniteSet(Hits(f, 0 .. n))
  BY <1>1, HitsFinite
<1> HIDE DEF back
<1>6. Cardinality(Hits(g, 0 .. n)) <= Cardinality(Hits(f, 0 .. n))
  BY <1>4, <1>5, FS_Injection
<1> QED BY <1>6 DEF Sum

\* No age has more hits than all of them.
LEMMA OneOfTheSum ==
  ASSUME NEW A, NEW f \in [A -> Nat], NEW S \in SUBSET A, IsFiniteSet(S), NEW a \in S
  PROVE  f[a] <= Sum(f, S)
<1>1. f[a] \in Nat
  OBVIOUS
<1>2. {a} \X (1 .. f[a]) \subseteq Hits(f, S)
  BY DEF Hits
<1>3. Cardinality({a} \X (1 .. f[a])) = f[a]
  <2>1. IsFiniteSet({a}) /\ Cardinality({a}) = 1
    BY FS_Singleton
  <2>2. IsFiniteSet(1 .. f[a]) /\ Cardinality(1 .. f[a]) = f[a]
    BY <1>1, HitsOfAge
  <2>3. Cardinality({a} \X (1 .. f[a])) = Cardinality({a}) * Cardinality(1 .. f[a])
    BY <2>1, <2>2, FS_Product
  <2> QED BY <1>1, <2>1, <2>2, <2>3
<1>4. Cardinality({a} \X (1 .. f[a])) <= Cardinality(Hits(f, S))
  BY <1>2, HitsFinite, FS_Subset
<1> QED BY <1>3, <1>4 DEF Sum

-----------------------------------------------------------------------------
(* The limiter.                                                            *)

\* Whatever answered a prompt call of the window still counts.
PromptAreHits == \A c \in Card : \A a \in 0 .. Window - 1 : prompt[c][a] <= hits[c][a]

\* No age has more hits than one window answers.
Most == MaxCalls + MaxBad
Recent == 0 .. Window - 1

\* The numbers of the limiter, and the ages it keeps.
LEMMA Numbers ==
  /\ Window \in Nat /\ Window >= 1 /\ MaxDelay \in Nat
  /\ Recent \subseteq Ages /\ 0 \in Recent /\ IsFiniteSet(Ages) /\ IsFiniteSet(Recent)
  /\ \A age \in 0 .. MaxDelay :
       Kept(age) \subseteq Ages /\ IsFiniteSet(Kept(age)) /\ Recent \subseteq Kept(age) /\ age \in Kept(age)
  /\ \A k \in Key : LimitOf(k) \in Nat /\ LimitOf(k) <= Most
  /\ Most \in Nat
<1>1. Window \in Nat /\ Window >= 1 /\ MaxDelay \in Nat
  BY AccessAssumption DEF AccessAssumption
<1>2. Recent \subseteq Ages /\ 0 \in Recent
  BY <1>1 DEF Recent, Ages
<1>3. IsFiniteSet(Ages) /\ IsFiniteSet(Recent)
  <2>1. 0 \in Int /\ Window + MaxDelay - 1 \in Int /\ Window - 1 \in Int
    BY <1>1
  <2> QED BY <2>1, FS_Interval DEF Ages, Recent
<1>4. ASSUME NEW age \in 0 .. MaxDelay
      PROVE  Kept(age) \subseteq Ages /\ IsFiniteSet(Kept(age)) /\ Recent \subseteq Kept(age) /\ age \in Kept(age)
  <2>1. Kept(age) \subseteq Ages
    BY DEF Kept
  <2>2. Recent \subseteq Kept(age) /\ age \in Kept(age)
    BY <1>1 DEF Kept, Recent, Ages
  <2> QED BY <1>3, <2>1, <2>2, FS_Subset
<1>5. MaxCalls \in Nat /\ MaxBad \in Nat
  BY AccessAssumption DEF AccessAssumption
<1> QED BY <1>1, <1>2, <1>3, <1>4, <1>5 DEF LimitOf, Most

\* A call that meets the ceiling leaves numbers, and drops no hit of the window.
LEMMA MeetsHits ==
  ASSUME hits \in [Key -> [Ages -> 0 .. Most]],
         NEW k \in Key, NEW age \in 0 .. MaxDelay, Meets(k, age)
  PROVE  /\ hits' \in [Key -> [Ages -> 0 .. Most]]
         /\ \A j \in Key, a \in Recent : hits[j][a] <= hits'[j][a]
         /\ Allows(k, age) => hits'[k][age] = hits[k][age] + 1
<1>1. /\ Recent \subseteq Ages /\ Kept(age) \subseteq Ages /\ Recent \subseteq Kept(age)
      /\ age \in Kept(age) /\ IsFiniteSet(Kept(age)) /\ Most \in Nat
      /\ LimitOf(k) \in Nat /\ LimitOf(k) <= Most
  BY Numbers
<1>2. \A j \in Key, a \in Ages : hits[j][a] \in 0 .. Most
  OBVIOUS
<1>3. CASE Allows(k, age)
  <2>1. hits[k][age] <= Sum(hits[k], Kept(age)) /\ Sum(hits[k], Kept(age)) \in Nat
    <3>1. hits[k] \in [Ages -> Nat]
      BY <1>1, <1>2
    <3> QED BY <1>1, <3>1, OneOfTheSum, HitsFinite
  <2>2. hits[k][age] + 1 \in 0 .. Most
    BY <1>1, <1>2, <1>3, <2>1 DEF Allows
  <2>3. hits' = [hits EXCEPT ![k] = Recorded(k, age)]
    BY <1>3 DEF Meets
  <2>4. \A a \in Ages : Recorded(k, age)[a] \in 0 .. Most
    BY <1>1, <1>2, <2>2 DEF Recorded
  <2>5. Recorded(k, age) \in [Ages -> 0 .. Most]
    BY <2>4 DEF Recorded
  <2>6. \A a \in Recent : hits[k][a] <= Recorded(k, age)[a]
    BY <1>1, <1>2 DEF Recorded
  <2>7. Recorded(k, age)[age] = hits[k][age] + 1
    BY <1>1, <1>2 DEF Recorded
  <2>8. hits'[k] = Recorded(k, age) /\ \A j \in Key \ {k} : hits'[j] = hits[j]
    BY <2>3
  <2>9. \A j \in Key, a \in Recent : hits[j][a] <= hits'[j][a]
    BY <1>1, <1>2, <2>6, <2>8
  <2> QED BY <2>3, <2>5, <2>7, <2>8, <2>9
<1>4. CASE ~Allows(k, age)
  <2>1. hits' = [hits EXCEPT ![k] = Refused(k, age)]
    BY <1>4 DEF Meets
  <2>2. Refused(k, age) \in [Ages -> 0 .. Most]
    BY <1>1, <1>2 DEF Refused
  <2>3. \A a \in Recent : Refused(k, age)[a] = hits[k][a]
    BY <1>1 DEF Refused
  <2>4. hits'[k] = Refused(k, age) /\ \A j \in Key \ {k} : hits'[j] = hits[j]
    BY <2>1
  <2>5. \A j \in Key, a \in Recent : hits[j][a] <= hits'[j][a]
    BY <1>1, <1>2, <2>3, <2>4
  <2> QED BY <1>4, <2>1, <2>2, <2>5
<1> QED BY <1>3, <1>4

\* What the limiter and its history count.
CountInv ==
    /\ hits \in [Key -> [Ages -> 0 .. Most]]
    /\ prompt \in [Card -> [Recent -> 0 .. Most]]
    /\ PromptAreHits /\ CeilingHolds

\* The counts are numbers, the prompt ones no more than the others.
LEMMA CountNumbers ==
  ASSUME CountInv
  PROVE  /\ \A j \in Card : hits[j] \in [Ages -> Nat] /\ prompt[j] \in [Recent -> Nat]
         /\ \A j \in Card, a \in Recent :
              prompt[j][a] \in Nat /\ hits[j][a] \in Nat /\ prompt[j][a] <= hits[j][a]
<1>1. 0 .. Most \subseteq Nat /\ Recent \subseteq Ages /\ Card \subseteq Key
  BY Numbers DEF Key
<1>2. \A j \in Card : hits[j] \in [Ages -> 0 .. Most] /\ prompt[j] \in [Recent -> 0 .. Most]
  BY <1>1 DEF CountInv
<1>3. \A j \in Card : hits[j] \in [Ages -> Nat] /\ prompt[j] \in [Recent -> Nat]
  BY <1>1, <1>2
<1>4. \A j \in Card, a \in Recent : prompt[j][a] <= hits[j][a]
  BY DEF CountInv, PromptAreHits, Recent
<1> QED BY <1>1, <1>3, <1>4

\* A prompt call that is allowed was one too few for the ceiling.
LEMMA PromptFits ==
  ASSUME CountInv, NEW k \in Card, Call(k)
  PROVE  CountInv'
<1>1. /\ Recent \subseteq Ages /\ 0 \in Recent /\ IsFiniteSet(Recent) /\ IsFiniteSet(Kept(0))
      /\ Kept(0) \subseteq Ages /\ Recent \subseteq Kept(0)
      /\ LimitOf(k) = MaxCalls /\ MaxCalls \in Nat /\ 0 \in 0 .. MaxDelay
      /\ Card \subseteq Key
  BY Numbers, AccessAssumption DEF AccessAssumption, LimitOf, Key
<1>2. /\ hits' \in [Key -> [Ages -> 0 .. Most]]
      /\ \A j \in Card, a \in Recent : hits[j][a] <= hits'[j][a]
      /\ Allows(k, 0) => hits'[k][0] = hits[k][0] + 1
  BY <1>1, MeetsHits DEF CountInv, Call
<1>3. /\ \A j \in Card : hits[j] \in [Ages -> Nat] /\ prompt[j] \in [Recent -> Nat]
      /\ \A j \in Card, a \in Recent : /\ prompt[j][a] \in Nat /\ hits[j][a] \in Nat
                                      /\ hits'[j][a] \in 0 .. Most /\ prompt[j][a] <= hits[j][a]
                                      /\ hits'[j][a] \in Nat
  <2>1. \A j \in Card, a \in Recent : hits'[j][a] \in 0 .. Most
    BY <1>1, <1>2
  <2> QED BY <2>1, CountNumbers, Numbers
<1>4. CASE ~Allows(k, 0)
  <2>1. prompt' = prompt
    BY <1>4 DEF Call
  <2>2. \A j \in Card, a \in Recent : prompt'[j][a] <= hits'[j][a]
    BY <1>2, <1>3, <2>1
  <2>3. PromptAreHits'
    BY <2>2 DEF PromptAreHits, Recent
  <2> QED BY <1>2, <2>1, <2>3 DEF CountInv, CeilingHolds
<1>5. CASE Allows(k, 0)
  <2>1. prompt' = [prompt EXCEPT ![k] = [prompt[k] EXCEPT ![0] = prompt[k][0] + 1]]
    BY <1>5 DEF Call
  <2>2. /\ prompt'[k] = [prompt[k] EXCEPT ![0] = prompt[k][0] + 1]
        /\ \A j \in Card \ {k} : prompt'[j] = prompt[j]
    BY <2>1 DEF CountInv
  <2>3. /\ prompt'[k][0] = prompt[k][0] + 1
        /\ \A a \in Recent \ {0} : prompt'[k][a] = prompt[k][a]
    BY <1>1, <1>3, <2>2
  <2>4. \A j \in Card, a \in Recent : prompt'[j][a] \in Nat /\ prompt'[j][a] <= hits'[j][a]
    <3>1. prompt'[k][0] \in Nat /\ prompt'[k][0] <= hits'[k][0]
      BY <1>1, <1>2, <1>3, <1>5, <2>3
    <3>2. \A a \in Recent \ {0} : prompt'[k][a] \in Nat /\ prompt'[k][a] <= hits'[k][a]
      BY <1>2, <1>3, <2>3
    <3>3. \A j \in Card \ {k}, a \in Recent : prompt'[j][a] \in Nat /\ prompt'[j][a] <= hits'[j][a]
      BY <1>2, <1>3, <2>2
    <3> QED BY <3>1, <3>2, <3>3
  <2>5. prompt' \in [Card -> [Recent -> 0 .. Most]]
    <3>1. \A j \in Card, a \in Recent : prompt'[j][a] \in 0 .. Most
      BY <1>3, <2>4, Numbers
    <3>2. \A j \in Card : prompt'[j] \in [Recent -> 0 .. Most]
      BY <2>2, <3>1 DEF CountInv
    <3> QED BY <2>1, <3>2 DEF CountInv
  <2>6. PromptAreHits'
    BY <2>4 DEF PromptAreHits, Recent
  <2>7. Sum(prompt'[k], Recent) <= MaxCalls
    <3>1. Sum(prompt'[k], Recent) <= Sum(prompt[k], Recent) + 1
      BY <1>1, <1>3, <2>2, SumAdds
    <3>2. Sum(prompt[k], Recent) <= Sum(hits[k], Kept(0))
      BY <1>1, <1>3, SumMonotone
    <3>3. Sum(hits[k], Kept(0)) < MaxCalls
      BY <1>1, <1>5 DEF Allows
    <3>4. Sum(prompt[k], Recent) \in Nat /\ Sum(hits[k], Kept(0)) \in Nat
      BY <1>1, <1>3, HitsFinite
    <3>5. Sum(prompt'[k], Recent) \in Nat
      <4>1. prompt[k][0] + 1 \in Nat
        BY <1>1, <1>3
      <4>2. prompt'[k] \in [Recent -> Nat]
        BY <1>3, <2>2, <4>1
      <4> QED BY <1>1, <4>2, HitsFinite
    <3> QED BY <1>1, <3>1, <3>2, <3>3, <3>4, <3>5
  <2>8. CeilingHolds'
    BY <2>2, <2>7 DEF CountInv, CeilingHolds, Recent
  <2> QED BY <1>2, <2>5, <2>6, <2>8 DEF CountInv
<1> QED BY <1>4, <1>5

\* A slow call leaves the prompt ones where they are.
LEMMA SlowCallsKeep ==
  ASSUME CountInv, NEW k \in Key, NEW age \in 0 .. MaxDelay, Meets(k, age), prompt' = prompt
  PROVE  CountInv'
<1>1. /\ hits' \in [Key -> [Ages -> 0 .. Most]] /\ Card \subseteq Key
      /\ \A j \in Card, a \in Recent : hits[j][a] <= hits'[j][a]
  BY MeetsHits DEF CountInv, Key
<1>2. \A j \in Card, a \in Recent : /\ prompt[j][a] \in Nat /\ hits[j][a] \in Nat
                                   /\ hits'[j][a] \in Nat /\ prompt[j][a] <= hits[j][a]
  <2>1. Recent \subseteq Ages /\ 0 .. Most \subseteq Nat
    BY Numbers
  <2>2. \A j \in Card, a \in Recent : hits'[j][a] \in 0 .. Most
    BY <1>1, <2>1
  <2> QED BY <2>1, <2>2, CountNumbers
<1>3. PromptAreHits'
  BY <1>1, <1>2 DEF PromptAreHits, Recent
<1> QED BY <1>1, <1>3 DEF CountInv, CeilingHolds

LEMMA TickCounts ==
  ASSUME CountInv, Tick
  PROVE  CountInv'
<1>1. /\ Recent \subseteq Ages /\ 0 \in Recent /\ Most \in Nat /\ Window \in Nat /\ Window >= 1
      /\ MaxDelay \in Nat /\ IsFiniteSet(Recent) /\ Card \subseteq Key
  BY Numbers DEF Key
<1>2. /\ hits' = [k \in Key |-> [a \in Ages |-> IF a = 0 THEN 0 ELSE hits[k][a - 1]]]
      /\ prompt' = [k \in Card |-> [a \in Recent |-> IF a = 0 THEN 0 ELSE prompt[k][a - 1]]]
  BY DEF Tick, Recent
<1>3. \A a \in Ages : a # 0 => a - 1 \in Ages
  BY <1>1 DEF Ages
<1>4. \A a \in Recent : a # 0 => a - 1 \in Recent
  BY <1>1 DEF Recent
<1>5. hits' \in [Key -> [Ages -> 0 .. Most]]
  BY <1>1, <1>2, <1>3 DEF CountInv
<1>6. prompt' \in [Card -> [Recent -> 0 .. Most]]
  BY <1>1, <1>2, <1>4 DEF CountInv
<1>7. PromptAreHits'
  BY <1>1, <1>2, <1>4 DEF CountInv, PromptAreHits, Recent
<1>8. ASSUME NEW k \in Card
      PROVE  Sum(prompt'[k], Recent) <= MaxCalls
  <2> DEFINE f == prompt[k]
             n == Window - 1
  <2>1. n \in Nat /\ f \in [0 .. n -> Nat] /\ Recent = 0 .. n
    BY <1>1 DEF CountInv, Recent
  <2>2. prompt'[k] = [a \in 0 .. n |-> IF a = 0 THEN 0 ELSE f[a - 1]]
    BY <1>2, <2>1
  <2>3. Sum(f, 0 .. n) <= MaxCalls
    BY DEF CountInv, CeilingHolds
  <2>4. prompt'[k] \in [0 .. n -> Nat]
    BY <1>1, <1>6, <2>1
  <2> HIDE DEF f, n
  <2>5. Sum(prompt'[k], 0 .. n) <= Sum(f, 0 .. n)
    BY <2>1, <2>2, SumAges
  <2>6. Sum(prompt'[k], 0 .. n) \in Nat /\ Sum(f, 0 .. n) \in Nat
    BY <1>1, <2>1, <2>4, HitsFinite
  <2>7. MaxCalls \in Nat
    BY AccessAssumption DEF AccessAssumption
  <2>8. Sum(prompt'[k], 0 .. n) <= MaxCalls
    BY <2>3, <2>5, <2>6, <2>7
  <2> QED BY <2>1, <2>8
<1>9. CeilingHolds'
  BY <1>8 DEF CeilingHolds, Recent
<1> QED BY <1>5, <1>6, <1>7, <1>9 DEF CountInv

-----------------------------------------------------------------------------
(* Cards and requests.                                                     *)

\* A request of the T3N lane on its way, and the cards as the table has them.
ReqRecord ==
    [at : {"idle", "draining", "recovering", "resolved", "served"}, signer : {None} \cup Agent,
     age : 0 .. MaxDelay, card : {None, Virtual} \cup Card]

TableTypes ==
    /\ row \in [Card -> Row] /\ changes \in 0 .. MaxChanges
    /\ req \in [Request -> ReqRecord]

\* A set of numbers that is not empty has a least one.
LEMMA LeastExists ==
  ASSUME NEW S \in SUBSET Nat, S # {}
  PROVE  \E c \in S : \A b \in S : c <= b
<1> DEFINE R == {ss \in Nat \X Nat : ss[1] < ss[2]}
<1>1. IsWellFoundedOn(R, Nat)
  <2>1. OpToRel(<, Nat) = R
    BY DEF OpToRel
  <2> QED BY <2>1, NatLessThanWellFounded
<1>2. PICK c \in S : \A b \in S : ~(<<b, c>> \in R)
  <2> HIDE DEF R
  <2> QED BY <1>1, WFMin
<1>3. \A b \in S : c <= b
  <2> SUFFICES ASSUME NEW b \in S PROVE c <= b
    OBVIOUS
  <2>1. <<b, c>> \in Nat \X Nat => ~(b < c)
    BY <1>2
  <2> QED BY <2>1
<1> QED BY <1>3

\* The card a DID is bound to is a card, or there is none.
LEMMA BoundCard == CardByDID \in {None} \cup Card
<1> DEFINE S == {c \in Card : row[c].agent # None}
<1>1. S \subseteq Nat
  BY AccessAssumption DEF AccessAssumption
<1>2. S # {} => \E c \in S : \A b \in S : c <= b
  BY <1>1, LeastExists
<1>3. S # {} => Least(S) \in S
  BY <1>2 DEF Least
<1>4. S = {} => Least(S) = None
  BY DEF Least
<1> QED BY <1>3, <1>4 DEF CardByDID

\* A change of the cards leaves rows, within its bound.
LEMMA ChangesType ==
  ASSUME TableTypes, NEW c \in Card, NEW new \in Row, Changes(c, new)
  PROVE  row' \in [Card -> Row] /\ changes' \in 0 .. MaxChanges
<1>1. MaxChanges \in Nat
  BY AccessAssumption DEF AccessAssumption
<1> QED BY <1>1 DEF Changes, TableTypes

LEMMA TableTypesStep ==
  ASSUME TableTypes, Next
  PROVE  TableTypes'
<1>0. /\ Idle \in ReqRecord /\ MaxDelay \in Nat /\ {None} \cup Card \subseteq {None, Virtual} \cup Card
      /\ None \in {None} \cup Agent
  BY AccessAssumption DEF AccessAssumption, Idle, ReqRecord
<1>1. CASE \E c \in Card : Call(c)
  BY <1>1 DEF Call, TableTypes
<1>2. CASE \E c \in Card : Dies(c) \/ Deleted(c)
  <2> PICK c \in Card : Dies(c) \/ Deleted(c)
    BY <1>2
  <2>1. row[c] \in Row
    BY DEF TableTypes
  <2>2. [row[c] EXCEPT !.status = "dead"] \in Row /\ [status |-> "gone", agent |-> None] \in Row
    BY <2>1 DEF Row
  <2> QED BY <2>2, ChangesType DEF Dies, Deleted, TableTypes
<1>3. CASE BadAttempt
  BY <1>3 DEF BadAttempt, TableTypes
<1>4. CASE \E r \in Request, signer \in Agent : Arrives(r, signer)
  <2> PICK r \in Request, signer \in Agent : Arrives(r, signer)
    BY <1>4
  <2>1. [Idle EXCEPT !.at = "recovering", !.signer = signer] \in ReqRecord
    BY <1>0 DEF ReqRecord
  <2> QED BY <2>1 DEF Arrives, TableTypes
<1>5. CASE \E r \in Request : Knocks(r) \/ Resolves(r) \/ Rejected(r) \/ Ends(r)
  <2> PICK r \in Request : Knocks(r) \/ Resolves(r) \/ Rejected(r) \/ Ends(r)
    BY <1>5
  <2>1. [req[r] EXCEPT !.at = "resolved"] \in ReqRecord /\ [req[r] EXCEPT !.at = "draining"] \in ReqRecord
    BY DEF TableTypes, ReqRecord
  <2> QED BY <1>0, <2>1 DEF Knocks, Resolves, Rejected, Ends, TableTypes
<1>6. CASE \E r \in Request : Opens(r)
  <2> PICK r \in Request : Opens(r)
    BY <1>6
  <2> DEFINE card == IF CardByDID = None THEN Virtual ELSE CardByDID
  <2>1. card \in {None, Virtual} \cup Card
    BY BoundCard
  <2>2. [req[r] EXCEPT !.at = "served", !.card = card] \in ReqRecord
    BY <2>1 DEF TableTypes, ReqRecord
  <2>3. \/ req' = [req EXCEPT ![r] = Idle]
        \/ req' = [req EXCEPT ![r] = [req[r] EXCEPT !.at = "served", !.card = card]]
    BY DEF Opens
  <2> HIDE DEF card
  <2> QED BY <1>0, <2>2, <2>3 DEF Opens, TableTypes
<1>7. CASE \E c \in Card, agent \in {None} \cup Agent : Issues(c, agent) \/ Binds(c, agent)
  <2> PICK c \in Card, agent \in {None} \cup Agent : Issues(c, agent) \/ Binds(c, agent)
    BY <1>7
  <2>1. [status |-> "live", agent |-> agent] \in Row
    BY DEF Row
  <2>2. [row[c] EXCEPT !.agent = agent] \in Row
    BY DEF TableTypes, Row
  <2> QED BY <2>1, <2>2, ChangesType DEF Issues, Binds, TableTypes
<1>8. CASE \E r \in Request, c \in Card : IssueCard(r, c)
  <2> PICK r \in Request, c \in Card : IssueCard(r, c)
    BY <1>8
  <2>1. req[r].signer \in {None} \cup Agent
    BY DEF TableTypes, ReqRecord
  <2>2. [status |-> "live", agent |-> req[r].signer] \in Row
    BY <2>1 DEF Row
  <2> QED BY <2>2, ChangesType DEF IssueCard, TableTypes
<1>9. CASE Tick
  <2>1. ASSUME NEW r \in Request, Waiting(r)
        PROVE  [req[r] EXCEPT !.age = req[r].age + 1] \in ReqRecord
    <3>1. req[r] \in ReqRecord /\ req[r].age < MaxDelay
      BY <1>9, <2>1 DEF Tick, TableTypes
    <3>2. req[r].age + 1 \in 0 .. MaxDelay
      BY <1>0, <3>1 DEF ReqRecord
    <3> QED BY <3>1, <3>2 DEF ReqRecord
  <2>2. req' \in [Request -> ReqRecord]
    BY <1>9, <2>1 DEF Tick, TableTypes
  <2> QED BY <1>9, <2>2 DEF Tick, TableTypes
<1> QED BY <1>1, <1>2, <1>3, <1>4, <1>5, <1>6, <1>7, <1>8, <1>9 DEF Next

LEMMA CountStep ==
  ASSUME TableTypes, CountInv, Next
  PROVE  CountInv'
<1>0. /\ Ip \in Key /\ Virtual \in Key /\ Card \subseteq Key
      /\ \A r \in Request : req[r].age \in 0 .. MaxDelay
  BY DEF Key, TableTypes, ReqRecord
<1>1. CASE hits' = hits /\ prompt' = prompt
  BY <1>1 DEF CountInv, PromptAreHits, CeilingHolds
<1>2. CASE \E c \in Card : Call(c)
  BY <1>2, PromptFits
<1>3. CASE BadAttempt \/ \E r \in Request : Rejected(r)
  <2>1. 0 \in 0 .. MaxDelay
    BY Numbers
  <2> QED BY <1>0, <1>3, <2>1, SlowCallsKeep DEF BadAttempt, Rejected
<1>4. CASE \E r \in Request : Opens(r)
  <2> PICK r \in Request : Opens(r)
    BY <1>4
  <2> DEFINE card == IF CardByDID = None THEN Virtual ELSE CardByDID
  <2>1. card \in Key
    BY <1>0, BoundCard
  <2>2. prompt' = prompt /\ (hits' = hits \/ Meets(card, req[r].age))
    BY DEF Opens
  <2> HIDE DEF card
  <2> QED BY <1>0, <1>1, <2>1, <2>2, SlowCallsKeep
<1>5. CASE Tick
  BY <1>5, TickCounts
<1>6. CASE \/ \E c \in Card : Dies(c) \/ Deleted(c)
           \/ \E r \in Request, signer \in Agent : Arrives(r, signer)
           \/ \E r \in Request : Knocks(r) \/ Resolves(r) \/ Ends(r)
           \/ \E c \in Card, agent \in {None} \cup Agent : Issues(c, agent) \/ Binds(c, agent)
           \/ \E r \in Request, c \in Card : IssueCard(r, c)
  BY <1>1, <1>6 DEF Dies, Deleted, Arrives, Knocks, Resolves, Ends, Issues, Binds,
     IssueCard, Changes
<1> QED BY <1>2, <1>3, <1>4, <1>5, <1>6 DEF Next

LEMMA InitAccess == Init => TableTypes /\ CountInv
<1> SUFFICES ASSUME Init PROVE TableTypes /\ CountInv
  OBVIOUS
<1>0. Idle \in ReqRecord /\ MaxChanges \in Nat /\ Tables \subseteq [Card -> Row]
  BY AccessAssumption DEF AccessAssumption, Idle, ReqRecord
<1>1. TableTypes
  BY <1>0 DEF Init, TableTypes
<1>2. /\ 0 \in 0 .. Most /\ IsFiniteSet(Recent) /\ Recent \subseteq Ages
      /\ Card \subseteq Key /\ MaxCalls \in Nat
  BY Numbers, AccessAssumption DEF AccessAssumption, Key
<1>3. /\ hits = [k \in Key |-> [a \in Ages |-> 0]]
      /\ prompt = [k \in Card |-> [a \in Recent |-> 0]]
  BY DEF Init, Recent
<1>4. /\ hits \in [Key -> [Ages -> 0 .. Most]] /\ prompt \in [Card -> [Recent -> 0 .. Most]]
  BY <1>2, <1>3
<1>5. PromptAreHits
  BY <1>2, <1>3 DEF PromptAreHits, Recent
<1>6. ASSUME NEW k \in Card
      PROVE  Sum(prompt[k], Recent) <= MaxCalls
  <2>1. Hits(prompt[k], Recent) = {}
    BY <1>3 DEF Hits
  <2>2. Sum(prompt[k], Recent) = 0
    BY <2>1, FS_EmptySet DEF Sum
  <2> QED BY <1>2, <2>2
<1>7. CeilingHolds
  BY <1>6 DEF CeilingHolds, Recent
<1> QED BY <1>1, <1>4, <1>5, <1>7 DEF CountInv

LEMMA AccessHolds == Spec => [](TableTypes /\ CountInv)
<1>1. (TableTypes /\ CountInv) /\ [Next]_vars => (TableTypes /\ CountInv)'
  <2> SUFFICES ASSUME TableTypes, CountInv, [Next]_vars PROVE TableTypes' /\ CountInv'
    OBVIOUS
  <2>1. CASE Next
    BY <2>1, TableTypesStep, CountStep
  <2>2. CASE UNCHANGED vars
    BY <2>2 DEF vars, TableTypes, CountInv, PromptAreHits, CeilingHolds
  <2> QED BY <2>1, <2>2
<1> QED BY <1>1, InitAccess, PTL DEF Spec

\* Cards, requests and counts have their types in every reachable state: no age
\* ever has more hits than the limits allow, so the limiter's memory is bounded.
THEOREM TypeCorrect == Spec => []TypeOK
<1>1. ASSUME CountInv
      PROVE  prompt \in [Card -> [Recent -> 0 .. MaxCalls]]
  <2>1. /\ IsFiniteSet(Recent) /\ MaxCalls \in Nat
        /\ \A c \in Card : prompt[c] \in [Recent -> Nat]
    BY <1>1, CountNumbers, Numbers, AccessAssumption DEF AccessAssumption
  <2>2. ASSUME NEW c \in Card, NEW a \in Recent
        PROVE  prompt[c][a] \in 0 .. MaxCalls
    <3>1. Sum(prompt[c], Recent) <= MaxCalls
      BY <1>1 DEF CountInv, CeilingHolds, Recent
    <3>2. prompt[c][a] <= Sum(prompt[c], Recent) /\ Sum(prompt[c], Recent) \in Nat
      BY <2>1, OneOfTheSum, HitsFinite
    <3>3. prompt[c][a] \in Nat
      BY <2>1
    <3> QED BY <2>1, <3>1, <3>2, <3>3
  <2>3. \A c \in Card : prompt[c] \in [Recent -> 0 .. MaxCalls]
    BY <2>1, <2>2
  <2> QED BY <1>1, <2>3 DEF CountInv
<1>2. TableTypes /\ CountInv => TypeOK
  BY <1>1 DEF TableTypes, ReqRecord, CountInv, Recent, Most, TypeOK
<1> QED BY <1>2, AccessHolds, PTL

\* In any window a card answers at most its ceiling of bearer and token calls,
\* whatever slow T3N requests drop and add in between (mcp/routes.ts 65-66,
\* ratelimit.ts 20-41).
THEOREM CeilingsHold == Spec => []CeilingHolds
<1>1. TableTypes /\ CountInv => CeilingHolds
  BY DEF CountInv
<1> QED BY <1>1, AccessHolds, PTL

-----------------------------------------------------------------------------
(* The consent page.                                                       *)

\* The page by itself, as the run Access has it behind its first door.
ConsentSpec == ConsentInit /\ [][ConsentNext]_pageVars

Kinds == {"load", "approve", "deny"}

CallRecord ==
    [id : Nat, kind : Kinds, by : Someone, card : Someone,
     at : {"sent", "ok", "refused"}, awaited : BOOLEAN]

PageRecord ==
    [info : BOOLEAN, cards : Someone, picked : Someone,
     phase : {"idle", "submitting", "redirecting"}, granted : {"no", "fresh", "restored"},
     err : BOOLEAN, timer : BOOLEAN]

ConsentTypeOK ==
    /\ session \in Someone /\ page \in PageRecord /\ calls \subseteq CallRecord
    /\ server \in [open : BOOLEAN, user : Someone]
    /\ browser \in [loopback : BOOLEAN, storage : BOOLEAN]
    /\ saved \in BOOLEAN
    /\ {presses, codes, denials, jumps} \subseteq Nat

\* The answers the server has given and the page has not had yet.
Granted(c) == c.kind \in {"approve", "deny"} /\ c.at = "ok"

\* A request is consumed by its answer.
ConsumedByAnswer ==
    /\ codes + denials <= 1
    /\ server.open => codes + denials = 0

\* An answer on its way is the only one there was, and nobody has left yet.
OneOnItsWay ==
    /\ \A c \in calls : Granted(c) =>
          /\ jumps = 0 /\ ~page.timer
          /\ c.kind = "approve" => codes = 1
          /\ c.kind = "deny" => denials = 1
    /\ \A c, d \in calls : Granted(c) /\ Granted(d) => c = d

\* A timer runs towards the only jump, and what is shown or kept was granted.
TimerIsFirst ==
    /\ page.timer => jumps = 0 /\ codes = 1
    /\ jumps <= codes + denials
    /\ page.granted # "no" \/ saved => codes = 1

ConsentInv == ConsentTypeOK /\ ConsumedByAnswer /\ OneOnItsWay /\ TimerIsFirst
-----------------------------------------------------------------------------
(* Types.                                                                  *)

\* What a call becomes is a call, and a new one is one.
LEMMA CallsAreCalls ==
  ASSUME ConsentTypeOK
  PROVE  /\ \A n \in Nat, k \in Kinds, d \in Someone : ApiCall(n, k, d) \in CallRecord
         /\ \A c \in CallRecord, l \in Someone : [c EXCEPT !.by = l] \in CallRecord
         /\ \A c \in CallRecord, s \in {"sent", "ok", "refused"} : [c EXCEPT !.at = s] \in CallRecord
         /\ \A c \in CallRecord : [c EXCEPT !.awaited = FALSE] \in CallRecord
BY DEF ConsentTypeOK, CallRecord, ApiCall

LEMMA InitConsent == ConsentInit => ConsentInv
<1> SUFFICES ASSUME ConsentInit PROVE ConsentInv
  OBVIOUS
<1> NoLogin \in Someone
  BY DEF Someone
<1>1. ConsentTypeOK
  <2>1. page \in PageRecord
    BY DEF ConsentInit, Blank, PageRecord
  <2>2. session \in Someone /\ server \in [open : BOOLEAN, user : Someone] /\ saved \in BOOLEAN
    BY DEF ConsentInit
  <2>3. calls \subseteq CallRecord /\ {presses, codes, denials, jumps} \subseteq Nat
    BY DEF ConsentInit
  <2>4. browser \in [loopback : BOOLEAN, storage : BOOLEAN]
    BY DEF ConsentInit
  <2> QED BY <2>1, <2>2, <2>3, <2>4 DEF ConsentTypeOK
<1>2. ConsumedByAnswer /\ OneOnItsWay /\ TimerIsFirst
  BY DEF ConsentInit, ConsumedByAnswer, OneOnItsWay, TimerIsFirst, Blank
<1> QED BY <1>1, <1>2 DEF ConsentInv

LEMMA ConsentTypeStep ==
  ASSUME ConsentTypeOK, ConsentNext
  PROVE  ConsentTypeOK'
<1> USE DEF ConsentTypeOK
<1> NoLogin \in Someone /\ Known \subseteq Someone
  BY ConsentAssumption DEF ConsentAssumption, Someone
<1>1. CASE \E l \in Someone : SessionBecomes(l)
  <2> PICK l \in Someone : SessionBecomes(l)
    BY <1>1
  <2>1. [ApiCall(0, "load", NoLogin) EXCEPT !.by = l] \in CallRecord
    BY CallsAreCalls DEF Kinds
  <2> QED BY <2>1 DEF SessionBecomes
<1>2. CASE \E c \in calls : ServesLoad(c)
  <2> PICK c \in calls : ServesLoad(c)
    BY <1>2
  <2>1. calls' \subseteq CallRecord
    BY CallsAreCalls DEF ServesLoad
  <2>2. c.by \in Someone
    BY DEF CallRecord
  <2>3. server' \in [open : BOOLEAN, user : Someone]
    BY <2>2 DEF ServesLoad, Bound
  <2> QED BY <2>1, <2>3 DEF ServesLoad
<1>3. CASE \E c \in calls : Loads(c)
  <2> PICK c \in calls : Loads(c)
    BY <1>3
  <2>1. c.by \in Someone
    BY DEF CallRecord
  <2>2. page' \in PageRecord
    BY <2>1 DEF Loads, PageRecord
  <2> QED BY <2>2 DEF Loads
<1>4. CASE \E c \in calls : Approved(c)
  <2> PICK c \in calls : Approved(c)
    BY <1>4
  <2>1. page' \in PageRecord
    BY DEF Approved, PageRecord, GoesByItself
  <2> QED BY <2>1 DEF Approved
<1>5. CASE \E c \in calls : Denied(c)
  <2> PICK c \in calls : Denied(c)
    BY <1>5
  <2>1. page' \in PageRecord
    BY DEF Denied, PageRecord
  <2> QED BY <2>1 DEF Denied
<1>6. CASE \E c \in calls : Fails(c)
  <2> PICK c \in calls : Fails(c)
    BY <1>6
  <2>1. page' \in PageRecord
    BY DEF Fails, PageRecord
  <2>2. calls' \subseteq CallRecord
    BY CallsAreCalls DEF Fails
  <2> QED BY <2>1, <2>2 DEF Fails
<1>7. CASE \E c \in calls : Forgotten(c)
  BY <1>7 DEF Forgotten
<1>8. CASE \E c \in calls, cardIsLive \in BOOLEAN : ServesAnswer(c, cardIsLive)
  <2> PICK c \in calls, cardIsLive \in BOOLEAN : ServesAnswer(c, cardIsLive)
    BY <1>8
  <2>1. calls' \subseteq CallRecord
    BY CallsAreCalls DEF ServesAnswer
  <2>2. c.by \in Someone
    BY DEF CallRecord
  <2>3. server' \in [open : BOOLEAN, user : Someone]
    BY <2>2 DEF ServesAnswer, Bound, Consumed
  <2> QED BY <2>1, <2>3 DEF ServesAnswer
<1>9. CASE \E kind \in {"approve", "deny"} : Press(kind)
  <2> PICK kind \in {"approve", "deny"} : Press(kind)
    BY <1>9
  <2>1. page.picked \in Someone
    BY DEF PageRecord
  <2>2. ApiCall(presses + 1, kind, page.picked) \in CallRecord
    <3>1. presses + 1 \in Nat /\ kind \in Kinds
      BY DEF Kinds
    <3> QED BY <2>1, <3>1, CallsAreCalls
  <2>3. page' \in PageRecord
    BY DEF Press, PageRecord
  <2> QED BY <2>2, <2>3 DEF Press
<1>10. CASE Pick
  BY <1>10 DEF Pick, PageRecord
<1>11. CASE RequestExpires
  BY <1>11 DEF RequestExpires
<1>12. CASE AutoContinue
  <2>1. page' \in PageRecord
    BY <1>12 DEF AutoContinue, PageRecord
  <2> QED BY <1>12, <2>1 DEF AutoContinue
<1>13. CASE Continue \/ Back \/ SavedExpires
  BY <1>13 DEF Continue, Back, SavedExpires
<1>14. CASE Reopens
  <2>1. page' \in PageRecord
    BY <1>14 DEF Reopens, PageRecord, Blank
  <2>2. ApiCall(0, "load", NoLogin) \in CallRecord
    BY CallsAreCalls DEF Kinds
  <2>3. calls' \subseteq CallRecord
    BY <1>14, <2>2, CallsAreCalls DEF Reopens
  <2> QED BY <1>14, <2>1, <2>3 DEF Reopens
<1> QED BY <1>1, <1>2, <1>3, <1>4, <1>5, <1>6, <1>7, <1>8, <1>9, <1>10, <1>11,
           <1>12, <1>13, <1>14
        DEF ConsentNext
-----------------------------------------------------------------------------
(* One answer.                                                             *)

\* Whatever leaves the calls alone, or replaces one by none that was granted,
\* leaves the rest with what it knows of the counters.
LEMMA NoNewAnswer ==
  ASSUME OneOnItsWay,
         \A d \in calls' : Granted(d) => d \in calls,
         jumps' = jumps, page'.timer => page.timer,
         page.timer \in BOOLEAN, page'.timer \in BOOLEAN,
         codes' = codes, denials' = denials
  PROVE  OneOnItsWay'
<1>1. \A c \in calls' : Granted(c) =>
         /\ jumps' = 0 /\ ~page'.timer
         /\ c.kind = "approve" => codes' = 1
         /\ c.kind = "deny" => denials' = 1
  BY DEF OneOnItsWay
<1>2. \A c, d \in calls' : Granted(c) /\ Granted(d) => c = d
  BY DEF OneOnItsWay
<1> QED BY <1>1, <1>2 DEF OneOnItsWay, Granted

LEMMA ConsentStep ==
  ASSUME ConsentInv, ConsentNext
  PROVE  ConsentInv'
<1>1. ConsentTypeOK /\ ConsentTypeOK'
  BY ConsentTypeStep DEF ConsentInv
<1>2. ConsumedByAnswer /\ OneOnItsWay /\ TimerIsFirst
  BY DEF ConsentInv
<1>3. /\ codes \in Nat /\ denials \in Nat /\ jumps \in Nat
      /\ page.timer \in BOOLEAN /\ page'.timer \in BOOLEAN
  BY <1>1 DEF ConsentTypeOK, PageRecord
<1>4. page \in PageRecord /\ calls \subseteq CallRecord
  BY <1>1 DEF ConsentTypeOK
<1>5. \A c \in CallRecord : Granted([c EXCEPT !.awaited = FALSE]) <=> Granted(c)
  BY DEF CallRecord, Granted
<1>6. SUFFICES ConsumedByAnswer' /\ OneOnItsWay' /\ TimerIsFirst'
  BY <1>1 DEF ConsentInv
<1> HIDE DEF ConsentInv
<1>10. CASE \E l \in Someone : SessionBecomes(l)
  <2> PICK l \in Someone : SessionBecomes(l)
    BY <1>10
  <2>1. \A d \in calls' : Granted(d) => d \in calls
    BY DEF SessionBecomes, ApiCall, Granted
  <2>2. OneOnItsWay'
    BY <2>1, <1>2, <1>3, NoNewAnswer DEF SessionBecomes
  <2> QED BY <1>2, <2>2 DEF SessionBecomes, ConsumedByAnswer, TimerIsFirst
<1>11. CASE \E c \in calls : ServesLoad(c)
  <2> PICK c \in calls : ServesLoad(c)
    BY <1>11
  <2>1. c \in CallRecord /\ c.kind = "load"
    BY <1>4 DEF ServesLoad
  <2>2. \A s \in {"ok", "refused"} : ~Granted([c EXCEPT !.at = s])
    BY <2>1 DEF CallRecord, Granted
  <2>3. \A d \in calls' : Granted(d) => d \in calls
    BY <2>2 DEF ServesLoad
  <2>4. OneOnItsWay'
    BY <2>3, <1>2, <1>3, NoNewAnswer DEF ServesLoad
  <2>5. server'.open = server.open
    BY <1>1 DEF ServesLoad, Bound, ConsentTypeOK
  <2> QED BY <1>2, <2>4, <2>5 DEF ServesLoad, ConsumedByAnswer, TimerIsFirst
<1>12. CASE \E c \in calls : Loads(c)
  <2> PICK c \in calls : Loads(c)
    BY <1>12
  <2>1. page'.timer = page.timer /\ page'.granted = page.granted
    BY <1>4 DEF Loads, PageRecord
  <2>2. OneOnItsWay'
    BY <2>1, <1>2, <1>3, NoNewAnswer DEF Loads
  <2> QED BY <1>2, <2>1, <2>2 DEF Loads, ConsumedByAnswer, TimerIsFirst
<1>13. CASE \E c \in calls : Approved(c)
  <2> PICK c \in calls : Approved(c)
    BY <1>13
  <2>1. Granted(c) /\ c.kind = "approve"
    BY DEF Approved, Answered, Granted
  <2>2. jumps = 0 /\ codes = 1
    BY <2>1, <1>2 DEF OneOnItsWay
  <2>3. \A d \in calls' : ~Granted(d)
    BY <2>1, <1>2 DEF OneOnItsWay, Approved
  <2>4. OneOnItsWay'
    BY <2>3 DEF OneOnItsWay, Granted
  <2>5. jumps' = 0 /\ codes' = 1 /\ denials' = denials /\ server' = server
    BY <2>2 DEF Approved
  <2>6. TimerIsFirst'
    BY <2>5, <1>3 DEF TimerIsFirst
  <2>7. ConsumedByAnswer'
    BY <1>2, <2>2, <2>5 DEF ConsumedByAnswer
  <2> QED BY <2>4, <2>6, <2>7
<1>14. CASE \E c \in calls : Denied(c)
  <2> PICK c \in calls : Denied(c)
    BY <1>14
  <2>1. Granted(c) /\ c.kind = "deny"
    BY DEF Denied, Answered, Granted
  <2>2. jumps = 0 /\ denials = 1 /\ ~page.timer
    BY <2>1, <1>2 DEF OneOnItsWay
  <2>3. \A d \in calls' : ~Granted(d)
    BY <2>1, <1>2 DEF OneOnItsWay, Denied
  <2>4. OneOnItsWay'
    BY <2>3 DEF OneOnItsWay, Granted
  <2>5. /\ jumps' = 1 /\ codes' = codes /\ denials' = 1
        /\ saved' = saved /\ server' = server
    BY <2>2 DEF Denied
  <2>6. page'.timer = page.timer /\ page'.granted = page.granted
    BY <1>4 DEF Denied, PageRecord
  <2>7. TimerIsFirst'
    BY <2>2, <2>5, <2>6, <1>2, <1>3 DEF TimerIsFirst
  <2>8. ConsumedByAnswer'
    BY <1>2, <2>2, <2>5 DEF ConsumedByAnswer
  <2> QED BY <2>4, <2>7, <2>8
<1>15. CASE \E c \in calls : Fails(c)
  <2> PICK c \in calls : Fails(c)
    BY <1>15
  <2>1. page'.timer = page.timer /\ page'.granted = page.granted
    BY <1>4 DEF Fails, PageRecord
  <2>2. c \in CallRecord
    BY <1>4
  <2>3. \A d \in calls' : Granted(d) => d \in calls
    <3>1. \A d \in calls' : d \in calls \/ (c.at = "sent" /\ d = [c EXCEPT !.awaited = FALSE])
      BY DEF Fails
    <3>2. c.at = "sent" => ~Granted([c EXCEPT !.awaited = FALSE])
      BY <1>5, <2>2 DEF Granted
    <3> QED BY <3>1, <3>2
  <2>4. OneOnItsWay'
    BY <2>1, <2>3, <1>2, <1>3, NoNewAnswer DEF Fails
  <2> QED BY <1>2, <2>1, <2>4 DEF Fails, ConsumedByAnswer, TimerIsFirst
<1>16. CASE \E c \in calls : Forgotten(c)
  <2> PICK c \in calls : Forgotten(c)
    BY <1>16
  <2>1. OneOnItsWay'
    BY <1>2, <1>3, NoNewAnswer DEF Forgotten
  <2> QED BY <1>2, <2>1 DEF Forgotten, ConsumedByAnswer, TimerIsFirst
<1>17. CASE \E c \in calls, cardIsLive \in BOOLEAN : ServesAnswer(c, cardIsLive)
  <2> PICK c \in calls, cardIsLive \in BOOLEAN : ServesAnswer(c, cardIsLive)
    BY <1>17
  <2> DEFINE served == May(c.by) /\ (c.kind = "approve" => c.card = c.by /\ cardIsLive)
  <2>1. c \in CallRecord
    BY <1>4
  <2>2. CASE served
    <3>1. server.open
      BY <2>2 DEF May
    <3>2. codes = 0 /\ denials = 0
      BY <3>1, <1>2, <1>3 DEF ConsumedByAnswer
    <3>3. \A d \in calls : ~Granted(d)
      BY <3>2, <1>2 DEF OneOnItsWay, Granted
    <3>4. jumps = 0 /\ ~page.timer /\ page.granted = "no" /\ ~saved
      BY <3>2, <1>2, <1>3 DEF TimerIsFirst
    <3>5. /\ c.kind \in {"approve", "deny"} /\ jumps' = jumps /\ page' = page /\ saved' = saved
          /\ server' = Consumed(c)
          /\ codes' = (IF c.kind = "approve" THEN codes + 1 ELSE codes)
          /\ denials' = (IF c.kind = "deny" THEN denials + 1 ELSE denials)
          /\ calls' = (calls \ {c}) \cup {[c EXCEPT !.at = "ok"]}
      BY <2>2 DEF ServesAnswer
    <3>6. ~server'.open
      BY <1>1, <3>5 DEF Consumed, Bound, ConsentTypeOK
    <3>7. [c EXCEPT !.at = "ok"].kind = c.kind
      BY <2>1 DEF CallRecord
    <3>8. \A d \in calls' : Granted(d) => d = [c EXCEPT !.at = "ok"]
      BY <3>3, <3>5
    <3>9. OneOnItsWay'
      <4>1. \A d \in calls' : Granted(d) => d.kind = c.kind
        BY <3>7, <3>8
      <4>2. /\ jumps' = 0 /\ ~page'.timer
            /\ c.kind = "approve" => codes' = 1
            /\ c.kind = "deny" => denials' = 1
        BY <3>2, <3>4, <3>5
      <4>3. \A d \in calls' : Granted(d) =>
              /\ jumps' = 0 /\ ~page'.timer
              /\ d.kind = "approve" => codes' = 1
              /\ d.kind = "deny" => denials' = 1
        BY <4>1, <4>2
      <4>4. \A d, e \in calls' : Granted(d) /\ Granted(e) => d = e
        BY <3>8
      <4> QED BY <4>3, <4>4 DEF OneOnItsWay, Granted
    <3>10. codes' + denials' = 1
      BY <3>2, <3>5
    <3>11. ConsumedByAnswer'
      BY <3>6, <3>10 DEF ConsumedByAnswer
    <3>12. TimerIsFirst'
      BY <3>4, <3>5, <3>10 DEF TimerIsFirst
    <3> QED BY <3>9, <3>11, <3>12
  <2>3. CASE ~served
    <3>1. /\ jumps' = jumps /\ page' = page /\ saved' = saved
          /\ codes' = codes /\ denials' = denials
          /\ calls' = (calls \ {c}) \cup {[c EXCEPT !.at = "refused"]}
          /\ server' \in {server, Bound(c.by)}
      BY <2>3 DEF ServesAnswer
    <3>2. server'.open = server.open
      BY <1>1, <3>1 DEF Bound, ConsentTypeOK
    <3>3. ~Granted([c EXCEPT !.at = "refused"])
      BY <2>1 DEF CallRecord, Granted
    <3>4. OneOnItsWay'
      BY <3>1, <3>3, <1>2, <1>3, NoNewAnswer
    <3> QED BY <3>1, <3>2, <3>4, <1>2 DEF ConsumedByAnswer, TimerIsFirst
  <2> QED BY <2>2, <2>3
<1>18. CASE \E kind \in {"approve", "deny"} : Press(kind)
  <2> PICK kind \in {"approve", "deny"} : Press(kind)
    BY <1>18
  <2>1. page'.timer = page.timer /\ page'.granted = page.granted
    BY <1>4 DEF Press, PageRecord
  <2>2. \A d \in calls' : Granted(d) => d \in calls
    BY DEF Press, ApiCall, Granted
  <2>3. OneOnItsWay'
    BY <2>1, <2>2, <1>2, <1>3, NoNewAnswer DEF Press
  <2> QED BY <1>2, <2>1, <2>3 DEF Press, ConsumedByAnswer, TimerIsFirst
<1>19. CASE Pick
  <2>1. page'.timer = page.timer /\ page'.granted = page.granted
    BY <1>4, <1>19 DEF Pick, PageRecord
  <2>2. OneOnItsWay'
    BY <1>19, <2>1, <1>2, <1>3, NoNewAnswer DEF Pick
  <2> QED BY <1>19, <1>2, <2>1, <2>2 DEF Pick, ConsumedByAnswer, TimerIsFirst
<1>20. CASE RequestExpires
  <2>1. OneOnItsWay'
    BY <1>20, <1>2, <1>3, NoNewAnswer DEF RequestExpires
  <2>2. ~server'.open
    BY <1>20, <1>1 DEF RequestExpires, ConsentTypeOK
  <2> QED BY <1>20, <1>2, <2>1, <2>2 DEF RequestExpires, ConsumedByAnswer,
             TimerIsFirst
<1>21. CASE AutoContinue
  <2>1. page.timer /\ jumps = 0 /\ codes = 1
    BY <1>21, <1>2 DEF AutoContinue, TimerIsFirst
  <2>2. \A d \in calls : ~Granted(d)
    BY <2>1, <1>2 DEF OneOnItsWay
  <2>3. ~page'.timer /\ page'.granted = page.granted
    BY <1>21, <1>4 DEF AutoContinue, PageRecord
  <2>4. /\ jumps' = 1 /\ codes' = 1 /\ denials' = denials
        /\ saved' = saved /\ server' = server /\ calls' = calls
    BY <1>21, <2>1 DEF AutoContinue
  <2>5. OneOnItsWay'
    BY <2>2, <2>4 DEF OneOnItsWay, Granted
  <2>6. TimerIsFirst'
    BY <2>3, <2>4, <1>3 DEF TimerIsFirst
  <2>7. ConsumedByAnswer'
    BY <1>2, <2>1, <2>4 DEF ConsumedByAnswer
  <2> QED BY <2>5, <2>6, <2>7
<1>22. CASE Continue \/ Back \/ SavedExpires
  <2>1. /\ page' = page /\ calls' = calls /\ server' = server
        /\ saved' => saved
        /\ jumps' = jumps /\ codes' = codes /\ denials' = denials
    BY <1>22 DEF Continue, Back, SavedExpires
  <2>2. OneOnItsWay'
    BY <2>1, <1>2, <1>3, NoNewAnswer
  <2> QED BY <1>2, <2>1, <2>2 DEF ConsumedByAnswer, TimerIsFirst
<1>23. CASE Reopens
  <2>1. ~page'.timer /\ (page'.granted # "no" => saved)
    BY <1>23 DEF Reopens, Blank
  <2>2. /\ server' = server /\ saved' = saved
        /\ jumps' = jumps /\ codes' = codes /\ denials' = denials
    BY <1>23 DEF Reopens
  <2>3. \A d \in calls' : Granted(d) =>
          \E c \in calls : Granted(c) /\ d = [c EXCEPT !.awaited = FALSE]
    <3>1. \A d \in calls' : \/ \E c \in calls : d = [c EXCEPT !.awaited = FALSE]
                            \/ d = ApiCall(0, "load", NoLogin)
      BY <1>23 DEF Reopens
    <3>2. ~Granted(ApiCall(0, "load", NoLogin))
      BY DEF ApiCall, Granted
    <3> QED BY <3>1, <3>2, <1>4, <1>5
  <2>4. \A c \in calls : [c EXCEPT !.awaited = FALSE].kind = c.kind
    BY <1>4 DEF CallRecord
  <2>5. \A d \in calls' : Granted(d) =>
          /\ jumps' = 0 /\ ~page'.timer
          /\ d.kind = "approve" => codes' = 1
          /\ d.kind = "deny" => denials' = 1
    BY <2>1, <2>2, <2>3, <2>4, <1>2 DEF OneOnItsWay
  <2>6. \A c, d \in calls' : Granted(c) /\ Granted(d) => c = d
    BY <2>3, <1>2 DEF OneOnItsWay
  <2>7. OneOnItsWay'
    BY <2>5, <2>6 DEF OneOnItsWay, Granted
  <2> QED BY <2>1, <2>2, <2>7, <1>2 DEF ConsumedByAnswer, TimerIsFirst
<1> QED BY <1>10, <1>11, <1>12, <1>13, <1>14, <1>15, <1>16, <1>17, <1>18, <1>19,
           <1>20, <1>21, <1>22, <1>23
        DEF ConsentNext

LEMMA ConsentHolds == ConsentSpec => []ConsentInv
<1>1. ConsentInv /\ [ConsentNext]_pageVars => ConsentInv'
  <2> SUFFICES ASSUME ConsentInv, [ConsentNext]_pageVars PROVE ConsentInv'
    OBVIOUS
  <2>1. CASE ConsentNext
    BY <2>1, ConsentStep
  <2>2. CASE UNCHANGED pageVars
    <3>1. ConsentTypeOK'
      BY <2>2 DEF ConsentInv, ConsentTypeOK, pageVars
    <3>2. ConsumedByAnswer' /\ OneOnItsWay' /\ TimerIsFirst'
      BY <2>2 DEF ConsentInv, ConsumedByAnswer, OneOnItsWay, Granted,
         TimerIsFirst, pageVars
    <3> QED BY <3>1, <3>2 DEF ConsentInv
  <2> QED BY <2>1, <2>2
<1> QED BY <1>1, InitConsent, PTL DEF ConsentSpec

\* However often an answer is pressed, lost, retried, reloaded or given by another
\* account, an authorization request gets one code or one denial, and the page
\* leaves for the app by itself at most once (connect/page.tsx 101-175).
THEOREM OneAnswerEach == ConsentSpec => []OneAnswer
<1>1. ConsentInv => OneAnswer
  <2> SUFFICES ASSUME ConsentInv PROVE OneAnswer
    OBVIOUS
  <2>1. jumps <= 1
    BY DEF ConsentInv, ConsentTypeOK, ConsumedByAnswer, TimerIsFirst
  <2> QED BY <2>1 DEF ConsentInv, ConsumedByAnswer, TimerIsFirst, OneAnswer
<1> QED BY <1>1, ConsentHolds, PTL
=============================================================================
