----------------------- MODULE ReplicaListsTheorems ------------------------
(***************************************************************************)
(* What the list operators of ReplicaLists return, for lists of any length *)
(* over any set.                                                           *)
(***************************************************************************)
EXTENDS ReplicaLists, WellFoundedInduction, TLAPS

(* A non-empty set of naturals has a least element.                        *)
LEMMA LeastNatural ==
  ASSUME NEW S \in SUBSET Nat, S # {}
  PROVE  \E m \in S : \A k \in S : m <= k
<1>1. PICK m \in S : \A k \in S : ~ (<<k, m>> \in OpToRel(<, Nat))
  BY NatLessThanWellFounded, WFMin
<1>2. \A k \in S : ~ (k < m)
  BY <1>1 DEF OpToRel
<1> QED BY <1>2

(* The recursive function of FilterLive, up to index n.                    *)
KeptUpTo(ids, live, n, g) ==
  g = [i \in 0..n |->
         IF i = 0 THEN << >>
         ELSE IF ids[i] \in live THEN Append(g[i-1], ids[i]) ELSE g[i-1]]

(* That function exists.                                                   *)
LEMMA KeptExists ==
  ASSUME NEW ids, NEW live, NEW n \in Nat
  PROVE  \E g : KeptUpTo(ids, live, n, g)
<1> DEFINE Bad == {m \in Nat : ~ \E g : KeptUpTo(ids, live, m, g)}
<1> SUFFICES ASSUME Bad # {} PROVE FALSE
  BY Zenon
<1>1. PICK m \in Bad : \A k \in Bad : m <= k
  BY LeastNatural
<1>2. CASE m = 0
  <2> DEFINE h == [i \in 0..0 |-> << >>]
  <2>1. KeptUpTo(ids, live, 0, h)
    BY SMT DEF KeptUpTo
  <2> QED BY <2>1, <1>1, <1>2
<1>3. CASE m > 0
  <2>1. m - 1 \in Nat /\ m - 1 \notin Bad
    BY <1>1, <1>3
  <2>2. PICK g : KeptUpTo(ids, live, m - 1, g)
    BY <2>1
  <2> DEFINE h == [i \in 0..m |->
                     IF i = m
                     THEN IF ids[m] \in live THEN Append(g[m-1], ids[m]) ELSE g[m-1]
                     ELSE g[i]]
  <2>3. ASSUME NEW i \in 0..m
        PROVE  h[i] = IF i = 0 THEN << >>
                      ELSE IF ids[i] \in live THEN Append(h[i-1], ids[i]) ELSE h[i-1]
    <3>1. CASE i = 0
      BY <3>1, <2>2, <1>3, <2>1 DEF KeptUpTo
    <3>2. CASE i > 0 /\ i < m
      <4>1. i \in 0..m-1 /\ i-1 \in 0..m-1
        BY <3>2, <2>1
      <4>2. h[i] = g[i] /\ h[i-1] = g[i-1]
        BY <3>2, <4>1, <2>1
      <4> QED BY <4>1, <4>2, <2>2, <3>2 DEF KeptUpTo
    <3>3. CASE i = m
      <4>1. m-1 \in 0..m /\ m \in 0..m /\ m-1 # m
        BY <2>1, <1>3
      <4>2. h[m-1] = g[m-1]
        BY <4>1
      <4> QED BY <3>3, <4>1, <4>2, <1>3
    <3> QED BY <3>1, <3>2, <3>3, <2>1
  <2>4. KeptUpTo(ids, live, m, h)
    BY <2>3, Zenon DEF KeptUpTo
  <2> QED BY <2>4, <1>1
<1> QED BY <1>1, <1>2, <1>3

(* FilterLive is the last value of such a function.                        *)
LEMMA FilterLiveKeeps ==
  ASSUME NEW S, NEW ids \in Seq(S), NEW live
  PROVE  \E g : KeptUpTo(ids, live, Len(ids), g) /\ FilterLive(ids, live) = g[Len(ids)]
<1> DEFINE fn == CHOOSE g : KeptUpTo(ids, live, Len(ids), g)
<1>1. Len(ids) \in Nat
  OBVIOUS
<1>2. KeptUpTo(ids, live, Len(ids), fn)
  BY <1>1, KeptExists, Zenon
<1>3. FilterLive(ids, live) = fn[Len(ids)]
  BY Zenon DEF FilterLive, KeptUpTo
<1> QED BY <1>2, <1>3, Zenon

(* filterLive keeps exactly the live ids, each as often as the list has    *)
(* it.                                                                     *)
LEMMA FilterLiveProperties ==
  ASSUME NEW S, NEW ids \in Seq(S), NEW live
  PROVE  /\ FilterLive(ids, live) \in Seq(S)
         /\ Len(FilterLive(ids, live)) <= Len(ids)
         /\ Range(FilterLive(ids, live)) = Range(ids) \cap live
         /\ IsInjective(ids) => IsInjective(FilterLive(ids, live))
<1> DEFINE n == Len(ids)
<1>1. n \in Nat /\ ids \in [1..n -> S]
  OBVIOUS
<1>2. PICK g : KeptUpTo(ids, live, n, g) /\ FilterLive(ids, live) = g[n]
  BY FilterLiveKeeps
<1> DEFINE Good(i) == /\ g[i] \in Seq(S)
                      /\ Len(g[i]) <= i
                      /\ Range(g[i]) = {ids[j] : j \in 1..i} \cap live
                      /\ IsInjective(ids) => IsInjective(g[i])
           Bad == {i \in 0..n : ~ Good(i)}
<1>0. \A i \in 0..n : i # 0 =>
        g[i] = IF ids[i] \in live THEN Append(g[i-1], ids[i]) ELSE g[i-1]
  BY <1>2, Zenon DEF KeptUpTo
<1> HIDE DEF Good
<1>3. ASSUME Bad # {} PROVE FALSE
  <2>0. Bad \in SUBSET Nat
    BY <1>1
  <2>1. PICK m \in Bad : \A k \in Bad : m <= k
    BY <1>3, <2>0, LeastNatural, Zenon
  <2>2. CASE m = 0
    <3>1. g[0] = << >>
      BY <1>2, <1>1 DEF KeptUpTo
    <3>2. Range(g[0]) = {} /\ IsInjective(g[0])
      BY <3>1 DEF Range, IsInjective
    <3>3. Good(0)
      BY <3>1, <3>2 DEF Good
    <3> QED BY <3>3, <2>1, <2>2
  <2>3. CASE m > 0
    <3>1. m \in 1..n /\ m - 1 \in 0..n /\ Good(m - 1)
      BY <2>1, <2>3, <1>1
    <3>2. g[m] = IF ids[m] \in live THEN Append(g[m-1], ids[m]) ELSE g[m-1]
      BY <3>1, <1>0, <2>3
    <3>3. {ids[j] : j \in 1..m} = {ids[j] : j \in 1..(m-1)} \cup {ids[m]}
      <4>1. 1..m = (1..(m-1)) \cup {m}
        BY <3>1, <1>1
      <4> QED BY <4>1
    <3>4. CASE ids[m] \notin live
      <4>1. Good(m)
        BY <3>4, <3>1, <3>2, <3>3, <1>1 DEF Good
      <4> QED BY <4>1, <2>1
    <3>5. CASE ids[m] \in live
      <4> DEFINE s == g[m-1]  t == Append(s, ids[m])
      <4>1. s \in Seq(S) /\ ids[m] \in S
        BY <3>1, <1>1 DEF Good
      <4>2. t \in Seq(S) /\ Len(t) = Len(s) + 1
        BY <4>1
      <4>3. /\ \A i \in 1..Len(s) : t[i] = s[i]
            /\ t[Len(s) + 1] = ids[m]
            /\ DOMAIN t = 1..(Len(s)+1) /\ DOMAIN s = 1..Len(s)
        BY <4>1
      <4>4. Range(t) = Range(s) \cup {ids[m]}
        BY <4>1, <4>3 DEF Range
      <4>5. ASSUME IsInjective(ids) PROVE IsInjective(t)
        <5>1. ids[m] \notin Range(s)
          <6>1. \A j \in 1..(m-1) : ids[j] # ids[m]
            BY <4>5, <3>1, <1>1 DEF IsInjective
          <6> QED BY <6>1, <3>1 DEF Good
        <5>2. \A i \in 1..Len(s) : s[i] # ids[m]
          BY <5>1, <4>3 DEF Range
        <5>3. IsInjective(s)
          BY <4>5, <3>1 DEF Good
        <5> QED BY <5>2, <5>3, <4>3, <4>1 DEF IsInjective
      <4>6. Good(m)
        <5>1. g[m] = t
          BY <3>2, <3>5
        <5>2. Len(t) <= m
          BY <4>2, <3>1, <1>1, <4>1 DEF Good
        <5>3. Range(t) = {ids[j] : j \in 1..m} \cap live
          BY <4>4, <3>1, <3>3, <3>5 DEF Good
        <5> QED BY <5>1, <5>2, <5>3, <4>2, <4>5 DEF Good
      <4> QED BY <4>6, <2>1
    <3> QED BY <3>4, <3>5
  <2> QED BY <2>1, <2>2, <2>3, <1>1
<1>4. Good(n)
  BY <1>3, <1>1
<1>5. {ids[j] : j \in 1..n} = Range(ids)
  BY <1>1 DEF Range
<1> QED BY <1>2, <1>4, <1>5 DEF Good

(* A prefix of a list has no more entries, no new ones and no repetition   *)
(* the list had not.                                                       *)
LEMMA TruncateProperties ==
  ASSUME NEW S, NEW ids \in Seq(S), NEW n \in Nat
  PROVE  /\ Truncate(ids, n) \in Seq(S)
         /\ Len(Truncate(ids, n)) <= n
         /\ Len(Truncate(ids, n)) <= Len(ids)
         /\ IsInjective(ids) => IsInjective(Truncate(ids, n))
<1> DEFINE m == IF Len(ids) < n THEN Len(ids) ELSE n
           t == SubSeq(ids, 1, m)
<1>1. m \in 0..Len(ids) /\ m <= n /\ m \in Nat
  OBVIOUS
<1>2. t \in Seq(S) /\ Len(t) = m /\ DOMAIN t = 1..m /\ \A i \in 1..m : t[i] = ids[i]
  BY <1>1
<1>3. IsInjective(ids) => IsInjective(t)
  <2>1. 1..m \subseteq DOMAIN ids
    BY <1>1
  <2> HIDE DEF t, m
  <2> QED BY <2>1, <1>2 DEF IsInjective
<1>4. Truncate(ids, n) = t
  BY DEF Truncate
<1> HIDE DEF t, m
<1> QED BY <1>1, <1>2, <1>3, <1>4

(* Placer.Place chooses different nodes, n at most.                        *)
LEMMA PlaceWellFormed ==
  ASSUME NEW S, NEW ranking \in Seq(S), IsInjective(ranking), NEW present, NEW n \in Nat
  PROVE  Place(ranking, present, n) \in Seq(S) /\ WellFormed(Place(ranking, present, n), n)
<1>1. FilterLive(ranking, present) \in Seq(S) /\ IsInjective(FilterLive(ranking, present))
  BY FilterLiveProperties
<1> QED BY <1>1, TruncateProperties DEF Place, WellFormed

(* filterLive keeps a list well formed.                                    *)
LEMMA FilterLiveWellFormed ==
  ASSUME NEW S, NEW ids \in Seq(S), NEW live, NEW n \in Nat, WellFormed(ids, n)
  PROVE  FilterLive(ids, live) \in Seq(S) /\ WellFormed(FilterLive(ids, live), n)
BY FilterLiveProperties, Len(ids) \in Nat, Len(FilterLive(ids, live)) \in Nat DEF WellFormed

(* A torn read of two well-formed lists is a well-formed list.             *)
LEMMA TornReadsWellFormed ==
  ASSUME NEW S, NEW before \in Seq(S), NEW after \in Seq(S), NEW n \in Nat,
         NEW ids \in TornReads(before, after)
  PROVE  /\ ids \in Seq(S)
         /\ WellFormed(before, n) /\ WellFormed(after, n) => WellFormed(ids, n)
<1>1. Len(before) \in Nat /\ Len(after) \in Nat
  OBVIOUS
<1>2. CASE ids = before \/ ids = after
  BY <1>2
<1>3. CASE ids = Truncate(before, Len(after))
  <2>1. ids \in Seq(S) /\ Len(ids) <= Len(before) /\ Len(ids) \in Nat
        /\ (IsInjective(before) => IsInjective(ids))
    BY <1>1, <1>3, TruncateProperties
  <2> QED BY <2>1, <1>1 DEF WellFormed
<1>4. CASE ids = Truncate(after, Len(before))
  <2>1. ids \in Seq(S) /\ Len(ids) <= Len(after) /\ Len(ids) \in Nat
        /\ (IsInjective(after) => IsInjective(ids))
    BY <1>1, <1>4, TruncateProperties
  <2> QED BY <2>1, <1>1 DEF WellFormed
<1> QED BY <1>2, <1>3, <1>4 DEF TornReads

(* Adding a node the list does not hold.                                   *)
LEMMA AppendWellFormed ==
  ASSUME NEW S, NEW ids \in Seq(S), NEW x \in S,
         IsInjective(ids), x \notin Range(ids)
  PROVE  /\ Append(ids, x) \in Seq(S)
         /\ Len(Append(ids, x)) = Len(ids) + 1
         /\ IsInjective(Append(ids, x))
         /\ Range(Append(ids, x)) = Range(ids) \cup {x}
<1> DEFINE t == Append(ids, x)
<1>1. /\ t \in Seq(S) /\ Len(t) = Len(ids) + 1 /\ Len(ids) \in Nat
      /\ DOMAIN t = 1..(Len(ids) + 1) /\ DOMAIN ids = 1..Len(ids)
      /\ \A i \in 1..Len(ids) : t[i] = ids[i]
      /\ t[Len(ids) + 1] = x
  OBVIOUS
<1>2. \A i \in 1..Len(ids) : ids[i] # x
  BY <1>1 DEF Range
<1> HIDE DEF t
<1>3. IsInjective(t)
  BY <1>1, <1>2 DEF IsInjective
<1>4. Range(t) = Range(ids) \cup {x}
  BY <1>1 DEF Range
<1> QED BY <1>1, <1>3, <1>4 DEF t
=============================================================================
