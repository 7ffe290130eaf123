---------------------------- MODULE TransferProofs ----------------------------
(***************************************************************************)
(* What a client's put and get guarantee, for any nodes, placements, file  *)
(* sizes, numbers of puts, gets and faults, and any positive ChunkSize,    *)
(* replication factor and quorum.                                          *)
(***************************************************************************)
EXTENDS TransferProperties, ReplicaListsTheorems, FiniteSetTheorems, SequenceTheorems

(***************************************************************************)
(* The arithmetic of plans                                                 *)
(***************************************************************************)

(* Quotient and remainder, as the code's integer division gives them.      *)
LEMMA Quotient ==
  ASSUME NEW a \in Nat, NEW b \in Nat \ {0}
  PROVE  /\ a \div b \in Nat /\ a % b \in Nat /\ a % b < b
         /\ b * (a \div b) <= a /\ a < b * (a \div b) + b
         /\ a = b * (a \div b) + (a % b)
BY SMT

(* Multiples of b are b apart.                                             *)
LEMMA MultiplesApart ==
  ASSUME NEW x \in Int, NEW y \in Int, NEW b \in Nat \ {0}
  PROVE  /\ x < y => b * x + b <= b * y
         /\ b * x < b * y => x < y
         /\ x * b = b * x /\ (x + 1) * b = b * x + b
         /\ b * (x - 1) = b * x - b /\ b * x \in Int
         /\ x >= 0 => b * x >= 0
BY SMT

(* A finite set of naturals has a largest element.                         *)
LEMMA FiniteHasLargest ==
  ASSUME NEW S \in SUBSET Nat, IsFiniteSet(S), S # {}
  PROVE  \E m \in S : \A t \in S : t <= m
<1> DEFINE Unbounded(T) == T # {} /\ ~ \E m \in T : \A t \in T : t <= m
           Sizings == {k \in Nat : \E T \in SUBSET Nat :
                          IsFiniteSet(T) /\ Cardinality(T) = k /\ Unbounded(T)}
<1> SUFFICES ASSUME Unbounded(S) PROVE FALSE
  OBVIOUS
<1>1. Cardinality(S) \in Sizings
  BY FS_CardinalityType
<1>2. Sizings \in SUBSET Nat
  OBVIOUS
<1> HIDE DEF Sizings
<1>3. PICK k \in Sizings : \A j \in Sizings : k <= j
  BY <1>1, <1>2, LeastNatural
<1>4. PICK T \in SUBSET Nat : IsFiniteSet(T) /\ Cardinality(T) = k /\ Unbounded(T)
  BY <1>3 DEF Sizings
<1>5. PICK x \in T : TRUE
  BY <1>4
<1> DEFINE R == T \ {x}
<1>6. IsFiniteSet(R) /\ Cardinality(R) = k - 1 /\ k \in Nat
  BY <1>4, <1>5, FS_RemoveElement, FS_CardinalityType
<1>7. Cardinality(R) \in Nat /\ Cardinality(R) \notin Sizings
  BY <1>6, <1>3, FS_CardinalityType
<1>8. ~ Unbounded(R)
  <2>1. R \in SUBSET Nat
    BY <1>4
  <2> HIDE DEF Unbounded, R
  <2> QED BY <2>1, <1>6, <1>7 DEF Sizings
<1>9. CASE R = {}
  <2>1. T = {x} /\ x \in Nat
    BY <1>5, <1>4, <1>9
  <2> QED BY <2>1, <1>4
<1>10. CASE R # {}
  <2>1. PICK m \in R : \A t \in R : t <= m
    BY <1>8, <1>10
  <2>2. m \in Nat /\ x \in Nat /\ m \in T
    BY <1>4, <1>5
  <2>3. CASE x <= m
    <3>1. \A t \in T : t <= m
      BY <2>1, <2>3
    <3> QED BY <3>1, <2>2, <1>4
  <2>4. CASE m < x
    <3>1. \A t \in T : t \in Nat /\ (t = x \/ t <= m)
      BY <2>1, <1>4
    <3>2. \A t \in T : t <= x
      BY <3>1, <2>2, <2>4
    <3> QED BY <3>2, <1>5, <1>4
  <2> QED BY <2>3, <2>4, <2>2
<1> QED BY <1>9, <1>10

(* No file is longer than MaxFile.                                         *)
LEMMA LengthsBounded ==
  MaxFile \in Lengths /\ MaxFile \in Nat /\ \A s \in Lengths : s \in Nat /\ s <= MaxFile
<1>1. Lengths \in SUBSET Nat /\ IsFiniteSet(Lengths) /\ Lengths # {}
  BY TransfersAssumption DEF Lengths
<1>2. \E m \in Lengths : \A t \in Lengths : t <= m
  BY <1>1, FiniteHasLargest
<1> QED BY <1>1, <1>2 DEF MaxFile

(* The fragments of a plan end where the file ends.                        *)
LEMMA NumFragmentsBounds ==
  ASSUME NEW size \in Nat
  PROVE  /\ NumFragments(size) \in Nat \ {0}
         /\ size > 0 =>
              /\ NumFragments(size) = (size + Chunk - 1) \div Chunk
              /\ Chunk * (NumFragments(size) - 1) < size
              /\ size <= Chunk * NumFragments(size)
              /\ size % Chunk \in 0..(Chunk - 1)
              /\ size % Chunk > 0 =>
                   Chunk * (NumFragments(size) - 1) + (size % Chunk) = size
              /\ size % Chunk = 0 => Chunk * NumFragments(size) = size
<1>0. Chunk \in Nat \ {0}
  BY TransfersAssumption
<1>1. CASE size = 0
  BY <1>1 DEF NumFragments
<1>2. CASE size > 0
  <2> DEFINE a == size + Chunk - 1
             n == a \div Chunk
             q == size \div Chunk
             r == size % Chunk
  <2>1. a \in Nat /\ a >= Chunk
    BY <1>0, <1>2
  <2>2. n \in Nat /\ Chunk * n <= a /\ a < Chunk * n + Chunk
    BY <2>1, <1>0, Quotient
  <2>3. q \in Nat /\ r \in Nat /\ r < Chunk /\ size = Chunk * q + r
    BY <1>0, Quotient
  <2>4. NumFragments(size) = n
    BY <1>2 DEF NumFragments
  <2> HIDE DEF n, q, r
  <2>5. Chunk * (n - 1) = Chunk * n - Chunk /\ Chunk * n \in Int /\ Chunk * q \in Int
    BY <1>0, <2>2, <2>3, MultiplesApart
  <2>6. n > 0
    <3>1. Chunk * 0 < Chunk * n
      BY <2>1, <2>2, <2>5, <1>0
    <3> QED BY <3>1, <2>2, <1>0, MultiplesApart
  <2>7. ASSUME r > 0 PROVE n = q + 1
    <3>1. Chunk * (q + 1) = Chunk * q + Chunk /\ Chunk * (q + 2) = Chunk * q + 2 * Chunk
          /\ Chunk * (n + 1) = Chunk * n + Chunk
      BY <1>0, <2>2, <2>3, SMT
    <3>2. Chunk * q < Chunk * n
      BY <2>2, <2>3, <2>5, <2>7, <1>0
    <3>3. Chunk * n < Chunk * (q + 2)
      BY <2>2, <2>3, <2>5, <2>7, <1>0, <3>1
    <3>4. q < n /\ n < q + 2
      BY <3>2, <3>3, <2>2, <2>3, <1>0, MultiplesApart
    <3> QED BY <3>4, <2>2, <2>3
  <2>8. ASSUME r = 0 PROVE n = q
    <3>1. Chunk * (q + 1) = Chunk * q + Chunk /\ Chunk * (n + 1) = Chunk * n + Chunk
      BY <1>0, <2>2, <2>3, SMT
    <3>2. Chunk * n < Chunk * (q + 1) /\ Chunk * q < Chunk * (n + 1)
      BY <2>2, <2>3, <2>5, <2>8, <1>0, <3>1
    <3>3. n < q + 1 /\ q < n + 1
      BY <3>2, <2>2, <2>3, <1>0, MultiplesApart
    <3> QED BY <3>3, <2>2, <2>3
  <2>9. Chunk * ((q + 1) - 1) = Chunk * q
    BY <2>3
  <2>10. /\ n \in Nat \ {0} /\ Chunk * (n - 1) < size /\ size <= Chunk * n
         /\ r \in 0..(Chunk - 1)
    BY <2>2, <2>3, <2>5, <2>6, <1>0, <1>2
  <2>11. r > 0 => Chunk * (n - 1) + r = size
    BY <2>7, <2>9, <2>3
  <2>12. r = 0 => Chunk * n = size
    BY <2>8, <2>3, <2>5
  <2> QED BY <2>4, <2>10, <2>11, <2>12, <1>2 DEF n, r
<1> QED BY <1>1, <1>2

(* Every planned fragment of a file has an index of the model.             *)
LEMMA PlannedAreIndexes ==
  ASSUME NEW size \in Lengths
  PROVE  0..(NumFragments(size) - 1) \subseteq Indexes
<1> DEFINE n == NumFragments(size)
           r == MaxFile \div Chunk
<1>0. Chunk \in Nat \ {0} /\ MaxFile \in Nat /\ size \in Nat /\ size <= MaxFile
  BY TransfersAssumption, LengthsBounded
<1>1. r \in Nat /\ MaxFile < Chunk * r + Chunk
  BY <1>0, Quotient
<1>2. n \in Nat \ {0} /\ (size > 0 => Chunk * (n - 1) < size)
  BY <1>0, NumFragmentsBounds
<1>3. size = 0 => n = 1
  BY DEF NumFragments
<1> HIDE DEF n, r
<1>4. n - 1 <= r
  <2>1. CASE size = 0
    BY <2>1, <1>1, <1>3
  <2>2. CASE size > 0
    <3>1. Chunk * (r + 1) = Chunk * r + Chunk /\ Chunk * (n - 1) \in Int /\ Chunk * r \in Int
      BY <1>0, <1>1, <1>2, SMT
    <3>2. Chunk * (n - 1) < Chunk * (r + 1)
      BY <3>1, <2>2, <1>0, <1>1, <1>2
    <3>3. n - 1 < r + 1
      BY <3>2, <1>0, <1>1, <1>2, MultiplesApart
    <3> QED BY <3>3, <1>1, <1>2
  <2> QED BY <2>1, <2>2, <1>0
<1> QED BY <1>4, <1>1, <1>2 DEF Indexes, n, r

(* Where fragment f of a file ends, planned or cut by Split.               *)
EndOf(size, f) == Least((f + 1) * Chunk, size)

LEMMA FragmentSpan ==
  ASSUME NEW size \in Nat, size > 0, NEW f \in 0..(NumFragments(size) - 1)
  PROVE  /\ f * Chunk \in Nat /\ f * Chunk = Chunk * f
         /\ (f + 1) * Chunk = f * Chunk + Chunk
         /\ f * Chunk < EndOf(size, f) /\ EndOf(size, f) \in Nat
         /\ EndOf(size, f) <= size /\ EndOf(size, f) <= f * Chunk + Chunk
         /\ PlannedSize(size, f) \in Nat
         /\ f * Chunk + PlannedSize(size, f) = EndOf(size, f)
         /\ f = NumFragments(size) - 1 => EndOf(size, f) = size
         /\ f # NumFragments(size) - 1 => EndOf(size, f) = f * Chunk + Chunk
<1> DEFINE n == NumFragments(size)
<1>0. Chunk \in Nat \ {0}
  BY TransfersAssumption
<1>1. /\ n \in Nat \ {0} /\ Chunk * (n - 1) < size /\ size <= Chunk * n
      /\ size % Chunk \in 0..(Chunk - 1)
      /\ size % Chunk > 0 => Chunk * (n - 1) + (size % Chunk) = size
      /\ size % Chunk = 0 => Chunk * n = size
  BY NumFragmentsBounds
<1> HIDE DEF n
<1>2. f \in Nat /\ f <= n - 1
  BY <1>1 DEF n
<1>3. /\ f * Chunk = Chunk * f /\ f * Chunk \in Nat
      /\ (f + 1) * Chunk = f * Chunk + Chunk
      /\ Chunk * (n - 1) = Chunk * n - Chunk
      /\ Chunk * n \in Nat
  BY <1>0, <1>1, <1>2, SMT
<1>4. CASE f = n - 1
  <2>0. Chunk * f = Chunk * (n - 1)
    BY <1>4
  <2>1. f * Chunk = Chunk * n - Chunk /\ (f + 1) * Chunk = Chunk * n
    BY <2>0, <1>3, <1>1, <1>0
  <2>2. EndOf(size, f) = size
    BY <2>1, <1>1, <1>3 DEF EndOf, Least
  <2>3. CASE size % Chunk > 0
    <3>1. PlannedSize(size, f) = size % Chunk
      BY <2>3, <1>4 DEF PlannedSize, n
    <3> QED BY <3>1, <2>1, <2>2, <2>3, <1>0, <1>1, <1>3, <1>4 DEF n
  <2>4. CASE size % Chunk = 0
    <3>1. PlannedSize(size, f) = Chunk
      BY <2>4, <1>4 DEF PlannedSize, n
    <3> QED BY <3>1, <2>1, <2>2, <2>4, <1>0, <1>1, <1>3, <1>4 DEF n
  <2> QED BY <2>3, <2>4, <1>1, <1>0
<1>5. CASE f < n - 1
  <2>1. f * Chunk + Chunk <= Chunk * (n - 1)
    BY <1>5, <1>0, <1>1, <1>2, <1>3, MultiplesApart
  <2>2. EndOf(size, f) = f * Chunk + Chunk
    BY <2>1, <1>1, <1>3, <1>0 DEF EndOf, Least
  <2>3. PlannedSize(size, f) = Chunk
    BY <1>5, <1>1, <1>2 DEF PlannedSize, n
  <2> QED BY <2>1, <2>2, <2>3, <1>0, <1>1, <1>3, <1>5 DEF n
<1> QED BY <1>4, <1>5, <1>1, <1>2

(***************************************************************************)
(* Cutting a file and putting it together                                  *)
(***************************************************************************)

LEMMA SliceProperties ==
  ASSUME NEW S, NEW file \in Seq(S), NEW a \in Nat, NEW b \in Nat, a <= b, b <= Len(file)
  PROVE  /\ Slice(file, a, b) \in Seq(S)
         /\ Len(Slice(file, a, b)) = b - a
         /\ Slice(file, a, b) \in [1..(b - a) -> S]
         /\ \A i \in 1..(b - a) : Slice(file, a, b)[i] = file[a + i]
<1> DEFINE t == SubSeq(file, a + 1, b)
<1>1. t \in Seq(S) /\ Len(t) = b - a
  OBVIOUS
<1>2. \A i \in 1..(b - a) : t[i] = file[a + i]
  OBVIOUS
<1> HIDE DEF t
<1>3. t \in [1..(b - a) -> S]
  BY <1>1
<1> QED BY <1>1, <1>2, <1>3, Zenon DEF Slice, t

(* Two neighbouring slices make one.                                       *)
LEMMA SlicesJoin ==
  ASSUME NEW S, NEW file \in Seq(S), NEW a \in Nat, NEW b \in Nat, a <= b, b <= Len(file)
  PROVE  Slice(file, 0, a) \o Slice(file, a, b) = Slice(file, 0, b)
<1>1. 1 \in 1..Len(file) + 1 /\ a \in (1 - 1)..Len(file) /\ b \in a..Len(file) /\ 0 + 1 = 1
  BY Len(file) \in Nat
<1> QED BY <1>1, ConcatAdjacentSubSeq, Zenon DEF Slice

(* The recursive function of FlattenSeq, up to index n.                    *)
JoinedUpTo(parts, n, g) ==
  g = [i \in 1..n |-> IF i = 1 THEN parts[i] ELSE g[i-1] \o parts[i]]

(* That function exists.                                                   *)
LEMMA JoinedExists ==
  ASSUME NEW parts, NEW n \in Nat
  PROVE  \E g : JoinedUpTo(parts, n, g)
<1> DEFINE Bad == {m \in Nat : ~ \E g : JoinedUpTo(parts, m, g)}
<1> SUFFICES ASSUME Bad # {} PROVE FALSE
  BY Zenon
<1>1. PICK m \in Bad : \A k \in Bad : m <= k
  BY LeastNatural
<1>2. CASE m = 0
  <2> DEFINE h == [i \in 1..0 |-> << >>]
  <2>1. JoinedUpTo(parts, 0, h)
    BY SMT DEF JoinedUpTo
  <2> QED BY <2>1, <1>1, <1>2
<1>3. CASE m > 0
  <2>1. m - 1 \in Nat /\ m - 1 \notin Bad
    BY <1>1, <1>3
  <2>2. PICK g : JoinedUpTo(parts, m - 1, g)
    BY <2>1
  <2> DEFINE h == [i \in 1..m |->
                     IF i = m
                     THEN IF m = 1 THEN parts[m] ELSE g[m-1] \o parts[m]
                     ELSE g[i]]
  <2>3. ASSUME NEW i \in 1..m
        PROVE  h[i] = IF i = 1 THEN parts[i] ELSE h[i-1] \o parts[i]
    <3>1. CASE i = 1 /\ i < m
      <4>1. 1 \in 1..m-1 /\ 1 \in 1..m
        BY <3>1, <2>1
      <4>2. h[1] = g[1] /\ g[1] = parts[1]
        BY <4>1, <2>2, <3>1 DEF JoinedUpTo
      <4> QED BY <4>2, <3>1
    <3>2. CASE i > 1 /\ i < m
      <4>1. i \in 1..m-1 /\ i-1 \in 1..m-1
        BY <3>2, <2>1
      <4>2. h[i] = g[i] /\ h[i-1] = g[i-1]
        BY <3>2, <4>1, <2>1
      <4> QED BY <4>1, <4>2, <2>2, <3>2 DEF JoinedUpTo
    <3>3. CASE i = m /\ m = 1
      BY <3>3
    <3>4. CASE i = m /\ m > 1
      <4>1. m-1 \in 1..m /\ m \in 1..m /\ m-1 # m
        BY <2>1, <1>3, <3>4
      <4>2. h[m-1] = g[m-1]
        BY <4>1
      <4> QED BY <3>4, <4>1, <4>2, <1>3
    <3> QED BY <3>1, <3>2, <3>3, <3>4, <2>1
  <2>4. JoinedUpTo(parts, m, h)
    BY <2>3, Zenon DEF JoinedUpTo
  <2> QED BY <2>4, <1>1
<1> QED BY <1>1, <1>2, <1>3

(* FlattenSeq returns the last value of such a function.                   *)
LEMMA FlattenSeqJoins ==
  ASSUME NEW parts, Len(parts) \in Nat \ {0}
  PROVE  \E g : /\ FlattenSeq(parts) = g[Len(parts)]
                /\ \A i \in 1..Len(parts) :
                     g[i] = IF i = 1 THEN parts[i] ELSE g[i-1] \o parts[i]
<1> DEFINE fn == CHOOSE g : JoinedUpTo(parts, Len(parts), g)
<1>1. JoinedUpTo(parts, Len(parts), fn)
  BY JoinedExists, Zenon
<1>2. FlattenSeq(parts) = fn[Len(parts)]
  <2>1. Len(parts) # 0
    OBVIOUS
  <2> QED BY <2>1, Zenon DEF FlattenSeq, JoinedUpTo
<1> HIDE DEF fn
<1>3. \A i \in 1..Len(parts) : fn[i] = IF i = 1 THEN parts[i] ELSE fn[i-1] \o parts[i]
  BY <1>1, Zenon DEF JoinedUpTo
<1> QED BY <1>2, <1>3, Zenon

(***************************************************************************)
(* What the clients send and write                                         *)
(***************************************************************************)

(* What put p sends for fragment f, of the two sizes of its file.          *)
Payload(p, size, length, f) ==
  LET file == File(p, length) IN
  IF Client[p] = "kvctl" THEN Split(file)[f + 1] ELSE Cut(file, size, f)

(* Piece f of a whole file.                                                *)
Piece(p, size, f) == Slice(File(p, size), f * Chunk, EndOf(size, f))

LEMMA SentIsPayload ==
  ASSUME NEW p, NEW f
  PROVE  Sent(p, f) = Payload(p, put[p].size, put[p].length, f)
BY Zenon DEF Sent, Payload

LEMMA FileIsSequence ==
  ASSUME NEW p \in Puts, NEW length \in Nat
  PROVE  /\ File(p, length) \in Seq(Puts \X (1..length))
         /\ Len(File(p, length)) = length
         /\ \A i \in 1..length : File(p, length)[i] = <<p, i>>
<1>1. \A i \in 1..length : <<p, i>> \in Puts \X (1..length)
  OBVIOUS
<1> QED BY <1>1 DEF File

(* Fragment f of any plan: it begins where the one before it ends.         *)
LEMMA PlanSpan ==
  ASSUME NEW size \in Nat, NEW f \in 0..(NumFragments(size) - 1)
  PROVE  /\ f \in Nat /\ f * Chunk \in Nat /\ EndOf(size, f) \in Nat
         /\ f * Chunk <= EndOf(size, f) /\ EndOf(size, f) <= size
         /\ EndOf(size, f) <= f * Chunk + Chunk
         /\ f = 0 => f * Chunk = 0
         /\ f > 0 => EndOf(size, f - 1) = f * Chunk
         /\ f = NumFragments(size) - 1 => EndOf(size, f) = size
         /\ EndOf(size, f) = Least(f * Chunk + PlannedSize(size, f), size)
<1>0. Chunk \in Nat \ {0} /\ NumFragments(size) \in Nat \ {0}
  BY TransfersAssumption, NumFragmentsBounds
<1>1. f \in Nat /\ f * Chunk \in Nat /\ (f = 0 => f * Chunk = 0)
  BY <1>0, SMT
<1>2. CASE size = 0
  <2>1. NumFragments(size) = 1 /\ f = 0
    BY <1>2, <1>0 DEF NumFragments
  <2>2. EndOf(size, f) = 0
    BY <2>1, <1>2, <1>0 DEF EndOf, Least
  <2>3. PlannedSize(size, f) \in Nat
    <3>1. 0 % Chunk = 0
      BY <1>0, Quotient, SMT
    <3> QED BY <3>1, <1>2, <1>0 DEF PlannedSize
  <2>4. Least(f * Chunk + PlannedSize(size, f), size) = 0
    BY <2>3, <2>1, <1>1, <1>2 DEF Least
  <2> QED BY <2>1, <2>2, <2>4, <1>0, <1>1, <1>2
<1>3. CASE size > 0
  <2>1. /\ f * Chunk < EndOf(size, f) /\ EndOf(size, f) \in Nat
        /\ EndOf(size, f) <= size /\ EndOf(size, f) <= f * Chunk + Chunk
        /\ f * Chunk + PlannedSize(size, f) = EndOf(size, f)
        /\ f = NumFragments(size) - 1 => EndOf(size, f) = size
    BY <1>3, FragmentSpan
  <2>2. ASSUME f > 0 PROVE EndOf(size, f - 1) = f * Chunk
    <3>1. f - 1 \in 0..(NumFragments(size) - 1) /\ f - 1 # NumFragments(size) - 1
      BY <2>2, <1>0
    <3>2. EndOf(size, f - 1) = (f - 1) * Chunk + Chunk
      BY <3>1, <1>3, FragmentSpan
    <3>3. (f - 1) * Chunk + Chunk = f * Chunk
      BY <1>0, <1>1, SMT
    <3> QED BY <3>2, <3>3
  <2>3. Least(f * Chunk + PlannedSize(size, f), size) = EndOf(size, f)
    BY <2>1 DEF Least
  <2> QED BY <2>1, <2>2, <2>3, <1>1
<1> QED BY <1>2, <1>3

(* The chunks of fragment.Split.                                           *)
LEMMA SplitChunks ==
  ASSUME NEW p \in Puts, NEW length \in Nat
  PROVE  /\ length = 0 => Len(Split(File(p, length))) = 0
         /\ length > 0 => Len(Split(File(p, length))) = NumFragments(length)
         /\ \A f \in 0..(Len(Split(File(p, length))) - 1) :
              Split(File(p, length))[f + 1] = Piece(p, length, f)
<1> DEFINE file == File(p, length)
           n == (length + Chunk - 1) \div Chunk
<1>0. Chunk \in Nat \ {0} /\ length + Chunk - 1 \in Nat
  BY TransfersAssumption
<1>1. n \in Nat /\ Chunk * n <= length + Chunk - 1
  BY <1>0, Quotient
<1>2. Len(file) = length
  BY FileIsSequence
<1> HIDE DEF file
<1>3. Split(file) = [i \in 1..n |-> Slice(file, (i - 1) * Chunk, Least(i * Chunk, length))]
  BY <1>2, Zenon DEF Split
<1> HIDE DEF n
<1>4. Len(Split(file)) = n
  BY <1>3, <1>1
<1>5. length = 0 => n = 0
  <2> SUFFICES ASSUME length = 0, n > 0 PROVE FALSE
    BY <1>1
  <2>1. Chunk * 0 + Chunk <= Chunk * n
    BY <1>0, <1>1, MultiplesApart
  <2> QED BY <2>1, <1>0, <1>1
<1>6. length > 0 => NumFragments(length) = n
  BY DEF NumFragments, n
<1>7. ASSUME NEW f \in 0..(n - 1) PROVE Split(file)[f + 1] = Piece(p, length, f)
  <2>1. f + 1 \in 1..n /\ (f + 1) - 1 = f
    BY <1>1
  <2>2. Split(file)[f + 1] = Slice(file, ((f + 1) - 1) * Chunk, Least((f + 1) * Chunk, length))
    BY <1>3, <2>1
  <2> QED BY <2>1, <2>2, Zenon DEF Piece, EndOf, file
<1> QED BY <1>4, <1>5, <1>6, <1>7, Zenon DEF file

(* The bytes of a piece.                                                   *)
LEMMA PieceProperties ==
  ASSUME NEW p \in Puts, NEW size \in Nat, NEW f \in 0..(NumFragments(size) - 1)
  PROVE  /\ Len(Piece(p, size, f)) = EndOf(size, f) - f * Chunk
         /\ Piece(p, size, f) \in [1..(EndOf(size, f) - f * Chunk) -> Puts \X (1..size)]
         /\ \A i \in 1..(EndOf(size, f) - f * Chunk) :
              Piece(p, size, f)[i] = <<p, f * Chunk + i>>
<1> DEFINE a == f * Chunk
           b == EndOf(size, f)
           file == File(p, size)
           S == Puts \X (1..size)
<1>1. a \in Nat /\ b \in Nat /\ a <= b /\ b <= size
  BY PlanSpan
<1>2. file \in Seq(S) /\ Len(file) = size /\ \A i \in 1..size : file[i] = <<p, i>>
  BY FileIsSequence
<1>3. Piece(p, size, f) = Slice(file, a, b)
  BY DEF Piece
<1> HIDE DEF a, b, file, S
<1>4. /\ Len(Slice(file, a, b)) = b - a
      /\ Slice(file, a, b) \in [1..(b - a) -> S]
      /\ \A i \in 1..(b - a) : Slice(file, a, b)[i] = file[a + i]
  <2>1. b <= Len(file)
    BY <1>1, <1>2
  <2>2. a \in Nat /\ b \in Nat /\ a <= b /\ file \in Seq(S)
    BY <1>1, <1>2
  <2>3. /\ Len(Slice(file, a, b)) = b - a
    BY <2>1, <2>2, SliceProperties
  <2>4. Slice(file, a, b) \in [1..(b - a) -> S]
    BY <2>1, <2>2, SliceProperties
  <2>5. \A i \in 1..(b - a) : Slice(file, a, b)[i] = file[a + i]
    BY <2>1, <2>2, SliceProperties
  <2> QED BY <2>3, <2>4, <2>5
<1>5. ASSUME NEW i \in 1..(b - a) PROVE Slice(file, a, b)[i] = <<p, a + i>>
  <2>1. a + i \in 1..size
    BY <1>1
  <2> QED BY <2>1, <1>2, <1>4
<1> QED BY <1>3, <1>4, <1>5, Zenon DEF a, b, S

(* Of a file that has the size it was planned for, both clients send the   *)
(* same pieces.                                                            *)
LEMMA PayloadIsPiece ==
  ASSUME NEW p \in Puts, NEW size \in Nat, NEW f \in 0..(NumFragments(size) - 1),
         Client[p] = "kvctl" => size > 0
  PROVE  /\ Payload(p, size, size, f) = Piece(p, size, f)
         /\ Len(Payload(p, size, size, f)) = EndOf(size, f) - f * Chunk
<1>3. Len(Piece(p, size, f)) = EndOf(size, f) - f * Chunk
  BY PieceProperties
<1>1. CASE Client[p] = "kvctl"
  <2>1. Len(Split(File(p, size))) = NumFragments(size)
    BY <1>1, SplitChunks
  <2>2. Split(File(p, size))[f + 1] = Piece(p, size, f)
    BY <2>1, SplitChunks
  <2>3. Payload(p, size, size, f) = Split(File(p, size))[f + 1]
    BY <1>1, Zenon DEF Payload
  <2> QED BY <2>2, <2>3, <1>3
<1>2. CASE Client[p] # "kvctl"
  <2>1. Payload(p, size, size, f) = Cut(File(p, size), size, f)
    BY <1>2 DEF Payload
  <2>2. Len(File(p, size)) = size
    BY FileIsSequence
  <2>3. Cut(File(p, size), size, f) = Piece(p, size, f)
    BY <2>2, PlanSpan DEF Cut, Piece
  <2> QED BY <2>1, <2>3, <1>3
<1> QED BY <1>1, <1>2

(* Whatever a client sends is a fragment.                                  *)
LEMMA PayloadIsFragment ==
  ASSUME NEW p \in Puts, NEW size \in Lengths, NEW length \in Lengths,
         NEW f \in 0..(NumFragments(size) - 1),
         Client[p] = "harness" => length = size,
         Client[p] = "kvctl" => f < Len(Split(File(p, length)))
  PROVE  [put |-> p, data |-> Payload(p, size, length, f)] \in Fragments
<1>0. /\ Chunk \in Nat \ {0} /\ size \in Nat /\ length \in Nat /\ MaxFile \in Nat
      /\ size <= MaxFile /\ length <= MaxFile /\ Client[p] \in {"kvctl", "harness"}
  BY LengthsBounded, TransfersAssumption
<1>1. f \in 0..(NumFragments(length) - 1) /\ Payload(p, size, length, f) = Piece(p, length, f)
  <2>1. CASE Client[p] = "kvctl"
    <3>1. f \in Nat /\ f < Len(Split(File(p, length)))
      BY <2>1
    <3>2. length > 0 /\ Len(Split(File(p, length))) = NumFragments(length)
      BY <3>1, <1>0, SplitChunks
    <3>3. NumFragments(length) \in Nat
      BY <1>0, NumFragmentsBounds
    <3>4. f \in 0..(Len(Split(File(p, length))) - 1)
      BY <3>1, <3>2, <3>3
    <3>5. Split(File(p, length))[f + 1] = Piece(p, length, f)
      BY <3>4, <1>0, SplitChunks
    <3>6. Payload(p, size, length, f) = Split(File(p, length))[f + 1]
      BY <2>1, Zenon DEF Payload
    <3> QED BY <3>2, <3>4, <3>5, <3>6
  <2>2. CASE Client[p] = "harness"
    BY <2>2, <1>0, PayloadIsPiece
  <2> QED BY <2>1, <2>2, <1>0
<1> DEFINE k == EndOf(length, f) - f * Chunk
           x == Piece(p, length, f)
<1>2. k \in 0..Chunk
  BY <1>0, <1>1, PlanSpan
<1>3. x \in [1..k -> Puts \X (1..length)]
  BY <1>0, <1>1, PieceProperties
<1> HIDE DEF k, x
<1>4. x \in [1..k -> Bytes]
  <2>1. Puts \X (1..length) \subseteq Bytes
    BY <1>0 DEF Bytes
  <2> QED BY <1>3, <2>1
<1>5. x \in UNION {[1..n -> Bytes] : n \in 0..Chunk}
  BY <1>2, <1>4
<1> QED BY <1>1, <1>5 DEF Fragments, x

(* The pieces of a file, one after the other, are the file: what is to be  *)
(* said of Split and PutValue, and of kvctl get.                           *)
LEMMA PiecesMakeFile ==
  ASSUME NEW p \in Puts, NEW size \in Nat
  PROVE  FlattenSeq([i \in 1..NumFragments(size) |-> Piece(p, size, i - 1)]) = File(p, size)
<1> DEFINE n == NumFragments(size)
           file == File(p, size)
           S == Puts \X (1..size)
           parts == [i \in 1..n |-> Piece(p, size, i - 1)]
<1>1. n \in Nat \ {0} /\ Len(parts) = n
  BY NumFragmentsBounds
<1>2. file \in Seq(S) /\ Len(file) = size
  BY FileIsSequence
<1>3. ASSUME NEW i \in 1..n
      PROVE  /\ parts[i] = Slice(file, (i - 1) * Chunk, EndOf(size, i - 1))
             /\ (i - 1) * Chunk \in Nat /\ EndOf(size, i - 1) \in Nat
             /\ (i - 1) * Chunk <= EndOf(size, i - 1) /\ EndOf(size, i - 1) <= size
             /\ i = 1 => (i - 1) * Chunk = 0
             /\ i > 1 => EndOf(size, i - 2) = (i - 1) * Chunk
             /\ i = n => EndOf(size, i - 1) = size
  <2>1. i - 1 \in 0..(n - 1) /\ (i - 1) - 1 = i - 2
    BY <1>1
  <2>2. parts[i] = Slice(file, (i - 1) * Chunk, EndOf(size, i - 1))
    BY DEF Piece
  <2>3. i = 1 => i - 1 = 0
    OBVIOUS
  <2>4. i > 1 => i - 1 > 0
    BY <1>1
  <2>5. i = n => i - 1 = n - 1
    OBVIOUS
  <2>6. /\ (i - 1) * Chunk \in Nat /\ EndOf(size, i - 1) \in Nat
        /\ (i - 1) * Chunk <= EndOf(size, i - 1) /\ EndOf(size, i - 1) <= size
    BY <2>1, PlanSpan
  <2>7. i - 1 = 0 => (i - 1) * Chunk = 0
    BY <2>1, PlanSpan
  <2>8. i - 1 > 0 => EndOf(size, (i - 1) - 1) = (i - 1) * Chunk
    BY <2>1, PlanSpan
  <2>9. i - 1 = n - 1 => EndOf(size, i - 1) = size
    BY <2>1, PlanSpan
  <2> HIDE DEF parts, file, n
  <2> QED BY <2>1, <2>2, <2>3, <2>4, <2>5, <2>6, <2>7, <2>8, <2>9
<1>4. PICK g : /\ FlattenSeq(parts) = g[n]
               /\ \A i \in 1..n : g[i] = IF i = 1 THEN parts[i] ELSE g[i-1] \o parts[i]
  <2> HIDE DEF parts, n
  <2> QED BY <1>1, FlattenSeqJoins
<1> HIDE DEF parts, file, n, S
<1> DEFINE Bad == {i \in 1..n : g[i] # Slice(file, 0, EndOf(size, i - 1))}
<1>5. ASSUME Bad # {} PROVE FALSE
  <2>0. Bad \in SUBSET Nat
    OBVIOUS
  <2>1. PICK m \in Bad : \A k \in Bad : m <= k
    BY <1>5, <2>0, LeastNatural, Zenon
  <2>2. m \in 1..n /\ g[m] # Slice(file, 0, EndOf(size, m - 1))
    BY <2>1
  <2>3. CASE m = 1
    <3>1. g[1] = parts[1]
      BY <1>4, <2>2, <2>3
    <3>2. parts[1] = Slice(file, 0, EndOf(size, 1 - 1))
      BY <1>3, <2>2, <2>3
    <3> QED BY <3>1, <3>2, <2>2, <2>3
  <2>4. CASE m > 1
    <3>1. m - 1 \in 1..n /\ m - 1 \notin Bad /\ (m - 1) - 1 = m - 2
      <4>1. m - 1 \in 1..n /\ ~ (m <= m - 1) /\ (m - 1) - 1 = m - 2
        BY <2>2, <2>4, <1>1
      <4> HIDE DEF Bad
      <4> QED BY <4>1, <2>1
    <3>2. g[m-1] = Slice(file, 0, (m - 1) * Chunk)
      BY <3>1, <1>3, <2>2, <2>4
    <3>3. g[m] = g[m-1] \o parts[m]
      <4>1. m # 1
        BY <2>2, <2>4
      <4> QED BY <4>1, <1>4, <2>2, Zenon
    <3>4. parts[m] = Slice(file, (m - 1) * Chunk, EndOf(size, m - 1))
      BY <1>3, <2>2
    <3>5. Slice(file, 0, (m - 1) * Chunk) \o Slice(file, (m - 1) * Chunk, EndOf(size, m - 1))
            = Slice(file, 0, EndOf(size, m - 1))
      BY <1>2, <1>3, <2>2, SlicesJoin
    <3> QED BY <3>2, <3>3, <3>4, <3>5, <2>2
  <2> QED BY <2>2, <2>3, <2>4, <1>1
<1>6. g[n] = Slice(file, 0, size)
  BY <1>1, <1>3, <1>5, n \in 1..n
<1>7. Slice(file, 0, size) = file
  BY <1>2, SubSeqFull DEF Slice
<1>8. FlattenSeq(parts) = file
  BY <1>4, <1>6, <1>7
<1> QED BY <1>8, Zenon DEF file, parts, n

(* Both downloads of a file whose every fragment arrived as it was sent    *)
(* return the file.                                                        *)
LEMMA PiecesAreRead ==
  ASSUME NEW p \in Puts, NEW size \in Nat, NEW got,
         \A f \in 0..(NumFragments(size) - 1) : got[f].data = Piece(p, size, f)
  PROVE  KvctlFile(got, size) = File(p, size) /\ HarnessFile(got, size) = File(p, size)
<1>0. Chunk \in Nat \ {0} /\ NumFragments(size) \in Nat \ {0}
  BY TransfersAssumption, NumFragmentsBounds
<1>1. KvctlFile(got, size) = File(p, size)
  <2>1. \A i \in 1..NumFragments(size) : got[i - 1].data = Piece(p, size, i - 1)
    BY <1>0
  <2>2. [i \in 1..NumFragments(size) |-> got[i - 1].data]
           = [i \in 1..NumFragments(size) |-> Piece(p, size, i - 1)]
    BY <2>1
  <2> QED BY <2>2, PiecesMakeFile, Zenon DEF KvctlFile
<1>2. ASSUME NEW i \in 1..size
      PROVE  LET data == got[(i - 1) \div Chunk].data
                 at == 1 + ((i - 1) % Chunk)
             IN  (IF at <= Len(data) THEN data[at] ELSE <<0, 0>>) = <<p, i>>
  <2> DEFINE f == (i - 1) \div Chunk
             r == (i - 1) % Chunk
             n == NumFragments(size)
             b == EndOf(size, f)
  <2>1. f \in Nat /\ r \in Nat /\ r < Chunk /\ i - 1 = Chunk * f + r
    BY <1>0, Quotient, i - 1 \in Nat
  <2>2. n \in Nat \ {0} /\ size <= Chunk * n /\ size > 0
    BY <1>0, NumFragmentsBounds
  <2> HIDE DEF f, r, n
  <2>3. f \in 0..(n - 1)
    <3>1. Chunk * f < Chunk * n
      <4>1. Chunk * f \in Nat /\ Chunk * n \in Nat
        BY <2>1, <2>2, <1>0, SMT
      <4> QED BY <4>1, <2>1, <2>2
    <3> QED BY <3>1, <2>1, <2>2, <1>0, MultiplesApart
  <2>4. /\ f * Chunk \in Nat /\ f * Chunk = Chunk * f /\ b \in Nat
    BY <2>2, <2>3, FragmentSpan DEF n
  <2>5. f = n - 1 => b = size
    BY <2>2, <2>3, FragmentSpan DEF n
  <2>6. f # n - 1 => b = f * Chunk + Chunk
    BY <2>2, <2>3, FragmentSpan DEF n
  <2> HIDE DEF b
  <2>7. 1 + r \in 1..(b - f * Chunk) /\ f * Chunk + (1 + r) = i
    BY <2>1, <2>2, <2>3, <2>4, <2>5, <2>6, <1>0
  <2>8. got[f].data = Piece(p, size, f)
    BY <2>3 DEF n
  <2>9. Len(got[f].data) = b - f * Chunk /\ got[f].data[1 + r] = <<p, f * Chunk + (1 + r)>>
    BY <2>3, <2>7, <2>8, PieceProperties DEF n, b
  <2>10. 1 + r <= Len(got[f].data) /\ got[f].data[1 + r] = <<p, i>>
    BY <2>7, <2>9, <2>1, <2>4
  <2> QED BY <2>10, Zenon DEF f, r
<1>3. HarnessFile(got, size) = File(p, size)
  <2> DEFINE read(i) == LET data == got[(i - 1) \div Chunk].data
                            at == 1 + ((i - 1) % Chunk)
                        IN  IF at <= Len(data) THEN data[at] ELSE <<0, 0>>
  <2>1. HarnessFile(got, size) = [i \in 1..size |-> read(i)]
    BY Zenon DEF HarnessFile
  <2>2. \A i \in 1..size : read(i) = <<p, i>>
    BY <1>2
  <2> HIDE DEF read
  <2> QED BY <2>1, <2>2 DEF File
<1> QED BY <1>1, <1>3

(***************************************************************************)
(* One put by itself: what the steps of its client keep.                   *)
(***************************************************************************)

PlannedOf(r) == 0..(NumFragments(r.size) - 1)
Chunks(p, r) == Len(Split(File(p, r.length)))
Reached(r, f) == ToSet(r.addrs[f]) \ r.missed[f]

(* Nothing has been sent before the file is cut.                           *)
SendingBegins(r) ==
  r.pc \in {"idle", "planned"} => \A f \in Indexes : r.sending[f] = "no"

(* What is sent has addresses, all different.                              *)
PlanPlaced(r) ==
  /\ \A f \in Indexes : IsInjective(r.addrs[f]) /\ r.missed[f] \subseteq ToSet(r.addrs[f])
  /\ \A f \in Indexes : r.sending[f] # "no" => r.addrs[f] # << >>
  /\ r.pc = "planned" => \A f \in PlannedOf(r) : r.addrs[f] # << >>

(* Only planned fragments are sent, and kvctl has cut each of them; the    *)
(* harness cuts a value that has the size it planned.                      *)
SentAsPlanned(p, r) ==
  /\ Client[p] = "harness" \/ r.pc \in {"idle", "planned"} => r.length = r.size
  /\ \A f \in Indexes : r.sending[f] # "no" =>
       f \in PlannedOf(r) /\ (Client[p] = "kvctl" => f < Chunks(p, r))

(* A put that panics, or ends well, has what it needs for it.              *)
EndsForAReason(p, r) ==
  /\ r.pc = "panic" => Client[p] = "kvctl" /\ Chunks(p, r) < NumFragments(r.size)
  /\ r.pc = "sending" /\ Client[p] = "kvctl" => NumFragments(r.size) <= Chunks(p, r)
  /\ r.pc = "ok" => \A f \in PlannedOf(r) : r.sending[f] = "ok"

(* An upload that ends well has missed few enough addresses.               *)
QuorumsAnswer(r) ==
  \A f \in Indexes : r.sending[f] = "ok" =>
    Cardinality(Reached(r, f)) >= Least(Quorum, Len(r.addrs[f]))

GoodPut(p, r) ==
  /\ r \in PutState
  /\ SendingBegins(r) /\ PlanPlaced(r) /\ SentAsPlanned(p, r)
  /\ EndsForAReason(p, r) /\ QuorumsAnswer(r)

Idle(r) == \A f \in Indexes : r.sending[f] \notin {"sent", "fanout"}
IsOver(r) == r.pc \in {"idle", "ok", "error", "panic"} /\ Idle(r)

(* How a put goes on from r to s: a plan stays, what is cut stays, results *)
(* stay, and a put that is over stays as it is.                            *)
GoesOn(r, s) ==
  /\ r.pc # "idle" =>
       s.pc # "idle" /\ s.size = r.size /\ s.addrs = r.addrs /\ s.alone = r.alone
  /\ \A f \in Indexes : r.sending[f] # "no" => s.sending[f] # "no" /\ s.length = r.length
  /\ \A f \in Indexes : r.sending[f] = "ok" => s.sending[f] = "ok" /\ s.missed[f] = r.missed[f]
  /\ r.pc = "ok" => s.pc = "ok"
  /\ IsOver(r) => s.pc = "planned" \/ IsOver(s)

(* No upload of r has succeeded, or reached its primary, in the step to s. *)
Quiet(r, s) ==
  \A f \in Indexes : s.sending[f] \in {"fanout", "ok"} =>
    s.sending[f] = r.sending[f] /\ s.missed[f] = r.missed[f]

(* Put p goes on, the others stay as they are.                             *)
Moves(p) ==
  /\ put' \in [Puts -> PutState]
  /\ \A q \in Puts \ {p} : put'[q] = put[q]
  /\ GoodPut(p, put'[p]) /\ GoesOn(put[p], put'[p])

(* The nodes of a list that is not empty.                                  *)
LEMMA HeadAndTail ==
  ASSUME NEW a \in Seq(Nodes), a # << >>
  PROVE  /\ Head(a) \in Nodes /\ ToSet(Tail(a)) \subseteq Nodes
         /\ ToSet(a) = {Head(a)} \cup ToSet(Tail(a))
         /\ IsInjective(a) => Head(a) \notin ToSet(Tail(a))
         /\ ToSet(Tail(a)) = {} => Len(a) = 1
<1> DEFINE t == Tail(a)
<1>1. Len(a) \in Nat \ {0} /\ Head(a) = a[1] /\ DOMAIN a = 1..Len(a)
  OBVIOUS
<1>2. t \in Seq(Nodes) /\ Len(t) = Len(a) - 1 /\ \A i \in 1..(Len(a) - 1) : t[i] = a[i + 1]
  BY HeadTailProperties
<1> HIDE DEF t
<1>3. DOMAIN t = 1..(Len(a) - 1)
  BY <1>2
<1>4. \A i \in 1..Len(a) : i = 1 \/ (i - 1 \in 1..(Len(a) - 1) /\ (i - 1) + 1 = i)
  BY <1>1
<1>5. \A i \in 1..(Len(a) - 1) : i + 1 \in 1..Len(a) /\ i + 1 # 1
  BY <1>1
<1>6. ToSet(t) = {a[i + 1] : i \in 1..(Len(a) - 1)}
  BY <1>2, <1>3 DEF ToSet
<1>7. ToSet(a) = {a[i] : i \in 1..Len(a)}
  BY <1>1 DEF ToSet
<1>8. ToSet(a) = {Head(a)} \cup ToSet(t)
  <2>1. ASSUME NEW x \in ToSet(a) PROVE x \in {Head(a)} \cup ToSet(t)
    <3>1. PICK i \in 1..Len(a) : x = a[i]
      BY <1>7
    <3> QED BY <3>1, <1>1, <1>4, <1>6
  <2>2. ASSUME NEW x \in {Head(a)} \cup ToSet(t) PROVE x \in ToSet(a)
    BY <1>1, <1>5, <1>6, <1>7, 1 \in 1..Len(a)
  <2> QED BY <2>1, <2>2
<1>9. IsInjective(a) => Head(a) \notin ToSet(t)
  BY <1>1, <1>5, <1>6, 1 \in 1..Len(a) DEF IsInjective
<1>10. ToSet(t) = {} => Len(a) = 1
  <2> SUFFICES ASSUME Len(a) # 1 PROVE ToSet(t) # {}
    OBVIOUS
  <2>1. 1 \in 1..(Len(a) - 1)
    BY <1>1
  <2> QED BY <2>1, <1>6
<1>11. ToSet(t) \subseteq Nodes
  BY <1>2, <1>3 DEF ToSet
<1> QED BY <1>1, <1>8, <1>9, <1>10, <1>11 DEF t

(* With a node up in the catalogue every fragment gets an address.         *)
LEMMA SomeNodeIsPlaced ==
  ASSUME NEW ranking \in Seq(Nodes), IsInjective(ranking), Range(ranking) = Nodes,
         NEW up \in SUBSET Nodes, up # {}
  PROVE  Place(ranking, up, RF) # << >>
<1> DEFINE kept == FilterLive(ranking, up)
           m == IF Len(kept) < RF THEN Len(kept) ELSE RF
<1>0. RF \in Nat \ {0}
  BY TransfersAssumption
<1>1. kept \in Seq(Nodes) /\ Range(kept) = up
  BY FilterLiveProperties
<1>2. Place(ranking, up, RF) = SubSeq(kept, 1, m)
  BY DEF Place, Truncate
<1> HIDE DEF kept
<1>3. kept # << >>
  <2> SUFFICES ASSUME kept = << >> PROVE FALSE
    OBVIOUS
  <2>1. DOMAIN kept = {}
    OBVIOUS
  <2> QED BY <2>1, <1>1 DEF Range
<1>4. Len(kept) \in Nat /\ Len(kept) > 0
  BY <1>1, <1>3
<1>5. m \in Nat /\ m > 0 /\ m <= Len(kept)
  BY <1>0, <1>4
<1> HIDE DEF m
<1>6. Len(SubSeq(kept, 1, m)) = m
  BY <1>1, <1>5
<1> QED BY <1>2, <1>5, <1>6

(* A put that is refused, fails, or is committed.                          *)
LEMMA PcChanges ==
  ASSUME put \in [Puts -> PutState], NEW p \in Puts, GoodPut(p, put[p]),
         NEW c \in {"ok", "error"},
         \/ put[p].pc = "idle" /\ c = "error"
         \/ put[p].pc = "sending" /\ (c = "ok" => AllUploaded(p)),
         put' = [put EXCEPT ![p].pc = c]
  PROVE  Moves(p) /\ Quiet(put[p], put'[p]) /\ put'[p].pc # "planned"
<1> DEFINE r == put[p]
           s == [r EXCEPT !.pc = c]
<1>1. put' = [put EXCEPT ![p] = s]
  OBVIOUS
<1>2. /\ r \in PutState /\ SendingBegins(r) /\ PlanPlaced(r) /\ SentAsPlanned(p, r)
      /\ EndsForAReason(p, r) /\ QuorumsAnswer(r)
  BY DEF GoodPut
<1>3. /\ s \in PutState /\ s.pc = c /\ s.size = r.size /\ s.length = r.length
      /\ s.alone = r.alone /\ s.addrs = r.addrs /\ s.sending = r.sending
      /\ s.missed = r.missed
  BY <1>2 DEF PutState
<1>4. c = "ok" => \A f \in PlannedOf(r) : r.sending[f] = "ok"
  BY DEF AllUploaded, Planned, PlannedOf
<1>5. \/ r.pc = "idle" /\ c = "error"
      \/ r.pc = "sending"
  OBVIOUS
<1> HIDE DEF r, s
<1>6. GoodPut(p, s)
  <2>1. SendingBegins(s) /\ PlanPlaced(s) /\ QuorumsAnswer(s)
    BY <1>2, <1>3 DEF SendingBegins, PlanPlaced, QuorumsAnswer, Reached
  <2>2. SentAsPlanned(p, s)
    BY <1>2, <1>3 DEF SentAsPlanned, PlannedOf, Chunks
  <2>3. EndsForAReason(p, s)
    BY <1>2, <1>3, <1>4 DEF EndsForAReason, PlannedOf, Chunks
  <2> QED BY <1>3, <2>1, <2>2, <2>3 DEF GoodPut
<1>7. GoesOn(r, s)
  BY <1>3, <1>5 DEF GoesOn, IsOver, Idle
<1>8. Quiet(r, s) /\ s.pc # "planned"
  BY <1>3 DEF Quiet
<1>9. put' \in [Puts -> PutState] /\ put'[p] = s /\ \A q \in Puts \ {p} : put'[q] = put[q]
  BY <1>1, <1>3
<1> QED BY <1>6, <1>7, <1>8, <1>9 DEF Moves, r

LEMMA NoPutTypes ==
  /\ NoPut \in PutState /\ NoPut.pc = "idle" /\ NoPut.length = NoPut.size
  /\ \A f \in Indexes : /\ NoPut.sending[f] = "no" /\ NoPut.missed[f] = {}
                         /\ NoPut.addrs[f] = << >>
<1>1. 0 \in Lengths /\ << >> \in Seq(Nodes)
  BY DEF Lengths
<1>2. [f \in Indexes |-> << >>] \in [Indexes -> Seq(Nodes)]
  BY <1>1
<1> QED BY <1>1, <1>2 DEF NoPut, PutState

(* PrepareKey gives every planned fragment its addresses.                  *)
LEMMA PrepareMoves ==
  ASSUME put \in [Puts -> PutState], NEW p \in Puts, GoodPut(p, put[p]),
         NEW size \in Sizes[p], Prepare(p, size)
  PROVE  /\ Moves(p) /\ entry' = p /\ put[p].pc = "idle"
         /\ \A f \in Indexes : put'[p].sending[f] = "no"
         /\ put'[p].alone = \A q \in Puts \ {p} : Over(q)
         /\ put'[p].pc = "planned"
<1>1. PICK up \in Views \ {{}} : Plan(p, size, up)
  BY DEF Prepare
<1> DEFINE r == put[p]
           alone == \A q \in Puts \ {p} : Over(q)
           addrs == [f \in Indexes |->
                       IF f < NumFragments(size) THEN Place(Ranking[f], up, RF) ELSE << >>]
           s == [NoPut EXCEPT !.pc = "planned", !.size = size, !.length = size,
                              !.alone = alone, !.addrs = addrs]
<1>2. put' = [put EXCEPT ![p] = s] /\ entry' = p
  BY <1>1, Zenon DEF Plan
<1>3. size \in Lengths /\ up \in SUBSET Nodes /\ up # {}
  BY TransfersAssumption DEF Lengths
<1>4. ASSUME NEW f \in Indexes
      PROVE  /\ addrs[f] \in Seq(Nodes) /\ IsInjective(addrs[f])
             /\ f < NumFragments(size) => addrs[f] # << >>
  <2>1. Ranking[f] \in Seq(Nodes) /\ IsInjective(Ranking[f]) /\ Range(Ranking[f]) = Nodes
        /\ RF \in Nat
    BY TransfersAssumption
  <2>2. CASE f < NumFragments(size)
    <3>1. addrs[f] = Place(Ranking[f], up, RF)
      BY <2>2
    <3>2. Place(Ranking[f], up, RF) # << >>
      BY <2>1, <1>3, SomeNodeIsPlaced
    <3>3. Place(Ranking[f], up, RF) \in Seq(Nodes) /\ IsInjective(Place(Ranking[f], up, RF))
      BY <2>1, PlaceWellFormed DEF WellFormed
    <3> QED BY <3>1, <3>2, <3>3
  <2>3. CASE ~ (f < NumFragments(size))
    <3>1. addrs[f] = << >>
      BY <2>3
    <3>2. IsInjective(<< >>)
      BY DEF IsInjective
    <3> QED BY <3>1, <3>2, <2>3
  <2> QED BY <2>2, <2>3
<1>5. alone \in BOOLEAN
  OBVIOUS
<1>6. addrs \in [Indexes -> Seq(Nodes)]
  BY <1>4
<1> HIDE DEF alone, addrs
<1>7. /\ s \in PutState /\ s.pc = "planned" /\ s.size = size /\ s.length = size
      /\ s.alone = alone /\ s.addrs = addrs
      /\ \A f \in Indexes : s.sending[f] = "no" /\ s.missed[f] = {}
  <2>1. /\ NoPut \in PutState
        /\ \A f \in Indexes : NoPut.sending[f] = "no" /\ NoPut.missed[f] = {}
    BY NoPutTypes
  <2> QED BY <2>1, <1>3, <1>5, <1>6 DEF PutState
<1>8. r.pc = "idle" /\ SendingBegins(r)
  BY DEF Prepare, GoodPut
<1> HIDE DEF s, r
<1>9. GoodPut(p, s)
  <2>1. SendingBegins(s) /\ QuorumsAnswer(s)
    BY <1>7 DEF SendingBegins, QuorumsAnswer
  <2>2. PlanPlaced(s)
    <3>1. \A f \in PlannedOf(s) : f \in Indexes /\ f < NumFragments(size)
      <4>1. size \in Nat /\ NumFragments(size) \in Nat
        BY <1>3, LengthsBounded, NumFragmentsBounds
      <4> QED BY <4>1, <1>3, <1>7, PlannedAreIndexes DEF PlannedOf
    <3> QED BY <3>1, <1>4, <1>7 DEF PlanPlaced
  <2>3. SentAsPlanned(p, s) /\ EndsForAReason(p, s)
    BY <1>7 DEF SentAsPlanned, EndsForAReason
  <2> QED BY <1>7, <2>1, <2>2, <2>3 DEF GoodPut
<1>10. GoesOn(r, s)
  <2>1. \A f \in Indexes : r.sending[f] = "no"
    BY <1>8 DEF SendingBegins
  <2> QED BY <2>1, <1>7, <1>8 DEF GoesOn
<1>11. put' \in [Puts -> PutState] /\ put'[p] = s /\ \A q \in Puts \ {p} : put'[q] = put[q]
  BY <1>2, <1>7
<1> QED BY <1>2, <1>7, <1>8, <1>9, <1>10, <1>11 DEF Moves, r, alone

(* Split cuts a whole number of chunks.                                    *)
LEMMA ChunksAreCounted ==
  ASSUME NEW p \in Puts, NEW length \in Lengths, NEW size \in Lengths
  PROVE  Len(Split(File(p, length))) \in Nat /\ NumFragments(size) \in Nat \ {0}
<1>1. length \in Nat /\ size \in Nat
  BY LengthsBounded
<1> QED BY <1>1, SplitChunks, NumFragmentsBounds

(* kvctl cuts the file and starts its uploads.                             *)
LEMMA SendKvctlMoves ==
  ASSUME put \in [Puts -> PutState], NEW p \in Puts, GoodPut(p, put[p]),
         NEW length \in Lengths, SendKvctl(p, length)
  PROVE  Moves(p) /\ Quiet(put[p], put'[p]) /\ put'[p].pc # "planned"
<1> DEFINE r == put[p]
           n == Len(Split(File(p, length)))
           pc == IF n < NumFragments(r.size) THEN "panic" ELSE "sending"
           sending == [f \in Indexes |-> IF f \in Started(p, n) THEN "sent" ELSE "no"]
           s == [r EXCEPT !.pc = pc, !.length = length, !.sending = sending]
<1>1. put' = [put EXCEPT ![p].pc = pc, ![p].length = length, ![p].sending = sending]
  BY DEF SendKvctl
<1>2. /\ r \in PutState /\ SendingBegins(r) /\ PlanPlaced(r) /\ r.pc = "planned"
      /\ Client[p] = "kvctl"
  BY DEF GoodPut, SendKvctl
<1>3. \A f \in Indexes : f \in Started(p, n) => f \in PlannedOf(r) /\ f < n
  BY DEF Started, Planned, PlannedOf
<1>4. n \in Nat /\ NumFragments(r.size) \in Nat
  BY <1>2, ChunksAreCounted DEF PutState
<1>5. /\ pc \in {"panic", "sending"}
      /\ pc = "panic" => n < NumFragments(r.size)
      /\ pc = "sending" => NumFragments(r.size) <= n
  BY <1>4
<1>6. /\ sending \in [Indexes -> {"no", "sent"}]
      /\ \A f \in Indexes : sending[f] # "no" => f \in PlannedOf(r) /\ f < n
  BY <1>3
<1> HIDE DEF pc, sending
<1>7. put' = [put EXCEPT ![p] = s]
  BY <1>1
<1>8. /\ s \in PutState /\ s.pc = pc /\ s.size = r.size /\ s.length = length
      /\ s.alone = r.alone /\ s.addrs = r.addrs /\ s.sending = sending
      /\ s.missed = r.missed
  <2>1. sending \in [Indexes -> {"no", "sent", "fanout", "ok", "failed"}]
    BY <1>6
  <2>2. r \in PutState /\ pc \in {"panic", "sending"}
    BY <1>2, <1>5
  <2> HIDE DEF r, n
  <2> QED BY <2>1, <2>2 DEF PutState
<1>9. Chunks(p, s) = n /\ PlannedOf(s) = PlannedOf(r)
  BY <1>8 DEF Chunks, PlannedOf
<1> HIDE DEF r, s, n
<1>10. GoodPut(p, s)
  <2>1. SendingBegins(s) /\ QuorumsAnswer(s)
    BY <1>5, <1>6, <1>8 DEF SendingBegins, QuorumsAnswer
  <2>2. PlanPlaced(s)
    BY <1>2, <1>5, <1>6, <1>8 DEF PlanPlaced
  <2>3. SentAsPlanned(p, s)
    BY <1>2, <1>5, <1>6, <1>8, <1>9 DEF SentAsPlanned
  <2>4. EndsForAReason(p, s)
    BY <1>2, <1>5, <1>8, <1>9 DEF EndsForAReason
  <2> QED BY <1>8, <2>1, <2>2, <2>3, <2>4 DEF GoodPut
<1>11. GoesOn(r, s)
  BY <1>2, <1>5, <1>8 DEF GoesOn, SendingBegins, IsOver
<1>12. Quiet(r, s) /\ s.pc # "planned"
  BY <1>5, <1>6, <1>8 DEF Quiet
<1>13. put' \in [Puts -> PutState] /\ put'[p] = s /\ \A q \in Puts \ {p} : put'[q] = put[q]
  BY <1>7, <1>8
<1> QED BY <1>10, <1>11, <1>12, <1>13 DEF Moves, r

(* PutValue starts its uploads.                                            *)
LEMMA SendHarnessMoves ==
  ASSUME put \in [Puts -> PutState], NEW p \in Puts, GoodPut(p, put[p]), SendHarness(p)
  PROVE  Moves(p) /\ Quiet(put[p], put'[p]) /\ put'[p].pc # "planned"
<1> DEFINE r == put[p]
           sending == [f \in Indexes |-> IF f \in Planned(p) THEN "sent" ELSE "no"]
           s == [r EXCEPT !.pc = "sending", !.sending = sending]
<1>1. put' = [put EXCEPT ![p].pc = "sending", ![p].sending = sending]
  BY DEF SendHarness
<1>2. /\ r \in PutState /\ SendingBegins(r) /\ PlanPlaced(r) /\ SentAsPlanned(p, r)
      /\ r.pc = "planned" /\ Client[p] = "harness"
  BY DEF GoodPut, SendHarness
<1>3. /\ sending \in [Indexes -> {"no", "sent"}]
      /\ \A f \in Indexes : sending[f] # "no" => f \in PlannedOf(r)
  BY DEF Planned, PlannedOf
<1> HIDE DEF sending
<1>4. put' = [put EXCEPT ![p] = s]
  BY <1>1
<1>5. /\ s \in PutState /\ s.pc = "sending" /\ s.size = r.size /\ s.length = r.length
      /\ s.alone = r.alone /\ s.addrs = r.addrs /\ s.sending = sending
      /\ s.missed = r.missed
  <2>1. sending \in [Indexes -> {"no", "sent", "fanout", "ok", "failed"}]
    BY <1>3
  <2>2. r \in PutState
    BY <1>2
  <2> HIDE DEF r
  <2> QED BY <2>1, <2>2 DEF PutState
<1> HIDE DEF r, s
<1>6. GoodPut(p, s)
  <2>1. SendingBegins(s) /\ QuorumsAnswer(s)
    BY <1>3, <1>5 DEF SendingBegins, QuorumsAnswer
  <2>2. PlanPlaced(s)
    BY <1>2, <1>3, <1>5 DEF PlanPlaced
  <2>3. SentAsPlanned(p, s) /\ EndsForAReason(p, s)
    BY <1>2, <1>3, <1>5 DEF SentAsPlanned, PlannedOf, EndsForAReason
  <2> QED BY <1>5, <2>1, <2>2, <2>3 DEF GoodPut
<1>7. GoesOn(r, s)
  BY <1>2, <1>5 DEF GoesOn, SendingBegins, IsOver
<1>8. Quiet(r, s) /\ s.pc # "planned"
  BY <1>3, <1>5 DEF Quiet
<1>9. put' \in [Puts -> PutState] /\ put'[p] = s /\ \A q \in Puts \ {p} : put'[q] = put[q]
  BY <1>4, <1>5
<1> QED BY <1>6, <1>7, <1>8, <1>9 DEF Moves, r

(* An upload that is sent finds no primary, or is stored there.            *)
LEMMA UploadAdvances ==
  ASSUME put \in [Puts -> PutState], NEW p \in Puts, GoodPut(p, put[p]),
         NEW f \in Indexes, put[p].sending[f] = "sent", NEW result \in {"failed", "fanout"},
         put' = [put EXCEPT ![p].sending[f] = result]
  PROVE  /\ Moves(p) /\ (result = "failed" => Quiet(put[p], put'[p]))
         /\ put'[p].pc # "planned" /\ put'[p] = [put[p] EXCEPT !.sending[f] = result]
<1> DEFINE r == put[p]
           s == [r EXCEPT !.sending[f] = result]
<1>1. put' = [put EXCEPT ![p] = s]
  OBVIOUS
<1>2. /\ r \in PutState /\ SendingBegins(r) /\ PlanPlaced(r) /\ SentAsPlanned(p, r)
      /\ EndsForAReason(p, r) /\ QuorumsAnswer(r) /\ r.sending[f] = "sent"
  BY DEF GoodPut
<1>3. /\ s \in PutState /\ s.pc = r.pc /\ s.size = r.size /\ s.length = r.length
      /\ s.alone = r.alone /\ s.addrs = r.addrs /\ s.missed = r.missed
      /\ s.sending[f] = result /\ \A h \in Indexes \ {f} : s.sending[h] = r.sending[h]
  BY <1>2 DEF PutState
<1> HIDE DEF r, s
<1>4. r.pc \notin {"idle", "planned"}
  BY <1>2 DEF SendingBegins
<1>5. r.pc # "ok"
  BY <1>2 DEF EndsForAReason, SentAsPlanned
<1>6. GoodPut(p, s)
  <2>1. SendingBegins(s) /\ PlanPlaced(s)
    BY <1>2, <1>3, <1>4 DEF SendingBegins, PlanPlaced
  <2>2. QuorumsAnswer(s)
    BY <1>2, <1>3 DEF QuorumsAnswer, Reached
  <2>3. SentAsPlanned(p, s)
    BY <1>2, <1>3 DEF SentAsPlanned, PlannedOf, Chunks
  <2>4. EndsForAReason(p, s)
    BY <1>2, <1>3, <1>5 DEF EndsForAReason, PlannedOf, Chunks
  <2> QED BY <1>3, <2>1, <2>2, <2>3, <2>4 DEF GoodPut
<1>7. GoesOn(r, s)
  BY <1>2, <1>3, <1>4, <1>5 DEF GoesOn, IsOver, Idle
<1>8. result = "failed" => Quiet(r, s)
  BY <1>2, <1>3 DEF Quiet
<1>9. put' \in [Puts -> PutState] /\ put'[p] = s /\ \A q \in Puts \ {p} : put'[q] = put[q]
  BY <1>1, <1>3
<1> QED BY <1>3, <1>4, <1>6, <1>7, <1>8, <1>9 DEF Moves, r, s

(* The primary has tried its replicas.                                     *)
LEMMA FanOutMoves ==
  ASSUME put \in [Puts -> PutState], NEW p \in Puts, GoodPut(p, put[p]),
         NEW f \in Indexes, NEW reached \in SUBSET Nodes, FanOut(p, f, reached)
  PROVE  /\ Moves(p) /\ put'[p].pc # "planned"
         /\ \A h \in Indexes \ {f} : /\ put'[p].sending[h] = put[p].sending[h]
                                     /\ put'[p].missed[h] = put[p].missed[h]
         /\ put'[p].sending[f] \in {"ok", "failed"} /\ put'[p].addrs = put[p].addrs
         /\ Reached(put'[p], f) = {Primary(p, f)} \cup reached
<1> DEFINE r == put[p]
           a == r.addrs[f]
           result == IF Primary(p, f) \in alive /\ QuorumReached(p, f, reached)
                     THEN "ok" ELSE "failed"
           missed == Replicas(p, f) \ reached
           s == [r EXCEPT !.sending[f] = result, !.missed[f] = missed]
<1>1. put' = [put EXCEPT ![p].sending[f] = result, ![p].missed[f] = missed]
  BY DEF FanOut
<1>2. /\ r \in PutState /\ SendingBegins(r) /\ PlanPlaced(r) /\ SentAsPlanned(p, r)
      /\ EndsForAReason(p, r) /\ QuorumsAnswer(r) /\ r.sending[f] = "fanout"
  BY DEF GoodPut, FanOut
<1>3. a \in Seq(Nodes) /\ a # << >> /\ IsInjective(a)
  BY <1>2 DEF PlanPlaced, PutState
<1>4. Primary(p, f) = Head(a) /\ Replicas(p, f) = ToSet(Tail(a))
  BY Zenon DEF Primary, Replicas, Addrs
<1>5. /\ Head(a) \in Nodes /\ Replicas(p, f) \subseteq Nodes
      /\ ToSet(a) = {Head(a)} \cup Replicas(p, f) /\ Head(a) \notin Replicas(p, f)
      /\ Replicas(p, f) = {} => Len(a) = 1
  BY <1>3, <1>4, HeadAndTail
<1>6. reached \subseteq Replicas(p, f)
  BY DEF FanOut
<1>7. missed \in SUBSET Nodes /\ missed \subseteq ToSet(a)
      /\ ToSet(a) \ missed = {Head(a)} \cup reached
  BY <1>5, <1>6
<1>8. result \in {"ok", "failed"}
  OBVIOUS
<1>9. result = "ok" => Cardinality(ToSet(a) \ missed) >= Least(Quorum, Len(a))
  <2>1. IsFiniteSet(reached) /\ Cardinality(reached) \in Nat
    BY TransfersAssumption, FS_Subset, FS_CardinalityType
  <2>2. Head(a) \notin reached
    BY <1>5, <1>6
  <2>3. Cardinality(reached \cup {Head(a)}) = Cardinality(reached) + 1
    BY <2>1, <2>2, FS_AddElement
  <2>4. {Head(a)} \cup reached = reached \cup {Head(a)}
    OBVIOUS
  <2>5. Cardinality(ToSet(a) \ missed) = Cardinality(reached) + 1
    BY <2>3, <2>4, <1>7
  <2>6. Quorum \in Nat \ {0} /\ Len(a) \in Nat
    BY <1>3, TransfersAssumption
  <2>7. result = "ok" => Replicas(p, f) = {} \/ 1 + Cardinality(reached) >= Quorum
    BY DEF QuorumReached
  <2> HIDE DEF result, missed, a, r
  <2>8. Replicas(p, f) = {} => Len(a) = 1
    BY <1>5 DEF a, r
  <2>9. Least(Quorum, Len(a)) <= Quorum /\ Least(Quorum, Len(a)) <= Len(a)
        /\ Least(Quorum, Len(a)) \in Nat
    BY <2>6 DEF Least
  <2> DEFINE c == Cardinality(reached)
             least == Least(Quorum, Len(a))
  <2>10. c \in Nat /\ least \in Nat /\ least <= Quorum /\ least <= Len(a)
         /\ Cardinality(ToSet(a) \ missed) = c + 1
    BY <2>1, <2>5, <2>9
  <2>11. result = "ok" => Len(a) = 1 \/ 1 + c >= Quorum
    BY <2>7, <2>8
  <2> HIDE DEF c, least
  <2>12. ASSUME result = "ok" PROVE c + 1 >= least
    <3>1. c \in Nat /\ least \in Nat /\ Quorum \in Nat /\ least <= Quorum /\ least <= Len(a)
      BY <2>6, <2>10
    <3>2. CASE Len(a) = 1
      <4>1. least <= 1
        BY <3>1, <3>2
      <4> QED BY <4>1, <3>1
    <3>3. CASE 1 + c >= Quorum
      BY <3>1, <3>3
    <3> QED BY <2>11, <2>12, <3>2, <3>3
  <2> QED BY <2>10, <2>12 DEF least
<1> HIDE DEF result, missed
<1>10. put' = [put EXCEPT ![p] = s]
  BY <1>1
<1>11. /\ s \in PutState /\ s.pc = r.pc /\ s.size = r.size /\ s.length = r.length
       /\ s.alone = r.alone /\ s.addrs = r.addrs
       /\ s.sending[f] = result /\ s.missed[f] = missed
       /\ \A h \in Indexes \ {f} : s.sending[h] = r.sending[h] /\ s.missed[h] = r.missed[h]
  <2>1. r \in PutState /\ missed \in SUBSET Nodes /\ result \in {"ok", "failed"}
    BY <1>2, <1>7, <1>8
  <2> HIDE DEF r
  <2> QED BY <2>1 DEF PutState
<1>12. ToSet(s.addrs[f]) \ s.missed[f] = {Primary(p, f)} \cup reached
  BY <1>4, <1>7, <1>11
<1>13. s.addrs[f] = a
  BY <1>11
<1> HIDE DEF r, s, a
<1>14. r.pc \notin {"idle", "planned"}
  BY <1>2 DEF SendingBegins
<1>15. r.pc # "ok"
  BY <1>2 DEF EndsForAReason, SentAsPlanned
<1>16. GoodPut(p, s)
  <2>1. SendingBegins(s)
    BY <1>11, <1>14 DEF SendingBegins
  <2>2. PlanPlaced(s)
    <3>1. \A h \in Indexes : /\ IsInjective(s.addrs[h]) /\ s.missed[h] \subseteq ToSet(s.addrs[h])
                             /\ s.sending[h] # "no" => s.addrs[h] # << >>
      <4> SUFFICES ASSUME NEW h \in Indexes
                   PROVE  /\ IsInjective(s.addrs[h]) /\ s.missed[h] \subseteq ToSet(s.addrs[h])
                          /\ s.sending[h] # "no" => s.addrs[h] # << >>
        OBVIOUS
      <4>1. CASE h = f
        BY <4>1, <1>3, <1>7, <1>11, <1>13
      <4>2. CASE h # f
        BY <4>2, <1>2, <1>11 DEF PlanPlaced
      <4> QED BY <4>1, <4>2
    <3> QED BY <3>1, <1>11, <1>14 DEF PlanPlaced
  <2>3. QuorumsAnswer(s)
    <3> SUFFICES ASSUME NEW h \in Indexes, s.sending[h] = "ok"
                 PROVE  Cardinality(Reached(s, h)) >= Least(Quorum, Len(s.addrs[h]))
      BY DEF QuorumsAnswer
    <3>1. CASE h = f
      BY <3>1, <1>9, <1>11, <1>13 DEF Reached
    <3>2. CASE h # f
      BY <3>2, <1>2, <1>11 DEF QuorumsAnswer, Reached
    <3> QED BY <3>1, <3>2
  <2>4. SentAsPlanned(p, s)
    BY <1>2, <1>11 DEF SentAsPlanned, PlannedOf, Chunks
  <2>5. EndsForAReason(p, s)
    BY <1>2, <1>11, <1>15 DEF EndsForAReason, PlannedOf, Chunks
  <2> QED BY <1>11, <2>1, <2>2, <2>3, <2>4, <2>5 DEF GoodPut
<1>17. GoesOn(r, s)
  BY <1>2, <1>8, <1>11, <1>14, <1>15 DEF GoesOn, IsOver, Idle
<1>18. put' \in [Puts -> PutState] /\ put'[p] = s /\ \A q \in Puts \ {p} : put'[q] = put[q]
  BY <1>10, <1>11
<1> QED BY <1>8, <1>11, <1>12, <1>14, <1>16, <1>17, <1>18 DEF Moves, Reached, r

(***************************************************************************)
(* All puts together                                                       *)
(***************************************************************************)

PutsGood == put \in [Puts -> PutState] /\ \A p \in Puts : GoodPut(p, put[p])

(* A step that changes nothing but one put, no upload of which succeeds.   *)
PutGoesOn ==
  /\ UNCHANGED <<entry, get, stored>>
  /\ \/ put' = put
     \/ \E p \in Puts :
          Moves(p) /\ Quiet(put[p], put'[p]) /\ put'[p].pc # "planned"

GetGoesOn(g) ==
  \/ GetEntry(g)
  \/ \E f \in Indexes :
       DownloadFails(g, f) \/ \E n \in Nodes : Download(g, f, n)

(* The steps, by what they change.                                         *)
LEMMA Steps ==
  ASSUME PutsGood, [Next]_vars
  PROVE  \/ PutGoesOn
         \/ \E p \in Puts : \E size \in Sizes[p] : Prepare(p, size)
         \/ \E p \in Puts, f \in Indexes : StoreAtPrimary(p, f)
         \/ \E p \in Puts, f \in Indexes, reached \in SUBSET Nodes : FanOut(p, f, reached)
         \/ Delete
         \/ \E g \in Gets : GetGoesOn(g)
<1>1. CASE UNCHANGED vars
  BY <1>1 DEF vars, PutGoesOn
<1>2. ASSUME NEW p \in Puts,
             \/ \E length \in Lengths : SendKvctl(p, length)
             \/ \E f \in Indexes : Unreachable(p, f)
             \/ PrepareRefused(p) \/ SendHarness(p) \/ PutFails(p)
             \/ Commit(p) \/ CommitFails(p)
      PROVE  PutGoesOn
  <2>0. put \in [Puts -> PutState] /\ GoodPut(p, put[p])
    BY DEF PutsGood
  <2>1. ASSUME NEW length \in Lengths, SendKvctl(p, length) PROVE PutGoesOn
    <3>1. Moves(p) /\ Quiet(put[p], put'[p]) /\ put'[p].pc # "planned"
      BY <2>0, <2>1, SendKvctlMoves
    <3> QED BY <3>1, <2>1 DEF SendKvctl, PutGoesOn
  <2>2. ASSUME NEW f \in Indexes, Unreachable(p, f) PROVE PutGoesOn
    <3>1. put[p].sending[f] = "sent" /\ put' = [put EXCEPT ![p].sending[f] = "failed"]
      BY <2>2 DEF Unreachable
    <3>2. Moves(p) /\ Quiet(put[p], put'[p]) /\ put'[p].pc # "planned"
      BY <2>0, <3>1, UploadAdvances
    <3> QED BY <3>2, <2>2 DEF Unreachable, PutGoesOn
  <2>3. CASE PrepareRefused(p)
    <3>1. Moves(p) /\ Quiet(put[p], put'[p]) /\ put'[p].pc # "planned"
      BY <2>0, <2>3, PcChanges DEF PrepareRefused
    <3> QED BY <3>1, <2>3 DEF PrepareRefused, PutGoesOn
  <2>4. CASE SendHarness(p)
    <3>1. Moves(p) /\ Quiet(put[p], put'[p]) /\ put'[p].pc # "planned"
      BY <2>0, <2>4, SendHarnessMoves
    <3> QED BY <3>1, <2>4 DEF SendHarness, PutGoesOn
  <2>5. CASE PutFails(p)
    <3>1. Moves(p) /\ Quiet(put[p], put'[p]) /\ put'[p].pc # "planned"
      BY <2>0, <2>5, PcChanges DEF PutFails
    <3> QED BY <3>1, <2>5 DEF PutFails, PutGoesOn
  <2>6. CASE Commit(p)
    <3>1. Moves(p) /\ Quiet(put[p], put'[p]) /\ put'[p].pc # "planned"
      BY <2>0, <2>6, PcChanges DEF Commit
    <3> QED BY <3>1, <2>6 DEF Commit, PutGoesOn
  <2>7. CASE CommitFails(p)
    <3>1. PICK lost \in BOOLEAN :
            put' = [put EXCEPT ![p].pc =
                      IF Client[p] = "harness" /\ ~ lost THEN "ok" ELSE "error"]
      BY <2>7 DEF CommitFails
    <3>2. PICK c \in {"ok", "error"} : put' = [put EXCEPT ![p].pc = c]
      BY <3>1
    <3>3. put[p].pc = "sending" /\ AllUploaded(p)
      BY <2>7 DEF CommitFails
    <3>4. Moves(p) /\ Quiet(put[p], put'[p]) /\ put'[p].pc # "planned"
      BY <2>0, <3>2, <3>3, PcChanges
    <3> QED BY <3>4, <2>7 DEF CommitFails, PutGoesOn
  <2> QED BY <1>2, <2>1, <2>2, <2>3, <2>4, <2>5, <2>6, <2>7
<1>3. ASSUME NEW n \in Nodes, Kill(n) \/ Restore(n) PROVE PutGoesOn
  BY <1>3 DEF Kill, Restore, PutGoesOn
<1>4. CASE Next
  BY <1>4, <1>2, <1>3 DEF Next, GetGoesOn
<1> QED BY <1>1, <1>4

LEMMA GoesOnReflexive ==
  ASSUME NEW r PROVE GoesOn(r, r)
BY DEF GoesOn

(* A step keeps what is true of each put, and every put goes on.           *)
LEMMA PutsGoOn ==
  ASSUME PutsGood, [Next]_vars
  PROVE  PutsGood' /\ \A q \in Puts : GoesOn(put[q], put'[q])
<1>0. put \in [Puts -> PutState] /\ \A p \in Puts : GoodPut(p, put[p])
  BY DEF PutsGood
<1>1. (put' = put) \/ \E p \in Puts : Moves(p)
  <2>1. CASE PutGoesOn
    BY <2>1 DEF PutGoesOn
  <2>2. ASSUME NEW p \in Puts, NEW size \in Sizes[p], Prepare(p, size) PROVE Moves(p)
    BY <2>2, <1>0, PrepareMoves
  <2>3. ASSUME NEW p \in Puts, NEW f \in Indexes, StoreAtPrimary(p, f) PROVE Moves(p)
    BY <2>3, <1>0, UploadAdvances DEF StoreAtPrimary
  <2>4. ASSUME NEW p \in Puts, NEW f \in Indexes, NEW reached \in SUBSET Nodes,
               FanOut(p, f, reached)
        PROVE  Moves(p)
    BY <2>4, <1>0, FanOutMoves
  <2>5. CASE Delete
    BY <2>5 DEF Delete
  <2>6. ASSUME NEW g \in Gets, GetGoesOn(g) PROVE put' = put
    BY <2>6 DEF GetGoesOn, GetEntry, DownloadFails, Download
  <2> QED BY <2>1, <2>2, <2>3, <2>4, <2>5, <2>6, Steps
<1>2. CASE put' = put
  <2>1. \A q \in Puts : GoesOn(put[q], put[q])
    BY GoesOnReflexive
  <2> QED BY <1>2, <1>0, <2>1 DEF PutsGood
<1>3. ASSUME NEW p \in Puts, Moves(p)
      PROVE  PutsGood' /\ \A q \in Puts : GoesOn(put[q], put'[q])
  <2>1. \A q \in Puts : GoodPut(q, put'[q])
    BY <1>3, <1>0, Zenon DEF Moves
  <2>2. \A q \in Puts : GoesOn(put[q], put'[q])
    BY <1>3, GoesOnReflexive, Zenon DEF Moves
  <2> QED BY <1>3, <2>1, <2>2 DEF Moves, PutsGood
<1> QED BY <1>1, <1>2, <1>3

(* What put p sends for fragment f.                                        *)
Frag(p, f) == [put |-> p, data |-> Payload(p, put[p].size, put[p].length, f)]

(* It is fixed once it is on its way.                                      *)
LEMMA FragStays ==
  ASSUME PutsGood, [Next]_vars, NEW q \in Puts, NEW f \in Indexes, put[q].sending[f] # "no"
  PROVE  Frag(q, f)' = Frag(q, f) /\ put'[q].sending[f] # "no"
<1>1. GoesOn(put[q], put'[q]) /\ GoodPut(q, put[q])
  BY PutsGoOn DEF PutsGood
<1>2. put[q].pc # "idle"
  BY <1>1 DEF GoodPut, SendingBegins
<1>3. /\ put'[q].size = put[q].size /\ put'[q].length = put[q].length
      /\ put'[q].sending[f] # "no"
  BY <1>1, <1>2 DEF GoesOn
<1> QED BY <1>3 DEF Frag

LEMMA FragIsFragment ==
  ASSUME PutsGood, NEW q \in Puts, NEW f \in Indexes, put[q].sending[f] # "no"
  PROVE  Frag(q, f) \in Fragments /\ Frag(q, f) # Nothing /\ Frag(q, f).put = q
<1>1. put[q] \in PutState /\ SentAsPlanned(q, put[q])
  BY DEF PutsGood, GoodPut
<1>2. /\ put[q].size \in Lengths /\ put[q].length \in Lengths
      /\ f \in 0..(NumFragments(put[q].size) - 1)
      /\ Client[q] = "harness" => put[q].length = put[q].size
      /\ Client[q] = "kvctl" => f < Len(Split(File(q, put[q].length)))
  BY <1>1 DEF PutState, SentAsPlanned, PlannedOf, Chunks
<1>3. Frag(q, f) \in Fragments
  BY <1>2, PayloadIsFragment DEF Frag
<1>4. Frag(q, f).put = q /\ Nothing.put = Absent /\ q # Absent
  BY TransfersAssumption DEF Frag, Nothing
<1> QED BY <1>3, <1>4

(***************************************************************************)
(* The key's entry                                                         *)
(***************************************************************************)

EntryKnown ==
  /\ entry \in Puts \cup {Absent}
  /\ \A p \in Puts : entry = p => put[p].pc # "idle"

(* While the key's entry is of a put that began alone no other put acts.   *)
OthersOver ==
  \A p \in Puts : entry = p /\ put[p].alone =>
    \A q \in Puts \ {p} : IsOver(put[q])

LEMMA OverIsOver ==
  ASSUME NEW q \in Puts
  PROVE  Over(q) => IsOver(put[q])
BY DEF Over, IsOver, InFlight, Idle

(* A step leaves the key's entry, prepares a put, or deletes the key.      *)
LEMMA EntrySteps ==
  ASSUME PutsGood, [Next]_vars
  PROVE  \/ entry' = entry /\ \A q \in Puts : put'[q] = put[q] \/ put'[q].pc # "planned"
         \/ entry' = Absent /\ put' = put
         \/ \E p \in Puts : /\ Moves(p) /\ entry' = p /\ put'[p].pc = "planned"
                            /\ put[p].pc = "idle"
                            /\ \A f \in Indexes : put'[p].sending[f] = "no"
                            /\ put'[p].alone = \A q \in Puts \ {p} : Over(q)
                            /\ UNCHANGED <<get, stored>>
<1>0. put \in [Puts -> PutState] /\ \A p \in Puts : GoodPut(p, put[p])
  BY DEF PutsGood
<1>1. CASE PutGoesOn
  BY <1>1 DEF PutGoesOn, Moves
<1>2. ASSUME NEW p \in Puts, NEW size \in Sizes[p], Prepare(p, size)
      PROVE  /\ Moves(p) /\ entry' = p /\ put'[p].pc = "planned" /\ put[p].pc = "idle"
             /\ \A f \in Indexes : put'[p].sending[f] = "no"
             /\ put'[p].alone = \A q \in Puts \ {p} : Over(q)
             /\ UNCHANGED <<get, stored>>
  <2>1. UNCHANGED <<get, stored>>
    BY <1>2 DEF Prepare
  <2> QED BY <2>1, <1>2, <1>0, PrepareMoves
<1>3. ASSUME NEW p \in Puts, NEW f \in Indexes, StoreAtPrimary(p, f)
      PROVE  entry' = entry /\ Moves(p) /\ put'[p].pc # "planned"
  BY <1>3, <1>0, UploadAdvances DEF StoreAtPrimary
<1>4. ASSUME NEW p \in Puts, NEW f \in Indexes, NEW reached \in SUBSET Nodes,
             FanOut(p, f, reached)
      PROVE  entry' = entry /\ Moves(p) /\ put'[p].pc # "planned"
  <2>1. entry' = entry
    BY <1>4 DEF FanOut
  <2> QED BY <2>1, <1>4, <1>0, FanOutMoves
<1>5. CASE Delete
  BY <1>5 DEF Delete
<1>6. ASSUME NEW g \in Gets, GetGoesOn(g) PROVE entry' = entry /\ put' = put
  BY <1>6 DEF GetGoesOn, GetEntry, DownloadFails, Download
<1>7. ASSUME NEW p \in Puts, Moves(p), put'[p].pc # "planned"
      PROVE  \A q \in Puts : put'[q] = put[q] \/ put'[q].pc # "planned"
  BY <1>7 DEF Moves
<1> QED BY <1>1, <1>2, <1>3, <1>4, <1>5, <1>6, <1>7, Steps

LEMMA EntryKnownStep ==
  ASSUME PutsGood, EntryKnown, [Next]_vars
  PROVE  EntryKnown'
<1>1. \A q \in Puts : GoesOn(put[q], put'[q])
  BY PutsGoOn
<1>2. CASE entry' = entry \/ entry' = Absent
  BY <1>1, <1>2, TransfersAssumption DEF EntryKnown, GoesOn
<1>3. ASSUME NEW p \in Puts, entry' = p, put'[p].pc = "planned" PROVE EntryKnown'
  BY <1>3 DEF EntryKnown
<1> QED BY <1>2, <1>3, EntrySteps

LEMMA OthersOverStep ==
  ASSUME PutsGood, EntryKnown, OthersOver, [Next]_vars
  PROVE  OthersOver'
<1>1. \A q \in Puts : GoesOn(put[q], put'[q])
  BY PutsGoOn
<1>2. ASSUME entry' = entry, \A q \in Puts : put'[q] = put[q] \/ put'[q].pc # "planned"
      PROVE  OthersOver'
  <2> SUFFICES ASSUME NEW p \in Puts, entry' = p, put'[p].alone, NEW q \in Puts \ {p}
               PROVE  IsOver(put'[q])
    BY DEF OthersOver
  <2>1. entry = p /\ put[p].pc # "idle"
    BY <1>2 DEF EntryKnown
  <2>2. put[p].alone
    BY <2>1, <1>1, Zenon DEF GoesOn
  <2>3. IsOver(put[q])
    BY <2>1, <2>2 DEF OthersOver
  <2>4. IsOver(put'[q]) \/ put'[q].pc = "planned"
    BY <2>3, <1>1, Zenon DEF GoesOn
  <2> QED BY <2>3, <2>4, <1>2
<1>3. CASE entry' = Absent
  BY <1>3, TransfersAssumption DEF OthersOver
<1>4. ASSUME NEW p \in Puts, Moves(p), entry' = p,
             put'[p].alone = \A q \in Puts \ {p} : Over(q)
      PROVE  OthersOver'
  <2> SUFFICES ASSUME put'[p].alone, NEW q \in Puts \ {p} PROVE IsOver(put'[q])
    BY <1>4 DEF OthersOver
  <2>1. Over(q)
    BY <1>4, Zenon
  <2>2. IsOver(put[q])
    BY <2>1, OverIsOver
  <2> QED BY <2>2, <1>4 DEF Moves
<1> QED BY <1>2, <1>3, <1>4, EntrySteps

(***************************************************************************)
(* What is stored                                                          *)
(***************************************************************************)

SomePutsFragment(x, f) ==
  \E q \in Puts : put[q].sending[f] # "no" /\ x = Frag(q, f)

(* Whatever a node stores some put has sent.                               *)
StoredFromPuts ==
  /\ stored \in [Nodes -> [Indexes -> Fragments]]
  /\ \A n \in Nodes, f \in Indexes :
       stored[n][f] # Nothing => SomePutsFragment(stored[n][f], f)

(* The primaries that are fanning out, and the addresses a successful      *)
(* upload has reached, store what the put whose entry the key has sent     *)
(* them, when it began alone.                                              *)
UploadsStored ==
  \A p \in Puts : entry = p /\ put[p].alone => \A f \in Indexes :
    /\ put[p].sending[f] = "fanout" => stored[Head(put[p].addrs[f])][f] = Frag(p, f)
    /\ put[p].sending[f] = "ok" => \A n \in Reached(put[p], f) : stored[n][f] = Frag(p, f)

(* Put p stores its fragment f at the nodes of targets.                    *)
Stores(p, f, targets) ==
  /\ stored' \in [Nodes -> [Indexes -> Fragments]]
  /\ \A n \in Nodes, h \in Indexes :
       stored'[n][h] = IF n \in targets /\ h = f THEN Frag(p, f) ELSE stored[n][h]
  /\ put[p].sending[f] \in {"sent", "fanout"} /\ UNCHANGED <<entry, get>>

LEMMA StoreAtPrimaryStores ==
  ASSUME PutsGood, stored \in [Nodes -> [Indexes -> Fragments]],
         NEW p \in Puts, NEW f \in Indexes, StoreAtPrimary(p, f)
  PROVE  Stores(p, f, {Primary(p, f)}) /\ Primary(p, f) \in Nodes
<1>1. put[p].sending[f] = "sent" /\ UNCHANGED <<entry, get>>
  BY DEF StoreAtPrimary
<1>2. put[p].addrs[f] \in Seq(Nodes) /\ put[p].addrs[f] # << >>
  BY <1>1 DEF PutsGood, GoodPut, PlanPlaced, PutState
<1>3. Primary(p, f) \in Nodes
  BY <1>2, HeadAndTail DEF Primary, Addrs
<1> DEFINE x == [put |-> p, data |-> Sent(p, f)]
           n0 == Primary(p, f)
<1>4. x = Frag(p, f) /\ Frag(p, f) \in Fragments
  BY <1>1, SentIsPayload, FragIsFragment DEF Frag
<1>5. stored' = [stored EXCEPT ![n0][f] = x]
  BY DEF StoreAtPrimary
<1> HIDE DEF x, n0
<1>6. x \in Fragments /\ n0 \in Nodes
  BY <1>3, <1>4 DEF n0
<1>7. stored' \in [Nodes -> [Indexes -> Fragments]]
  BY <1>5, <1>6
<1>8. \A n \in Nodes, h \in Indexes :
        stored'[n][h] = IF n = n0 /\ h = f THEN x ELSE stored[n][h]
  BY <1>5, <1>6
<1> QED BY <1>1, <1>3, <1>4, <1>7, <1>8 DEF Stores, n0

LEMMA FanOutStores ==
  ASSUME PutsGood, stored \in [Nodes -> [Indexes -> Fragments]],
         NEW p \in Puts, NEW f \in Indexes, NEW reached \in SUBSET Nodes, FanOut(p, f, reached)
  PROVE  Stores(p, f, reached)
<1>1. put[p].sending[f] = "fanout" /\ UNCHANGED <<entry, get>>
  BY DEF FanOut
<1> DEFINE x == [put |-> p, data |-> Sent(p, f)]
<1>2. x = Frag(p, f) /\ Frag(p, f) \in Fragments
  BY <1>1, SentIsPayload, FragIsFragment DEF Frag
<1>3. stored' = [n \in Nodes |->
        IF n \in reached THEN [stored[n] EXCEPT ![f] = x] ELSE stored[n]]
  BY DEF FanOut
<1> HIDE DEF x
<1>4. x \in Fragments
  BY <1>2
<1>5. stored' \in [Nodes -> [Indexes -> Fragments]]
  BY <1>3, <1>4
<1>6. \A n \in Nodes, h \in Indexes :
        stored'[n][h] = IF n \in reached /\ h = f THEN x ELSE stored[n][h]
  BY <1>3, <1>4
<1> QED BY <1>1, <1>2, <1>5, <1>6 DEF Stores

(* A step stores nothing, or one fragment of one put.                      *)
LEMMA StoreSteps ==
  ASSUME PutsGood, StoredFromPuts, [Next]_vars
  PROVE  \/ stored' = stored
         \/ \E p \in Puts, f \in Indexes, targets \in SUBSET Nodes : Stores(p, f, targets)
<1>0. stored \in [Nodes -> [Indexes -> Fragments]]
  BY DEF StoredFromPuts
<1>1. CASE PutGoesOn
  BY <1>1 DEF PutGoesOn
<1>2. ASSUME NEW p \in Puts, NEW size \in Sizes[p], Prepare(p, size) PROVE stored' = stored
  BY <1>2 DEF Prepare
<1>3. ASSUME NEW p \in Puts, NEW f \in Indexes, StoreAtPrimary(p, f)
      PROVE  \E targets \in SUBSET Nodes : Stores(p, f, targets)
  <2>1. Stores(p, f, {Primary(p, f)}) /\ {Primary(p, f)} \in SUBSET Nodes
    BY <1>0, <1>3, StoreAtPrimaryStores
  <2> QED BY <2>1
<1>4. ASSUME NEW p \in Puts, NEW f \in Indexes, NEW reached \in SUBSET Nodes,
             FanOut(p, f, reached)
      PROVE  Stores(p, f, reached)
  BY <1>0, <1>4, FanOutStores
<1>5. CASE Delete
  BY <1>5 DEF Delete
<1>6. ASSUME NEW g \in Gets, GetGoesOn(g) PROVE stored' = stored
  BY <1>6 DEF GetGoesOn, GetEntry, DownloadFails, Download
<1> QED BY <1>1, <1>2, <1>3, <1>4, <1>5, <1>6, Steps

LEMMA StoredFromPutsStep ==
  ASSUME PutsGood, StoredFromPuts, [Next]_vars
  PROVE  StoredFromPuts'
<1>1. ASSUME NEW n \in Nodes, NEW f \in Indexes, stored[n][f] # Nothing
      PROVE  \E q \in Puts : put'[q].sending[f] # "no" /\ stored[n][f] = Frag(q, f)'
  <2>1. SomePutsFragment(stored[n][f], f)
    BY <1>1 DEF StoredFromPuts
  <2>2. PICK q \in Puts : put[q].sending[f] # "no" /\ stored[n][f] = Frag(q, f)
    BY <2>1 DEF SomePutsFragment
  <2>3. Frag(q, f)' = Frag(q, f) /\ put'[q].sending[f] # "no"
    BY <2>2, FragStays
  <2> QED BY <2>2, <2>3
<1>2. CASE stored' = stored
  BY <1>1, <1>2 DEF StoredFromPuts, SomePutsFragment
<1>3. ASSUME NEW p \in Puts, NEW f \in Indexes, NEW targets \in SUBSET Nodes,
             Stores(p, f, targets)
      PROVE  StoredFromPuts'
  <2>1. Frag(p, f)' = Frag(p, f) /\ put'[p].sending[f] # "no"
    BY <1>3, FragStays DEF Stores
  <2>2. ASSUME NEW n \in Nodes, NEW h \in Indexes, stored'[n][h] # Nothing
        PROVE  \E q \in Puts : put'[q].sending[h] # "no" /\ stored'[n][h] = Frag(q, h)'
    <3>1. CASE n \in targets /\ h = f
      BY <3>1, <2>1, <1>3 DEF Stores
    <3>2. CASE ~ (n \in targets /\ h = f)
      <4>1. stored'[n][h] = stored[n][h]
        BY <3>2, <1>3 DEF Stores
      <4> QED BY <4>1, <2>2, <1>1
    <3> QED BY <3>1, <3>2
  <2>3. stored' \in [Nodes -> [Indexes -> Fragments]]
    BY <1>3 DEF Stores
  <2> QED BY <2>2, <2>3 DEF StoredFromPuts, SomePutsFragment
<1> QED BY <1>2, <1>3, StoreSteps

LEMMA UploadsStoredStep ==
  ASSUME PutsGood, EntryKnown, OthersOver, StoredFromPuts, UploadsStored, [Next]_vars
  PROVE  UploadsStored'
<1>0. /\ put \in [Puts -> PutState] /\ \A p \in Puts : GoodPut(p, put[p])
      /\ stored \in [Nodes -> [Indexes -> Fragments]]
  BY DEF PutsGood, StoredFromPuts
<1> SUFFICES ASSUME NEW p \in Puts, entry' = p, put'[p].alone, NEW h \in Indexes,
                    put'[p].sending[h] \in {"fanout", "ok"}
             PROVE  /\ put'[p].sending[h] = "fanout" =>
                         stored'[Head(put'[p].addrs[h])][h] = Frag(p, h)'
                    /\ put'[p].sending[h] = "ok" =>
                         \A n \in Reached(put'[p], h) : stored'[n][h] = Frag(p, h)'
  BY DEF UploadsStored
<1> DEFINE Goal == /\ put'[p].sending[h] = "fanout" =>
                         stored'[Head(put'[p].addrs[h])][h] = Frag(p, h)'
                   /\ put'[p].sending[h] = "ok" =>
                         \A n \in Reached(put'[p], h) : stored'[n][h] = Frag(p, h)'
<1>1. GoesOn(put[p], put'[p])
  BY PutsGoOn
(* The entry was p's before: what was stored stays so where p does not     *)
(* store, as long as the result is an old one.                             *)
<1>2. ASSUME entry = p
      PROVE  /\ put[p].alone /\ put'[p].addrs = put[p].addrs
             /\ \A q \in Puts \ {p} : IsOver(put[q])
  <2>1. put[p].pc # "idle"
    BY <1>2 DEF EntryKnown
  <2>2. put'[p].alone = put[p].alone /\ put'[p].addrs = put[p].addrs
    BY <2>1, <1>1 DEF GoesOn
  <2> QED BY <2>2, <1>2 DEF OthersOver
<1>3. ASSUME entry = p, put'[p].sending[h] = put[p].sending[h],
             put'[p].missed[h] = put[p].missed[h],
             \A n \in Nodes : stored'[n][h] = stored[n][h]
      PROVE  Goal
  <2>1. Frag(p, h)' = Frag(p, h)
    BY <1>3, FragStays
  <2>2. put[p].addrs[h] \in Seq(Nodes) /\ put[p].addrs[h] # << >>
    BY <1>0, <1>3 DEF GoodPut, PlanPlaced, PutState
  <2>3. Head(put[p].addrs[h]) \in Nodes /\ Reached(put[p], h) \subseteq Nodes
    <3>1. ToSet(put[p].addrs[h]) \subseteq Nodes
      BY <2>2, HeadAndTail
    <3> QED BY <3>1, <2>2 DEF Reached
  <2>4. Reached(put'[p], h) = Reached(put[p], h)
    BY <1>2, <1>3 DEF Reached
  <2>5. /\ put[p].sending[h] = "fanout" => stored[Head(put[p].addrs[h])][h] = Frag(p, h)
        /\ put[p].sending[h] = "ok" => \A n \in Reached(put[p], h) : stored[n][h] = Frag(p, h)
    BY <1>2, <1>3 DEF UploadsStored
  <2>6. ASSUME put'[p].sending[h] = "fanout"
        PROVE  stored'[Head(put'[p].addrs[h])][h] = Frag(p, h)'
    BY <2>1, <2>3, <2>5, <2>6, <1>2, <1>3
  <2>7. ASSUME put'[p].sending[h] = "ok", NEW n \in Reached(put'[p], h)
        PROVE  stored'[n][h] = Frag(p, h)'
    <3>1. n \in Reached(put[p], h) /\ n \in Nodes
      BY <2>3, <2>4, <2>7
    <3>2. stored[n][h] = Frag(p, h)
      BY <3>1, <2>5, <2>7, <1>3
    <3> QED BY <3>1, <3>2, <2>1, <1>3
  <2> QED BY <2>6, <2>7
<1> HIDE DEF Goal
<1>4. ASSUME PutGoesOn PROVE Goal
  <2>1. entry = p /\ stored' = stored
    BY <1>4 DEF PutGoesOn
  <2>2. put'[p] = put[p] \/ Quiet(put[p], put'[p])
    BY <1>4 DEF PutGoesOn, Moves
  <2>3. put'[p].sending[h] = put[p].sending[h] /\ put'[p].missed[h] = put[p].missed[h]
    BY <2>2 DEF Quiet
  <2> QED BY <2>1, <2>3, <1>3
<1>5. ASSUME NEW q \in Puts, NEW size \in Sizes[q], Prepare(q, size) PROVE FALSE
  BY <1>5, <1>0, PrepareMoves
<1>6. ASSUME NEW q \in Puts, NEW f \in Indexes, put[q].sending[f] \in {"sent", "fanout"},
             entry = p
      PROVE  q = p
  BY <1>6, <1>2 DEF IsOver, Idle
<1>7. ASSUME NEW q \in Puts, NEW f \in Indexes, StoreAtPrimary(q, f) PROVE Goal
  <2>1. Stores(q, f, {Primary(q, f)}) /\ Primary(q, f) \in Nodes
    BY <1>7, <1>0, StoreAtPrimaryStores
  <2>2. entry = p /\ put[q].sending[f] = "sent"
        /\ put' = [put EXCEPT ![q].sending[f] = "fanout"]
    BY <1>7 DEF StoreAtPrimary
  <2>3. q = p
    BY <2>2, <1>6
  <2>4. put'[p] = [put[p] EXCEPT !.sending[f] = "fanout"]
    BY <2>2, <2>3, <1>0, UploadAdvances
  <2>5. put[p] \in PutState
    BY <1>0
  <2>6. CASE h = f
    <3>1. put'[p].sending[h] = "fanout" /\ put'[p].addrs = put[p].addrs
      BY <2>4, <2>5, <2>6 DEF PutState
    <3>2. stored'[Primary(p, f)][f] = Frag(p, f)
      BY <2>1, <2>3 DEF Stores
    <3>3. Frag(p, f)' = Frag(p, f)
      BY <2>2, <2>3, FragStays
    <3>4. Primary(p, f) = Head(put'[p].addrs[f])
      BY <3>1 DEF Primary, Addrs
    <3> QED BY <3>1, <3>2, <3>3, <3>4, <2>6 DEF Goal
  <2>7. CASE h # f
    <3>1. put'[p].sending[h] = put[p].sending[h] /\ put'[p].missed[h] = put[p].missed[h]
      BY <2>4, <2>5, <2>7 DEF PutState
    <3>2. \A n \in Nodes : stored'[n][h] = stored[n][h]
      BY <2>1, <2>7 DEF Stores
    <3> QED BY <3>1, <3>2, <2>2, <1>3
  <2> QED BY <2>6, <2>7
<1>8. ASSUME NEW q \in Puts, NEW f \in Indexes, NEW reached \in SUBSET Nodes,
             FanOut(q, f, reached)
      PROVE  Goal
  <2>1. Stores(q, f, reached)
    BY <1>8, <1>0, FanOutStores
  <2>2. entry = p /\ put[q].sending[f] = "fanout"
    BY <1>8 DEF FanOut
  <2>3. q = p
    BY <2>2, <1>6
  <2>4. /\ \A i \in Indexes \ {f} : /\ put'[p].sending[i] = put[p].sending[i]
                                    /\ put'[p].missed[i] = put[p].missed[i]
        /\ put'[p].sending[f] \in {"ok", "failed"} /\ put'[p].addrs = put[p].addrs
        /\ Reached(put'[p], f) = {Primary(p, f)} \cup reached
    <3>1. put \in [Puts -> PutState] /\ GoodPut(q, put[q])
      BY <1>0
    <3>2. /\ \A i \in Indexes \ {f} : /\ put'[q].sending[i] = put[q].sending[i]
                                      /\ put'[q].missed[i] = put[q].missed[i]
          /\ put'[q].sending[f] \in {"ok", "failed"} /\ put'[q].addrs = put[q].addrs
          /\ Reached(put'[q], f) = {Primary(q, f)} \cup reached
      BY <3>1, <1>8, FanOutMoves
    <3> QED BY <3>2, <2>3
  <2>5. CASE h = f
    <3>1. Frag(p, f)' = Frag(p, f)
      BY <2>2, <2>3, FragStays
    <3>2. stored[Primary(p, f)][f] = Frag(p, f)
      BY <2>2, <2>3, <1>2 DEF UploadsStored, Primary, Addrs
    <3>3. Primary(p, f) \in Nodes
      <4>1. put[p].addrs[f] \in Seq(Nodes) /\ put[p].addrs[f] # << >>
        BY <1>0, <2>2, <2>3 DEF GoodPut, PlanPlaced, PutState
      <4> QED BY <4>1, HeadAndTail DEF Primary, Addrs
    <3>4. \A n \in Nodes : stored'[n][f] = IF n \in reached THEN Frag(p, f) ELSE stored[n][f]
      BY <2>1, <2>3 DEF Stores
    <3>5. \A n \in Reached(put'[p], f) : stored'[n][f] = Frag(p, f)'
      BY <3>1, <3>2, <3>3, <3>4, <2>4
    <3> QED BY <3>5, <2>4, <2>5 DEF Goal
  <2>6. CASE h # f
    <3>1. \A n \in Nodes : stored'[n][h] = stored[n][h]
      BY <2>1, <2>6 DEF Stores
    <3> QED BY <3>1, <2>2, <2>4, <2>6, <1>3
  <2> QED BY <2>5, <2>6
<1>9. ASSUME Delete PROVE FALSE
  BY <1>9, TransfersAssumption DEF Delete
<1>10. ASSUME NEW g \in Gets, GetGoesOn(g) PROVE Goal
  <2>1. UNCHANGED <<entry, put, stored>>
    BY <1>10 DEF GetGoesOn, GetEntry, DownloadFails, Download
  <2> QED BY <2>1, <1>3
<1>11. Goal
  BY <1>4, <1>5, <1>7, <1>8, <1>9, <1>10, Steps
<1> QED BY <1>11 DEF Goal

(***************************************************************************)
(* Gets                                                                    *)
(***************************************************************************)

(* Whatever has been downloaded some put has sent, and nothing has been    *)
(* before the entry is read.                                               *)
GotFromPuts ==
  /\ get \in [Gets -> GetState]
  /\ \A g \in Gets, f \in Indexes :
       /\ get[g].got[f] # Nothing => SomePutsFragment(get[g].got[f], f)
       /\ get[g].pc = "idle" => get[g].got[f] = Nothing

(* A get under way follows an entry; with that entry still the key's, a    *)
(* fragment from an address the acknowledged put has reached is that       *)
(* put's.                                                                  *)
GetsFollowEntries ==
  \A g \in Gets : get[g].pc = "run" =>
    /\ get[g].of \in Puts /\ put[get[g].of].pc # "idle"
    /\ get[g].acked => put[get[g].of].pc = "ok"
    /\ \A p \in Puts : get[g].of = p /\ get[g].acked /\ entry = p /\ put[p].alone =>
         \A f \in PlannedOf(put[p]) :
           get[g].got[f] # Nothing /\ get[g].from[f] \notin put[p].missed[f]
             => get[g].got[f] = Frag(p, f)

Begins(g) ==
  /\ get[g].pc = "idle" /\ entry \in Puts
  /\ get'[g].pc = "run" /\ get'[g].of = entry /\ get'[g].got = get[g].got
  /\ get'[g].acked = (put[entry].pc = "ok")

EndsBadly(g) ==
  /\ get'[g].pc = "error"
  /\ \A f \in Indexes : get'[g].got[f] \in {get[g].got[f], Nothing}

Receives(g, f, n) ==
  /\ get[g].pc = "run" /\ f \in Planned(get[g].of)
  /\ n \in ToSet(Addrs(get[g].of, f)) /\ stored[n][f] # Nothing
  /\ get'[g].of = get[g].of /\ get'[g].acked = get[g].acked
  /\ get'[g].got[f] = stored[n][f] /\ get'[g].from[f] = n
  /\ \A i \in Indexes \ {f} : /\ get'[g].got[i] = get[g].got[i]
                             /\ get'[g].from[i] = get[g].from[i]
  /\ get'[g].pc \in {"run", "ok"}
  /\ get'[g].pc = "ok" => \A i \in Planned(get[g].of) \ {f} : get[g].got[i] # Nothing

LEMMA NoGetTypes ==
  /\ NoGet \in GetState /\ NoGet.pc = "idle"
  /\ \A f \in Indexes : NoGet.got[f] = Nothing
<1>1. Nothing \in Fragments
  BY DEF Fragments
<1>2. [f \in Indexes |-> Nothing] \in [Indexes -> Fragments]
  BY <1>1
<1>3. [f \in Indexes |-> Absent] \in [Indexes -> Nodes \cup {Absent}]
  OBVIOUS
<1> QED BY <1>2, <1>3 DEF NoGet, GetState

LEMMA GetSteps ==
  ASSUME PutsGood, EntryKnown, StoredFromPuts, get \in [Gets -> GetState],
         NEW g \in Gets, GetGoesOn(g)
  PROVE  /\ get' \in [Gets -> GetState] /\ \A h \in Gets \ {g} : get'[h] = get[h]
         /\ UNCHANGED <<entry, put, stored>>
         /\ \/ Begins(g) \/ EndsBadly(g)
            \/ \E f \in Indexes, n \in Nodes : Receives(g, f, n)
<1> DEFINE r == get[g]
<1>0. r \in GetState /\ UNCHANGED <<entry, put, stored>>
  BY DEF GetGoesOn, GetEntry, DownloadFails, Download
<1>1. CASE GetEntry(g)
  <2>1. CASE entry = Absent
    <3> DEFINE s == [r EXCEPT !.pc = "error"]
    <3>1. get' = [get EXCEPT ![g] = s]
      BY <1>1, <2>1 DEF GetEntry
    <3>2. s \in GetState /\ s.pc = "error" /\ s.got = r.got
      BY <1>0 DEF GetState
    <3> HIDE DEF s
    <3>3. get' \in [Gets -> GetState] /\ get'[g] = s /\ \A h \in Gets \ {g} : get'[h] = get[h]
      BY <3>1, <3>2
    <3>4. EndsBadly(g)
      BY <3>2, <3>3 DEF EndsBadly
    <3> QED BY <3>3, <3>4, <1>0
  <2>2. CASE entry # Absent
    <3> DEFINE e == entry
               acked == put[e].pc = "ok"
               s == [r EXCEPT !.pc = "run", !.of = e, !.acked = acked]
    <3>1. get' = [get EXCEPT ![g] = s] /\ r.pc = "idle"
      BY <1>1, <2>2 DEF GetEntry
    <3>2. e \in Puts /\ acked \in BOOLEAN
      BY <2>2 DEF EntryKnown
    <3> HIDE DEF e, acked
    <3>3. s \in GetState /\ s.pc = "run" /\ s.got = r.got /\ s.of = e /\ s.acked = acked
      <4>1. r \in GetState
        BY <1>0
      <4> HIDE DEF r
      <4> QED BY <3>2, <4>1 DEF GetState
    <3> HIDE DEF s
    <3>4. get' \in [Gets -> GetState] /\ get'[g] = s /\ \A h \in Gets \ {g} : get'[h] = get[h]
      BY <3>1, <3>3
    <3>5. Begins(g)
      BY <3>1, <3>2, <3>3, <3>4 DEF Begins, e, acked
    <3> QED BY <3>4, <3>5, <1>0
  <2> QED BY <2>1, <2>2
<1>2. ASSUME NEW f \in Indexes, DownloadFails(g, f)
      PROVE  /\ get' \in [Gets -> GetState] /\ \A h \in Gets \ {g} : get'[h] = get[h]
             /\ EndsBadly(g)
  <2> DEFINE s == [NoGet EXCEPT !.pc = "error"]
  <2>1. get' = [get EXCEPT ![g] = s]
    BY <1>2 DEF DownloadFails
  <2>2. NoGet \in GetState /\ \A h \in Indexes : NoGet.got[h] = Nothing
    BY NoGetTypes
  <2>3. s \in GetState /\ s.pc = "error" /\ \A h \in Indexes : s.got[h] = Nothing
    BY <2>2 DEF GetState
  <2> HIDE DEF s
  <2>4. get' \in [Gets -> GetState] /\ get'[g] = s /\ \A h \in Gets \ {g} : get'[h] = get[h]
    BY <2>1, <2>3
  <2> QED BY <2>3, <2>4 DEF EndsBadly
<1>3. ASSUME NEW f \in Indexes, NEW n \in Nodes, Download(g, f, n)
      PROVE  /\ get' \in [Gets -> GetState] /\ \A h \in Gets \ {g} : get'[h] = get[h]
             /\ Receives(g, f, n)
  <2> DEFINE x == stored[n][f]
             pc == IF \A i \in Planned(r.of) \ {f} : r.got[i] # Nothing THEN "ok" ELSE "run"
             s == [r EXCEPT !.got[f] = x, !.from[f] = n, !.pc = pc]
  <2>1. get' = [get EXCEPT ![g].got[f] = x, ![g].from[f] = n, ![g].pc = pc]
    BY <1>3 DEF Download
  <2>2. /\ r.pc = "run" /\ f \in Planned(r.of) /\ x # Nothing
        /\ n \in Answers(f) /\ FirstAddr(Addrs(r.of, f), f, n)
    BY <1>3 DEF Download, Answers
  <2>3. n \in ToSet(Addrs(r.of, f))
    BY <2>2 DEF FirstAddr, ToSet
  <2>4. x \in Fragments /\ pc \in {"ok", "run"}
    BY DEF StoredFromPuts
  <2>5. pc = "ok" => \A i \in Planned(r.of) \ {f} : r.got[i] # Nothing
    OBVIOUS
  <2> HIDE DEF x, pc
  <2>6. get' = [get EXCEPT ![g] = s]
    BY <2>1
  <2>7. /\ s \in GetState /\ s.pc = pc /\ s.of = r.of /\ s.acked = r.acked
        /\ s.got[f] = x /\ s.from[f] = n
        /\ \A i \in Indexes \ {f} : s.got[i] = r.got[i] /\ s.from[i] = r.from[i]
    <3>1. r \in GetState
      BY <1>0
    <3> HIDE DEF r
    <3> QED BY <3>1, <2>4 DEF GetState
  <2> HIDE DEF s
  <2>8. get' \in [Gets -> GetState] /\ get'[g] = s /\ \A h \in Gets \ {g} : get'[h] = get[h]
    BY <2>6, <2>7
  <2>9. Receives(g, f, n)
    BY <2>2, <2>3, <2>4, <2>5, <2>7, <2>8 DEF Receives, x
  <2> QED BY <2>8, <2>9
<1> QED BY <1>0, <1>1, <1>2, <1>3 DEF GetGoesOn

LEMMA GetsUnchanged ==
  ASSUME PutsGood, [Next]_vars
  PROVE  get' = get \/ \E g \in Gets : GetGoesOn(g)
<1>1. PutGoesOn => get' = get
  BY DEF PutGoesOn
<1>2. ASSUME NEW p \in Puts, NEW size \in Sizes[p], Prepare(p, size) PROVE get' = get
  BY <1>2 DEF Prepare
<1>3. ASSUME NEW p \in Puts, NEW f \in Indexes, StoreAtPrimary(p, f) PROVE get' = get
  BY <1>3 DEF StoreAtPrimary
<1>4. ASSUME NEW p \in Puts, NEW f \in Indexes, NEW reached \in SUBSET Nodes,
             FanOut(p, f, reached)
      PROVE  get' = get
  BY <1>4 DEF FanOut
<1>5. Delete => get' = get
  BY DEF Delete
<1> QED BY <1>1, <1>2, <1>3, <1>4, <1>5, Steps

LEMMA GotFromPutsStep ==
  ASSUME PutsGood, EntryKnown, StoredFromPuts, GotFromPuts, [Next]_vars
  PROVE  GotFromPuts'
<1>0. get \in [Gets -> GetState]
  BY DEF GotFromPuts
<1>1. ASSUME NEW g \in Gets, NEW f \in Indexes, get[g].got[f] # Nothing
      PROVE  \E q \in Puts : put'[q].sending[f] # "no" /\ get[g].got[f] = Frag(q, f)'
  <2>1. PICK q \in Puts : put[q].sending[f] # "no" /\ get[g].got[f] = Frag(q, f)
    BY <1>1 DEF GotFromPuts, SomePutsFragment
  <2>2. Frag(q, f)' = Frag(q, f) /\ put'[q].sending[f] # "no"
    BY <2>1, FragStays
  <2> QED BY <2>1, <2>2
<1>2. ASSUME NEW n \in Nodes, NEW f \in Indexes, stored[n][f] # Nothing
      PROVE  \E q \in Puts : put'[q].sending[f] # "no" /\ stored[n][f] = Frag(q, f)'
  <2>1. PICK q \in Puts : put[q].sending[f] # "no" /\ stored[n][f] = Frag(q, f)
    BY <1>2 DEF StoredFromPuts, SomePutsFragment
  <2>2. Frag(q, f)' = Frag(q, f) /\ put'[q].sending[f] # "no"
    BY <2>1, FragStays
  <2> QED BY <2>1, <2>2
<1>3. CASE get' = get
  BY <1>1, <1>3 DEF GotFromPuts, SomePutsFragment
<1>4. ASSUME NEW g \in Gets, GetGoesOn(g) PROVE GotFromPuts'
  <2>0. /\ get' \in [Gets -> GetState] /\ \A h \in Gets \ {g} : get'[h] = get[h]
        /\ \/ Begins(g) \/ EndsBadly(g) \/ \E f \in Indexes, n \in Nodes : Receives(g, f, n)
    BY <1>0, <1>4, GetSteps
  <2>1. ASSUME NEW i \in Indexes
        PROVE  /\ get'[g].got[i] # Nothing =>
                    \E q \in Puts : put'[q].sending[i] # "no" /\ get'[g].got[i] = Frag(q, i)'
               /\ get'[g].pc # "idle"
    <3>1. CASE Begins(g)
      BY <3>1, <1>1 DEF Begins
    <3>2. CASE EndsBadly(g)
      <4>1. get'[g].got[i] \in {get[g].got[i], Nothing} /\ get'[g].pc = "error"
        BY <3>2 DEF EndsBadly
      <4> QED BY <4>1, <1>1
    <3>3. ASSUME NEW f \in Indexes, NEW n \in Nodes, Receives(g, f, n)
          PROVE  /\ get'[g].got[i] # Nothing =>
                      \E q \in Puts : put'[q].sending[i] # "no" /\ get'[g].got[i] = Frag(q, i)'
                 /\ get'[g].pc # "idle"
      <4>1. /\ get'[g].pc # "idle" /\ get'[g].got[f] = stored[n][f] /\ stored[n][f] # Nothing
            /\ i # f => get'[g].got[i] = get[g].got[i]
        BY <3>3 DEF Receives
      <4>2. CASE i = f
        BY <4>1, <4>2, <1>2
      <4>3. CASE i # f
        BY <4>1, <4>3, <1>1
      <4> QED BY <4>2, <4>3
    <3> QED BY <3>1, <3>2, <3>3, <2>0
  <2>2. ASSUME NEW h \in Gets, NEW i \in Indexes
        PROVE  /\ get'[h].got[i] # Nothing =>
                    \E q \in Puts : put'[q].sending[i] # "no" /\ get'[h].got[i] = Frag(q, i)'
               /\ get'[h].pc = "idle" => get'[h].got[i] = Nothing
    <3>1. CASE h = g
      BY <3>1, <2>1
    <3>2. CASE h # g
      <4>1. get'[h] = get[h]
        BY <3>2, <2>0
      <4>2. get[h].pc = "idle" => get[h].got[i] = Nothing
        BY DEF GotFromPuts
      <4> QED BY <4>1, <4>2, <1>1
    <3> QED BY <3>1, <3>2
  <2> QED BY <2>0, <2>2 DEF GotFromPuts, SomePutsFragment
<1> QED BY <1>3, <1>4, GetsUnchanged

(* A successful upload has its result and the addresses it missed for      *)
(* good.                                                                   *)
LEMMA AckedUploads ==
  ASSUME PutsGood, NEW p \in Puts, put[p].pc = "ok"
  PROVE  \A f \in PlannedOf(put[p]) : f \in Indexes /\ put[p].sending[f] = "ok"
<1>1. put[p] \in PutState /\ EndsForAReason(p, put[p])
  BY DEF PutsGood, GoodPut
<1>2. put[p].size \in Lengths
  BY <1>1 DEF PutState
<1>3. PlannedOf(put[p]) \subseteq Indexes
  BY <1>2, PlannedAreIndexes DEF PlannedOf
<1> QED BY <1>1, <1>3 DEF EndsForAReason

LEMMA GetsFollowStep ==
  ASSUME PutsGood, EntryKnown, StoredFromPuts, UploadsStored, GotFromPuts, GetsFollowEntries,
         [Next]_vars
  PROVE  GetsFollowEntries'
<1>0. get \in [Gets -> GetState] /\ stored \in [Nodes -> [Indexes -> Fragments]]
  BY DEF GotFromPuts, StoredFromPuts
<1> DEFINE Follows(g) ==
      /\ get'[g].of \in Puts /\ put'[get'[g].of].pc # "idle"
      /\ get'[g].acked => put'[get'[g].of].pc = "ok"
      /\ \A p \in Puts : get'[g].of = p /\ get'[g].acked /\ entry' = p /\ put'[p].alone =>
           \A f \in PlannedOf(put'[p]) :
             get'[g].got[f] # Nothing /\ get'[g].from[f] \notin put'[p].missed[f]
               => get'[g].got[f] = Frag(p, f)'
<1>1. SUFFICES ASSUME NEW g \in Gets, get'[g].pc = "run" PROVE Follows(g)
  BY DEF GetsFollowEntries
<1>2. ASSUME get'[g] = get[g] PROVE Follows(g)
  <2>1. PICK p \in Puts : get[g].of = p
    BY <1>1, <1>2 DEF GetsFollowEntries
  <2>2. /\ put[p].pc # "idle" /\ (get[g].acked => put[p].pc = "ok")
        /\ get[g].acked /\ entry = p /\ put[p].alone =>
             \A f \in PlannedOf(put[p]) :
               get[g].got[f] # Nothing /\ get[g].from[f] \notin put[p].missed[f]
                 => get[g].got[f] = Frag(p, f)
    BY <1>1, <1>2, <2>1 DEF GetsFollowEntries
  <2>3. GoesOn(put[p], put'[p])
    BY PutsGoOn
  <2>4. /\ put'[p].pc # "idle" /\ (put[p].pc = "ok" => put'[p].pc = "ok")
        /\ put'[p].alone = put[p].alone /\ put'[p].size = put[p].size
    BY <2>2, <2>3 DEF GoesOn
  <2>5. entry' = p => entry = p
    BY <2>2, TransfersAssumption, EntrySteps
  <2>6. ASSUME get'[g].acked, entry' = p, put'[p].alone, NEW f \in PlannedOf(put'[p]),
               get'[g].got[f] # Nothing, get'[g].from[f] \notin put'[p].missed[f]
        PROVE  get'[g].got[f] = Frag(p, f)'
    <3>1. f \in PlannedOf(put[p])
      BY <2>4, <2>6 DEF PlannedOf
    <3>2. f \in Indexes /\ put[p].sending[f] = "ok"
      BY <3>1, <2>2, <2>6, <1>2, AckedUploads
    <3>3. put'[p].missed[f] = put[p].missed[f]
      BY <3>2, <2>3 DEF GoesOn
    <3>4. get[g].got[f] = Frag(p, f)
      BY <3>1, <3>3, <2>2, <2>4, <2>5, <2>6, <1>2
    <3>5. Frag(p, f)' = Frag(p, f)
      BY <3>2, FragStays
    <3> QED BY <3>4, <3>5, <1>2
  <2> QED BY <2>1, <2>2, <2>4, <2>6, <1>2
<1>3. CASE get' = get
  BY <1>2, <1>3
<1>4. ASSUME NEW h \in Gets, GetGoesOn(h) PROVE Follows(g)
  <2>0. /\ \A i \in Gets \ {h} : get'[i] = get[i]
        /\ UNCHANGED <<entry, put, stored>>
        /\ \/ Begins(h) \/ EndsBadly(h) \/ \E f \in Indexes, n \in Nodes : Receives(h, f, n)
    BY <1>0, <1>4, GetSteps
  <2>1. CASE g # h
    BY <2>0, <2>1, <1>2
  <2>2. CASE g = h /\ Begins(h)
    <3>1. /\ entry \in Puts /\ get'[g].of = entry /\ get'[g].got = get[g].got
          /\ get'[g].acked = (put[entry].pc = "ok") /\ get[g].pc = "idle"
      BY <2>2 DEF Begins
    <3>2. put[entry].pc # "idle"
      BY <3>1 DEF EntryKnown
    <3>3. \A f \in Indexes : get'[g].got[f] = Nothing
      BY <3>1 DEF GotFromPuts
    <3>4. ASSUME NEW p \in Puts, get'[g].of = p, get'[g].acked, NEW f \in PlannedOf(put'[p])
          PROVE  get'[g].got[f] = Nothing
      <4>1. put[p].pc = "ok" /\ f \in PlannedOf(put[p])
        BY <3>1, <3>4, <2>0
      <4>2. f \in Indexes
        BY <4>1, AckedUploads
      <4> QED BY <4>2, <3>3
    <3> QED BY <3>1, <3>2, <3>4, <2>0
  <2>3. CASE g = h /\ EndsBadly(h)
    BY <2>3, <1>1 DEF EndsBadly
  <2>4. ASSUME g = h, NEW f \in Indexes, NEW n \in Nodes, Receives(g, f, n)
        PROVE  Follows(g)
    <3>1. /\ get[g].pc = "run" /\ get'[g].of = get[g].of /\ get'[g].acked = get[g].acked
          /\ n \in ToSet(Addrs(get[g].of, f))
          /\ get'[g].got[f] = stored[n][f] /\ get'[g].from[f] = n
          /\ \A i \in Indexes \ {f} : get'[g].got[i] = get[g].got[i] /\ get'[g].from[i] = get[g].from[i]
      BY <2>4 DEF Receives
    <3>2. PICK p \in Puts : get[g].of = p
      BY <3>1 DEF GetsFollowEntries
    <3>3. /\ put[p].pc # "idle" /\ (get[g].acked => put[p].pc = "ok")
          /\ get[g].acked /\ entry = p /\ put[p].alone =>
               \A i \in PlannedOf(put[p]) :
                 get[g].got[i] # Nothing /\ get[g].from[i] \notin put[p].missed[i]
                   => get[g].got[i] = Frag(p, i)
      BY <3>1, <3>2 DEF GetsFollowEntries
    <3>4. ASSUME get[g].acked, entry = p, put[p].alone, NEW i \in PlannedOf(put[p]),
                 get'[g].got[i] # Nothing, get'[g].from[i] \notin put[p].missed[i]
          PROVE  get'[g].got[i] = Frag(p, i)
      <4>1. i \in Indexes /\ put[p].sending[i] = "ok"
        BY <3>3, <3>4, AckedUploads
      <4>2. CASE i = f
        <5>1. n \in Reached(put[p], f)
          BY <4>2, <3>1, <3>2, <3>4 DEF Reached, Addrs
        <5>2. stored[n][f] = Frag(p, f)
          BY <5>1, <4>1, <4>2, <3>4 DEF UploadsStored
        <5> QED BY <5>2, <4>2, <3>1
      <4>3. CASE i # f
        BY <4>1, <4>3, <3>1, <3>3, <3>4
      <4> QED BY <4>2, <4>3
    <3>5. \A i \in Indexes : Frag(p, i)' = Frag(p, i)
      BY <2>0 DEF Frag
    <3>6. ASSUME get'[g].acked, entry' = p, put'[p].alone, NEW i \in PlannedOf(put'[p]),
                 get'[g].got[i] # Nothing, get'[g].from[i] \notin put'[p].missed[i]
          PROVE  get'[g].got[i] = Frag(p, i)'
      <4>1. i \in PlannedOf(put[p]) /\ put[p].pc = "ok"
        BY <3>6, <3>1, <3>3, <2>0
      <4>2. i \in Indexes
        BY <4>1, AckedUploads
      <4>3. get'[g].got[i] = Frag(p, i)
        BY <4>1, <3>1, <3>4, <3>6, <2>0
      <4> QED BY <4>2, <4>3, <3>5
    <3> QED BY <3>1, <3>2, <3>3, <3>6, <2>0
  <2> QED BY <2>0, <2>1, <2>2, <2>3, <2>4
<1> QED BY <1>3, <1>4, GetsUnchanged

(***************************************************************************)
(* The inductive invariant                                                 *)
(***************************************************************************)

Environment == alive \subseteq Nodes /\ faults \in 0..MaxFaults

TransferInv ==
  /\ PutsGood /\ EntryKnown /\ OthersOver
  /\ StoredFromPuts /\ UploadsStored
  /\ GotFromPuts /\ GetsFollowEntries
  /\ Environment

LEMMA NoPutIsGood ==
  ASSUME NEW p \in Puts
  PROVE  GoodPut(p, NoPut)
<1>0. /\ NoPut \in PutState /\ NoPut.pc = "idle" /\ NoPut.length = NoPut.size
      /\ \A f \in Indexes : /\ NoPut.sending[f] = "no" /\ NoPut.missed[f] = {}
                             /\ NoPut.addrs[f] = << >>
  BY NoPutTypes
<1>1. \A f \in Indexes : IsInjective(NoPut.addrs[f])
  BY <1>0 DEF IsInjective
<1>2. PlanPlaced(NoPut)
  BY <1>0, <1>1 DEF PlanPlaced
<1>3. SendingBegins(NoPut) /\ SentAsPlanned(p, NoPut)
  BY <1>0 DEF SendingBegins, SentAsPlanned
<1>4. EndsForAReason(p, NoPut) /\ QuorumsAnswer(NoPut)
  BY <1>0 DEF EndsForAReason, QuorumsAnswer
<1> QED BY <1>0, <1>2, <1>3, <1>4 DEF GoodPut

LEMMA InitTransferInv ==
  Init => TransferInv
<1> SUFFICES ASSUME Init PROVE TransferInv
  OBVIOUS
<1>1. /\ put \in [Puts -> PutState] /\ \A p \in Puts : put[p] = NoPut
      /\ get \in [Gets -> GetState] /\ \A g \in Gets : get[g] = NoGet
      /\ entry = Absent /\ Absent \notin Puts
  BY NoPutTypes, NoGetTypes, TransfersAssumption DEF Init
<1>2. PutsGood
  BY <1>1, NoPutIsGood DEF PutsGood
<1>3. EntryKnown /\ OthersOver /\ UploadsStored
  BY <1>1 DEF EntryKnown, OthersOver, UploadsStored
<1>4. StoredFromPuts
  <2>1. Nothing \in Fragments
    BY DEF Fragments
  <2>2. /\ stored \in [Nodes -> [Indexes -> Fragments]]
        /\ \A n \in Nodes, f \in Indexes : stored[n][f] = Nothing
    BY <2>1 DEF Init
  <2> QED BY <2>2 DEF StoredFromPuts
<1>5. GotFromPuts /\ GetsFollowEntries
  BY <1>1, NoGetTypes DEF GotFromPuts, GetsFollowEntries
<1>6. Environment
  BY TransfersAssumption DEF Environment, Init
<1> QED BY <1>2, <1>3, <1>4, <1>5, <1>6 DEF TransferInv

(* The faults are counted, and only nodes run.                             *)
LEMMA EnvironmentStep ==
  ASSUME Environment, [Next]_vars
  PROVE  Environment'
<1>1. ASSUME NEW p \in Puts,
             \/ \E size \in Sizes[p] : Prepare(p, size)
             \/ \E length \in Lengths : SendKvctl(p, length)
             \/ \E f \in Indexes :
                  \/ Unreachable(p, f) \/ StoreAtPrimary(p, f)
                  \/ \E reached \in SUBSET Nodes : FanOut(p, f, reached)
             \/ PrepareRefused(p) \/ SendHarness(p) \/ PutFails(p)
             \/ Commit(p) \/ CommitFails(p)
      PROVE  alive' = alive /\ (faults' = faults \/ Fault)
  BY <1>1, Zenon DEF Prepare, SendKvctl, Unreachable, StoreAtPrimary, FanOut, PrepareRefused,
       SendHarness, PutFails, Commit, CommitFails
<1>2. Delete => alive' = alive /\ (faults' = faults \/ Fault)
  BY DEF Delete
<1>3. ASSUME NEW g \in Gets, GetGoesOn(g) PROVE alive' = alive /\ faults' = faults
  BY <1>3, Zenon DEF GetGoesOn, GetEntry, DownloadFails, Download
<1>4. ASSUME NEW n \in Nodes, Kill(n) \/ Restore(n)
      PROVE  alive' \subseteq Nodes /\ (faults' = faults \/ Fault)
  BY <1>4 DEF Kill, Restore, Environment
<1>5. alive' \subseteq Nodes /\ (faults' = faults \/ Fault)
  BY <1>1, <1>2, <1>3, <1>4 DEF Next, GetGoesOn, Environment, vars
<1> QED BY <1>5, TransfersAssumption DEF Environment, Fault

LEMMA NextTransferInv ==
  TransferInv /\ [Next]_vars => TransferInv'
<1> SUFFICES ASSUME TransferInv, [Next]_vars PROVE TransferInv'
  OBVIOUS
<1>0. /\ PutsGood /\ EntryKnown /\ OthersOver /\ StoredFromPuts /\ UploadsStored
      /\ GotFromPuts /\ GetsFollowEntries /\ Environment
  BY DEF TransferInv
<1>1. PutsGood'
  BY <1>0, PutsGoOn
<1>2. EntryKnown' /\ OthersOver'
  BY <1>0, EntryKnownStep, OthersOverStep
<1>3. StoredFromPuts' /\ UploadsStored'
  BY <1>0, StoredFromPutsStep, UploadsStoredStep
<1>4. GotFromPuts' /\ GetsFollowEntries'
  BY <1>0, GotFromPutsStep, GetsFollowStep
<1>5. Environment'
  BY <1>0, EnvironmentStep
<1> QED BY <1>1, <1>2, <1>3, <1>4, <1>5 DEF TransferInv

LEMMA AlwaysTransferInv == Spec => []TransferInv
BY InitTransferInv, NextTransferInv, PTL DEF Spec

(* TypeOK: the sizes, plans, results, fragments and entries are of their   *)
(* types, what is sent has addresses, and only addresses are missed.       *)
THEOREM TransferTypesCorrect == Spec => []TypeOK
<1>1. TransferInv => TypeOK
  <2> SUFFICES ASSUME TransferInv PROVE TypeOK
    OBVIOUS
  <2>1. /\ PutsGood /\ entry \in Puts \cup {Absent} /\ get \in [Gets -> GetState]
        /\ stored \in [Nodes -> [Indexes -> Fragments]] /\ Environment
    BY DEF TransferInv, EntryKnown, GotFromPuts, StoredFromPuts
  <2>2. \A p \in Puts : PlanPlaced(put[p])
    BY <2>1 DEF PutsGood, GoodPut
  <2>3. \A p \in Puts, f \in Indexes :
          /\ put[p].missed[f] \subseteq ToSet(put[p].addrs[f])
          /\ put[p].sending[f] # "no" => put[p].addrs[f] # << >>
    BY <2>2 DEF PlanPlaced
  <2> QED BY <2>1, <2>3 DEF TypeOK, PutsGood, Environment
<1> QED BY <1>1, AlwaysTransferInv, PTL

(* A longer file has at least as many fragments.                           *)
LEMMA LongerHasMore ==
  ASSUME NEW size \in Nat, NEW length \in Nat, 0 < size, size <= length
  PROVE  NumFragments(size) <= NumFragments(length)
<1> DEFINE m == NumFragments(size)
           n == NumFragments(length)
<1>0. Chunk \in Nat \ {0}
  BY TransfersAssumption
<1>1. m \in Nat \ {0} /\ Chunk * (m - 1) < size
  BY NumFragmentsBounds
<1>2. n \in Nat \ {0} /\ length <= Chunk * n
  BY NumFragmentsBounds
<1> HIDE DEF m, n
<1>3. Chunk * (m - 1) \in Int /\ Chunk * n \in Int
  BY <1>0, <1>1, <1>2, MultiplesApart
<1>4. Chunk * (m - 1) < Chunk * n
  BY <1>1, <1>2, <1>3
<1>5. m - 1 < n
  BY <1>0, <1>1, <1>2, <1>4, MultiplesApart
<1> QED BY <1>1, <1>2, <1>5 DEF m, n

(* PlanFitsFile: of a file that has kept its size PrepareKey's plan and    *)
(* the chunks of Split, or the cuts of PutValue, agree, and together they  *)
(* are the file; cmdPut panics for no other reason than a file that is     *)
(* empty or has shrunk.                                                    *)
THEOREM PlansFitFiles == Spec => []PlanFitsFile
<1>1. TransferInv => PlanFitsFile
  <2> SUFFICES ASSUME TransferInv, NEW p \in Puts
               PROVE  /\ put[p].pc = "sending" /\ FileKept(p) /\ put[p].size > 0 =>
                           /\ FlattenSeq([i \in 1..NumFragments(put[p].size) |-> Sent(p, i - 1)])
                                = File(p, put[p].size)
                           /\ \A f \in Planned(p) : Len(Sent(p, f)) = PlannedSize(put[p].size, f)
                      /\ put[p].pc = "panic" =>
                           /\ Client[p] = "kvctl"
                           /\ put[p].size = 0 \/ put[p].length < put[p].size
    BY DEF PlanFitsFile
  <2> DEFINE size == put[p].size
             n == NumFragments(size)
  <2>0. put[p] \in PutState /\ EndsForAReason(p, put[p])
    BY DEF TransferInv, PutsGood, GoodPut
  <2>1. size \in Lengths /\ size \in Nat /\ put[p].length \in Nat
    BY <2>0, LengthsBounded DEF PutState
  <2>2. n \in Nat \ {0}
    BY <2>1, NumFragmentsBounds
  <2>3. ASSUME FileKept(p), size > 0
        PROVE  /\ FlattenSeq([i \in 1..n |-> Sent(p, i - 1)]) = File(p, size)
               /\ \A f \in Planned(p) : Len(Sent(p, f)) = PlannedSize(size, f)
    <3>1. ASSUME NEW f \in 0..(n - 1)
          PROVE  /\ Sent(p, f) = Piece(p, size, f)
                 /\ Len(Sent(p, f)) = PlannedSize(size, f)
      <4>1. Sent(p, f) = Payload(p, size, size, f)
        BY <2>3, SentIsPayload DEF FileKept
      <4>2. /\ Payload(p, size, size, f) = Piece(p, size, f)
            /\ Len(Payload(p, size, size, f)) = EndOf(size, f) - f * Chunk
        BY <2>1, <2>3, PayloadIsPiece
      <4>3. /\ f * Chunk \in Nat /\ PlannedSize(size, f) \in Nat
            /\ f * Chunk + PlannedSize(size, f) = EndOf(size, f)
        BY <2>1, <2>3, FragmentSpan
      <4> QED BY <4>1, <4>2, <4>3
    <3>2. \A i \in 1..n : i - 1 \in 0..(n - 1)
      BY <2>2
    <3>3. [i \in 1..n |-> Sent(p, i - 1)] = [i \in 1..n |-> Piece(p, size, i - 1)]
      BY <3>1, <3>2
    <3>4. FlattenSeq([i \in 1..n |-> Piece(p, size, i - 1)]) = File(p, size)
      BY <2>1, PiecesMakeFile
    <3> QED BY <3>1, <3>3, <3>4 DEF Planned
  <2>4. ASSUME put[p].pc = "panic"
        PROVE  Client[p] = "kvctl" /\ (size = 0 \/ put[p].length < size)
    <3>1. Client[p] = "kvctl" /\ Chunks(p, put[p]) < n
      BY <2>0, <2>4 DEF EndsForAReason
    <3>2. ASSUME size > 0, size <= put[p].length PROVE FALSE
      <4>1. Chunks(p, put[p]) = NumFragments(put[p].length)
        BY <2>1, <3>2, SplitChunks DEF Chunks
      <4>2. n <= NumFragments(put[p].length)
        BY <2>1, <3>2, LongerHasMore
      <4>3. NumFragments(put[p].length) \in Nat
        BY <2>1, NumFragmentsBounds
      <4> QED BY <3>1, <4>1, <4>2, <4>3, <2>2
    <3> QED BY <3>1, <3>2, <2>1
  <2> QED BY <2>3, <2>4
<1> QED BY <1>1, AlwaysTransferInv, PTL

(* AckedIsReadable: what putFragment's quorum and the commit's condition   *)
(* promise together, that each fragment of a put reported as successful is *)
(* on enough of its addresses, whatever is stopped and started.            *)
THEOREM AckedStaysReadable == Spec => []AckedIsReadable
<1>1. TransferInv => AckedIsReadable
  <2> SUFFICES ASSUME TransferInv, NEW p \in Puts, put[p].pc = "ok", entry = p, put[p].alone,
                      NEW f \in Planned(p)
               PROVE  Cardinality({n \in ToSet(Addrs(p, f)) :
                                     stored[n][f] = [put |-> p, data |-> Sent(p, f)]})
                        >= Least(Quorum, Len(Addrs(p, f)))
    BY DEF AckedIsReadable
  <2> DEFINE addrs == Addrs(p, f)
             copies == {n \in ToSet(addrs) : stored[n][f] = [put |-> p, data |-> Sent(p, f)]}
             reached == Reached(put[p], f)
  <2>0. PutsGood /\ UploadsStored
    BY DEF TransferInv
  <2>1. f \in Indexes /\ put[p].sending[f] = "ok"
    BY <2>0, AckedUploads DEF Planned, PlannedOf
  <2>2. put[p] \in PutState /\ QuorumsAnswer(put[p])
    BY <2>0 DEF PutsGood, GoodPut
  <2>3. addrs \in Seq(Nodes)
    BY <2>1, <2>2 DEF PutState, Addrs
  <2>4. Cardinality(reached) >= Least(Quorum, Len(addrs))
    BY <2>1, <2>2 DEF QuorumsAnswer, Addrs
  <2>5. \A n \in reached : n \in ToSet(addrs) /\ stored[n][f] = Frag(p, f)
    BY <2>0, <2>1 DEF UploadsStored, Reached, Addrs
  <2>6. Frag(p, f) = [put |-> p, data |-> Sent(p, f)]
    BY SentIsPayload DEF Frag
  <2>7. reached \in SUBSET copies
    BY <2>5, <2>6
  <2>8. IsFiniteSet(copies)
    <3>1. ToSet(addrs) \in SUBSET Nodes
      BY <2>3 DEF ToSet
    <3>2. copies \in SUBSET Nodes
      BY <3>1
    <3> QED BY <3>2, TransfersAssumption, FS_Subset
  <2> HIDE DEF addrs, copies, reached
  <2>9. /\ Cardinality(reached) <= Cardinality(copies)
        /\ Cardinality(reached) \in Nat /\ Cardinality(copies) \in Nat
    BY <2>7, <2>8, FS_Subset, FS_CardinalityType
  <2>10. Least(Quorum, Len(addrs)) \in Nat
    BY <2>3, TransfersAssumption DEF Least
  <2> QED BY <2>4, <2>9, <2>10 DEF addrs, copies
<1> QED BY <1>1, AlwaysTransferInv, PTL

(* What both downloads return of fragments that are all of one put, which  *)
(* has sent them.                                                          *)
LEMMA WholeRead ==
  ASSUME PutsGood, NEW p \in Puts, FileKept(p), NEW got,
         \A f \in PlannedOf(put[p]) : put[p].sending[f] # "no" /\ got[f] = Frag(p, f)
  PROVE  /\ KvctlFile(got, put[p].size) = File(p, put[p].size)
         /\ HarnessFile(got, put[p].size) = File(p, put[p].size)
<1> DEFINE size == put[p].size
<1>0. put[p] \in PutState /\ SentAsPlanned(p, put[p])
  BY DEF PutsGood, GoodPut
<1>1. size \in Lengths /\ size \in Nat /\ put[p].length = size
  BY <1>0, LengthsBounded DEF PutState, FileKept
<1>2. Client[p] = "kvctl" => size > 0
  <2> SUFFICES ASSUME Client[p] = "kvctl", size = 0 PROVE FALSE
    BY <1>1
  <2>1. 0 \in PlannedOf(put[p])
    BY <1>1, NumFragmentsBounds DEF PlannedOf
  <2>2. 0 \in Indexes
    BY <2>1, <1>1, PlannedAreIndexes DEF PlannedOf
  <2>3. 0 < Chunks(p, put[p])
    BY <2>1, <2>2, <1>0 DEF SentAsPlanned
  <2>4. Chunks(p, put[p]) = 0
    BY <1>1, SplitChunks DEF Chunks
  <2> QED BY <2>3, <2>4
<1>3. ASSUME NEW f \in 0..(NumFragments(size) - 1) PROVE got[f].data = Piece(p, size, f)
  <2>1. got[f] = Frag(p, f)
    BY DEF PlannedOf
  <2>2. Frag(p, f).data = Payload(p, size, size, f)
    BY <1>1 DEF Frag
  <2>3. Payload(p, size, size, f) = Piece(p, size, f)
    BY <1>1, <1>2, PayloadIsPiece
  <2> QED BY <2>1, <2>2, <2>3
<1> QED BY <1>1, <1>3, PiecesAreRead

(* A get that ends well has just received the last fragment of its entry.  *)
LEMMA LastFragment ==
  ASSUME TransferInv, [Next]_vars, NEW g \in Gets, Finishes(g), NEW p, get[g].of = p
  PROVE  /\ p \in Puts /\ put' = put /\ stored' = stored /\ entry' = entry
         /\ get[g].acked => put[p].pc = "ok"
         /\ \A i \in PlannedOf(put[p]) : i \in Indexes /\ get'[g].got[i] # Nothing
         /\ \E f \in Indexes, n \in Nodes : Receives(g, f, n)
<1>0. /\ PutsGood /\ EntryKnown /\ StoredFromPuts /\ get \in [Gets -> GetState]
      /\ GetsFollowEntries
  BY DEF TransferInv, GotFromPuts
<1>1. get[g].pc = "run" /\ get'[g].pc = "ok"
  BY DEF Finishes
<1>2. p \in Puts /\ (get[g].acked => put[p].pc = "ok")
  BY <1>0, <1>1 DEF GetsFollowEntries
<1>3. PICK h \in Gets : GetGoesOn(h)
  BY <1>0, <1>1, GetsUnchanged
<1>4. /\ get' \in [Gets -> GetState] /\ \A k \in Gets \ {h} : get'[k] = get[k]
      /\ UNCHANGED <<entry, put, stored>>
      /\ \/ Begins(h) \/ EndsBadly(h)
         \/ \E f \in Indexes, n \in Nodes : Receives(h, f, n)
  BY <1>0, <1>3, GetSteps
<1>5. h = g
  BY <1>1, <1>4
<1>6. PICK f \in Indexes, n \in Nodes : Receives(g, f, n)
  BY <1>1, <1>4, <1>5 DEF Begins, EndsBadly
<1>7. put[p].size \in Lengths
  BY <1>0, <1>2 DEF PutsGood, PutState
<1>8. ASSUME NEW i \in PlannedOf(put[p]) PROVE i \in Indexes /\ get'[g].got[i] # Nothing
  <2>1. i \in Indexes
    BY <1>7, PlannedAreIndexes DEF PlannedOf
  <2>2. CASE i = f
    BY <2>1, <2>2, <1>6 DEF Receives
  <2>3. CASE i # f
    <3>1. get[g].got[i] # Nothing
      BY <2>3, <1>1, <1>6 DEF Receives, Planned, PlannedOf
    <3>2. get'[g].got[i] = get[g].got[i]
      BY <2>1, <2>3, <1>6 DEF Receives
    <3> QED BY <2>1, <3>1, <3>2
  <2> QED BY <2>2, <2>3
<1> QED BY <1>2, <1>4, <1>6, <1>8

(* FirstPutIsReadWhole: a cmdGet or GetValue that ends well returns, of a  *)
(* key that has been put once, what that put was given, committed or not.  *)
THEOREM FirstPutsAreReadWhole == Spec => FirstPutIsReadWhole
<1> DEFINE Whole == \A g \in Gets :
              LET p == get[g].of IN
              /\ Finishes(g) /\ FileKept(p)
              /\ \A q \in Puts \ {p} : put[q].pc = "idle"
              => Reads(g, File(p, put[p].size))
<1>1. ASSUME TransferInv, TransferInv', [Next]_vars PROVE Whole
  <2> SUFFICES ASSUME NEW g \in Gets, Finishes(g), FileKept(get[g].of),
                      \A q \in Puts \ {get[g].of} : put[q].pc = "idle"
               PROVE  Reads(g, File(get[g].of, put[get[g].of].size))
    OBVIOUS
  <2>1. PICK p : p = get[g].of
    OBVIOUS
  <2>2. PICK got : got = get'[g].got
    OBVIOUS
  <2>3. /\ p \in Puts /\ put' = put
        /\ \A i \in PlannedOf(put[p]) : i \in Indexes /\ got[i] # Nothing
    BY <1>1, <2>1, <2>2, LastFragment
  <2>4. \A q \in Puts : GoodPut(q, put[q])
    BY <1>1 DEF TransferInv, PutsGood
  <2>5. ASSUME NEW f \in PlannedOf(put[p])
        PROVE  put[p].sending[f] # "no" /\ got[f] = Frag(p, f)
    <3>1. SomePutsFragment(got[f], f)'
      BY <1>1, <2>2, <2>3 DEF TransferInv, GotFromPuts
    <3>2. PICK q \in Puts : put'[q].sending[f] # "no" /\ got[f] = Frag(q, f)'
      BY <3>1, <2>2 DEF SomePutsFragment
    <3>3. put[q].sending[f] # "no" /\ got[f] = Frag(q, f)
      BY <3>2, <2>3 DEF Frag
    <3>4. put[q].pc # "idle"
      BY <3>3, <2>3, <2>4 DEF GoodPut, SendingBegins
    <3>5. q = p
      BY <3>4, <2>1
    <3> QED BY <3>3, <3>5
  <2>6. FileKept(p) /\ PutsGood
    BY <1>1, <2>1 DEF TransferInv
  <2>7. /\ KvctlFile(got, put[p].size) = File(p, put[p].size)
        /\ HarnessFile(got, put[p].size) = File(p, put[p].size)
    BY <2>3, <2>5, <2>6, WholeRead
  <2> QED BY <2>1, <2>2, <2>7 DEF Reads
<1>2. TransferInv /\ TransferInv' /\ [Next]_vars => [Whole]_vars
  BY <1>1
<1> QED BY <1>2, AlwaysTransferInv, PTL DEF Spec, FirstPutIsReadWhole, Whole

(* AckedPutIsReadBack: after an overwrite that began alone and was         *)
(* reported as successful, what downloadFragment fetches from addresses    *)
(* that putFragment has reached makes up the new file.                     *)
THEOREM AckedPutsAreReadBack == Spec => AckedPutIsReadBack
<1> DEFINE ReadBack == \A g \in Gets :
              LET p == get[g].of IN
              /\ Finishes(g) /\ FileKept(p)
              /\ get[g].acked /\ put[p].alone /\ entry = p
              /\ \A f \in Planned(p) : get'[g].from[f] \notin put[p].missed[f]
              => Reads(g, File(p, put[p].size))
<1>1. ASSUME TransferInv, [Next]_vars PROVE ReadBack
  <2> SUFFICES ASSUME NEW g \in Gets, Finishes(g), FileKept(get[g].of),
                      get[g].acked, put[get[g].of].alone, entry = get[g].of,
                      \A f \in Planned(get[g].of) :
                        get'[g].from[f] \notin put[get[g].of].missed[f]
               PROVE  Reads(g, File(get[g].of, put[get[g].of].size))
    OBVIOUS
  <2>1. PICK p : p = get[g].of
    OBVIOUS
  <2>2. PICK got : got = get'[g].got
    OBVIOUS
  <2>3. /\ p \in Puts /\ put[p].pc = "ok"
        /\ \A i \in PlannedOf(put[p]) : i \in Indexes /\ got[i] # Nothing
        /\ \E f \in Indexes, n \in Nodes : Receives(g, f, n)
    BY <1>1, <2>1, <2>2, LastFragment
  <2>4. PICK h \in Indexes, n \in Nodes : Receives(g, h, n)
    BY <2>3
  <2>5. PutsGood /\ UploadsStored /\ GetsFollowEntries
    BY <1>1 DEF TransferInv
  <2>6. \A f \in PlannedOf(put[p]) : f \in Indexes /\ put[p].sending[f] = "ok"
    BY <2>3, <2>5, AckedUploads
  <2>7. ASSUME NEW f \in PlannedOf(put[p])
        PROVE  put[p].sending[f] # "no" /\ got[f] = Frag(p, f)
    <3>1. get'[g].from[f] \notin put[p].missed[f]
      BY <2>1 DEF Planned, PlannedOf
    <3>2. CASE f = h
      <4>1. n \in Reached(put[p], f) /\ got[f] = stored[n][f]
        BY <3>1, <3>2, <2>1, <2>2, <2>4 DEF Receives, Reached, Addrs
      <4> QED BY <4>1, <2>1, <2>3, <2>5, <2>6 DEF UploadsStored
    <3>3. CASE f # h
      <4>1. /\ got[f] = get[g].got[f] /\ get'[g].from[f] = get[g].from[f]
            /\ get[g].pc = "run"
        BY <3>3, <2>2, <2>4, <2>6 DEF Receives
      <4>2. get[g].got[f] # Nothing /\ get[g].from[f] \notin put[p].missed[f]
        BY <4>1, <3>1, <2>3
      <4>3. get[g].got[f] = Frag(p, f)
        BY <4>1, <4>2, <2>1, <2>3, <2>5 DEF GetsFollowEntries
      <4> QED BY <4>1, <4>3, <2>6
    <3> QED BY <3>2, <3>3
  <2>8. FileKept(p)
    BY <2>1
  <2>9. /\ KvctlFile(got, put[p].size) = File(p, put[p].size)
        /\ HarnessFile(got, put[p].size) = File(p, put[p].size)
    BY <2>3, <2>5, <2>7, <2>8, WholeRead
  <2> QED BY <2>1, <2>2, <2>9 DEF Reads
<1>2. TransferInv /\ [Next]_vars => [ReadBack]_vars
  BY <1>1
<1> QED BY <1>2, AlwaysTransferInv, PTL DEF Spec, AckedPutIsReadBack, ReadBack

=============================================================================
