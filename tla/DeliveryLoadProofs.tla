------------------------- MODULE DeliveryLoadProofs --------------------------
(***************************************************************************)
(* The search for a load is right for every list of orders, capacity and   *)
(* word length.  First the helpers it is built from (sums over sets of     *)
(* orders, the enumeration of the bitset, the common divisor), each for    *)
(* all arguments, by induction from least natural numbers; then LoadInv,   *)
(* the invariant of the rows and of the way back, one lemma per step; then *)
(* the theorems of the specification.                                      *)
(***************************************************************************)
EXTENDS DeliveryLoad, FiniteSetTheorems, WellFoundedInduction, TLAPS

-----------------------------------------------------------------------------
(* Induction and arithmetic. *)

\* A set of natural numbers has a least one: what every induction here starts from.
LEMMA LeastNat ==
    ASSUME NEW T \in SUBSET Nat, T # {}
    PROVE  \E x \in T : \A y \in T : x <= y
<1> DEFINE R == OpToRel(<, Nat)
<1>1. IsWellFoundedOn(R, Nat)
  BY NatLessThanWellFounded
<1>2. \A x, y \in Nat : <<y, x>> \in R <=> y < x
  BY DEF OpToRel
<1> HIDE DEF R
<1>3. PICK x \in T : \A y \in T : ~ (<<y, x>> \in R)
  BY <1>1, WFMin
<1>4. \A y \in T : ~ (y < x)
  BY <1>2, <1>3
<1>5. \A y \in T : y \in Nat
  OBVIOUS
<1> QED
  BY <1>4, <1>5

\* Induction over a set of natural numbers.
LEMMA Induction ==
    ASSUME NEW S, 0 \in S, \A k \in Nat : k \in S => k + 1 \in S
    PROVE  Nat \subseteq S
<1> DEFINE T == Nat \ S
<1> SUFFICES ASSUME T # {} PROVE FALSE
  OBVIOUS
<1>1. PICK x \in T : \A y \in T : x <= y
  BY LeastNat
<1>2. x # 0 /\ x - 1 \in Nat
  BY <1>1
<1>3. x - 1 \in S
  BY <1>1, <1>2
<1> QED
  BY <1>1, <1>2, <1>3

\* The maximum of a bounded set is a member and bounds it.
LEMMA MaxOf ==
    ASSUME NEW N \in Nat, NEW S \in SUBSET (0 .. N), S # {}
    PROVE  Max(S) \in S /\ \A x \in S : x <= Max(S)
<1> DEFINE T == {k \in Nat : N - k \in S}
<1>1. T # {}
  <2>1. PICK x \in S : TRUE
    OBVIOUS
  <2>2. N - x \in T
    BY <2>1
  <2> QED
    BY <2>2
<1>2. PICK k \in T : \A l \in T : k <= l
  BY <1>1, LeastNat
<1>3. N - k \in S /\ \A x \in S : N - k >= x
  <2>1. ASSUME NEW x \in S PROVE N - k >= x
    <3>1. N - x \in T
      OBVIOUS
    <3> QED
      BY <1>2, <3>1
  <2> QED
    BY <1>2, <2>1
<1>4. \E m \in S : \A x \in S : m >= x
  BY <1>3
<1>5. Max(S) \in S /\ \A x \in S : Max(S) >= x
  BY <1>4, Zenon DEF Max
<1> QED
  BY <1>5

\* Multiplication keeps the order of natural numbers.
LEMMA Multiples ==
    ASSUME NEW a \in Nat, NEW b \in Nat, NEW N \in Nat, a <= b
    PROVE  a * N <= b * N
<1>1. PICK d \in Nat : b = a + d
  <2>1. b - a \in Nat /\ b = a + (b - a)
    OBVIOUS
  <2> QED
    BY <2>1
<1>2. b * N = a * N + d * N /\ d * N \in Nat /\ a * N \in Nat
  BY <1>1
<1> QED
  BY <1>2

\* Multiplication by the divisor distributes, cancels and keeps order and sign:
\* what is said of weights in units of the divisor is said of the weights.
LEMMA Multiplied ==
    ASSUME NEW a \in Int, NEW b \in Int, NEW d \in Nat \ {0}
    PROVE  /\ (a - b) * d = a * d - b * d /\ (a + b) * d = a * d + b * d
           /\ a * d = b * d <=> a = b
           /\ a * d <= b * d <=> a <= b
           /\ a * d >= 0 <=> a >= 0
           /\ a * d = 0 <=> a = 0
<1>1. (a - b) * d = a * d - b * d /\ (a + b) * d = a * d + b * d
  OBVIOUS
<1>2. \A c \in Int : c > 0 => c * d > 0
  OBVIOUS
<1>3. \A c \in Int : c < 0 => c * d < 0
  OBVIOUS
<1>4. \A c \in Int : c * d \in Int
  OBVIOUS
<1>5. a - b \in Int /\ 0 * d = 0
  OBVIOUS
<1>6. a * d = b * d <=> a = b
  <2>1. a < b \/ a = b \/ a > b
    OBVIOUS
  <2> QED
    BY <1>1, <1>2, <1>3, <1>4, <1>5, <2>1
<1>7. a * d <= b * d <=> a <= b
  BY <1>1, <1>2, <1>3, <1>4, <1>5
<1> QED
  BY <1>1, <1>2, <1>3, <1>4, <1>5, <1>6, <1>7

-----------------------------------------------------------------------------
(* The enumeration of the bitset. *)

\* A weight is a bit of a word.
LEMMA WordAndBit ==
    ASSUME NEW b \in Nat, NEW N \in Nat \ {0}
    PROVE  /\ b \div N \in Nat /\ b % N \in 0 .. N - 1
           /\ b = (b \div N) * N + (b % N)
<1>1. b \div N \in Nat /\ b % N \in 0 .. N - 1
  OBVIOUS
<1>2. b % N = b - N * (b \div N)
  OBVIOUS
<1>3. \A k \in Nat : k * N = N * k /\ k * N \in Nat
  OBVIOUS
<1> QED
  BY <1>1, <1>2, <1>3

\* A limit of the inner loop falls into the word lastWord: the words before it
\* lie below the limit, those after it above.
LEMMA WordOrder ==
    ASSUME NEW N \in Nat \ {0}, NEW k \in Nat, NEW l \in Nat,
           NEW c \in 0 .. N - 1, NEW d \in 0 .. N - 1
    PROVE  k * N + c <= l * N + d <=> k < l \/ (k = l /\ c <= d)
<1>0. k * N \in Nat /\ l * N \in Nat
  OBVIOUS
<1>1. CASE k < l
  <2>1. (k + 1) * N <= l * N
    BY <1>1, Multiples
  <2>2. (k + 1) * N = k * N + N
    OBVIOUS
  <2> QED
    BY <1>0, <1>1, <2>1, <2>2
<1>2. CASE k = l
  BY <1>0, <1>2
<1>3. CASE l < k
  <2>1. (l + 1) * N <= k * N
    BY <1>3, Multiples
  <2>2. (l + 1) * N = l * N + N
    OBVIOUS
  <2> QED
    BY <1>0, <1>3, <2>1, <2>2
<1> QED
  BY <1>1, <1>2, <1>3

\* Bases visits the members of S up to max, and no other weight.
THEOREM BasesAreExact ==
    ASSUME NEW S \in SUBSET Nat, NEW max \in Nat
    PROVE  Bases(S, max) = {b \in S : b <= max}
<1> DEFINE N == WordBits
           last == max \div N
           Word(k) == {c \in 0 .. N - 1 : k * N + c \in S}
           Bits(k) == IF k = last THEN Word(k) \cap maskUpTo(max) ELSE Word(k)
<1>0. N \in Nat \ {0}
  BY LoadInputs
<1>1. last \in Nat /\ max % N \in 0 .. N - 1 /\ max = last * N + (max % N)
  BY <1>0, WordAndBit
<1>2. ASSUME NEW b, b \in Bases(S, max)
      PROVE  b \in S /\ b <= max
  <2>1. PICK k \in 0 .. last : \E c \in Bits(k) : b = k * N + c
    BY <1>2 DEF Bases
  <2>2. PICK c \in Bits(k) : b = k * N + c
    BY <2>1
  <2>3. c \in 0 .. N - 1 /\ b \in S /\ (k = last => c <= max % N)
    BY <1>0, <1>1, <2>2 DEF maskUpTo
  <2>4. k \in Nat /\ (k < last \/ k = last)
    BY <1>1
  <2>5. k * N + c <= last * N + (max % N)
    BY <1>0, <1>1, <2>3, <2>4, WordOrder
  <2> QED
    BY <1>1, <2>2, <2>3, <2>5
<1>3. ASSUME NEW b \in S, b <= max
      PROVE  b \in Bases(S, max)
  <2> DEFINE k == b \div N
             c == b % N
  <2>1. k \in Nat /\ c \in 0 .. N - 1 /\ b = k * N + c
    BY <1>0, WordAndBit
  <2>2. k < last \/ (k = last /\ c <= max % N)
    <3>1. k * N + c <= last * N + (max % N)
      BY <1>1, <1>3, <2>1
    <3> HIDE DEF k, c, last
    <3> QED
      BY <1>0, <1>1, <2>1, <3>1, WordOrder
  <2>3. k \in 0 .. last /\ c \in Bits(k)
    BY <1>0, <1>1, <2>1, <2>2 DEF maskUpTo
  <2> QED
    BY <2>1, <2>3 DEF Bases
<1> QED
  BY <1>2, <1>3

-----------------------------------------------------------------------------
(* Sums over sets of orders. *)

\* A is the sum of v over each set of the first m indices.
Adds(A, v, m) ==
    /\ A \in [SUBSET (1 .. m) -> Nat]
    /\ A[{}] = 0
    /\ \A s \in SUBSET (1 .. m) : \A j \in (1 .. m) \ s : A[s \cup {j}] = A[s] + v[j]

\* There is such a function: index m + 1 is added to the sums over the first m.
LEMMA SumsExist ==
    ASSUME NEW v, NEW m \in Nat, \A j \in 1 .. m : v[j] \in Nat
    PROVE  \E A : Adds(A, v, m)
<1> DEFINE T == {k \in Nat : k <= m => \E A : Adds(A, v, k)}
<1>1. 0 \in T
  <2> DEFINE A == [s \in SUBSET (1 .. 0) |-> 0]
  <2>1. Adds(A, v, 0)
    BY DEF Adds
  <2> QED
    BY <2>1
<1>2. ASSUME NEW k \in Nat, k \in T PROVE k + 1 \in T
  <2> SUFFICES ASSUME k + 1 <= m PROVE \E A : Adds(A, v, k + 1)
    OBVIOUS
  <2>1. PICK B : Adds(B, v, k)
    BY <1>2
  <2> DEFINE A == [s \in SUBSET (1 .. k + 1) |->
                     IF k + 1 \in s THEN B[s \ {k + 1}] + v[k + 1] ELSE B[s]]
  <2>2. \A s \in SUBSET (1 .. k + 1) : s \ {k + 1} \in SUBSET (1 .. k) /\ (k + 1 \notin s => s \in SUBSET (1 .. k))
    OBVIOUS
  <2>3. A \in [SUBSET (1 .. k + 1) -> Nat] /\ A[{}] = 0
    <3>1. v[k + 1] \in Nat
      OBVIOUS
    <3> QED
      BY <2>1, <2>2, <3>1 DEF Adds
  <2>4. ASSUME NEW s \in SUBSET (1 .. k + 1), NEW j \in (1 .. k + 1) \ s
        PROVE  A[s \cup {j}] = A[s] + v[j]
    <3>0. v[k + 1] \in Nat /\ v[j] \in Nat
      OBVIOUS
    <3>1. CASE j = k + 1
      <4>1. (s \cup {j}) \ {k + 1} = s
        BY <3>1
      <4> QED
        BY <2>2, <3>1, <4>1
    <3>2. CASE j # k + 1
      <4>1. (s \cup {j}) \ {k + 1} = (s \ {k + 1}) \cup {j} /\ j \in (1 .. k) \ (s \ {k + 1})
        BY <3>2
      <4>2. B[(s \ {k + 1}) \cup {j}] = B[s \ {k + 1}] + v[j]
        BY <2>1, <2>2, <4>1 DEF Adds
      <4>3. B[s \ {k + 1}] \in Nat
        BY <2>1, <2>2 DEF Adds
      <4>4. CASE k + 1 \in s
        <5>1. A[s] = B[s \ {k + 1}] + v[k + 1] /\ s \cup {j} \in SUBSET (1 .. k + 1)
          BY <4>4
        <5>2. A[s \cup {j}] = B[(s \cup {j}) \ {k + 1}] + v[k + 1]
          BY <4>4, <5>1
        <5> QED
          BY <3>0, <4>1, <4>2, <4>3, <5>1, <5>2
      <4>5. CASE k + 1 \notin s
        <5>1. s \ {k + 1} = s /\ k + 1 \notin s \cup {j}
          BY <3>2, <4>5
        <5> QED
          BY <2>2, <4>1, <4>2, <4>5, <5>1
      <4> QED
        BY <4>4, <4>5
    <3> QED
      BY <3>1, <3>2
  <2>5. Adds(A, v, k + 1)
    BY <2>3, <2>4 DEF Adds
  <2> QED
    BY <2>5
<1>3. m \in T
  <2> HIDE DEF T
  <2> QED
    BY <1>1, <1>2, Induction
<1> QED
  BY <1>3

\* F is what SumFunctionOnSet computes for the subsets of S, element by element.
IsFold(F, S, v) ==
    F = [s \in SUBSET S |-> IF s = {} THEN 0
           ELSE v[CHOOSE x \in s : TRUE] + F[s \ {CHOOSE x \in s : TRUE}]]

\* The value of a fold that takes out one element after the other.
LEMMA FoldIsSum ==
    ASSUME NEW v, NEW m \in Nat, \A j \in 1 .. m : v[j] \in Nat,
           NEW A, Adds(A, v, m), NEW S \in SUBSET (1 .. m), NEW F, IsFold(F, S, v)
    PROVE  F[S] = A[S]
<1> DEFINE T == {k \in Nat : \A s \in SUBSET S : Cardinality(s) = k => F[s] = A[s]}
<1>0. ASSUME NEW s \in SUBSET S PROVE IsFiniteSet(s) /\ Cardinality(s) \in Nat
  <2>1. IsFiniteSet(1 .. m) /\ s \in SUBSET (1 .. m)
    BY FS_Interval
  <2> QED
    BY <2>1, FS_Subset, FS_CardinalityType
<1>1. 0 \in T
  <2>1. \A s \in SUBSET S : Cardinality(s) = 0 => s = {}
    BY <1>0, FS_EmptySet
  <2> QED
    BY <2>1 DEF Adds, IsFold
<1>2. ASSUME NEW k \in Nat, k \in T PROVE k + 1 \in T
  <2> SUFFICES ASSUME NEW s \in SUBSET S, Cardinality(s) = k + 1 PROVE F[s] = A[s]
    <3>1. k + 1 \in Nat
      OBVIOUS
    <3> QED
      BY <3>1, Zenon
  <2>1. s # {}
    BY <1>0, FS_EmptySet
  <2>2. PICK x \in s : x = CHOOSE y \in s : TRUE
    BY <2>1
  <2>3. F[s] = v[x] + F[s \ {x}]
    BY <2>1, <2>2 DEF IsFold
  <2>4. F[s \ {x}] = A[s \ {x}]
    <3>1. Cardinality(s \ {x}) = k
      BY <1>0, FS_RemoveElement
    <3> QED
      BY <1>2, <3>1
  <2>5. A[(s \ {x}) \cup {x}] = A[s \ {x}] + v[x]
    <3>1. s \ {x} \in SUBSET (1 .. m) /\ x \in (1 .. m) \ (s \ {x})
      BY Zenon
    <3> QED
      BY <3>1 DEF Adds
  <2>6. (s \ {x}) \cup {x} = s
    OBVIOUS
  <2>7. A[s \ {x}] \in Nat /\ v[x] \in Nat
    <3>1. s \ {x} \in SUBSET (1 .. m) /\ x \in 1 .. m
      BY Zenon
    <3> QED
      BY <3>1 DEF Adds
  <2> QED
    BY <2>3, <2>4, <2>5, <2>6, <2>7
<1>3. Cardinality(S) \in T
  <2> HIDE DEF T
  <2>1. Nat \subseteq T
    BY <1>1, <1>2, Induction
  <2> QED
    BY <1>0, <2>1
<1> QED
  BY <1>3

\* The fold is defined, so that it has this value.
LEMMA FoldExists ==
    ASSUME NEW v, NEW m \in Nat, \A j \in 1 .. m : v[j] \in Nat,
           NEW A, Adds(A, v, m), NEW S \in SUBSET (1 .. m)
    PROVE  \E F : IsFold(F, S, v)
<1> DEFINE F == [s \in SUBSET S |-> A[s]]
<1>1. ASSUME NEW s \in SUBSET S, s # {}
      PROVE  A[s] = v[CHOOSE x \in s : TRUE] + F[s \ {CHOOSE x \in s : TRUE}]
  <2>1. PICK x \in s : x = CHOOSE y \in s : TRUE
    BY <1>1
  <2>2. s \ {x} \in SUBSET (1 .. m) /\ x \in (1 .. m) \ (s \ {x}) /\ s \ {x} \in SUBSET S
    BY Zenon
  <2>3. (s \ {x}) \cup {x} = s
    OBVIOUS
  <2>4. A[(s \ {x}) \cup {x}] = A[s \ {x}] + v[x]
    BY <2>2 DEF Adds
  <2>5. A[s \ {x}] \in Nat /\ v[x] \in Nat
    BY <2>2 DEF Adds
  <2>6. A[s \ {x}] + v[x] = v[x] + A[s \ {x}]
    BY <2>5
  <2>7. F[s \ {x}] = A[s \ {x}]
    BY <2>2
  <2> HIDE DEF F
  <2> QED
    BY <2>1, <2>3, <2>4, <2>6, <2>7, Zenon
<1>2. \A s \in SUBSET S : A[s] = IF s = {} THEN 0
                  ELSE v[CHOOSE x \in s : TRUE] + F[s \ {CHOOSE x \in s : TRUE}]
  BY <1>1 DEF Adds
<1>3. IsFold(F, S, v)
  BY <1>2, Zenon DEF IsFold
<1> QED
  BY <1>3

\* The sum over a set of indices.
LEMMA SumFacts ==
    ASSUME NEW v, NEW m \in Nat, \A j \in 1 .. m : v[j] \in Nat
    PROVE  /\ SumFunctionOnSet(v, {}) = 0
           /\ \A S \in SUBSET (1 .. m) :
                 /\ SumFunctionOnSet(v, S) \in Nat
                 /\ \A j \in (1 .. m) \ S :
                      SumFunctionOnSet(v, S \cup {j}) = SumFunctionOnSet(v, S) + v[j]
<1>1. PICK A : Adds(A, v, m)
  BY SumsExist
<1>2. ASSUME NEW S \in SUBSET (1 .. m)
      PROVE  SumFunctionOnSet(v, S) = A[S]
  <2>1. \E F : IsFold(F, S, v)
    BY <1>1, FoldExists
  <2>2. \E F : IsFold(F, S, v) /\ SumFunctionOnSet(v, S) = F[S]
    BY <2>1, Zenon DEF SumFunctionOnSet, FoldFunctionOnSet, MapThenFoldSet, IsFold
  <2> QED
    BY <1>1, <2>2, FoldIsSum
<1>3. ASSUME NEW S \in SUBSET (1 .. m), NEW j \in (1 .. m) \ S
      PROVE  S \cup {j} \in SUBSET (1 .. m)
  OBVIOUS
<1> QED
  BY <1>1, <1>2, <1>3 DEF Adds

-----------------------------------------------------------------------------
(* Orders and loads. *)

OrdersOK == orders \in Seq([weight : Nat, value : Nat])

\* The orders of a list have a weight and a value.
LEMMA OrderTypes ==
    ASSUME OrdersOK
    PROVE  /\ n \in Nat /\ DOMAIN orders = 1 .. n
           /\ \A k \in 1 .. n : orders[k].weight \in Nat /\ orders[k].value \in Nat
<1>1. ASSUME NEW R, orders \in Seq(R)
      PROVE  n \in Nat /\ DOMAIN orders = 1 .. n /\ \A k \in 1 .. n : orders[k] \in R
  BY <1>1 DEF n
<1>2. n \in Nat /\ DOMAIN orders = 1 .. n /\ \A k \in 1 .. n : orders[k] \in [weight : Nat, value : Nat]
  BY <1>1 DEF OrdersOK
<1> QED
  BY <1>2

\* A load weighs and is worth what its orders do, one by one.
LEMMA LoadFacts ==
    ASSUME OrdersOK
    PROVE  /\ Weigh({}) = 0 /\ Worth({}) = 0
           /\ \A S \in SUBSET (1 .. n) :
                /\ Weigh(S) \in Nat /\ Worth(S) \in Nat
                /\ \A k \in (1 .. n) \ S :
                     /\ Weigh(S \cup {k}) = Weigh(S) + orders[k].weight
                     /\ Worth(S \cup {k}) = Worth(S) + orders[k].value
<1> DEFINE v == [k \in 1 .. n |-> orders[k].weight]
           u == [k \in 1 .. n |-> orders[k].value]
<1>1. /\ n \in Nat
      /\ \A k \in 1 .. n : v[k] = orders[k].weight /\ v[k] \in Nat
      /\ \A k \in 1 .. n : u[k] = orders[k].value /\ u[k] \in Nat
  BY OrderTypes
<1>2. \A S : Weigh(S) = SumFunctionOnSet(v, S) /\ Worth(S) = SumFunctionOnSet(u, S)
  BY DEF Weigh, Worth
<1> HIDE DEF v, u
<1>3. Weigh({}) = 0 /\ Worth({}) = 0
  BY <1>1, <1>2, SumFacts
<1>4. ASSUME NEW S \in SUBSET (1 .. n)
      PROVE  /\ Weigh(S) \in Nat
             /\ \A k \in (1 .. n) \ S : Weigh(S \cup {k}) = Weigh(S) + orders[k].weight
  <2>1. /\ SumFunctionOnSet(v, S) \in Nat
        /\ \A k \in (1 .. n) \ S :
             SumFunctionOnSet(v, S \cup {k}) = SumFunctionOnSet(v, S) + v[k]
    BY <1>1, SumFacts
  <2> QED
    BY <1>1, <1>2, <2>1
<1>5. ASSUME NEW S \in SUBSET (1 .. n)
      PROVE  /\ Worth(S) \in Nat
             /\ \A k \in (1 .. n) \ S : Worth(S \cup {k}) = Worth(S) + orders[k].value
  <2>1. /\ SumFunctionOnSet(u, S) \in Nat
        /\ \A k \in (1 .. n) \ S :
             SumFunctionOnSet(u, S \cup {k}) = SumFunctionOnSet(u, S) + u[k]
    BY <1>1, SumFacts
  <2> QED
    BY <1>1, <1>2, <2>1
<1> QED
  BY <1>3, <1>4, <1>5

\* The same, for taking an order out.
LEMMA LoadWithout ==
    ASSUME OrdersOK, NEW S \in SUBSET (1 .. n), NEW k \in S
    PROVE  /\ S \ {k} \in SUBSET (1 .. n)
           /\ Weigh(S \ {k}) \in Nat /\ Worth(S \ {k}) \in Nat
           /\ Weigh(S) = Weigh(S \ {k}) + orders[k].weight
           /\ Worth(S) = Worth(S \ {k}) + orders[k].value
<1>1. S \ {k} \in SUBSET (1 .. n) /\ k \in (1 .. n) \ (S \ {k}) /\ (S \ {k}) \cup {k} = S
  BY Zenon
<1> QED
  BY <1>1, LoadFacts

\* A part of a load does not weigh more than the load.
LEMMA PartWeighsLess ==
    ASSUME OrdersOK, NEW S \in SUBSET (1 .. n), NEW A \in SUBSET S
    PROVE  Weigh(A) <= Weigh(S)
<1> DEFINE upTo(k) == A \cup (S \cap (1 .. k))
           T == {k \in Nat : k <= n => Weigh(A) <= Weigh(upTo(k))}
<1>0. n \in Nat /\ A \in SUBSET (1 .. n) /\ \A k \in 1 .. n : orders[k].weight \in Nat
  BY OrderTypes
<1>1. \A k : upTo(k) \in SUBSET (1 .. n)
  BY <1>0
<1>2. Weigh(A) \in Nat /\ \A k : Weigh(upTo(k)) \in Nat
  <2> HIDE DEF upTo
  <2> QED
    BY <1>0, <1>1, LoadFacts
<1>3. 0 \in T
  <2>1. upTo(0) = A
    OBVIOUS
  <2> QED
    BY <1>2, <2>1
<1>4. ASSUME NEW k \in Nat, k \in T PROVE k + 1 \in T
  <2> SUFFICES ASSUME k + 1 <= n PROVE Weigh(A) <= Weigh(upTo(k + 1))
    OBVIOUS
  <2>1. Weigh(A) <= Weigh(upTo(k)) /\ k + 1 \in 1 .. n
    BY <1>0, <1>4
  <2>2. 1 .. k + 1 = (1 .. k) \cup {k + 1}
    OBVIOUS
  <2>3. CASE k + 1 \in S /\ k + 1 \notin upTo(k)
    <3>1. upTo(k + 1) = upTo(k) \cup {k + 1}
      BY <2>2, <2>3, Zenon
    <3> HIDE DEF upTo
    <3>2. Weigh(upTo(k) \cup {k + 1}) = Weigh(upTo(k)) + orders[k + 1].weight
      BY <1>1, <2>1, <2>3, LoadFacts
    <3>3. orders[k + 1].weight \in Nat
      BY <1>0, <2>1
    <3> QED
      BY <1>2, <2>1, <3>1, <3>2, <3>3
  <2>4. CASE k + 1 \notin S \/ k + 1 \in upTo(k)
    <3>1. upTo(k + 1) = upTo(k)
      BY <2>2, <2>4, Zenon
    <3> QED
      BY <2>1, <3>1
  <2> QED
    BY <2>3, <2>4
<1> HIDE DEF T
<1>5. n \in T
  BY <1>0, <1>3, <1>4, Induction
<1>6. upTo(n) = S
  BY <1>0
<1> QED
  BY <1>0, <1>5, <1>6 DEF T

\* Orders without weight weigh nothing.
LEMMA NoWeight ==
    ASSUME OrdersOK, \A k \in 1 .. n : orders[k].weight = 0
    PROVE  Weigh(1 .. n) = 0
<1> DEFINE T == {k \in Nat : k <= n => Weigh(1 .. k) = 0}
<1>0. n \in Nat
  BY OrderTypes
<1>1. 0 \in T
  <2>1. 1 .. 0 = {}
    OBVIOUS
  <2> QED
    BY <2>1, LoadFacts
<1>2. ASSUME NEW k \in Nat, k \in T PROVE k + 1 \in T
  <2> SUFFICES ASSUME k + 1 <= n PROVE Weigh(1 .. k + 1) = 0
    OBVIOUS
  <2>1. 1 .. k \in SUBSET (1 .. n) /\ k + 1 \in (1 .. n) \ (1 .. k)
    BY <1>0
  <2>2. (1 .. k) \cup {k + 1} = 1 .. k + 1
    OBVIOUS
  <2>3. Weigh((1 .. k) \cup {k + 1}) = Weigh(1 .. k) + 0
    BY <2>1, LoadFacts
  <2>4. Weigh(1 .. k) = 0
    BY <1>0, <1>2
  <2>5. Weigh((1 .. k) \cup {k + 1}) = 0
    BY <2>3, <2>4
  <2> QED
    BY <2>2, <2>5, Zenon
<1> HIDE DEF T
<1>3. n \in T
  BY <1>0, <1>1, <1>2, Induction
<1> QED
  BY <1>0, <1>3 DEF T

\* What is computed from the orders and the divisor stays while they do.
LEMMA Frozen ==
    ASSUME UNCHANGED <<args, g>>
    PROVE  /\ n' = n /\ Carriable' = Carriable /\ ValuesPositive' = ValuesPositive
           /\ \A S : Weigh(S)' = Weigh(S) /\ Worth(S)' = Worth(S)
           /\ \A k : wts(k)' = wts(k)
           /\ \A k, x : ExactLoads(k, x)' = ExactLoads(k, x)
<1>1. orders' = orders /\ g' = g
  BY DEF args
<1>2. n' = n
  BY <1>1 DEF n
<1>3. \A S : Weigh(S)' = Weigh(S) /\ Worth(S)' = Worth(S)
  BY <1>1, <1>2, Zenon DEF Weigh, Worth
<1>4. Carriable' = Carriable /\ ValuesPositive' = ValuesPositive /\ \A k : wts(k)' = wts(k)
  BY <1>1, <1>2, Zenon DEF Carriable, ValuesPositive, wts
<1> QED
  BY <1>1, <1>2, <1>3, <1>4, Zenon DEF ExactLoads

\* The best of a set of loads, once one is known to be it.
LEMMA BestOf ==
    ASSUME NEW loads, NEW v \in Nat,
           \A S \in loads : Worth(S) \in Nat /\ Worth(S) <= v,
           v = 0 \/ \E S \in loads : Worth(S) = v
    PROVE  BestWorth(loads) = v
<1> DEFINE B == {0} \cup {Worth(S) : S \in loads}
<1>1. B \in SUBSET (0 .. v) /\ v \in B
  OBVIOUS
<1> HIDE DEF B
<1>2. PICK m : m = Max(B)
  OBVIOUS
<1>3. m \in B /\ v <= m
  BY <1>1, <1>2, MaxOf
<1>4. m \in 0 .. v
  BY <1>1, <1>3
<1>5. m = v
  BY <1>3, <1>4
<1> QED
  BY <1>2, <1>5, Zenon DEF BestWorth, B

-----------------------------------------------------------------------------
(* The common divisor. *)

\* d divides m.
Divides(d, m) == \E q \in Int : m = d * q

\* What divides b divides a if and only if it divides the remainder.
LEMMA DividesRemainder ==
    ASSUME NEW d \in Int, NEW a \in Nat, NEW b \in Nat \ {0}, Divides(d, b)
    PROVE  Divides(d, a) <=> Divides(d, a % b)
<1>0. a \div b \in Int /\ a % b = a - b * (a \div b)
  OBVIOUS
<1>1. PICK q \in Int : b = d * q
  BY DEF Divides
<1>2. ASSUME NEW r \in Int, a = d * r PROVE a % b = d * (r - q * (a \div b))
  BY <1>0, <1>1, <1>2
<1>3. ASSUME NEW r \in Int, a % b = d * r PROVE a = d * (r + q * (a \div b))
  BY <1>0, <1>1, <1>3
<1>4. \A r \in Int : r - q * (a \div b) \in Int /\ r + q * (a \div b) \in Int
  BY <1>0
<1> QED
  BY <1>2, <1>3, <1>4 DEF Divides

\* The common divisors, and the largest of them.
CommonDivisors(a, b) == {d \in Nat \ {0} : Divides(d, a) /\ Divides(d, b)}

Largest(a, b) ==
    IF a = 0 /\ b = 0 THEN 0
    ELSE Max(CommonDivisors(a, b))

\* The step of the algorithm keeps the largest common divisor: the recursion of
\* gcd has a solution.
LEMMA LargestStep ==
    ASSUME NEW a \in Nat, NEW b \in Nat
    PROVE  Largest(a, b) = IF b = 0 THEN a ELSE Largest(b, a % b)
<1>1. CASE b # 0
  <2>0. a % b \in Nat
    BY <1>1
  <2>1. CommonDivisors(a, b) = CommonDivisors(b, a % b)
    BY <1>1, DividesRemainder DEF CommonDivisors
  <2>2. ~(a = 0 /\ b = 0) /\ ~(b = 0 /\ a % b = 0)
    BY <1>1
  <2>3. Largest(a, b) = Largest(b, a % b)
    BY <2>1, <2>2, Zenon DEF Largest
  <2> QED
    BY <1>1, <2>3
<1>2. CASE b = 0 /\ a # 0
  <2>1. a \in CommonDivisors(a, b)
    <3>1. a = a * 1 /\ b = a * 0
      BY <1>2
    <3> QED
      BY <1>2, <3>1 DEF CommonDivisors, Divides
  <2>2. ASSUME NEW e \in CommonDivisors(a, b) PROVE e <= a
    <3>1. PICK q \in Int : a = e * q
      BY <2>2 DEF CommonDivisors, Divides
    <3>2. e \in Nat \ {0}
      BY DEF CommonDivisors
    <3>3. q >= 1
      <4>1. q <= 0 => e * q <= 0
        BY <3>2
      <4> QED
        BY <1>2, <3>1, <4>1
    <3>4. e * q >= e
      BY <3>2, <3>3
    <3> QED
      BY <3>1, <3>4
  <2>3. \A d \in CommonDivisors(a, b) : (\A e \in CommonDivisors(a, b) : d >= e) <=> d = a
    <3>1. \A d \in CommonDivisors(a, b) : d \in Nat
      BY DEF CommonDivisors
    <3> QED
      BY <2>1, <2>2, <3>1
  <2> QED
    BY <1>2, <2>1, <2>3 DEF Largest, Max
<1>3. CASE b = 0 /\ a = 0
  BY <1>3 DEF Largest
<1> QED
  BY <1>1, <1>2, <1>3

\* So gcd is what its definition says.
LEMMA GcdUnfold ==
    \A a, b \in Nat : gcd[<<a, b>>] = IF b = 0 THEN a ELSE gcd[<<b, a % b>>]
<1> DEFINE G == [p \in Nat \X Nat |-> Largest(p[1], p[2])]
<1>1. ASSUME NEW p \in Nat \X Nat
      PROVE  G[p] = IF p[2] = 0 THEN p[1] ELSE G[<<p[2], p[1] % p[2]>>]
  <2>1. p[1] \in Nat /\ p[2] \in Nat /\ (p[2] # 0 => p[1] % p[2] \in Nat)
    OBVIOUS
  <2>2. G[p] = Largest(p[1], p[2])
    OBVIOUS
  <2>3. p[2] # 0 => G[<<p[2], p[1] % p[2]>>] = Largest(p[2], p[1] % p[2])
    BY <2>1
  <2> HIDE DEF G
  <2> QED
    BY <2>1, <2>2, <2>3, LargestStep
<1>2. G = [p \in Nat \X Nat |-> IF p[2] = 0 THEN p[1] ELSE G[<<p[2], p[1] % p[2]>>]]
  <2>1. G = [p \in Nat \X Nat |-> G[p]]
    OBVIOUS
  <2> HIDE DEF G
  <2> QED
    BY <1>1, <2>1, Zenon
<1>3. gcd = [p \in Nat \X Nat |-> IF p[2] = 0 THEN p[1] ELSE gcd[<<p[2], p[1] % p[2]>>]]
  <2> HIDE DEF G
  <2> QED
    BY <1>2, Zenon DEF gcd
<1>4. ASSUME NEW a \in Nat, NEW b \in Nat
      PROVE  gcd[<<a, b>>] = IF b = 0 THEN a ELSE gcd[<<b, a % b>>]
  <2>1. <<a, b>> \in Nat \X Nat /\ <<a, b>>[1] = a /\ <<a, b>>[2] = b
    OBVIOUS
  <2> QED
    BY <1>3, <2>1
<1> QED
  BY <1>4

\* gcd computes the greatest common divisor: it divides both numbers, every
\* number that divides both divides it, and it is not 0 unless both are, so that
\* the code never divides by 0.
THEOREM GcdIsGreatest ==
    ASSUME NEW a \in Nat, NEW b \in Nat
    PROVE  /\ gcd[<<a, b>>] \in Nat
           /\ Divides(gcd[<<a, b>>], a) /\ Divides(gcd[<<a, b>>], b)
           /\ a # 0 \/ b # 0 => gcd[<<a, b>>] # 0
           /\ \A d \in Nat \ {0} : Divides(d, a) /\ Divides(d, b) => Divides(d, gcd[<<a, b>>])
<1> DEFINE Good(x, y) == /\ gcd[<<x, y>>] \in Nat
                         /\ Divides(gcd[<<x, y>>], x) /\ Divides(gcd[<<x, y>>], y)
                         /\ x # 0 \/ y # 0 => gcd[<<x, y>>] # 0
                         /\ \A d \in Nat \ {0} : Divides(d, x) /\ Divides(d, y) =>
                                                  Divides(d, gcd[<<x, y>>])
           T == {k \in Nat : \A y \in 0 .. k : \A x \in Nat : Good(x, y)}
<1>1. ASSUME NEW x \in Nat PROVE Good(x, 0)
  <2>1. gcd[<<x, 0>>] = x
    BY GcdUnfold
  <2>2. x = x * 1 /\ 0 = x * 0
    OBVIOUS
  <2> QED
    BY <2>1, <2>2 DEF Divides
<1>2. ASSUME NEW k \in Nat, k \in T, NEW x \in Nat PROVE Good(x, k + 1)
  <2>1. x % (k + 1) \in 0 .. k /\ k + 1 \in Nat \ {0}
    OBVIOUS
  <2>2. Good(k + 1, x % (k + 1))
    BY <1>2, <2>1
  <2>3. gcd[<<x, k + 1>>] = gcd[<<k + 1, x % (k + 1)>>]
    BY <2>1, GcdUnfold
  <2>4. Divides(gcd[<<x, k + 1>>], x)
    BY <2>1, <2>2, <2>3, DividesRemainder
  <2>5. ASSUME NEW d \in Nat \ {0}, Divides(d, x), Divides(d, k + 1)
        PROVE  Divides(d, gcd[<<x, k + 1>>])
    <3>1. Divides(d, x % (k + 1))
      BY <2>1, <2>5, DividesRemainder
    <3> QED
      BY <2>2, <2>3, <2>5, <3>1
  <2> QED
    BY <2>1, <2>2, <2>3, <2>4, <2>5
<1> HIDE DEF Good
<1>3. 0 \in T
  BY <1>1
<1>4. ASSUME NEW k \in Nat, k \in T PROVE k + 1 \in T
  <2>1. \A y \in 0 .. k + 1 : y \in 0 .. k \/ y = k + 1
    OBVIOUS
  <2> QED
    BY <1>2, <1>4, <2>1
<1>5. b \in T
  <2> HIDE DEF T
  <2> QED
    BY <1>3, <1>4, Induction
<1>6. Good(a, b)
  BY <1>5
<1> QED
  BY <1>6 DEF Good

\* Divisibility is transitive.
LEMMA DividesAll ==
    ASSUME NEW d \in Int, NEW e \in Int, NEW m \in Int, Divides(d, e), Divides(e, m)
    PROVE  Divides(d, m)
<1>1. PICK p \in Int : e = d * p
  BY DEF Divides
<1>2. PICK q \in Int : m = e * q
  BY DEF Divides
<1>3. m = d * (p * q) /\ p * q \in Int
  BY <1>1, <1>2
<1> QED
  BY <1>3 DEF Divides

\* How FoldLeft computes CommonDivisor: the last order first.
Divided(F, s) ==
    IF s = {} THEN 0
    ELSE IF orders[Max(s)].weight > 0 THEN gcd[<<F[s \ {Max(s)}], orders[Max(s)].weight>>]
    ELSE F[s \ {Max(s)}]

\* The last of the first k + 1 orders.
LEMMA LastOfPrefix ==
    ASSUME NEW k \in Nat, NEW s \in SUBSET (1 .. k + 1), k + 1 \in s
    PROVE  Max(s) = k + 1
<1>1. \A x \in s : (\A y \in s : x >= y) <=> x = k + 1
  OBVIOUS
<1> QED
  BY <1>1 DEF Max

\* The fold over the orders has a solution, order by order.
LEMMA DivisorFold ==
    ASSUME NEW m \in Nat
    PROVE  \E F : F = [s \in SUBSET (1 .. m) |-> Divided(F, s)]
<1> DEFINE T == {k \in Nat : \E F : F = [s \in SUBSET (1 .. k) |-> Divided(F, s)]}
<1>1. 0 \in T
  <2> DEFINE F == [s \in SUBSET (1 .. 0) |-> 0]
  <2>1. \A s \in SUBSET (1 .. 0) : s = {}
    OBVIOUS
  <2>2. \A s \in SUBSET (1 .. 0) : Divided(F, s) = 0
    BY <2>1, Zenon DEF Divided
  <2>3. F = [s \in SUBSET (1 .. 0) |-> Divided(F, s)]
    BY <2>2, Zenon
  <2> QED
    BY <2>3
<1>2. ASSUME NEW k \in Nat, k \in T PROVE k + 1 \in T
  <2>1. PICK F : F = [s \in SUBSET (1 .. k) |-> Divided(F, s)]
    BY <1>2
  <2> DEFINE last(s) == IF orders[k + 1].weight > 0
                        THEN gcd[<<F[s \ {k + 1}], orders[k + 1].weight>>] ELSE F[s \ {k + 1}]
             G == [s \in SUBSET (1 .. k + 1) |-> IF k + 1 \in s THEN last(s) ELSE F[s]]
  <2>2. \A s \in SUBSET (1 .. k) : s \in SUBSET (1 .. k + 1) /\ k + 1 \notin s
    OBVIOUS
  <2>3. \A s \in SUBSET (1 .. k) : G[s] = F[s]
    BY <2>2
  <2>4. ASSUME NEW s \in SUBSET (1 .. k + 1) PROVE G[s] = Divided(G, s)
    <3>1. CASE k + 1 \in s
      <4>1. Max(s) = k + 1
        BY <3>1, LastOfPrefix
      <4>2. s \ {k + 1} \in SUBSET (1 .. k)
        OBVIOUS
      <4>3. G[s \ {k + 1}] = F[s \ {k + 1}]
        BY <2>3, <4>2
      <4>4. G[s] = last(s)
        BY <3>1
      <4> HIDE DEF G
      <4> QED
        BY <3>1, <4>1, <4>3, <4>4 DEF Divided
    <3>2. CASE k + 1 \notin s
      <4>1. s \in SUBSET (1 .. k) /\ s \ {Max(s)} \in SUBSET (1 .. k)
        <5>1. s \in SUBSET (1 .. k)
          BY <3>2
        <5> QED
          BY <5>1, Zenon
      <4>2. F[s] = Divided(F, s)
        BY <2>1, <4>1
      <4>3. G[s] = F[s] /\ G[s \ {Max(s)}] = F[s \ {Max(s)}]
        BY <2>3, <4>1
      <4> HIDE DEF G
      <4> QED
        BY <4>2, <4>3 DEF Divided
    <3> QED
      BY <3>1, <3>2
  <2>5. G = [s \in SUBSET (1 .. k + 1) |-> Divided(G, s)]
    <3>1. G = [s \in SUBSET (1 .. k + 1) |-> G[s]]
      OBVIOUS
    <3> HIDE DEF G
    <3> QED
      BY <2>4, <3>1, Zenon
  <2> HIDE DEF G
  <2>6. k + 1 \in Nat
    OBVIOUS
  <2> QED
    BY <2>5, <2>6, Zenon
<1> HIDE DEF T
<1>3. m \in T
  BY <1>1, <1>2, Induction
<1> QED
  BY <1>3 DEF T

\* The divisor by which selectOrdersForDelivery compresses divides every positive
\* weight, is not 0 when there is one, and every divisor of all of them divides
\* it: no other unit would make the rows shorter.
THEOREM CommonDivisorIsGreatest ==
    ASSUME OrdersOK
    PROVE  /\ CommonDivisor \in Nat
           /\ \A k \in 1 .. n : orders[k].weight > 0 =>
                Divides(CommonDivisor, orders[k].weight) /\ CommonDivisor # 0
           /\ \A d \in Nat \ {0} :
                (\A k \in 1 .. n : orders[k].weight > 0 => Divides(d, orders[k].weight))
                  => Divides(d, CommonDivisor)
<1>0. /\ n \in Nat /\ DOMAIN orders = 1 .. n
      /\ \A k \in 1 .. n : orders[k].weight \in Nat
  BY OrderTypes
<1>1. \E F : F = [s \in SUBSET DOMAIN orders |-> Divided(F, s)]
  BY <1>0, DivisorFold
<1>2. \E F : F = [s \in SUBSET DOMAIN orders |-> Divided(F, s)] /\ CommonDivisor = F[DOMAIN orders]
  BY <1>1, Zenon DEF CommonDivisor, FoldLeft, MapThenFoldSet, Divided
<1>3. PICK F : F = [s \in SUBSET (1 .. n) |-> Divided(F, s)] /\ CommonDivisor = F[1 .. n]
  BY <1>0, <1>2
<1> DEFINE T == {k \in Nat : k <= n =>
                   /\ F[1 .. k] \in Nat
                   /\ \A j \in 1 .. k : orders[j].weight > 0 =>
                        Divides(F[1 .. k], orders[j].weight) /\ F[1 .. k] # 0
                   /\ \A d \in Nat \ {0} :
                        (\A j \in 1 .. k : orders[j].weight > 0 => Divides(d, orders[j].weight))
                          => Divides(d, F[1 .. k])}
<1>4. 0 \in T
  <2>1. 1 .. 0 = {} /\ {} \in SUBSET (1 .. n)
    OBVIOUS
  <2>2. F[{}] = 0
    BY <1>3, <2>1 DEF Divided
  <2>3. \A d \in Nat \ {0} : Divides(d, 0)
    <3>1. \A d \in Nat \ {0} : 0 = d * 0
      OBVIOUS
    <3> QED
      BY <3>1 DEF Divides
  <2> QED
    BY <2>1, <2>2, <2>3
<1>5. ASSUME NEW k \in Nat, k \in T PROVE k + 1 \in T
  <2> SUFFICES ASSUME k + 1 <= n
               PROVE  /\ F[1 .. k + 1] \in Nat
                      /\ \A j \in 1 .. k + 1 : orders[j].weight > 0 =>
                           Divides(F[1 .. k + 1], orders[j].weight) /\ F[1 .. k + 1] # 0
                      /\ \A d \in Nat \ {0} :
                           (\A j \in 1 .. k + 1 : orders[j].weight > 0 => Divides(d, orders[j].weight))
                             => Divides(d, F[1 .. k + 1])
    OBVIOUS
  <2> DEFINE c == F[1 .. k]
             e == F[1 .. k + 1]
             wt == orders[k + 1].weight
  <2>1. /\ c \in Nat
        /\ \A j \in 1 .. k : orders[j].weight > 0 => Divides(c, orders[j].weight) /\ c # 0
        /\ \A d \in Nat \ {0} :
             (\A j \in 1 .. k : orders[j].weight > 0 => Divides(d, orders[j].weight)) => Divides(d, c)
    BY <1>0, <1>5
  <2>2. e = IF wt > 0 THEN gcd[<<c, wt>>] ELSE c
    <3>1. (1 .. k + 1) \ {k + 1} = 1 .. k /\ 1 .. k + 1 # {} /\ 1 .. k + 1 \in SUBSET (1 .. n)
      <4>1. (1 .. k + 1) \ {k + 1} = 1 .. k
        OBVIOUS
      <4>2. k + 1 \in 1 .. k + 1 /\ \A j \in 1 .. k + 1 : j \in 1 .. n
        BY <1>0
      <4> QED
        BY <4>1, <4>2
    <3>2. Max(1 .. k + 1) = k + 1
      BY LastOfPrefix
    <3>3. F[1 .. k + 1] = Divided(F, 1 .. k + 1)
      BY <1>3, <3>1
    <3> QED
      BY <3>1, <3>2, <3>3 DEF Divided
  <2>3. wt \in Nat
    BY <1>0
  <2> HIDE DEF c, e, wt
  <2>4. CASE wt > 0
    <3>1. e \in Nat /\ e # 0 /\ Divides(e, c) /\ Divides(e, wt)
      BY <2>1, <2>2, <2>3, <2>4, GcdIsGreatest
    <3>2. ASSUME NEW j \in 1 .. k, orders[j].weight > 0 PROVE Divides(e, orders[j].weight)
      BY <1>0, <2>1, <3>1, <3>2, DividesAll
    <3>3. ASSUME NEW d \in Nat \ {0},
                 \A j \in 1 .. k + 1 : orders[j].weight > 0 => Divides(d, orders[j].weight)
          PROVE  Divides(d, e)
      <4>1. Divides(d, c)
        BY <2>1, <3>3
      <4>2. Divides(d, wt)
        BY <2>4, <3>3 DEF wt
      <4> QED
        BY <2>1, <2>2, <2>3, <2>4, <4>1, <4>2, GcdIsGreatest
    <3> QED
      BY <1>0, <3>1, <3>2, <3>3 DEF e, wt
  <2>5. CASE ~(wt > 0)
    <3>1. e = c
      BY <2>2, <2>5
    <3>2. \A d \in Nat \ {0} :
             (\A j \in 1 .. k + 1 : orders[j].weight > 0 => Divides(d, orders[j].weight)) => Divides(d, c)
      BY <2>1
    <3>3. \A j \in 1 .. k + 1 : orders[j].weight > 0 => Divides(c, orders[j].weight) /\ c # 0
      BY <2>1, <2>5 DEF wt
    <3> QED
      BY <2>1, <3>1, <3>2, <3>3 DEF e
  <2> QED
    BY <2>4, <2>5
<1> HIDE DEF T
<1>6. n \in T
  BY <1>0, <1>4, <1>5, Induction
<1>7. /\ F[1 .. n] \in Nat
      /\ \A j \in 1 .. n : orders[j].weight > 0 =>
            Divides(F[1 .. n], orders[j].weight) /\ F[1 .. n] # 0
      /\ \A d \in Nat \ {0} :
            (\A j \in 1 .. n : orders[j].weight > 0 => Divides(d, orders[j].weight))
              => Divides(d, F[1 .. n])
  BY <1>0, <1>6 DEF T
<1> QED
  BY <1>3, <1>7

\* Dividing a multiple loses nothing.
LEMMA Quotient ==
    ASSUME NEW d \in Nat \ {0}, NEW m \in Nat, Divides(d, m)
    PROVE  (m \div d) * d = m
<1>1. PICK q \in Int : m = d * q
  BY DEF Divides
<1>2. m = q * d /\ q >= 0
  <2>1. m = q * d
    BY <1>1
  <2> QED
    BY <2>1, Multiplied
<1>3. m \div d = q
  <2>1. m \div d \in Int /\ m % d \in 0 .. d - 1 /\ m = d * (m \div d) + (m % d)
    OBVIOUS
  <2>2. d * (q - (m \div d)) = m % d
    BY <1>1, <2>1
  <2>3. (q - (m \div d)) * d = m % d
    BY <2>1, <2>2
  <2>4. q - (m \div d) >= 0
    BY <2>1, <2>3, Multiplied
  <2>5. ~ (q - (m \div d) >= 1)
    <3>1. \A z \in Int : z >= 1 => z * d >= d
      <4>1. \A z \in Int : z >= 1 => 1 * d <= z * d
        BY Multiplied
      <4> QED
        BY <4>1
    <3> QED
      BY <2>1, <2>3, <3>1
  <2> QED
    BY <2>1, <2>4, <2>5
<1> QED
  BY <1>2, <1>3

-----------------------------------------------------------------------------
(* The rows. *)

\* The arguments of the function.
LEMMA Inputs ==
    ASSUME TypeOK
    PROVE  /\ OrdersOK /\ capacity \in Int
           /\ n \in Nat /\ \A k \in 1 .. n : orders[k].weight \in Nat /\ orders[k].value \in Nat
<1>1. OrdersOK /\ capacity \in Int
  BY LoadInputs DEF TypeOK, OrdersOK
<1> QED
  BY <1>1, OrderTypes

\* What the inner loop does to the row, whatever the length of a word: x is
\* improved from the one weight that lies the weight of the order below it.
LEMMA ImprovedIs ==
    ASSUME TypeOK, Searching, 0 \in reach, NEW k \in 1 .. n
    PROVE  /\ wts(k) \in Nat
           /\ Improved(k) = {x \in 0 .. W : /\ wts(k) # 0 /\ x - wts(k) \in reach
                                           /\ dp[x - wts(k)] + orders[k].value > dp[x]}
<1>0. wts(k) \in Nat /\ orders[k].value \in Nat
  <2>1. orders[k].weight \in Nat /\ orders[k].value \in Nat /\ g \in Nat \ {0}
    BY Inputs DEF TypeOK
  <2>2. orders[k].weight \div g \in Nat
    BY <2>1
  <2> QED
    BY <2>1, <2>2 DEF wts
<1> DEFINE a == wts(k)
           top == AtMost(Max(reach), W - a)
<1>1. reach \in SUBSET (0 .. W) /\ reach # {} /\ W \in Nat /\ dp \in [0 .. W -> Nat]
  BY DEF TypeOK
<1>2. Max(reach) \in reach /\ \A x \in reach : x <= Max(reach)
  BY <1>1, MaxOf
<1>3. CASE a = 0 \/ a > W
  <2>1. Improved(k) = {}
    BY <1>3 DEF Improved
  <2>2. \A x \in 0 .. W : a > W => x - a \notin reach
    BY <1>0, <1>1
  <2> QED
    BY <1>0, <1>3, <2>1, <2>2
<1>4. CASE a # 0 /\ a <= W
  <2>1. top \in Nat /\ \A b \in reach : b <= top <=> b + a <= W
    <3>1. a \in Nat /\ W - a \in Nat /\ Max(reach) \in Nat /\ \A b \in reach : b \in Nat
      <4>1. \A b \in reach : b \in Nat
        BY <1>1
      <4>2. W - a \in Nat
        BY <1>0, <1>1, <1>4
      <4> QED
        BY <1>0, <1>2, <4>1, <4>2
    <3>2. top = IF Max(reach) < W - a THEN Max(reach) ELSE W - a
      BY DEF AtMost
    <3> HIDE DEF top, a
    <3> QED
      BY <1>1, <1>2, <3>1, <3>2
  <2>2. Bases(reach, top) = {b \in reach : b <= top}
    <3>1. reach \in SUBSET Nat
      BY <1>1
    <3> HIDE DEF top
    <3> QED
      BY <2>1, <3>1, BasesAreExact
  <2>3. Improved(k) = {b + a : b \in {c \in Bases(reach, top) : dp[c] + orders[k].value > dp[c + a]}}
    BY <1>0, <1>1, <1>4 DEF Improved
  <2> HIDE DEF top, a
  <2>4. ASSUME NEW x \in Improved(k)
        PROVE  x \in 0 .. W /\ x - a \in reach /\ dp[x - a] + orders[k].value > dp[x]
    <3>1. PICK b \in reach : b <= top /\ dp[b] + orders[k].value > dp[b + a] /\ x = b + a
      BY <2>2, <2>3
    <3>2. b \in Nat /\ x - a = b /\ x <= W /\ x >= 0
      BY <1>0, <1>1, <2>1, <3>1 DEF a
    <3> QED
      BY <1>0, <1>1, <3>1, <3>2 DEF a
  <2>5. ASSUME NEW x \in 0 .. W, x - a \in reach, dp[x - a] + orders[k].value > dp[x]
        PROVE  x \in Improved(k)
    <3> DEFINE b == x - a
    <3>1. b \in reach /\ b + a = x /\ b <= top
      BY <1>0, <1>1, <2>1, <2>5 DEF a
    <3>2. dp[b] + orders[k].value > dp[b + a]
      BY <2>5, <3>1
    <3> HIDE DEF b
    <3> QED
      BY <2>2, <2>3, <3>1, <3>2
  <2> QED
    BY <1>0, <1>4, <2>4, <2>5 DEF a
<1> QED
  BY <1>0, <1>1, <1>3, <1>4

\* The empty row: no order was tried, the empty load is the only one.
LEMMA StartSearchKeeps ==
    ASSUME LoadInv, StartSearch
    PROVE  LoadInv'
<1>0. /\ TypeOK /\ OrdersOK /\ capacity \in Int /\ n \in Nat
      /\ \A k \in 1 .. n : orders[k].weight \in Nat /\ orders[k].value \in Nat
  BY Inputs DEF LoadInv
<1>1. CommonDivisor \in Nat \ {0} /\ \A k \in 1 .. n : orders[k].weight > 0 =>
                                        Divides(CommonDivisor, orders[k].weight)
  <2>1. \E k \in 1 .. n : orders[k].weight > 0
    <3>1. Weigh(1 .. n) # 0
      BY <1>0 DEF StartSearch
    <3> QED
      BY <1>0, <3>1, NoWeight
  <2> QED
    BY <1>0, <2>1, CommonDivisorIsGreatest DEF OrdersOK
<1>2. PICK d \in Nat \ {0} : d = CommonDivisor
  BY <1>1
<1>3. PICK top : top = capacity \div d
  OBVIOUS
<1>4. /\ g' = d /\ W' = top /\ n' = n /\ orders' = orders /\ capacity' = capacity
      /\ pc' = "items" /\ i' = 1 /\ dp' = [x \in 0 .. top |-> 0] /\ reach' = {0}
      /\ choose' = [k \in 1 .. n |-> {}]
      /\ UNCHANGED <<w, selected, plan, ctxDone>> /\ pc = "start"
      /\ n > 0 /\ capacity > 0 /\ Weigh(1 .. n) > capacity
  BY <1>2, <1>3 DEF StartSearch, Compress, args, n
<1>5. top \in Nat
  <2>1. capacity \in Nat
    BY <1>0, <1>4
  <2> QED
    BY <1>3, <2>1
<1>6. \A k \in 1 .. n : (orders[k].weight \div d) * d = orders[k].weight
  <2> SUFFICES ASSUME NEW k \in 1 .. n PROVE (orders[k].weight \div d) * d = orders[k].weight
    OBVIOUS
  <2>1. CASE orders[k].weight > 0
    BY <1>0, <1>1, <1>2, <2>1, Quotient
  <2>2. CASE orders[k].weight = 0
    <3>1. 0 = d * 0
      OBVIOUS
    <3> QED
      BY <2>2, <3>1, Quotient DEF Divides
  <2> QED
    BY <1>0, <2>1, <2>2
<1>7. /\ \A S : Weigh(S)' = Weigh(S) /\ Worth(S)' = Worth(S)
      /\ Carriable' = Carriable
  BY <1>4, Zenon DEF Weigh, Worth, Carriable
<1>8. selected = {} /\ plan = Plan({}, 0) /\ w = 0 /\ plan.orders \subseteq 1 .. n /\ ctxDone \in BOOLEAN
  BY <1>0, <1>4 DEF LoadInv, TypeOK
<1>9. Searching' /\ Tried' = 0
  BY <1>4 DEF Searching, Tried
<1>10. \A x \in 0 .. top : \A S : S \in ExactLoads(0, x)' <=> S = {} /\ x = 0
  <2> SUFFICES ASSUME NEW x \in 0 .. top, NEW S
               PROVE  S \in ExactLoads(0, x)' <=> S = {} /\ x = 0
    OBVIOUS
  <2>1. S \in ExactLoads(0, x)' <=> S \in SUBSET (Carriable \cap (1 .. 0)) /\ Weigh(S) = x * d
    BY <1>4, <1>7 DEF ExactLoads
  <2>2. S \in SUBSET (Carriable \cap (1 .. 0)) <=> S = {}
    OBVIOUS
  <2>3. Weigh({}) = 0 /\ (x * d = 0 <=> x = 0)
    BY <1>0, <1>5, LoadFacts, Multiplied
  <2> QED
    BY <2>1, <2>2, <2>3
<1>11. TypeOK'
  <2>1. 0 \in 0 .. top /\ 1 \in 0 .. n + 1
    BY <1>0, <1>5
  <2>2. w' \in 0 .. W'
    BY <1>4, <1>5, <1>8
  <2> QED
    BY <1>0, <1>4, <1>5, <1>8, <2>1, <2>2 DEF TypeOK, Searching
<1>12. RowsAreLoads'
  <2>1. Worth({}) = 0
    BY <1>0, LoadFacts
  <2>2. Leads({}, 0, 0)'
    BY DEF Leads
  <2>3. {} \in ExactLoads(0, 0)'
    BY <1>5, <1>10
  <2> QED
    BY <1>4, <1>7, <1>9, <2>1, <2>2, <2>3 DEF RowsAreLoads
<1>13. NoLoadIsBetter'
  <2>1. Worth({}) = 0
    BY <1>0, LoadFacts
  <2>2. ASSUME NEW x \in 0 .. top, NEW S \in ExactLoads(0, x)'
        PROVE  x \in reach' /\ Worth(S)' <= dp'[x]
    <3>1. S = {} /\ x = 0
      BY <1>10
    <3>2. Worth(S)' = 0 /\ dp'[x] = 0 /\ x \in reach'
      BY <1>4, <1>7, <2>1, <3>1
    <3> QED
      BY <3>2
  <2> QED
    BY <1>4, <1>9, <2>2 DEF NoLoadIsBetter
<1>14. MarksAreReached' /\ Compressed'
  BY <1>3, <1>4, <1>6, <1>7, <1>9 DEF MarksAreReached, Compressed, wts
<1>15. PlanIsALoad' /\ FillsExactly'
  BY <1>4 DEF PlanIsALoad, FillsExactly
<1> QED
  BY <1>4, <1>8, <1>11, <1>12, <1>13, <1>14, <1>15 DEF LoadInv

\* What a turn of the outer loop does, in one place.
LEMMA Trying ==
    ASSUME LoadInv, TryOrder
    PROVE  /\ i \in 1 .. n /\ n \in Nat /\ W \in Nat /\ g \in Nat \ {0}
           /\ dp \in [0 .. W -> Nat] /\ reach \in SUBSET (0 .. W) /\ choose \in [1 .. n -> SUBSET (0 .. W)]
           /\ Tried = i - 1 /\ Tried' = i
           /\ UNCHANGED <<args, g, W, pc, w, selected, plan, ctxDone>> /\ Searching /\ Searching'
           /\ 0 \in reach
           /\ \A x \in 0 .. W : dp'[x] = IF x \in Improved(i) THEN dp[x - wts(i)] + orders[i].value
                                                            ELSE dp[x]
           /\ DOMAIN dp' = 0 .. W
           /\ reach' = reach \cup Improved(i)
           /\ choose' = [choose EXCEPT ![i] = Improved(i)]
<1>1. Searching /\ pc = "items" /\ pc' = "items"
  BY DEF TryOrder, Searching
<1>2. /\ n \in Nat /\ W \in Nat /\ g \in Nat \ {0} /\ i \in 1 .. n
      /\ dp \in [0 .. W -> Nat] /\ reach \in SUBSET (0 .. W) /\ choose \in [1 .. n -> SUBSET (0 .. W)]
  BY <1>1, Inputs DEF LoadInv, TypeOK, TryOrder
<1>3. Tried = i - 1 /\ Tried' = i /\ Searching'
  BY <1>1, <1>2 DEF Tried, TryOrder, Searching
<1>4. 0 \in reach
  BY <1>1 DEF LoadInv, MarksAreReached
<1> QED
  BY <1>1, <1>2, <1>3, <1>4 DEF TryOrder, Row, Taken

\* The new row has the values of a row.
LEMMA TryOrderTypes ==
    ASSUME LoadInv, TryOrder
    PROVE  TypeOK'
<1>1. /\ i \in 1 .. n /\ n \in Nat /\ W \in Nat
      /\ dp \in [0 .. W -> Nat] /\ reach \in SUBSET (0 .. W) /\ choose \in [1 .. n -> SUBSET (0 .. W)]
      /\ UNCHANGED <<args, g, W, pc, w, selected, plan, ctxDone>> /\ Searching /\ 0 \in reach
  BY Trying
<1>2. TypeOK /\ n' = n
  BY <1>1, Frozen DEF LoadInv
<1>3. orders[i].value \in Nat
  BY <1>1, <1>2, Inputs
<1>4. \A x \in Improved(i) : x \in 0 .. W /\ x - wts(i) \in reach
  BY <1>1, <1>2, ImprovedIs
<1>5. \A x \in Improved(i) : dp[x - wts(i)] + orders[i].value \in Nat
  <2>1. \A b \in reach : dp[b] \in Nat
    BY <1>1
  <2>2. \A b \in reach : dp[b] + orders[i].value \in Nat
    BY <1>3, <2>1
  <2> QED
    BY <1>4, <2>2
<1>6. dp' \in [0 .. W -> Nat]
  BY <1>1, <1>5 DEF TryOrder, Row
<1>7. reach' \subseteq 0 .. W /\ choose' \in [1 .. n -> SUBSET (0 .. W)]
  BY <1>1, <1>4 DEF TryOrder, Taken
<1>8. i' \in 0 .. n + 1
  BY <1>1 DEF TryOrder
<1> QED
  BY <1>1, <1>2, <1>6, <1>7, <1>8 DEF TypeOK, args, Searching

\* The load that leads to x after order k: the one that led to it, or to the
\* weight below it with k on top.
LEMMA TryOrderLoads ==
    ASSUME LoadInv, TryOrder
    PROVE  RowsAreLoads'
<1>1. PICK k \in 1 .. n : k = i
  BY Trying
<1>2. PICK a : a = wts(k)
  OBVIOUS
<1>3. /\ n \in Nat /\ W \in Nat /\ g \in Nat \ {0}
      /\ dp \in [0 .. W -> Nat] /\ reach \in SUBSET (0 .. W) /\ choose \in [1 .. n -> SUBSET (0 .. W)]
      /\ Tried = k - 1 /\ Tried' = k /\ Searching /\ W' = W
      /\ \A x \in 0 .. W : dp'[x] = IF x \in Improved(k) THEN dp[x - a] + orders[k].value ELSE dp[x]
      /\ reach' = reach \cup Improved(k)
      /\ choose' = [choose EXCEPT ![k] = Improved(k)]
  BY <1>1, <1>2, Trying
<1>4. /\ a \in Nat
      /\ \A x \in Improved(k) : /\ x \in 0 .. W /\ a # 0 /\ x - a \in reach
                                /\ dp[x - a] + orders[k].value > dp[x]
  BY <1>1, <1>2, Trying, ImprovedIs DEF LoadInv
<1>5. OrdersOK /\ orders[k].weight \in Nat /\ orders[k].value \in Nat /\ a * g = orders[k].weight
  BY <1>2, <1>3, Inputs DEF LoadInv, Compressed
<1>6. /\ \A S : Weigh(S)' = Weigh(S) /\ Worth(S)' = Worth(S)
      /\ \A x : ExactLoads(k, x)' = ExactLoads(k, x)
      /\ g' = g
  BY Trying, Frozen
<1>7. \A x \in reach : \E S \in ExactLoads(k - 1, x) : Worth(S) = dp[x] /\ Leads(S, k - 1, x)
  BY <1>3 DEF LoadInv, RowsAreLoads
<1>8. \A x \in 0 .. W : x \notin reach => dp[x] = 0
  BY <1>3 DEF LoadInv, RowsAreLoads
<1>9. ASSUME NEW x \in Improved(k)
      PROVE  \E S \in ExactLoads(k, x) : Worth(S) = dp'[x] /\ Leads(S, k, x)'
  <2>1. PICK b : b = x - a
    OBVIOUS
  <2>2. b \in reach /\ b \in Nat /\ x \in 0 .. W /\ a # 0 /\ dp'[x] = dp[b] + orders[k].value
    BY <1>3, <1>4, <2>1
  <2>3. PICK S \in ExactLoads(k - 1, b) : Worth(S) = dp[b] /\ Leads(S, k - 1, b)
    BY <1>7, <2>2
  <2>4. S \in SUBSET (Carriable \cap (1 .. k - 1)) /\ Weigh(S) = b * g
    BY DEF ExactLoads
  <2>5. S \in SUBSET (1 .. n) /\ k \in (1 .. n) \ S /\ S \in SUBSET (1 .. k - 1)
    BY <1>3, <2>4
  <2>6. k \in Carriable
    BY <1>3, <1>4, <1>5, <2>2, Multiplied DEF Carriable
  <2>7. Weigh(S \cup {k}) = x * g /\ Worth(S \cup {k}) = dp'[x]
    <3>1. b * g + a * g = x * g
      BY <1>3, <1>4, <2>1, <2>2, Multiplied
    <3> QED
      BY <1>5, <2>2, <2>3, <2>4, <2>5, <3>1, LoadFacts
  <2>8. S \cup {k} \in ExactLoads(k, x)
    BY <1>3, <2>4, <2>6, <2>7 DEF ExactLoads
  <2>9. ASSUME NEW j \in 1 .. k
        PROVE  j \in S \cup {k} <=>
                 \E y \in choose'[j] : y * g = x * g - Weigh((S \cup {k}) \cap (j + 1 .. k))
    <3>1. CASE j = k
      <4>1. (S \cup {k}) \cap (k + 1 .. k) = {}
        OBVIOUS
      <4>2. x \in choose'[k] /\ x * g = x * g - Weigh({})
        BY <1>3, <1>5, <2>2, LoadFacts
      <4> QED
        BY <3>1, <4>1, <4>2
    <3>2. CASE j # k
      <4>1. j \in 1 .. k - 1 /\ choose'[j] = choose[j]
        BY <1>3, <3>2
      <4>2. PICK L : L = S \cap (j + 1 .. k - 1)
        OBVIOUS
      <4>3. (S \cup {k}) \cap (j + 1 .. k) = L \cup {k}
        BY <2>5, <4>1, <4>2
      <4>4. L \in SUBSET (1 .. n) /\ k \in (1 .. n) \ L
        BY <2>5, <4>2
      <4>5. Weigh(L \cup {k}) = Weigh(L) + a * g /\ Weigh(L) \in Nat
        BY <1>5, <4>4, LoadFacts
      <4>6. x * g - (Weigh(L) + a * g) = b * g - Weigh(L)
        <5>1. x * g = b * g + a * g /\ b * g \in Int /\ a * g \in Int
          BY <1>3, <1>4, <2>1, <2>2, Multiplied
        <5> QED
          BY <4>5, <5>1
      <4>7. j \in S <=> \E y \in choose[j] : y * g = b * g - Weigh(L)
        BY <2>3, <4>1, <4>2 DEF Leads
      <4>8. j \in S \cup {k} <=> j \in S
        BY <3>2
      <4> QED
        BY <4>1, <4>3, <4>5, <4>6, <4>7, <4>8
    <3> QED
      BY <3>1, <3>2
  <2>10. Leads(S \cup {k}, k, x)'
    BY <1>6, <2>9 DEF Leads
  <2> QED
    BY <2>7, <2>8, <2>10
<1>10. ASSUME NEW x \in reach, x \notin Improved(k)
       PROVE  \E S \in ExactLoads(k, x) : Worth(S) = dp'[x] /\ Leads(S, k, x)'
  <2>1. PICK S \in ExactLoads(k - 1, x) : Worth(S) = dp[x] /\ Leads(S, k - 1, x)
    BY <1>7
  <2>2. S \in SUBSET (Carriable \cap (1 .. k - 1)) /\ Weigh(S) = x * g
    BY DEF ExactLoads
  <2>3. S \in SUBSET (1 .. n) /\ S \in SUBSET (1 .. k - 1) /\ k \notin S /\ x \in Nat
    BY <1>3, <2>2
  <2>4. S \in ExactLoads(k, x)
    BY <1>3, <2>2 DEF ExactLoads
  <2>5. Worth(S) = dp'[x]
    BY <1>3, <1>10, <2>1
  <2>6. ASSUME NEW j \in 1 .. k
        PROVE  j \in S <=> \E y \in choose'[j] : y * g = x * g - Weigh(S \cap (j + 1 .. k))
    <3>1. CASE j = k
      <4>1. S \cap (k + 1 .. k) = {} /\ Weigh({}) = 0
        BY <1>5, LoadFacts
      <4>2. \A y \in choose'[k] : y \in Nat /\ y # x
        BY <1>3, <1>4, <1>10
      <4>3. \A y \in choose'[k] : y * g # x * g
        BY <1>3, <2>3, <4>2, Multiplied
      <4>4. x * g - 0 = x * g
        BY <1>3, <2>3
      <4> QED
        BY <2>3, <3>1, <4>1, <4>3, <4>4
    <3>2. CASE j # k
      <4>1. j \in 1 .. k - 1 /\ choose'[j] = choose[j]
        BY <1>3, <3>2
      <4>2. S \cap (j + 1 .. k) = S \cap (j + 1 .. k - 1)
        BY <2>3
      <4> QED
        BY <2>1, <4>1, <4>2 DEF Leads
    <3> QED
      BY <3>1, <3>2
  <2>7. Leads(S, k, x)'
    BY <1>6, <2>6 DEF Leads
  <2> QED
    BY <2>4, <2>5, <2>7
<1>11. ASSUME NEW x \in 0 .. W, x \notin reach, x \notin Improved(k)
       PROVE  dp'[x] = 0
  BY <1>3, <1>8, <1>11
<1> QED
  BY <1>3, <1>6, <1>9, <1>10, <1>11 DEF RowsAreLoads

\* While no order is worthless nothing is missed: a load without the new order
\* is in the old row, one with it lies on a load of the old row.
LEMMA TryOrderMisses ==
    ASSUME LoadInv, TryOrder
    PROVE  NoLoadIsBetter' /\ MarksAreReached' /\ Compressed'
<1>1. PICK k \in 1 .. n : k = i
  BY Trying
<1>2. PICK a : a = wts(k)
  OBVIOUS
<1>3. /\ n \in Nat /\ W \in Nat /\ g \in Nat \ {0}
      /\ dp \in [0 .. W -> Nat] /\ reach \in SUBSET (0 .. W) /\ choose \in [1 .. n -> SUBSET (0 .. W)]
      /\ Tried = k - 1 /\ Tried' = k /\ Searching /\ W' = W
      /\ \A x \in 0 .. W : dp'[x] = IF x \in Improved(k) THEN dp[x - a] + orders[k].value ELSE dp[x]
      /\ reach' = reach \cup Improved(k)
      /\ choose' = [choose EXCEPT ![k] = Improved(k)]
  BY <1>1, <1>2, Trying
<1>4. /\ a \in Nat
      /\ Improved(k) = {x \in 0 .. W : /\ a # 0 /\ x - a \in reach
                                       /\ dp[x - a] + orders[k].value > dp[x]}
  BY <1>1, <1>2, Trying, ImprovedIs DEF LoadInv
<1>5. OrdersOK /\ orders[k].weight \in Nat /\ orders[k].value \in Nat /\ a * g = orders[k].weight
  BY <1>2, <1>3, Inputs DEF LoadInv, Compressed
<1>6. /\ ValuesPositive' = ValuesPositive
      /\ \A S : Weigh(S)' = Weigh(S) /\ Worth(S)' = Worth(S)
      /\ \A x : ExactLoads(k, x)' = ExactLoads(k, x)
      /\ \A l : wts(l)' = wts(l)
      /\ g' = g /\ n' = n /\ capacity' = capacity /\ orders' = orders
  BY Trying, Frozen DEF args
<1>7. \A x \in 0 .. W : dp'[x] >= dp[x] /\ (x \notin reach => dp[x] = 0)
  <2>1. \A x \in 0 .. W : dp[x] \in Nat
    BY <1>3
  <2>2. \A x \in 0 .. W : x \notin reach => dp[x] = 0
    BY <1>3 DEF LoadInv, RowsAreLoads
  <2>3. \A x \in Improved(k) : dp'[x] >= dp[x]
    <3> SUFFICES ASSUME NEW x \in Improved(k) PROVE dp'[x] >= dp[x]
      OBVIOUS
    <3>1. x \in 0 .. W /\ x - a \in reach /\ dp[x - a] + orders[k].value > dp[x]
      BY <1>4
    <3>2. dp[x - a] \in Nat /\ dp[x] \in Nat
      BY <1>3, <3>1
    <3>3. dp'[x] = dp[x - a] + orders[k].value
      BY <1>3, <3>1
    <3> QED
      BY <1>5, <3>1, <3>2, <3>3
  <2> QED
    BY <1>3, <2>1, <2>2, <2>3
<1>8. ASSUME ValuesPositive, NEW x \in 0 .. W, NEW S \in ExactLoads(k, x)
      PROVE  x \in reach' /\ Worth(S) <= dp'[x]
  <2>0. dp[x] \in Nat /\ dp'[x] \in Nat
    <3>1. x - a \in reach => dp[x - a] \in Nat
      BY <1>3
    <3>2. x \in Improved(k) => x - a \in reach
      BY <1>4
    <3>3. dp[x] \in Nat
      BY <1>3
    <3>4. CASE x \in Improved(k)
      <4>1. dp'[x] = dp[x - a] + orders[k].value
        BY <1>3, <3>4
      <4>2. dp[x - a] \in Nat /\ orders[k].value \in Nat
        BY <1>5, <3>1, <3>2, <3>4
      <4> QED
        BY <3>3, <4>1, <4>2
    <3>5. CASE x \notin Improved(k)
      <4>1. dp'[x] = dp[x]
        BY <1>3, <3>5
      <4> QED
        BY <3>3, <4>1
    <3> QED
      BY <3>4, <3>5
  <2>1. S \in SUBSET (Carriable \cap (1 .. k)) /\ Weigh(S) = x * g
    BY DEF ExactLoads
  <2>2. S \in SUBSET (1 .. n)
    BY <1>3, <2>1
  <2>3. \A y \in 0 .. W : \A T \in ExactLoads(k - 1, y) : y \in reach /\ Worth(T) <= dp[y]
    BY <1>3, <1>8 DEF LoadInv, NoLoadIsBetter
  <2>4. CASE k \notin S
    <3>1. S \in ExactLoads(k - 1, x)
      BY <2>1, <2>4 DEF ExactLoads
    <3>2. x \in reach /\ Worth(S) <= dp[x] /\ Worth(S) \in Nat
      BY <1>5, <2>2, <2>3, <3>1, LoadFacts
    <3> QED
      BY <1>3, <1>7, <2>0, <3>2
  <2>5. CASE k \in S
    <3>1. PICK b : b = x - a
      OBVIOUS
    <3>2. PICK T : T = S \ {k}
      OBVIOUS
    <3>3. /\ T \in SUBSET (1 .. n) /\ Weigh(T) \in Nat /\ Worth(T) \in Nat
          /\ Weigh(S) = Weigh(T) + a * g /\ Worth(S) = Worth(T) + orders[k].value
      BY <1>5, <2>2, <2>5, <3>2, LoadWithout
    <3>4. Weigh(T) = b * g
      <4>1. b * g = x * g - a * g /\ x * g \in Int /\ a * g \in Int
        BY <1>3, <1>4, <3>1, Multiplied
      <4> QED
        BY <2>1, <3>3, <4>1
    <3>5. b \in Nat /\ b \in 0 .. W
      <4>1. b \in Int /\ b * g >= 0
        BY <1>3, <1>4, <3>1, <3>3, <3>4
      <4> QED
        BY <1>3, <1>4, <3>1, <4>1, Multiplied
    <3>6. a # 0
      <4>1. orders[k].weight > 0
        BY <2>1, <2>5 DEF Carriable
      <4> QED
        BY <1>3, <1>5, <4>1
    <3>7. T \in ExactLoads(k - 1, b)
      <4>1. T \in SUBSET (Carriable \cap (1 .. k - 1))
        BY <2>1, <3>2
      <4> QED
        BY <3>4, <4>1 DEF ExactLoads
    <3>8. b \in reach /\ Worth(T) <= dp[b] /\ dp[b] \in Nat
      BY <1>3, <2>3, <3>5, <3>7
    <3>9. CASE dp[b] + orders[k].value > dp[x]
      <4>1. x \in Improved(k)
        BY <1>4, <3>1, <3>6, <3>8, <3>9
      <4> QED
        BY <1>3, <1>5, <3>1, <3>3, <3>8, <4>1
    <3>10. CASE ~ (dp[b] + orders[k].value > dp[x])
      <4>1. orders[k].value > 0
        BY <1>8 DEF ValuesPositive
      <4>2. dp[x] # 0 /\ Worth(S) <= dp[x]
        BY <1>5, <2>0, <3>3, <3>8, <3>10, <4>1
      <4> QED
        BY <1>3, <1>5, <1>7, <2>0, <3>3, <4>2
    <3> QED
      BY <3>9, <3>10
  <2> QED
    BY <2>4, <2>5
<1>9. NoLoadIsBetter'
  BY <1>3, <1>6, <1>8 DEF NoLoadIsBetter
<1>10. MarksAreReached'
  <2>1. 0 \in reach /\ \A l \in 1 .. n : choose[l] \subseteq IF l <= k - 1 THEN reach ELSE {}
    BY <1>3 DEF LoadInv, MarksAreReached
  <2>2. ASSUME NEW l \in 1 .. n PROVE choose'[l] \subseteq IF l <= k THEN reach' ELSE {}
    <3>1. CASE l = k
      BY <1>3, <3>1
    <3>2. CASE l # k
      BY <1>3, <2>1, <3>2
    <3> QED
      BY <3>1, <3>2
  <2> QED
    BY <1>3, <1>6, <2>1, <2>2 DEF MarksAreReached
<1>11. Compressed'
  <2>1. Compressed
    BY <1>3 DEF LoadInv
  <2> QED
    BY <1>3, <1>6, <2>1 DEF Compressed
<1> QED
  BY <1>9, <1>10, <1>11

\* One order of the outer loop keeps the invariant.
LEMMA TryOrderKeeps ==
    ASSUME LoadInv, TryOrder
    PROVE  LoadInv'
<1>1. pc = "items" /\ pc' = "items" /\ UNCHANGED selected /\ i' = i + 1 /\ i \in 1 .. n
  BY Trying DEF TryOrder
<1>2. selected = {} /\ i \in Nat
  BY <1>1, Trying DEF LoadInv
<1>3. PlanIsALoad' /\ FillsExactly'
  BY <1>1 DEF PlanIsALoad, FillsExactly
<1> QED
  BY <1>1, <1>2, <1>3, TryOrderTypes, TryOrderLoads, TryOrderMisses DEF LoadInv

\* What the rows hold is the best there is: RowsAreBest follows from the
\* inductive invariant.
LEMMA RowsHoldTheBest ==
    ASSUME LoadInv
    PROVE  RowsAreBest
<1> SUFFICES ASSUME Searching, ValuesPositive, NEW x \in 0 .. W
             PROVE  /\ dp[x] = BestWorth(ExactLoads(Tried, x))
                    /\ x \in reach <=> ExactLoads(Tried, x) # {}
  BY DEF RowsAreBest
<1>1. OrdersOK /\ dp[x] \in Nat /\ n \in Nat /\ Tried <= n /\ Tried \in Int
  <2>1. TypeOK /\ OrdersOK /\ n \in Nat
    BY Inputs DEF LoadInv
  <2>2. dp \in [0 .. W -> Nat] /\ i \in 0 .. n + 1
    BY <2>1 DEF TypeOK
  <2>3. Tried <= n /\ Tried \in Int
    BY <2>1, <2>2 DEF Tried
  <2> QED
    BY <2>1, <2>2, <2>3
<1>2. \A S \in ExactLoads(Tried, x) : x \in reach /\ Worth(S) <= dp[x]
  BY DEF LoadInv, NoLoadIsBetter
<1>3. \A S \in ExactLoads(Tried, x) : Worth(S) \in Nat
  <2>1. \A S \in ExactLoads(Tried, x) : S \in SUBSET (1 .. n)
    BY DEF ExactLoads, Carriable
  <2> QED
    BY <1>1, <2>1, LoadFacts
<1>4. IF x \in reach THEN \E S \in ExactLoads(Tried, x) : Worth(S) = dp[x] ELSE dp[x] = 0
  BY DEF LoadInv, RowsAreLoads
<1>5. dp[x] = BestWorth(ExactLoads(Tried, x))
  <2>1. dp[x] = 0 \/ \E S \in ExactLoads(Tried, x) : Worth(S) = dp[x]
    BY <1>4
  <2> QED
    BY <1>1, <1>2, <1>3, <2>1, BestOf
<1>6. x \in reach <=> ExactLoads(Tried, x) # {}
  BY <1>2, <1>4
<1> QED
  BY <1>5, <1>6

-----------------------------------------------------------------------------
(* The way back. *)

\* What is said of the rows stands while they do and no order is tried.
LEMMA RowsStand ==
    ASSUME LoadInv, Searching, Searching', UNCHANGED <<args, rowVars>>, Tried' = Tried
    PROVE  RowsAreLoads' /\ Compressed' /\ NoLoadIsBetter' /\ MarksAreReached'
<1>1. /\ orders' = orders /\ capacity' = capacity /\ g' = g /\ W' = W
      /\ dp' = dp /\ reach' = reach /\ choose' = choose
  BY DEF args, rowVars
<1>2. /\ n' = n /\ ValuesPositive' = ValuesPositive
      /\ \A S : Weigh(S)' = Weigh(S) /\ Worth(S)' = Worth(S)
      /\ \A k : wts(k)' = wts(k)
      /\ \A k, x : ExactLoads(k, x)' = ExactLoads(k, x)
  BY <1>1, Frozen
<1>3. RowsAreLoads /\ Compressed /\ NoLoadIsBetter /\ MarksAreReached
  BY DEF LoadInv
<1>4. \A S, k, x : Leads(S, k, x)' = Leads(S, k, x)
  BY <1>1, <1>2, Zenon DEF Leads
<1>5. RowsAreLoads'
  BY <1>1, <1>2, <1>3, <1>4, Zenon DEF RowsAreLoads
<1>6. Compressed'
  BY <1>1, <1>2, <1>3, Zenon DEF Compressed
<1>7. NoLoadIsBetter'
  BY <1>1, <1>2, <1>3, Zenon DEF NoLoadIsBetter
<1>8. MarksAreReached'
  BY <1>1, <1>2, <1>3, Zenon DEF MarksAreReached
<1> QED
  BY <1>5, <1>6, <1>7, <1>8

\* The loop that looks for the largest weight with the best value stops where
\* it starts.
LEMMA BestWIsW ==
    ASSUME TypeOK, Searching
    PROVE  bestW = W
<1>1. W \in Nat
  BY DEF TypeOK
<1> DEFINE B == {x \in 0 .. W : dp[x] = bestValue}
<1>2. B \in SUBSET (0 .. W) /\ W \in B
  BY <1>1 DEF bestValue
<1> HIDE DEF B
<1>3. Max(B) \in B /\ W <= Max(B)
  BY <1>1, <1>2, MaxOf
<1>4. Max(B) = W
  <2>1. PICK m : m = Max(B)
    OBVIOUS
  <2>2. m \in 0 .. W /\ W <= m
    BY <1>2, <1>3, <2>1, Zenon
  <2>3. m = W
    BY <1>1, <2>2
  <2> QED
    BY <2>1, <2>3
<1> QED
  BY <1>4, Zenon DEF bestW, B

\* The way back starts behind the last order, with the whole capacity to find.
LEMMA StartRestoreKeeps ==
    ASSUME LoadInv, StartRestore
    PROVE  LoadInv'
<1>1. /\ TypeOK /\ OrdersOK /\ n \in Nat /\ W \in Nat /\ g \in Nat \ {0}
      /\ pc = "items" /\ pc' = "restore" /\ Searching /\ Searching'
      /\ selected = {} /\ selected' = {}
  BY Inputs DEF LoadInv, TypeOK, StartRestore, Searching
<1>2. UNCHANGED <<args, rowVars>> /\ n' = n /\ i' = n /\ UNCHANGED <<selected, plan, ctxDone>>
  BY DEF StartRestore, args, n
<1>3. Tried = n /\ Tried' = n
  <2>1. i \in 0 .. n + 1 /\ i > n
    BY <1>1 DEF TypeOK, StartRestore
  <2> QED
    BY <1>1, <1>2, <2>1 DEF Tried
<1>4. w' = W
  BY <1>1, BestWIsW DEF StartRestore
<1>5. RowsAreLoads' /\ Compressed' /\ NoLoadIsBetter' /\ MarksAreReached'
  BY <1>1, <1>2, <1>3, RowsStand
<1>6. TypeOK'
  BY <1>1, <1>2, <1>4 DEF TypeOK, args, rowVars, Searching
<1>7. OnTheWayBack'
  <2>1. /\ \A x : ExactLoads(n, x)' = ExactLoads(n, x)
        /\ \A S : Weigh(S)' = Weigh(S) /\ Worth(S)' = Worth(S)
        /\ W' = W /\ reach' = reach /\ dp' = dp /\ g' = g
    BY <1>2, Frozen DEF rowVars
  <2>2. CASE W \in reach
    <3>1. PICK S \in ExactLoads(n, W)' : Worth(S)' = dp'[W] /\ Leads(S, n, W)'
      BY <1>1, <1>2, <1>3, <1>5, <2>1, <2>2 DEF RowsAreLoads
    <3>2. S \cap (n + 1 .. n) = {}
      BY <1>1
    <3>3. W * g = W * g - Weigh({})'
      BY <1>1, <2>1, LoadFacts
    <3> QED
      BY <1>1, <1>2, <1>4, <2>1, <2>2, <3>1, <3>2, <3>3 DEF OnTheWayBack
  <2>3. CASE W \notin reach
    BY <1>1, <1>4, <2>1, <2>3 DEF OnTheWayBack
  <2> QED
    BY <2>2, <2>3
<1>8. PlanIsALoad' /\ FillsExactly'
  BY <1>1 DEF PlanIsALoad, FillsExactly
<1> QED
  BY <1>1, <1>2, <1>5, <1>6, <1>7, <1>8 DEF LoadInv

\* The way back takes exactly the orders of the load it stands in: those marked
\* at the weight left over by the ones behind.
LEMMA RestoreKeeps ==
    ASSUME LoadInv, Restore
    PROVE  LoadInv'
<1>1. /\ TypeOK /\ OrdersOK /\ n \in Nat /\ W \in Nat /\ g \in Nat \ {0}
      /\ pc = "restore" /\ pc' = "restore" /\ Searching /\ Searching'
      /\ i \in 1 .. n /\ w \in 0 .. W /\ i' = i - 1
      /\ choose \in [1 .. n -> SUBSET (0 .. W)] /\ selected \subseteq 1 .. n
  <2>1. pc = "restore" /\ pc' = "restore" /\ i' = i - 1 /\ i >= 1 /\ i <= n /\ Searching
    BY DEF Restore, LoadInv, Searching
  <2>2. TypeOK /\ OrdersOK /\ n \in Nat
    BY Inputs DEF LoadInv
  <2>3. /\ W \in Nat /\ g \in Nat \ {0} /\ w \in 0 .. W /\ i \in 0 .. n + 1
        /\ choose \in [1 .. n -> SUBSET (0 .. W)] /\ selected \subseteq 1 .. n
    BY <2>1, <2>2 DEF TypeOK
  <2>4. i \in 1 .. n
    BY <2>1, <2>2, <2>3
  <2> QED
    BY <2>1, <2>2, <2>3, <2>4 DEF Searching
<1>2. UNCHANGED <<args, rowVars>> /\ n' = n /\ UNCHANGED <<plan, ctxDone>>
  BY DEF Restore, args, n
<1>3. Tried = n /\ Tried' = n
  BY <1>1, <1>2 DEF Tried
<1>4. RowsAreLoads' /\ Compressed' /\ NoLoadIsBetter' /\ MarksAreReached'
  BY <1>1, <1>2, <1>3, RowsStand
<1>5. /\ \A x : ExactLoads(n, x)' = ExactLoads(n, x)
      /\ \A S : Weigh(S)' = Weigh(S) /\ Worth(S)' = Worth(S)
      /\ \A S, x : Leads(S, n, x)' = Leads(S, n, x)
      /\ W' = W /\ reach' = reach /\ dp' = dp /\ g' = g
  <2>1. /\ \A x : ExactLoads(n, x)' = ExactLoads(n, x)
        /\ \A S : Weigh(S)' = Weigh(S) /\ Worth(S)' = Worth(S)
        /\ W' = W /\ reach' = reach /\ dp' = dp /\ g' = g /\ choose' = choose
    BY <1>2, Frozen DEF rowVars
  <2>2. \A S, x : Leads(S, n, x)' = Leads(S, n, x)
    BY <1>2, <2>1, Zenon DEF Leads
  <2> QED
    BY <2>1, <2>2
<1>6. OnTheWayBack
  BY <1>1 DEF LoadInv
<1>7. wts(i) * g = orders[i].weight /\ wts(i) \in Nat
  <2>1. wts(i) * g = orders[i].weight
    BY <1>1 DEF LoadInv, Compressed
  <2>2. orders[i].weight \in Nat
    BY <1>1, Inputs
  <2>3. orders[i].weight \div g \in Nat
    BY <1>1, <2>2
  <2> QED
    BY <2>1, <2>3 DEF wts
<1>8. ASSUME W \in reach
      PROVE  OnTheWayBack' /\ w' \in 0 .. W /\ selected' \subseteq 1 .. n
  <2>1. PICK S \in ExactLoads(n, W) :
          /\ Worth(S) = dp[W] /\ Leads(S, n, W)
          /\ selected = S \cap (i + 1 .. n)
          /\ w * g = W * g - Weigh(selected)
    BY <1>6, <1>8 DEF OnTheWayBack
  <2>2. S \in SUBSET (1 .. n) /\ Weigh(S) = W * g
    BY DEF ExactLoads
  <2>3. i \in S <=> w \in choose[i]
    <3>1. i \in S <=> \E y \in choose[i] : y * g = w * g
      BY <1>1, <2>1 DEF Leads
    <3>2. \A y \in choose[i] : y \in Int
      BY <1>1
    <3>3. \A y \in choose[i] : y * g = w * g <=> y = w
      BY <1>1, <3>2, Multiplied
    <3> QED
      BY <3>1, <3>3
  <2>4. CASE i \in S
    <3>1. selected' = selected \cup {i} /\ w' = w - wts(i)
      BY <2>3, <2>4 DEF Restore
    <3>2. selected' = S \cap (i' + 1 .. n)
      BY <1>1, <2>1, <2>4, <3>1
    <3>3. i \in (1 .. n) \ selected /\ selected \in SUBSET (1 .. n)
      BY <1>1, <2>1
    <3>4. Weigh(selected \cup {i}) = Weigh(selected) + wts(i) * g /\ Weigh(selected) \in Nat
      BY <1>1, <1>7, <3>3, LoadFacts
    <3>5. (w - wts(i)) * g = w * g - wts(i) * g /\ w * g \in Int /\ wts(i) * g \in Int /\ W * g \in Int
      BY <1>1, <1>7, Multiplied
    <3>6. w' * g = W * g - Weigh(selected')
      BY <2>1, <3>1, <3>4, <3>5
    <3>7. Weigh(selected') <= W * g /\ Weigh(selected') \in Nat
      <4>1. selected' \in SUBSET S /\ selected' \in SUBSET (1 .. n)
        BY <2>2, <3>2
      <4> QED
        BY <1>1, <2>2, <4>1, PartWeighsLess, LoadFacts
    <3>8. w' \in 0 .. W
      <4>1. w' \in Int /\ w' * g >= 0 /\ w' <= W
        BY <1>1, <1>7, <3>1, <3>5, <3>6, <3>7
      <4>2. PICK v \in Int : v = w'
        BY <4>1
      <4>3. v >= 0
        BY <1>1, <4>1, <4>2, Multiplied
      <4> QED
        BY <1>1, <4>1, <4>2, <4>3
    <3>9. OnTheWayBack' /\ selected' \subseteq 1 .. n
      BY <1>2, <1>5, <1>8, <2>1, <2>2, <3>2, <3>6 DEF OnTheWayBack
    <3> QED
      BY <3>8, <3>9
  <2>5. CASE i \notin S
    <3>1. selected' = selected /\ w' = w
      BY <2>3, <2>5 DEF Restore
    <3>2. selected' = S \cap (i' + 1 .. n)
      BY <1>1, <2>1, <2>5, <3>1
    <3>3. w' * g = W * g - Weigh(selected')
      BY <2>1, <3>1
    <3> QED
      BY <1>1, <1>2, <1>5, <1>8, <2>1, <2>2, <3>1, <3>2, <3>3 DEF OnTheWayBack
  <2> QED
    BY <2>4, <2>5
<1>9. ASSUME W \notin reach
      PROVE  OnTheWayBack' /\ w' \in 0 .. W /\ selected' \subseteq 1 .. n
  <2>1. w = W /\ selected = {} /\ w \notin choose[i]
    BY <1>1, <1>3, <1>6, <1>9 DEF OnTheWayBack, LoadInv, MarksAreReached
  <2>2. w' = w /\ selected' = {}
    BY <2>1 DEF Restore
  <2> QED
    BY <1>1, <1>5, <1>9, <2>1, <2>2 DEF OnTheWayBack
<1>10. OnTheWayBack' /\ w' \in 0 .. W /\ selected' \subseteq 1 .. n
  BY <1>8, <1>9
<1>11. TypeOK'
  BY <1>1, <1>2, <1>10 DEF TypeOK, args, rowVars, Searching
<1>12. PlanIsALoad' /\ FillsExactly'
  BY <1>1 DEF PlanIsALoad, FillsExactly
<1> QED
  BY <1>1, <1>2, <1>4, <1>10, <1>11, <1>12 DEF LoadInv

\* At the end of the way back: either nothing weighs exactly W, and nothing was
\* selected, or the selected orders are a load of that weight.
LEMMA WayBackEnds ==
    ASSUME LoadInv, ReturnLoad
    PROVE  /\ i = 0 /\ plan' = Plan(selected, dp[W])
           /\ selected \in SUBSET (1 .. n) /\ Worth(selected) = dp[W]
           /\ W \in reach => selected \in ExactLoads(n, W)
           /\ W \notin reach => selected = {}
<1>1. pc = "restore" /\ Searching /\ plan' = Plan(selected, dp[W])
  BY DEF ReturnLoad, Searching, bestValue
<1>2. TypeOK /\ OrdersOK /\ n \in Nat
  BY Inputs DEF LoadInv
<1>3. i = 0 /\ W \in Nat
  <2>1. i \in 0 .. n + 1 /\ w \in 0 .. W /\ W \in Nat
    BY <1>2 DEF TypeOK
  <2>2. i < 1 \/ w < 0
    BY DEF ReturnLoad
  <2> QED
    BY <1>2, <2>1, <2>2
<1>4. OnTheWayBack
  BY <1>1 DEF LoadInv
<1>5. ASSUME W \in reach
      PROVE  selected \in ExactLoads(n, W) /\ Worth(selected) = dp[W] /\ selected \in SUBSET (1 .. n)
  <2>1. PICK S \in ExactLoads(n, W) : Worth(S) = dp[W] /\ selected = S \cap (i + 1 .. n)
    BY <1>4, <1>5 DEF OnTheWayBack
  <2>2. S \in SUBSET (1 .. n)
    BY DEF ExactLoads
  <2>3. i + 1 = 1 /\ S \cap (1 .. n) = S
    <3>1. i + 1 = 1
      BY <1>3
    <3> QED
      BY <2>2, <3>1, Zenon
  <2>4. selected = S
    BY <2>1, <2>3, Zenon
  <2> QED
    BY <2>1, <2>2, <2>4, Zenon
<1>6. ASSUME W \notin reach
      PROVE  selected = {} /\ Worth(selected) = dp[W]
  <2>1. selected = {}
    BY <1>4, <1>6 DEF OnTheWayBack
  <2>2. dp[W] = 0
    BY <1>1, <1>3, <1>6 DEF LoadInv, RowsAreLoads
  <2> QED
    BY <1>2, <2>1, <2>2, LoadFacts
<1> QED
  BY <1>1, <1>3, <1>5, <1>6

\* What is returned is that load, with the value of the last row.
LEMMA ReturnLoadKeeps ==
    ASSUME LoadInv, ReturnLoad
    PROVE  LoadInv'
<1>1. /\ pc = "restore" /\ pc' = "done" /\ Searching /\ ~Searching'
      /\ UNCHANGED <<args, rowVars, i, w, selected, ctxDone>>
  BY DEF ReturnLoad, Searching
<1>2. TypeOK /\ OrdersOK /\ n \in Nat /\ capacity \in Int /\ g \in Nat \ {0} /\ W \in Nat
  BY Inputs DEF LoadInv, TypeOK
<1>3. /\ plan' = Plan(selected, dp[W]) /\ selected \in SUBSET (1 .. n) /\ Worth(selected) = dp[W]
      /\ W \in reach => selected \in ExactLoads(n, W)
      /\ W \notin reach => selected = {}
  BY WayBackEnds
<1>4. /\ n' = n /\ orders' = orders /\ capacity' = capacity /\ g' = g /\ W' = W
      /\ Carriable' = Carriable /\ ValuesPositive' = ValuesPositive
      /\ \A S : Weigh(S)' = Weigh(S) /\ Worth(S)' = Worth(S)
      /\ \A k, x : ExactLoads(k, x)' = ExactLoads(k, x)
  BY <1>1, Frozen DEF args, rowVars
<1>5. plan'.orders = selected /\ plan'.weight = Weigh(selected) /\ plan'.value = dp[W]
  BY <1>3 DEF Plan
<1>6. n > 0 /\ capacity > 0 /\ Weigh(1 .. n) > capacity /\ W * g <= capacity
  <2>1. n > 0 /\ capacity > 0 /\ Weigh(1 .. n) > capacity /\ W = capacity \div g
    BY <1>1 DEF LoadInv, Compressed
  <2>2. (capacity \div g) * g <= capacity
    BY <1>2
  <2> QED
    BY <2>1, <2>2
<1>7. selected \in SUBSET Carriable /\ Weigh(selected) <= capacity /\ Weigh(1 .. n) \in Nat
  <2>1. CASE W \in reach
    <3>1. selected \in SUBSET Carriable /\ Weigh(selected) = W * g
      BY <1>3, <2>1 DEF ExactLoads
    <3>2. 1 .. n \in SUBSET (1 .. n)
      OBVIOUS
    <3> QED
      BY <1>2, <1>6, <3>1, <3>2, LoadFacts
  <2>2. CASE W \notin reach
    <3>1. 1 .. n \in SUBSET (1 .. n)
      OBVIOUS
    <3>2. selected = {} /\ Weigh({}) = 0 /\ Weigh(1 .. n) \in Nat
      BY <1>2, <1>3, <2>2, <3>1, LoadFacts
    <3>3. Weigh(selected) = 0
      BY <3>2
    <3> QED
      BY <1>2, <1>6, <3>2, <3>3
  <2> QED
    BY <2>1, <2>2
<1>8. TypeOK'
  BY <1>1, <1>2, <1>3, <1>4, <1>5 DEF TypeOK, args, rowVars
<1>9. PlanIsALoad'
  <2>1. ~ (n = 0 \/ capacity <= 0) /\ ~ (Weigh(1 .. n) <= capacity)
    BY <1>2, <1>6, <1>7
  <2> QED
    BY <1>3, <1>4, <1>5, <1>7, <2>1 DEF PlanIsALoad
<1>10. FillsExactly'
  <2>1. ExactLoads(n, W)' = ExactLoads(n, W)
    BY <1>4
  <2>2. selected \in ExactLoads(n, W) \cup {{}}
    BY <1>3
  <2>3. ASSUME ValuesPositive
        PROVE  /\ dp[W] = BestWorth(ExactLoads(n, W))
               /\ selected = {} => ExactLoads(n, W) \subseteq {{}}
    <3>1. Tried = n /\ W \in 0 .. W
      BY <1>1, <1>2 DEF Tried
    <3>2. dp[W] = BestWorth(ExactLoads(n, W)) /\ (W \in reach <=> ExactLoads(n, W) # {})
      BY <1>1, <2>3, <3>1, RowsHoldTheBest DEF RowsAreBest
    <3>3. ASSUME selected = {}, NEW B \in ExactLoads(n, W), NEW k \in B PROVE FALSE
      <4>1. selected \in ExactLoads(n, W) /\ Weigh({}) = 0
        BY <1>2, <1>3, <3>2, <3>3, LoadFacts
      <4>2. Weigh(B) = 0
        BY <3>3, <4>1 DEF ExactLoads
      <4>3. B \in SUBSET (1 .. n) /\ orders[k].weight > 0
        BY DEF ExactLoads, Carriable
      <4>4. Weigh(B) = Weigh(B \ {k}) + orders[k].weight /\ Weigh(B \ {k}) \in Nat
        BY <1>2, <4>3, LoadWithout
      <4>5. orders[k].weight \in Nat
        BY <1>2, <4>3, OrderTypes
      <4> QED
        BY <4>2, <4>3, <4>4, <4>5
    <3> QED
      BY <3>2, <3>3
  <2>4. BestWorth(ExactLoads(n, W))' = BestWorth(ExactLoads(n, W))
    BY <1>4, <2>1, Zenon DEF BestWorth
  <2> QED
    BY <1>4, <1>5, <2>1, <2>2, <2>3, <2>4 DEF FillsExactly
<1> QED
  BY <1>1, <1>8, <1>9, <1>10 DEF LoadInv, RowsAreLoads

-----------------------------------------------------------------------------
(* The other steps. *)

\* Steps that leave the search where it is and return nothing: the context ends,
\* or nothing happens.
LEMMA NothingMoves ==
    ASSUME LoadInv, UNCHANGED <<args, rowVars, pc, i, w, selected, plan>>, ctxDone' \in BOOLEAN
    PROVE  LoadInv'
<1>1. /\ orders' = orders /\ capacity' = capacity /\ g' = g /\ W' = W
      /\ dp' = dp /\ reach' = reach /\ choose' = choose
      /\ pc' = pc /\ i' = i /\ w' = w /\ selected' = selected /\ plan' = plan
  BY DEF args, rowVars
<1>2. /\ n' = n /\ Carriable' = Carriable /\ ValuesPositive' = ValuesPositive
      /\ \A S : Weigh(S)' = Weigh(S) /\ Worth(S)' = Worth(S)
      /\ \A k, x : ExactLoads(k, x)' = ExactLoads(k, x)
  BY <1>1, Frozen
<1>3. Searching' = Searching /\ Tried' = Tried
  BY <1>1, <1>2, Zenon DEF Searching, Tried
<1>4. Searching => RowsAreLoads' /\ Compressed' /\ NoLoadIsBetter' /\ MarksAreReached'
  BY <1>1, <1>3, RowsStand
<1>5. ~Searching => RowsAreLoads'
  BY <1>3 DEF RowsAreLoads
<1>6. TypeOK'
  <2>1. TypeOK
    BY DEF LoadInv
  <2> QED
    BY <1>1, <1>2, <1>3, <2>1 DEF TypeOK
<1>7. pc = "restore" => OnTheWayBack'
  <2>1. pc = "restore" => OnTheWayBack
    BY DEF LoadInv
  <2>2. \A S, k, x : Leads(S, k, x)' = Leads(S, k, x)
    BY <1>1, <1>2, Zenon DEF Leads
  <2> QED
    BY <1>1, <1>2, <2>1, <2>2, Zenon DEF OnTheWayBack
<1>8. PlanIsALoad'
  <2>1. PlanIsALoad
    BY DEF LoadInv
  <2> QED
    BY <1>1, <1>2, <2>1, Zenon DEF PlanIsALoad
<1>9. FillsExactly'
  <2>1. FillsExactly
    BY DEF LoadInv
  <2>2. BestWorth(ExactLoads(n, W))' = BestWorth(ExactLoads(n, W))
    BY <1>1, <1>2, Zenon DEF BestWorth
  <2> QED
    BY <1>1, <1>2, <2>1, <2>2, Zenon DEF FillsExactly
<1>10. Plan({}, 0)' = Plan({}, 0)
  BY <1>2, Zenon DEF Plan
<1> QED
  BY <1>1, <1>2, <1>3, <1>4, <1>5, <1>6, <1>7, <1>8, <1>9, <1>10 DEF LoadInv

\* The plans that need no search: nothing, and everything.
LEMMA ReturnsWithoutSearch ==
    ASSUME LoadInv, ReturnEmpty \/ ReturnAll
    PROVE  LoadInv'
<1>1. /\ pc = "start" /\ pc' = "done" /\ ~Searching'
      /\ UNCHANGED <<args, rowVars, i, w, selected, ctxDone>>
  BY DEF ReturnEmpty, ReturnAll, Searching
<1>2. TypeOK /\ OrdersOK /\ n \in Nat /\ capacity \in Int /\ plan = Plan({}, 0)
  BY <1>1, Inputs DEF LoadInv
<1>3. /\ n' = n /\ capacity' = capacity /\ orders' = orders
      /\ \A S : Weigh(S)' = Weigh(S) /\ Worth(S)' = Worth(S)
  BY <1>1, Frozen DEF args, rowVars
<1>4. TypeOK' /\ PlanIsALoad' /\ FillsExactly'
  <2>1. CASE ReturnEmpty
    <3>1. (n = 0 \/ capacity <= 0) /\ plan' = Plan({}, 0) /\ ~ (n > 0 /\ capacity > 0)
      BY <1>2, <2>1 DEF ReturnEmpty
    <3>2. plan'.orders = {} /\ plan'.weight = Weigh({}) /\ plan'.value = Worth({})
      BY <1>2, <3>1, LoadFacts DEF Plan
    <3>3. TypeOK'
      BY <1>1, <1>2, <1>3, <3>2 DEF TypeOK, args, rowVars
    <3>4. PlanIsALoad'
      BY <1>3, <3>1, <3>2 DEF PlanIsALoad
    <3>5. FillsExactly'
      BY <1>3, <3>1 DEF FillsExactly
    <3> QED
      BY <3>3, <3>4, <3>5
  <2>2. CASE ReturnAll
    <3>1. /\ n > 0 /\ capacity > 0 /\ Weigh(1 .. n) <= capacity
          /\ plan' = Plan(1 .. n, Worth(1 .. n))
      BY <2>2 DEF ReturnAll
    <3>2. plan'.orders = 1 .. n /\ plan'.weight = Weigh(1 .. n) /\ plan'.value = Worth(1 .. n)
      BY <3>1 DEF Plan
    <3>3. TypeOK'
      BY <1>1, <1>2, <1>3, <3>2 DEF TypeOK, args, rowVars
    <3>4. ~ (n = 0 \/ capacity <= 0) /\ ~ (Weigh(1 .. n) > capacity)
      <4>1. 1 .. n \in SUBSET (1 .. n)
        OBVIOUS
      <4>2. Weigh(1 .. n) \in Nat
        BY <1>2, <4>1, LoadFacts
      <4> QED
        BY <1>2, <3>1, <4>2
    <3>5. PlanIsALoad'
      BY <1>3, <3>1, <3>2, <3>4 DEF PlanIsALoad
    <3>6. FillsExactly'
      BY <1>3, <3>4 DEF FillsExactly
    <3> QED
      BY <3>3, <3>5, <3>6
  <2> QED
    BY <2>1, <2>2
<1> QED
  BY <1>1, <1>4 DEF LoadInv, RowsAreLoads

\* A request that was cancelled gets no plan.
LEMMA CancelledKeeps ==
    ASSUME LoadInv, ReturnCancelled
    PROVE  LoadInv'
<1>1. pc' = "cancelled" /\ ~Searching' /\ UNCHANGED <<args, rowVars, i, w, selected, plan, ctxDone>>
  BY DEF ReturnCancelled, Searching
<1>2. TypeOK'
  <2>1. TypeOK
    BY DEF LoadInv
  <2> QED
    BY <1>1, <2>1 DEF TypeOK, args, rowVars, n
<1>3. RowsAreLoads' /\ PlanIsALoad' /\ FillsExactly'
  BY <1>1 DEF RowsAreLoads, PlanIsALoad, FillsExactly
<1> QED
  BY <1>1, <1>2, <1>3 DEF LoadInv

-----------------------------------------------------------------------------
(* The theorems. *)

\* The invariant holds when the function is called.
LEMMA LoadInvInit == Init => LoadInv
<1> SUFFICES ASSUME Init PROVE LoadInv
  OBVIOUS
<1>1. ~Searching /\ pc = "start"
  BY DEF Init, Searching
<1>2. orders \in Seq([weight : Nat, value : Nat])
  BY LoadInputs DEF Init
<1>3. n \in Nat
  BY <1>2, OrderTypes DEF OrdersOK
<1>4. plan.orders = {}
  BY DEF Init, Plan
<1>5. TypeOK
  <2>1. /\ orders \in Input /\ capacity \in Capacity /\ g = 1 /\ W = 0 /\ i = 1 /\ w = 0
        /\ selected = {} /\ ctxDone = FALSE
    BY DEF Init
  <2>2. 1 \in 0 .. n + 1 /\ 0 \in 0 .. 0
    BY <1>3
  <2>3. g \in Nat \ {0} /\ W \in Nat /\ i \in 0 .. n + 1 /\ w \in 0 .. W
    BY <2>1, <2>2
  <2>4. selected \subseteq 1 .. n /\ plan.orders \subseteq 1 .. n /\ ctxDone \in BOOLEAN
    BY <1>4, <2>1
  <2> QED
    BY <1>1, <2>1, <2>3, <2>4, Zenon DEF TypeOK
<1> QED
  BY <1>1, <1>5 DEF Init, LoadInv, RowsAreLoads, PlanIsALoad, FillsExactly

\* The inductive invariant of selectOrdersForDelivery: the row entries are loads
\* which the way back finds, none is missed, and what is returned is one of them.
THEOREM LoadIsRight == Spec => []LoadInv
<1>1. Init => LoadInv
  BY LoadInvInit
<1>2. LoadInv /\ [Next]_vars => LoadInv'
  <2> SUFFICES ASSUME LoadInv, [Next]_vars PROVE LoadInv'
    OBVIOUS
  <2>1. CASE ReturnEmpty \/ ReturnAll
    BY <2>1, ReturnsWithoutSearch
  <2>2. CASE StartSearch
    BY <2>2, StartSearchKeeps
  <2>3. CASE TryOrder
    BY <2>3, TryOrderKeeps
  <2>4. CASE StartRestore
    BY <2>4, StartRestoreKeeps
  <2>5. CASE Restore
    BY <2>5, RestoreKeeps
  <2>6. CASE ReturnLoad
    BY <2>6, ReturnLoadKeeps
  <2>7. CASE ReturnCancelled
    BY <2>7, CancelledKeeps
  <2>8. CASE Cancel
    BY <2>8, NothingMoves DEF Cancel
  <2>9. CASE Returned \/ UNCHANGED vars
    <3>1. UNCHANGED <<args, rowVars, pc, i, w, selected, plan>> /\ ctxDone' = ctxDone
      BY <2>9 DEF Returned, vars, args, rowVars
    <3>2. ctxDone' \in BOOLEAN
      BY <3>1 DEF LoadInv, TypeOK
    <3> QED
      BY <3>1, <3>2, NothingMoves
  <2> QED
    BY <2>1, <2>2, <2>3, <2>4, <2>5, <2>6, <2>7, <2>8, <2>9 DEF Next
<1> QED
  BY <1>1, <1>2, PTL DEF Spec

\* Every row entry of the inner loop is the value of a real load of exactly that
\* weight, the one the choose bitsets lead back to.
THEOREM RowsHoldLoads == Spec => []RowsAreLoads
<1>1. LoadInv => RowsAreLoads
  BY DEF LoadInv
<1> QED
  BY <1>1, LoadIsRight, PTL

\* The dynamic program is exact: while no order is worthless each row entry is
\* the best value of its weight among all sets of the orders tried so far.
THEOREM RowsHoldBest == Spec => []RowsAreBest
<1>1. LoadInv => RowsAreBest
  BY RowsHoldTheBest
<1> QED
  BY <1>1, LoadIsRight, PTL

\* The inner loop misses no reached weight, at no word boundary, and visits none
\* that was not reached.
THEOREM EnumerationExact == Spec => []EnumerationIsExact
<1>1. LoadInv => EnumerationIsExact
  <2> SUFFICES ASSUME LoadInv, Searching, NEW max \in 0 .. W
               PROVE  Bases(reach, max) = {b \in reach : b <= max}
    BY DEF EnumerationIsExact
  <2>1. reach \in SUBSET Nat /\ max \in Nat
    BY DEF LoadInv, TypeOK
  <2> QED
    BY <2>1, BasesAreExact
<1> QED
  BY <1>1, LoadIsRight, PTL

\* What GenerateDeliveryPlan gets from the search is a load: it fits, and its
\* totals are those of its orders.
THEOREM PlansAreLoads == Spec => []PlanIsALoad
<1>1. LoadInv => PlanIsALoad
  BY DEF LoadInv
<1> QED
  BY <1>1, LoadIsRight, PTL

\* When not everything fits the search returns the best load that fills the
\* compressed capacity exactly, and the empty plan only when there is none.
THEOREM LoadsFillExactly == Spec => []FillsExactly
<1>1. LoadInv => FillsExactly
  BY DEF LoadInv
<1> QED
  BY <1>1, LoadIsRight, PTL

-----------------------------------------------------------------------------
(* What OrderStore takes for granted. *)

\* OrderStore for some weights and some products of the orders. Selectable
\* depends on nothing else, so the other parameters do not matter.
Store(Weight, product) == INSTANCE OrderStore WITH
    CreateReq <- {}, PlanReq <- {}, PatchReq <- {}, Product <- {}, NoProduct <- 0,
    Cart <- {}, PatchStatus <- {}, MaxOrder <- 0, status <- <<>>, nextId <- 0,
    worker <- <<>>, result <- <<>>, rows <- <<>>, to <- <<>>, handler <- <<>>,
    cancelled <- {}, before <- {}, durable <- {}

\* The orders are those of the ids a plan request read from the table, each
\* once, with the weights of their products.
Lists(ids, Weight, product) ==
    /\ \A j, k \in 1 .. n : ids[j] = ids[k] => j = k
    /\ \A k \in 1 .. n : orders[k].weight = Weight[product[ids[k]]]

\* The orders of some ids.
Of(ids, T) == {k \in 1 .. n : ids[k] \in T}

\* The ids of some orders.
Ids(ids, L) == {ids[k] : k \in L}

\* What F is when it folds the weights of the ids of S.
IsWeightFold(F, S, Weight, product) ==
    F = [s \in SUBSET S |-> IF s = {} THEN 0
           ELSE Weight[product[CHOOSE x \in s : TRUE]] + F[s \ {CHOOSE x \in s : TRUE}]]

\* A set of ids weighs an id of it and the rest.
WeighsInSteps(ids, Weight, product) ==
    \A s \in SUBSET Ids(ids, 1 .. n) : \A x \in s :
        Weigh(Of(ids, s)) = Weight[product[x]] + Weigh(Of(ids, s \ {x}))

\* The search weighs the orders of ids in steps, too.
LEMMA WeightStep ==
    ASSUME OrdersOK, NEW ids, NEW Weight, NEW product, Lists(ids, Weight, product)
    PROVE  WeighsInSteps(ids, Weight, product)
<1> SUFFICES ASSUME NEW s \in SUBSET Ids(ids, 1 .. n), NEW x \in s
             PROVE  Weigh(Of(ids, s)) = Weight[product[x]] + Weigh(Of(ids, s \ {x}))
  BY DEF WeighsInSteps
<1>1. PICK k \in 1 .. n : x = ids[k]
  BY DEF Ids
<1>2. Of(ids, s) \in SUBSET (1 .. n) /\ k \in Of(ids, s)
  BY <1>1 DEF Of
<1>3. Of(ids, s \ {x}) = Of(ids, s) \ {k}
  BY <1>1 DEF Of, Lists
<1>4. /\ Weigh(Of(ids, s)) = Weigh(Of(ids, s) \ {k}) + orders[k].weight
      /\ Weigh(Of(ids, s) \ {k}) \in Nat
  BY <1>2, LoadWithout
<1>5. orders[k].weight = Weight[product[x]] /\ orders[k].weight \in Nat
  BY <1>1, OrderTypes DEF Lists
<1>6. PICK a \in Nat : a = Weigh(Of(ids, s) \ {k})
  BY <1>4
<1>7. PICK b \in Nat : b = orders[k].weight
  BY <1>5
<1>8. Weigh(Of(ids, s)) = a + b /\ Weigh(Of(ids, s \ {x})) = a /\ Weight[product[x]] = b
  BY <1>3, <1>4, <1>5, <1>6, <1>7, Zenon
<1>9. a + b = b + a
  OBVIOUS
<1> QED
  BY <1>8, <1>9, Zenon

\* Any such fold yields the weight of the load, by induction on the number of ids.
LEMMA WeightFoldIs ==
    ASSUME OrdersOK, NEW ids, NEW Weight, NEW product, Lists(ids, Weight, product),
           NEW S \in SUBSET Ids(ids, 1 .. n), NEW F, IsWeightFold(F, S, Weight, product)
    PROVE  F[S] = Weigh(Of(ids, S))
<1> DEFINE T == {m \in Nat : \A s \in SUBSET S : Cardinality(s) = m => F[s] = Weigh(Of(ids, s))}
<1>0. ASSUME NEW s \in SUBSET S PROVE IsFiniteSet(s) /\ Cardinality(s) \in Nat
  <2>1. IsFiniteSet(1 .. n)
    BY OrderTypes, FS_Interval
  <2>2. IsFiniteSet(Ids(ids, 1 .. n))
    <3> DEFINE f == [k \in 1 .. n |-> ids[k]]
    <3>1. f \in Surjection(1 .. n, Ids(ids, 1 .. n))
      BY DEF Surjection, Ids
    <3> QED
      BY <2>1, <3>1, FS_Surjection
  <2>3. s \in SUBSET Ids(ids, 1 .. n)
    OBVIOUS
  <2> QED
    BY <2>2, <2>3, FS_Subset, FS_CardinalityType
<1>1. 0 \in T
  <2>1. \A s \in SUBSET S : Cardinality(s) = 0 => s = {}
    BY <1>0, FS_EmptySet
  <2>2. F[{}] = 0
    BY DEF IsWeightFold
  <2>3. Of(ids, {}) = {}
    BY DEF Of
  <2> QED
    BY <2>1, <2>2, <2>3, LoadFacts
<1>2. ASSUME NEW m \in Nat, m \in T PROVE m + 1 \in T
  <2> SUFFICES ASSUME NEW s \in SUBSET S, Cardinality(s) = m + 1
               PROVE  F[s] = Weigh(Of(ids, s))
    <3>1. m + 1 \in Nat
      OBVIOUS
    <3> QED
      BY <3>1, Zenon
  <2>1. s # {}
    BY <1>0, FS_EmptySet
  <2>2. PICK x \in s : x = CHOOSE y \in s : TRUE
    BY <2>1
  <2>3. F[s] = Weight[product[x]] + F[s \ {x}]
    BY <2>1, <2>2 DEF IsWeightFold
  <2>4. F[s \ {x}] = Weigh(Of(ids, s \ {x}))
    <3>1. Cardinality(s \ {x}) = m
      BY <1>0, FS_RemoveElement
    <3>2. s \ {x} \in SUBSET S
      BY Zenon
    <3> QED
      BY <1>2, <3>1, <3>2
  <2>5. Weigh(Of(ids, s)) = Weight[product[x]] + Weigh(Of(ids, s \ {x}))
    <3>1. s \in SUBSET Ids(ids, 1 .. n)
      OBVIOUS
    <3>2. WeighsInSteps(ids, Weight, product)
      BY WeightStep
    <3> QED
      BY <3>1, <3>2, Zenon DEF WeighsInSteps
  <2> QED
    BY <2>3, <2>4, <2>5
<1>3. Cardinality(S) \in T
  <2> HIDE DEF T
  <2>1. Nat \subseteq T
    BY <1>1, <1>2, Induction
  <2> QED
    BY <1>0, <2>1
<1> QED
  BY <1>3

\* The total weight of ids in OrderStore is what the search weighs.
LEMMA SameWeight ==
    ASSUME OrdersOK, NEW ids, NEW Weight, NEW product, Lists(ids, Weight, product),
           NEW S \in SUBSET Ids(ids, 1 .. n)
    PROVE  Store(Weight, product)!TotalWeight(S) = Weigh(Of(ids, S))
<1> DEFINE F == [s \in SUBSET S |-> Weigh(Of(ids, s))]
<1>1. \A s \in SUBSET S : s # {} =>
        Weigh(Of(ids, s)) = Weight[product[CHOOSE x \in s : TRUE]] + F[s \ {CHOOSE x \in s : TRUE}]
  <2> SUFFICES ASSUME NEW s \in SUBSET S, s # {}
               PROVE  Weigh(Of(ids, s)) = Weight[product[CHOOSE x \in s : TRUE]] + F[s \ {CHOOSE x \in s : TRUE}]
    OBVIOUS
  <2>1. PICK x \in s : x = CHOOSE y \in s : TRUE
    OBVIOUS
  <2>2. s \in SUBSET Ids(ids, 1 .. n) /\ s \ {x} \in SUBSET S
    BY Zenon
  <2>3. Weigh(Of(ids, s)) = Weight[product[x]] + Weigh(Of(ids, s \ {x}))
    <3>1. WeighsInSteps(ids, Weight, product)
      BY WeightStep
    <3> QED
      BY <2>2, <3>1, Zenon DEF WeighsInSteps
  <2>4. F[s \ {x}] = Weigh(Of(ids, s \ {x}))
    BY <2>2
  <2> HIDE DEF F
  <2> QED
    BY <2>1, <2>3, <2>4, Zenon
<1>2. Weigh(Of(ids, {})) = 0
  <2>1. Of(ids, {}) = {}
    BY DEF Of
  <2> QED
    BY <2>1, LoadFacts
<1>3. \A s \in SUBSET S : Weigh(Of(ids, s)) =
        IF s = {} THEN 0
        ELSE Weight[product[CHOOSE x \in s : TRUE]] + F[s \ {CHOOSE x \in s : TRUE}]
  BY <1>1, <1>2
<1>4. IsWeightFold(F, S, Weight, product)
  BY <1>3, Zenon DEF IsWeightFold
<1> HIDE DEF F
<1>5. \E G : /\ IsWeightFold(G, S, Weight, product)
             /\ Store(Weight, product)!TotalWeight(S) = G[S]
  BY <1>4, Zenon DEF IsWeightFold, Store!TotalWeight, Store!MapThenSumSet, Store!MapThenFoldSet
<1> QED
  BY <1>5, WeightFoldIs

\* The load the search returns for the rows a plan request read is one that
\* SelectOrders of OrderStore chooses from, whatever the ids and their weights.
THEOREM PlansAreSelectable ==
    ASSUME NEW CONSTANT ids, NEW CONSTANT Weight, NEW CONSTANT product
    PROVE  Spec => [](pc = "done" /\ Lists(ids, Weight, product) =>
                        Ids(ids, plan.orders) \in
                          Store(Weight, product)!Selectable(Ids(ids, 1 .. n), capacity))
<1>1. ASSUME LoadInv, pc = "done", Lists(ids, Weight, product)
      PROVE  Ids(ids, plan.orders) \in
               Store(Weight, product)!Selectable(Ids(ids, 1 .. n), capacity)
  <2>1. OrdersOK /\ n \in Nat /\ capacity \in Int /\ plan.orders \in SUBSET (1 .. n)
    BY <1>1, Inputs DEF LoadInv, TypeOK
  <2>2. ASSUME NEW L \in SUBSET (1 .. n)
        PROVE  /\ Ids(ids, L) \in SUBSET Ids(ids, 1 .. n)
               /\ Store(Weight, product)!TotalWeight(Ids(ids, L)) = Weigh(L)
    <3>1. Ids(ids, L) \in SUBSET Ids(ids, 1 .. n)
      BY DEF Ids
    <3>2. Of(ids, Ids(ids, L)) = L
      <4>1. ASSUME NEW k \in L PROVE k \in Of(ids, Ids(ids, L))
        BY DEF Of, Ids
      <4>2. ASSUME NEW k \in Of(ids, Ids(ids, L)) PROVE k \in L
        <5>1. k \in 1 .. n
          BY DEF Of
        <5>2. PICK j \in L : ids[k] = ids[j]
          BY DEF Of, Ids
        <5>3. k = j
          BY <1>1, <5>1, <5>2 DEF Lists
        <5> QED
          BY <5>2, <5>3
      <4> QED
        BY <4>1, <4>2
    <3> QED
      BY <1>1, <2>1, <3>1, <3>2, SameWeight
  <2>3. /\ plan.weight = Weigh(plan.orders)
        /\ plan.orders # {} => plan.weight <= capacity
        /\ IF n = 0 \/ capacity <= 0 THEN plan.orders = {}
           ELSE IF Weigh(1 .. n) <= capacity THEN plan.orders = 1 .. n
           ELSE plan.orders \subseteq Carriable
    BY <1>1 DEF LoadInv, PlanIsALoad
  <2>4. Ids(ids, 1 .. n) = {} <=> n = 0
    BY <2>1 DEF Ids
  <2>5. 1 .. n \in SUBSET (1 .. n)
    OBVIOUS
  <2>6. Store(Weight, product)!TotalWeight(Ids(ids, 1 .. n)) = Weigh(1 .. n)
    BY <2>2, <2>5
  <2>7. CASE n = 0 \/ capacity <= 0
    <3>1. Ids(ids, plan.orders) = {}
      BY <2>3, <2>7 DEF Ids
    <3> QED
      BY <2>4, <2>7, <3>1, Zenon DEF Store!Selectable
  <2>8. CASE ~(n = 0 \/ capacity <= 0) /\ Weigh(1 .. n) <= capacity
    <3>1. plan.orders = 1 .. n
      BY <2>3, <2>8
    <3> QED
      BY <2>4, <2>6, <2>8, <3>1, Zenon DEF Store!Selectable
  <2>9. CASE ~(n = 0 \/ capacity <= 0) /\ ~(Weigh(1 .. n) <= capacity)
    <3>1. plan.orders \subseteq Carriable /\ Weigh(plan.orders) <= capacity
      <4>1. plan.orders = {} => Weigh(plan.orders) = 0
        BY <2>1, LoadFacts
      <4> QED
        BY <2>1, <2>3, <2>9, <4>1
    <3>2. \A o \in Ids(ids, plan.orders) : Weight[product[o]] > 0
      BY <1>1, <2>1, <3>1 DEF Ids, Lists, Carriable
    <3>3. /\ Ids(ids, plan.orders) \in SUBSET Ids(ids, 1 .. n)
          /\ Store(Weight, product)!TotalWeight(Ids(ids, plan.orders)) <= capacity
      BY <2>1, <2>2, <3>1
    <3> QED
      BY <2>4, <2>6, <2>9, <3>2, <3>3, Zenon DEF Store!Selectable
  <2> QED
    BY <2>7, <2>8, <2>9
<1> QED
  BY <1>1, LoadIsRight, PTL
=============================================================================
