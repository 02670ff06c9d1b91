---------------------------- MODULE NumberLemmas ----------------------------
(***************************************************************************)
(* Facts about numbers that the proofs of several components cite:         *)
(* products, quotients and remainders, and induction.  The induction       *)
(* theorems of the library take a predicate; the one here takes the set of *)
(* the numbers it holds of.                                                *)
(***************************************************************************)
EXTENDS Integers, FiniteSetTheorems, TLAPS

LEMMA Products ==
  \A a, b \in Nat : a * b \in Nat /\ a * b = b * a /\ (a >= 1 /\ b >= 1 => a * b >= 1)
  OBVIOUS

LEMMA ProductsGrow ==
  ASSUME NEW a \in Nat, NEW b \in Nat, NEW c \in Nat, a <= b
  PROVE  a * c <= b * c
  OBVIOUS

LEMMA Distribute ==
  \A a, b, c \in Int : (a - b) * c = (a * c) - (b * c) /\ (a + b) * c = (a * c) + (b * c)
  OBVIOUS

LEMMA Reorder == \A a, b, c \in Int : (a * b) * c = (a * c) * b
  OBVIOUS

LEMMA Cancel ==
  ASSUME NEW a \in Nat, NEW b \in Nat, NEW c \in Nat \ {0}, a * c <= b * c
  PROVE  a <= b
<1> SUFFICES ASSUME b + 1 <= a PROVE FALSE
  OBVIOUS
<1>1. (b + 1) * c <= a * c
  BY ProductsGrow
<1>2. (b + 1) * c = b * c + c /\ b * c \in Nat /\ a * c \in Nat
  OBVIOUS
<1>3. QED
  BY <1>1, <1>2

(* A number is a multiple of the divisor and a remainder, in one way.      *)
LEMMA OneQuotient ==
  ASSUME NEW N \in Nat \ {0}, NEW a \in 0 .. N - 1, NEW q \in Int, N * q + a \in Nat
  PROVE  (N * q + a) \div N = q /\ (N * q + a) % N = a
<1> DEFINE n == N * q + a
          m == n \div N
          b == n % N
<1>1. n = (N * m) + b /\ m \in Int /\ b \in 0 .. N - 1
  OBVIOUS
<1>2. N * (q - m) = (N * q) - (N * m) /\ N * q \in Int /\ N * m \in Int
  BY <1>1
<1> DEFINE x == N * q
          y == N * m
<1>3. n = x + a /\ n = y + b /\ x - y = N * (q - m) /\ x \in Int /\ y \in Int
  BY <1>1, <1>2
<1> HIDE DEF n, m, b, x, y
<1>4. N * (q - m) = b - a /\ b - a \in (0 - N) + 1 .. N - 1
  BY <1>1, <1>3
<1>5. ~(q - m >= 1) /\ ~(q - m <= 0 - 1)
  BY <1>1, <1>4
<1>6. QED
  BY <1>1, <1>4, <1>5 DEF m, b, n

(* A set that holds 0 and with every number the next holds them all:       *)
(* otherwise the successor would map those up to one that is missing into  *)
(* fewer than they are.                                                    *)
LEMMA Induction ==
  ASSUME NEW A, 0 \in A, \A n \in Nat : n \in A => n + 1 \in A
  PROVE  \A n \in Nat : n \in A
<1> SUFFICES ASSUME NEW m \in Nat, m \notin A PROVE FALSE
  OBVIOUS
<1> DEFINE S == {k \in 0 .. m : k \in A}
          f == [k \in S |-> k + 1]
<1>1. IsFiniteSet(S) /\ IsFiniteSet(S \ {0}) /\ Cardinality(S \ {0}) < Cardinality(S)
  <2>1. IsFiniteSet(0 .. m) /\ S \in SUBSET (0 .. m)
    BY FS_Interval
  <2>2. IsFiniteSet(S) /\ 0 \in S
    BY <2>1, FS_Subset
  <2> HIDE DEF S
  <2>3. IsFiniteSet(S \ {0}) /\ Cardinality(S \ {0}) = Cardinality(S) - 1
    BY <2>2, FS_RemoveElement
  <2>4. QED
    BY <2>2, <2>3, FS_CardinalityType
<1>2. \A k \in S : k + 1 \in S \ {0}
  OBVIOUS
<1>3. f \in [S -> S \ {0}] /\ \A j, k \in S : f[j] = f[k] => j = k
  BY <1>2
<1> HIDE DEF S, f
<1>4. \E j, k \in S : j # k /\ f[j] = f[k]
  BY <1>1, <1>3, FS_PigeonHole
<1>5. QED
  BY <1>3, <1>4

(* Numbers have a least one. *)
LEMMA SomeLeast ==
  ASSUME NEW S, S \subseteq Nat, S # {}
  PROVE  \E m \in S : \A k \in S : m <= k
<1> SUFFICES ASSUME \A m \in S : \E k \in S : k < m PROVE FALSE
  OBVIOUS
<1> DEFINE A == {n \in Nat : \A k \in S : n <= k}
<1>1. 0 \in A
  OBVIOUS
<1>2. \A n \in Nat : n \in A => n + 1 \in A
  <2> SUFFICES ASSUME NEW n \in A, NEW k \in S PROVE n + 1 <= k
    OBVIOUS
  <2>1. n <= k /\ n # k
    OBVIOUS
  <2>2. QED
    BY <2>1
<1> HIDE DEF A
<1>3. \A n \in Nat : n \in A
  BY <1>1, <1>2, Induction
<1>4. PICK k \in S : TRUE
  OBVIOUS
<1>5. k + 1 \in A
  BY <1>3
<1>6. QED
  BY <1>5 DEF A
=============================================================================
