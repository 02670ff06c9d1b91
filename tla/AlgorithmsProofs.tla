-------------------------- MODULE AlgorithmsProofs --------------------------
(***************************************************************************)
(* Theorems about the pure algorithms, for every block size, every weight  *)
(* and every input.                                                        *)
(***************************************************************************)
EXTENDS MCAlgorithms, NumberLemmas

(* The inputs. *)

(* The inputs the behaviours enumerate. *)
Typed == tokens \in Seq(Token) /\ candidates \in Seq(Candidate)

LEMMA InputsTyped == Spec => []Typed
<1>1. Init => Typed
  BY DEF Init, Typed
<1>2. Typed /\ [Next]_<<tokens, candidates>> => Typed'
  <2> SUFFICES ASSUME Typed, Next PROVE Typed'
    BY DEF Typed
  <2>1. CASE \E t \in Token : tokens' = Append(tokens, t) /\ UNCHANGED candidates
    BY <2>1 DEF Typed
  <2>2. CASE \E c \in Candidate : candidates' = Append(candidates, c) /\ UNCHANGED tokens
    BY <2>2 DEF Typed
  <2>3. QED
    BY <2>1, <2>2 DEF Next
<1>3. QED
  BY <1>1, <1>2, PTL DEF Spec

-----------------------------------------------------------------------------
(* Blocks. *)

(* How many full blocks fit. *)
LEMMA FullBlocks ==
  ASSUME NEW n \in Nat
  PROVE  /\ n \div BlockSize \in Nat
         /\ n < BlockSize => n \div BlockSize = 0
         /\ n >= BlockSize => /\ n \div BlockSize = (n - BlockSize) \div BlockSize + 1
                              /\ (n - BlockSize) \div BlockSize \in Nat
<1>b. BlockSize \in Nat \ {0}
  BY WeightsAssumption
<1>1. \A k \in Nat : k \div BlockSize \in Nat
  BY <1>b
<1>2. ASSUME n < BlockSize PROVE n \div BlockSize = 0
  <2>1. n = BlockSize * 0 + n
    BY <1>b
  <2>2. QED
    BY <1>b, <1>2, <2>1, OneQuotient
<1>3. ASSUME n >= BlockSize PROVE n \div BlockSize = (n - BlockSize) \div BlockSize + 1
  <2> DEFINE k == n - BlockSize
             q == k \div BlockSize
             a == k % BlockSize
  <2>1. k \in Nat
    BY <1>b, <1>3
  <2>2. k = (BlockSize * q) + a /\ q \in Int /\ a \in 0 .. BlockSize - 1
    BY <1>b, <2>1
  <2>3. n = k + BlockSize
    BY <1>b
  <2> HIDE DEF k, q, a
  <2>4. n = BlockSize * (q + 1) + a /\ n \in Nat
    <3>1. BlockSize * (q + 1) = (BlockSize * q) + BlockSize /\ BlockSize * q \in Int
      BY <1>b, <2>2
    <3>2. QED
      BY <1>b, <2>2, <2>3, <3>1
  <2>5. n \div BlockSize = q + 1
    <3> DEFINE p == q + 1
    <3>1. p \in Int /\ n = BlockSize * p + a
      BY <2>2, <2>4
    <3> HIDE DEF p
    <3>2. n \div BlockSize = p
      BY <1>b, <2>2, <2>4, <3>1, OneQuotient
    <3>3. QED
      BY <3>2 DEF p
  <2>6. QED
    BY <2>5 DEF q, k
<1>4. QED
  BY <1>1, <1>2, <1>3, <1>b

(* The loop's equation, with the tokens of a block for its hash. *)
Body(ts, g, i) ==
  LET chunk == SubSeq(ts, i + 1, IF i + BlockSize < Len(ts) THEN i + BlockSize ELSE Len(ts))
  IN  IF i >= Len(ts) \/ Len(chunk) < BlockSize
        THEN <<>>
        ELSE <<chunk>> \o g[i + BlockSize]

Solves(ts, g) == g = [i \in 0 .. Len(ts) + BlockSize |-> Body(ts, g, i)]

(* The full blocks from offset i on. *)
FullFrom(ts, i) ==
  [n \in 1 .. (IF i < Len(ts) THEN (Len(ts) - i) \div BlockSize ELSE 0) |->
     SubSeq(ts, i + (n - 1) * BlockSize + 1, i + n * BlockSize)]

(* They are the first of them, and those from the next offset on. *)
LEMMA OneBlockThenTheRest ==
  ASSUME NEW T, NEW ts \in Seq(T), NEW i \in Nat
  PROVE  /\ i >= Len(ts) => FullFrom(ts, i) = <<>>
         /\ i < Len(ts) /\ i + BlockSize > Len(ts) => FullFrom(ts, i) = <<>>
         /\ i + BlockSize <= Len(ts) =>
              FullFrom(ts, i)
                = <<SubSeq(ts, i + 1, i + BlockSize)>> \o FullFrom(ts, i + BlockSize)
<1> DEFINE L == Len(ts)
<1>b. BlockSize \in Nat \ {0} /\ L \in Nat
  BY WeightsAssumption
<1>1. ASSUME i >= L PROVE FullFrom(ts, i) = <<>>
  BY <1>1, <1>b DEF FullFrom
<1>2. ASSUME i < L, i + BlockSize > L PROVE FullFrom(ts, i) = <<>>
  <2>1. L - i \in Nat /\ L - i < BlockSize
    BY <1>2, <1>b
  <2>2. (L - i) \div BlockSize = 0
    BY <2>1, FullBlocks
  <2>3. QED
    BY <1>2, <2>2 DEF FullFrom
<1>3. ASSUME i + BlockSize <= L
      PROVE  FullFrom(ts, i) = <<SubSeq(ts, i + 1, i + BlockSize)>> \o FullFrom(ts, i + BlockSize)
  <2> DEFINE j == i + BlockSize
             k == IF j < L THEN (L - j) \div BlockSize ELSE 0
  <2>1. /\ i < L /\ L - i \in Nat /\ L - i >= BlockSize /\ L - j \in Nat /\ j \in Nat
        /\ L - i - BlockSize = L - j
        /\ ~(j < L) => L - j = 0
    BY <1>3, <1>b
  <2>2. k \in Nat /\ (L - i) \div BlockSize = k + 1
    <3>1. /\ (L - i) \div BlockSize = (L - i - BlockSize) \div BlockSize + 1
          /\ (L - i - BlockSize) \div BlockSize \in Nat
      BY <2>1, FullBlocks
    <3>2. ~(j < L) => (L - j) \div BlockSize = 0
      <4>1. 0 \div BlockSize = 0
        BY <1>b, FullBlocks
      <4>2. QED
        BY <2>1, <4>1
    <3>3. QED
      BY <2>1, <3>1, <3>2
  <2> DEFINE Rest == [n \in 1 .. k |-> SubSeq(ts, j + (n - 1) * BlockSize + 1, j + n * BlockSize)]
             All  == [n \in 1 .. k + 1 |-> SubSeq(ts, i + (n - 1) * BlockSize + 1, i + n * BlockSize)]
             First == SubSeq(ts, i + 1, i + BlockSize)
  <2>3. FullFrom(ts, i) = All /\ FullFrom(ts, j) = Rest
    BY <2>1, <2>2 DEF FullFrom
  <2> HIDE DEF k
  <2>4. All[1] = First
    <3>1. (1 - 1) * BlockSize = 0 /\ 1 * BlockSize = BlockSize /\ i + 0 + 1 = i + 1
      BY <1>b
    <3>2. 1 \in 1 .. k + 1
      BY <2>2
    <3>3. QED
      BY <3>1, <3>2
  <2>5. ASSUME NEW n \in 1 .. k PROVE All[n + 1] = Rest[n]
    <3>1. /\ (n + 1 - 1) * BlockSize = (n - 1) * BlockSize + BlockSize
          /\ (n + 1) * BlockSize = n * BlockSize + BlockSize
          /\ (n - 1) * BlockSize \in Int /\ n * BlockSize \in Int
      BY <1>b, <2>2
    <3>2. /\ i + (n + 1 - 1) * BlockSize + 1 = j + (n - 1) * BlockSize + 1
          /\ i + (n + 1) * BlockSize = j + n * BlockSize
      BY <1>b, <3>1
    <3>3. n + 1 \in 1 .. k + 1
      BY <2>2
    <3>4. Rest[n] = SubSeq(ts, j + (n - 1) * BlockSize + 1, j + n * BlockSize)
      OBVIOUS
    <3> DEFINE m == n + 1
    <3>5. m \in 1 .. k + 1
      BY <3>3
    <3>6. /\ i + (m - 1) * BlockSize + 1 = j + (n - 1) * BlockSize + 1
          /\ i + m * BlockSize = j + n * BlockSize
      BY <3>2
    <3> HIDE DEF m
    <3>7. All[m] = SubSeq(ts, i + (m - 1) * BlockSize + 1, i + m * BlockSize)
      BY <3>5
    <3> HIDE DEF All, Rest, j
    <3>8. All[m] = Rest[n]
      BY <3>4, <3>6, <3>7
    <3>9. QED
      BY <3>8 DEF m
  <2>6. <<First>> \o Rest = All
    <3> HIDE DEF k, First
    <3> DEFINE Entries == {Rest[n] : n \in 1 .. k} \cup {First}
    <3>1. Rest = [n \in 1 .. k |-> Rest[n]]
      OBVIOUS
    <3>2. DOMAIN All = 1 .. k + 1 /\ All = [n \in 1 .. k + 1 |-> All[n]]
      OBVIOUS
    <3> HIDE DEF Rest, All
    <3>3. Rest \in Seq(Entries) /\ Len(Rest) = k /\ <<First>> \in Seq(Entries)
      <4>1. Rest \in [1 .. k -> Entries]
        BY <3>1
      <4>2. First \in Entries
        OBVIOUS
      <4> HIDE DEF Entries
      <4>3. QED
        BY <2>2, <4>1, <4>2
    <3> HIDE DEF Entries
    <3>4. <<First>> \o Rest = [n \in 1 .. 1 + k |-> IF n = 1 THEN First ELSE Rest[n - 1]]
      BY <2>2, <3>3
    <3>5. ASSUME NEW n \in 1 .. k + 1
          PROVE  (IF n = 1 THEN First ELSE Rest[n - 1]) = All[n]
      <4>1. CASE n = 1
        BY <2>4, <4>1
      <4>2. CASE n # 1
        <5>1. n - 1 \in 1 .. k /\ n - 1 + 1 = n
          BY <2>2, <4>2
        <5>2. All[n - 1 + 1] = Rest[n - 1]
          BY <2>5, <5>1
        <5>3. QED
          BY <4>2, <5>1, <5>2
      <4>3. QED
        BY <4>1, <4>2
    <3>6. 1 + k = k + 1
      BY <2>2
    <3>7. QED
      BY <3>2, <3>4, <3>5, <3>6
  <2>7. QED
    BY <2>3, <2>6
<1>4. QED
  BY <1>1, <1>2, <1>3

LEMMA BlocksSolve ==
  ASSUME NEW T, NEW ts \in Seq(T)
  PROVE  Solves(ts, [i \in 0 .. Len(ts) + BlockSize |-> FullFrom(ts, i)])
<1> DEFINE L == Len(ts)
           g == [i \in 0 .. Len(ts) + BlockSize |-> FullFrom(ts, i)]
<1>b. BlockSize \in Nat \ {0} /\ L \in Nat
  BY WeightsAssumption
<1>1. ASSUME NEW i \in 0 .. L + BlockSize PROVE Body(ts, g, i) = FullFrom(ts, i)
  <2>i. i \in Nat
    BY <1>b
  <2>1. CASE i >= L
    <3>1. FullFrom(ts, i) = <<>>
      BY <2>i, <2>1, OneBlockThenTheRest
    <3>2. QED
      BY <2>1, <3>1 DEF Body
  <2>2. CASE i < L /\ i + BlockSize > L
    <3>1. ~(i + BlockSize < L)
      BY <1>b, <2>2
    <3>2. Len(SubSeq(ts, i + 1, L)) = L - i
      BY <1>b, <2>2
    <3>3. Len(SubSeq(ts, i + 1, L)) < BlockSize
      BY <1>b, <2>2, <3>2
    <3>4. Body(ts, g, i) = <<>>
      BY <3>1, <3>3 DEF Body
    <3>5. QED
      BY <2>i, <2>2, <3>4, OneBlockThenTheRest
  <2>3. CASE i + BlockSize <= L
    <3> DEFINE chunk == SubSeq(ts, i + 1, IF i + BlockSize < L THEN i + BlockSize ELSE L)
    <3>1. chunk = SubSeq(ts, i + 1, i + BlockSize)
      BY <1>b, <2>3
    <3>2. Len(SubSeq(ts, i + 1, i + BlockSize)) = BlockSize
      BY <1>b, <2>3
    <3>3. i < L /\ i + BlockSize \in 0 .. L + BlockSize /\ i \in Nat
      BY <1>b, <2>3
    <3>4. ~(i >= L \/ Len(chunk) < BlockSize)
      BY <1>b, <3>1, <3>2, <3>3
    <3>5. Body(ts, g, i) = <<chunk>> \o g[i + BlockSize]
      BY <3>4 DEF Body
    <3>6. g[i + BlockSize] = FullFrom(ts, i + BlockSize)
      BY <3>3
    <3> HIDE DEF chunk, g
    <3>7. QED
      BY <2>3, <3>1, <3>3, <3>5, <3>6, OneBlockThenTheRest
  <2>4. QED
    BY <1>b, <2>1, <2>2, <2>3
<1>2. QED
  BY <1>1 DEF Solves

(* The loop's equation has one solution: an offset only asks for a later   *)
(* one, and the last asks for none.                                        *)
LEMMA OneSolution ==
  ASSUME NEW T, NEW ts \in Seq(T), NEW g, NEW h, Solves(ts, g), Solves(ts, h)
  PROVE  g = h
<1> DEFINE L == Len(ts)
           M == L + BlockSize
           A == {m \in Nat : \A i \in 0 .. M : M - i <= m => g[i] = h[i]}
<1>b. BlockSize \in Nat \ {0} /\ L \in Nat
  BY WeightsAssumption
<1>1. \A i \in 0 .. M : g[i] = Body(ts, g, i) /\ h[i] = Body(ts, h, i)
  BY DEF Solves
<1>2. ASSUME NEW i \in 0 .. M, i < L => g[i + BlockSize] = h[i + BlockSize]
      PROVE  g[i] = h[i]
  <2>1. Body(ts, g, i) = Body(ts, h, i)
    BY <1>2, <1>b DEF Body
  <2>2. QED
    BY <1>1, <2>1
<1>3. 0 \in A
  <2>1. ASSUME NEW i \in 0 .. M, M - i <= 0 PROVE g[i] = h[i]
    <3>1. ~(i < L)
      BY <1>b, <2>1
    <3>2. QED
      BY <1>2, <3>1
  <2>2. QED
    BY <2>1
<1>4. ASSUME NEW m \in Nat, m \in A PROVE m + 1 \in A
  <2>1. ASSUME NEW i \in 0 .. M, M - i <= m + 1 PROVE g[i] = h[i]
    <3>1. ASSUME i < L PROVE g[i + BlockSize] = h[i + BlockSize]
      <4> DEFINE j == i + BlockSize
      <4>1. j \in 0 .. M /\ M - j <= m
        BY <1>b, <2>1, <3>1
      <4> HIDE DEF j, M
      <4>2. g[j] = h[j]
        BY <1>4, <4>1
      <4>3. QED
        BY <4>2 DEF j
    <3>2. QED
      BY <1>2, <3>1
  <2>2. QED
    BY <2>1
<1> HIDE DEF A
<1>5. \A m \in Nat : m \in A
  BY <1>3, <1>4, Induction
<1>6. ASSUME NEW i \in 0 .. M PROVE g[i] = h[i]
  <2>1. M - i \in Nat /\ M - i <= M - i
    BY <1>b
  <2>2. QED
    BY <1>5, <2>1 DEF A
<1>7. g = [i \in 0 .. M |-> g[i]] /\ h = [i \in 0 .. M |-> h[i]]
  BY DEF Solves
<1>8. QED
  BY <1>6, <1>7

(* token_ids_to_block_hashes, from any offset, yields the full blocks from *)
(* there on.                                                               *)
LEMMA LoopYieldsBlocks ==
  ASSUME NEW T, NEW ts \in Seq(T), NEW i \in 0 .. Len(ts) + BlockSize
  PROVE  Events!HashesFrom(ts)[i] = FullFrom(ts, i)
<1> DEFINE g == [j \in 0 .. Len(ts) + BlockSize |-> FullFrom(ts, j)]
           f == Events!HashesFrom(ts)
<1>1. Solves(ts, g)
  BY BlocksSolve
<1>2. f = CHOOSE h : Solves(ts, h)
  BY DEF Events!HashesFrom, Body, Solves, Tuple
<1> HIDE DEF f
<1>3. Solves(ts, f)
  BY <1>1, <1>2
<1>4. f = g
  BY <1>1, <1>3, OneSolution
<1>5. QED
  BY <1>4 DEF f

LEMMA HashesAreBlocks ==
  ASSUME NEW T, NEW ts \in Seq(T)
  PROVE  Events!TokenIdsToBlockHashes(ts)
           = [n \in 1 .. Len(ts) \div BlockSize |->
                SubSeq(ts, (n - 1) * BlockSize + 1, n * BlockSize)]
<1>b. BlockSize \in Nat \ {0} /\ Len(ts) \in Nat
  BY WeightsAssumption
<1>1. Events!TokenIdsToBlockHashes(ts) = FullFrom(ts, 0)
  BY <1>b, LoopYieldsBlocks DEF Events!TokenIdsToBlockHashes
<1>2. (IF 0 < Len(ts) THEN (Len(ts) - 0) \div BlockSize ELSE 0) = Len(ts) \div BlockSize
  <2>1. 0 \div BlockSize = 0
    BY <1>b, FullBlocks
  <2>2. QED
    BY <1>b, <2>1
<1>3. Len(ts) \div BlockSize \in Nat
  BY <1>b, FullBlocks
<1>4. \A n \in 1 .. Len(ts) \div BlockSize :
        /\ 0 + (n - 1) * BlockSize + 1 = (n - 1) * BlockSize + 1
        /\ 0 + n * BlockSize = n * BlockSize
  BY <1>b, <1>3
<1>5. QED
  BY <1>1, <1>2, <1>4 DEF FullFrom

(* Every prompt is hashed block by full block, in order, and its tail is   *)
(* dropped, whatever the block size.                                       *)
THEOREM EveryFullBlockIsHashed == Spec => []OneHashPerFullBlock
<1>1. Typed => OneHashPerFullBlock
  BY HashesAreBlocks DEF Typed, OneHashPerFullBlock, Hashes
<1>2. QED
  BY <1>1, InputsTyped, PTL

LEMMA BlocksFit ==
  ASSUME NEW n \in Nat, NEW k \in 1 .. n \div BlockSize
  PROVE  /\ (k - 1) * BlockSize + 1 \in Nat \ {0} /\ k * BlockSize \in Nat
         /\ k * BlockSize <= n
<1>b. BlockSize \in Nat \ {0}
  BY WeightsAssumption
<1> DEFINE q == n \div BlockSize
           a == n % BlockSize
<1>1. n = (BlockSize * q) + a /\ q \in Int /\ a \in Nat
  BY <1>b
<1>2. k \in 1 .. q
  OBVIOUS
<1> HIDE DEF q, a
<1>3. BlockSize * k <= BlockSize * q /\ BlockSize * k = k * BlockSize /\ k * BlockSize \in Nat
  BY <1>b, <1>1, <1>2
<1>4. (k - 1) * BlockSize \in Nat
  BY <1>b, <1>1, <1>2
<1>5. QED
  BY <1>1, <1>3, <1>4, <1>b

LEMMA NoFewerBlocks ==
  ASSUME NEW m \in Nat, NEW n \in Nat, m <= n
  PROVE  m \div BlockSize <= n \div BlockSize
<1>b. BlockSize \in Nat \ {0}
  BY WeightsAssumption
<1> DEFINE p == m \div BlockSize
           q == n \div BlockSize
           a == m % BlockSize
           b == n % BlockSize
<1>1. /\ m = (BlockSize * p) + a /\ p \in Int /\ a \in Nat
      /\ n = (BlockSize * q) + b /\ q \in Int /\ b \in 0 .. BlockSize - 1
  BY <1>b
<1> HIDE DEF p, q, a, b
<1>2. BlockSize * (p - q) = (BlockSize * p) - (BlockSize * q)
      /\ BlockSize * p \in Int /\ BlockSize * q \in Int
  BY <1>b, <1>1
<1>3. BlockSize * (p - q) < BlockSize
  BY <1>b, <1>1, <1>2
<1>4. ~(p - q >= 1)
  BY <1>b, <1>1, <1>3
<1>5. QED
  BY <1>1, <1>4 DEF p, q

(* The hashes of a prompt begin those of every prompt it begins.           *)
THEOREM TurnsExtendTheirHashes == Spec => []TurnsShareBlocks
<1>1. ASSUME NEW T, NEW ts \in Seq(T), NEW n \in 0 .. Len(ts)
      PROVE  IsPrefix(Events!TokenIdsToBlockHashes(SubSeq(ts, 1, n)),
                      Events!TokenIdsToBlockHashes(ts))
  <2> DEFINE us == SubSeq(ts, 1, n)
             p == n \div BlockSize
             q == Len(ts) \div BlockSize
             P == [k \in 1 .. p |-> SubSeq(us, (k - 1) * BlockSize + 1, k * BlockSize)]
             Q == [k \in 1 .. q |-> SubSeq(ts, (k - 1) * BlockSize + 1, k * BlockSize)]
  <2>1. us \in Seq(T) /\ Len(us) = n /\ n \in Nat /\ Len(ts) \in Nat /\ n <= Len(ts)
    OBVIOUS
  <2>2. p \in Nat /\ q \in Nat /\ p <= q
    BY <2>1, FullBlocks, NoFewerBlocks
  <2>3. Events!TokenIdsToBlockHashes(us) = P /\ Events!TokenIdsToBlockHashes(ts) = Q
    BY <2>1, HashesAreBlocks
  <2>4. ASSUME NEW k \in 1 .. p PROVE P[k] = Q[k] /\ k \in 1 .. q
    <3> DEFINE a == (k - 1) * BlockSize + 1
               b == k * BlockSize
    <3>1. a \in Nat \ {0} /\ b \in Nat /\ b <= n
      BY <2>1, BlocksFit
    <3>2. k \in 1 .. q
      BY <2>2
    <3>3. P[k] = SubSeq(us, a, b) /\ Q[k] = SubSeq(ts, a, b)
      BY <3>2
    <3> HIDE DEF a, b
    <3>4. SubSeq(us, a, b) = SubSeq(ts, a, b)
      BY <2>1, <3>1
    <3>5. QED
      BY <3>2, <3>3, <3>4
  <2>5. P = [k \in 1 .. p |-> P[k]] /\ Q = [k \in 1 .. q |-> Q[k]]
    OBVIOUS
  <2> HIDE DEF p, q, P, Q
  <2>6. P \in Seq({P[k] : k \in 1 .. p}) /\ Q \in Seq({Q[k] : k \in 1 .. q})
    <3> DEFINE S == {P[k] : k \in 1 .. p}
               R == {Q[k] : k \in 1 .. q}
    <3>1. P \in [1 .. p -> S] /\ Q \in [1 .. q -> R]
      BY <2>5
    <3> HIDE DEF S, R
    <3>2. P \in Seq(S) /\ Q \in Seq(R)
      BY <2>2, <3>1
    <3>3. QED
      BY <3>2 DEF S, R
  <2>7. Len(P) = p /\ Len(Q) = q
    BY <2>2, <2>5
  <2>8. SubSeq(P, 1, p) = [k \in 1 .. p |-> P[k]] /\ SubSeq(Q, 1, p) = [k \in 1 .. p |-> Q[k]]
    BY <2>2, <2>6, <2>7
  <2>9. QED
    BY <2>2, <2>3, <2>4, <2>7, <2>8 DEF IsPrefix
<1>2. Typed => TurnsShareBlocks
  BY <1>1 DEF Typed, TurnsShareBlocks, Hashes
<1>3. QED
  BY <1>2, InputsTyped, PTL

-----------------------------------------------------------------------------
(* Scores. *)

(* The prompt of a request is at least one block's worth of tokens. *)
LEMMA SomeTokens ==
  ASSUME NEW isl \in Nat
  PROVE  RequestTokens(isl) \in Nat \ {0}
<1> DEFINE n == isl + BlockSize - 1
           q == n \div BlockSize
<1>b. BlockSize \in Nat \ {0}
  BY WeightsAssumption
<1>1. CASE isl = 0
  BY <1>1, <1>b DEF RequestTokens
<1>2. CASE isl # 0
  <2>1. /\ n \in Nat /\ n >= BlockSize /\ q \in Int
        /\ n = (BlockSize * q) + (n % BlockSize) /\ n % BlockSize \in 0 .. BlockSize - 1
    BY <1>2, <1>b
  <2>2. RequestTokens(isl) = BlockSize * q
    BY <1>2 DEF RequestTokens
  <2> DEFINE m == n % BlockSize
  <2> HIDE DEF n, q, m
  <2>3. q >= 1
    <3>1. n = (BlockSize * q) + m /\ m < BlockSize /\ m \in Nat /\ BlockSize * q \in Int
      BY <2>1, <1>b DEF m
    <3>2. BlockSize * q >= 1
      BY <2>1, <3>1, <1>b
    <3>3. QED
      BY <2>1, <3>2, <1>b
  <2>4. QED
    BY <1>b, <2>1, <2>2, <2>3
<1>3. QED
  BY <1>1, <1>2

(* Two fractions with one numerator, the second over no fewer parts. *)
Shrinks(f, g) ==
  \E n, d, e \in Nat \ {0} : d <= e /\ f = Fraction(n, d) /\ g = Fraction(n, e)

(* What is left of the credit is less for the worker with more load. *)
LEMMA CreditShrinks ==
  ASSUME NEW isl \in Nat, NEW least \in Nat, NEW a \in Nat, NEW b \in Nat, a <= b
  PROVE  Shrinks(CreditLeft(a, isl, least), CreditLeft(b, isl, least))
<1>1. CASE Decay = 0 \/ least = 0
  <2>1. CreditLeft(a, isl, least) = Fraction(1, 1) /\ CreditLeft(b, isl, least) = Fraction(1, 1)
    BY <1>1 DEF CreditLeft, Whole
  <2>2. QED
    BY <2>1 DEF Shrinks
<1>2. CASE ~(Decay = 0 \/ least = 0)
  <2> DEFINE Excess(t) == IF t > least THEN t - least ELSE 0
             R == RequestTokens(isl)
  <2>1. /\ CreditLeft(a, isl, least) = Fraction(R, R + Decay * Excess(a))
        /\ CreditLeft(b, isl, least) = Fraction(R, R + Decay * Excess(b))
    BY <1>2 DEF CreditLeft
  <2>2. R \in Nat \ {0}
    BY SomeTokens
  <2>3. Excess(a) \in Nat /\ Excess(b) \in Nat /\ Excess(a) <= Excess(b)
    OBVIOUS
  <2> HIDE DEF R, Excess
  <2>4. /\ Decay * Excess(a) \in Nat /\ Decay * Excess(b) \in Nat
        /\ Decay * Excess(a) <= Decay * Excess(b)
    BY <2>3, WeightsAssumption
  <2>5. QED
    BY <2>1, <2>2, <2>4 DEF Shrinks
<1>3. QED
  BY <1>1, <1>2

(* What is left of a load once the credit for cached blocks is taken off,  *)
(* never below zero.                                                       *)
LEMMA CutOffGrows ==
  ASSUME NEW A1 \in Nat, NEW A2 \in Nat, A1 <= A2,
         NEW K1 \in Nat, NEW K2 \in Nat, K2 <= K1,
         NEW d \in Nat \ {0}, NEW e \in Nat \ {0}, d <= e
  PROVE  (IF A1 * d > K1 THEN A1 * d - K1 ELSE 0) * e
           <= (IF A2 * e > K2 THEN A2 * e - K2 ELSE 0) * d
<1> DEFINE x == IF A1 * d > K1 THEN A1 * d - K1 ELSE 0
           y == IF A2 * e > K2 THEN A2 * e - K2 ELSE 0
<1>0. A1 * d \in Nat /\ A2 * e \in Nat /\ A1 * e \in Nat
  OBVIOUS
<1>1. x \in Nat /\ y \in Nat
  BY <1>0
<1>2. CASE A1 * d > K1
  <2>1. A1 * d <= A1 * e /\ A1 * e <= A2 * e
    BY ProductsGrow, Products
  <2>2. x = A1 * d - K1 /\ y = A2 * e - K2
    BY <1>0, <1>2, <2>1
  <2>3. x * e = ((A1 * d) * e) - (K1 * e) /\ y * d = ((A2 * e) * d) - (K2 * d)
    BY <2>2, <1>0, Distribute
  <2>4. (A1 * d) * e <= (A2 * e) * d
    <3>1. (A1 * d) * e = (A1 * e) * d
      BY Reorder
    <3>2. QED
      BY <1>0, <2>1, <3>1, ProductsGrow
  <2>5. K2 * d <= K1 * e
    <3>1. K2 * d <= K2 * e /\ K2 * e <= K1 * e
      BY ProductsGrow, Products
    <3>2. QED
      BY <3>1, Products
  <2>6. /\ (A1 * d) * e \in Nat /\ (A2 * e) * d \in Nat /\ K2 * d \in Nat /\ K1 * e \in Nat
    BY <1>0
  <2> HIDE DEF x, y
  <2>7. QED
    BY <2>3, <2>4, <2>5, <2>6 DEF x, y
<1>3. CASE ~(A1 * d > K1)
  <2>1. x = 0 /\ y * d \in Nat
    BY <1>1, <1>3
  <2>2. 0 * e = 0
    OBVIOUS
  <2>3. QED
    BY <2>1, <2>2
<1>4. QED
  BY <1>2, <1>3

(* KvRouter.score never values a worker with more load, or fewer of the    *)
(* prompt's blocks, below one with less, or more: neither where credit     *)
(* decays nor where the prefill term is cut off at zero.                   *)
LEMMA ScoreGrows ==
  ASSUME NEW isl \in Nat, NEW least \in Nat,
         NEW r \in [active_prefill_tokens : Nat, active_decode_blocks : Nat,
                    active_requests : Nat],
         NEW s \in [active_prefill_tokens : Nat, active_decode_blocks : Nat,
                    active_requests : Nat],
         r.active_prefill_tokens <= s.active_prefill_tokens,
         r.active_decode_blocks <= s.active_decode_blocks,
         r.active_requests <= s.active_requests,
         NEW o \in Nat, NEW u \in Nat, u <= o
  PROVE  Leq(Score(r, isl, o, least), Score(s, isl, u, least))
<1>1. PICK n, d, e \in Nat \ {0} :
        /\ d <= e
        /\ CreditLeft(r.active_prefill_tokens, isl, least) = Fraction(n, d)
        /\ CreditLeft(s.active_prefill_tokens, isl, least) = Fraction(n, e)
  <2> DEFINE a == r.active_prefill_tokens
             b == s.active_prefill_tokens
  <2>1. a \in Nat /\ b \in Nat /\ a <= b
    OBVIOUS
  <2> HIDE DEF a, b
  <2>2. Shrinks(CreditLeft(a, isl, least), CreditLeft(b, isl, least))
    BY <2>1, CreditShrinks
  <2>3. QED
    BY <2>2 DEF a, b, Shrinks
<1> DEFINE A1 == r.active_prefill_tokens + isl
           A2 == s.active_prefill_tokens + isl
           K1 == OverlapCredit * BlockSize * o * n
           K2 == OverlapCredit * BlockSize * u * n
           x == IF A1 * d > K1 THEN A1 * d - K1 ELSE 0
           y == IF A2 * e > K2 THEN A2 * e - K2 ELSE 0
           F1 == BlockSize * (r.active_decode_blocks + RequestWeight * r.active_requests)
           F2 == BlockSize * (s.active_decode_blocks + RequestWeight * s.active_requests)
           L == PrefillLoadScale
<1>2. /\ Score(r, isl, o, least) = Fraction(L * x + F1 * d, d)
      /\ Score(s, isl, u, least) = Fraction(L * y + F2 * e, e)
  BY <1>1 DEF Score, Fraction
<1>3. A1 \in Nat /\ A2 \in Nat /\ A1 <= A2
  OBVIOUS
<1>4. K1 \in Nat /\ K2 \in Nat /\ K2 <= K1
  <2> DEFINE c == OverlapCredit * BlockSize
  <2>1. c \in Nat
    BY WeightsAssumption
  <2> HIDE DEF c
  <2>2. c * o \in Nat /\ c * u \in Nat /\ c * u <= c * o
    BY <2>1, ProductsGrow, Products
  <2>3. (c * o) * n \in Nat /\ (c * u) * n \in Nat /\ (c * u) * n <= (c * o) * n
    BY <2>2, ProductsGrow, Products
  <2>4. QED
    BY <2>3 DEF c
<1>5. F1 \in Nat /\ F2 \in Nat /\ F1 <= F2
  <2> DEFINE g == r.active_decode_blocks + RequestWeight * r.active_requests
             h == s.active_decode_blocks + RequestWeight * s.active_requests
  <2>1. /\ RequestWeight * r.active_requests \in Nat /\ RequestWeight * s.active_requests \in Nat
        /\ RequestWeight * r.active_requests <= RequestWeight * s.active_requests
    BY WeightsAssumption, ProductsGrow, Products
  <2>2. g \in Nat /\ h \in Nat /\ g <= h
    BY <2>1
  <2> HIDE DEF g, h
  <2>3. BlockSize * g \in Nat /\ BlockSize * h \in Nat /\ BlockSize * g <= BlockSize * h
    BY <2>2, WeightsAssumption, ProductsGrow, Products
  <2>4. QED
    BY <2>3 DEF g, h
<1> HIDE DEF A1, A2, K1, K2, F1, F2
<1>6. x * e <= y * d
  BY <1>1, <1>3, <1>4, CutOffGrows
<1>7. x \in Nat /\ y \in Nat /\ L \in Nat
  <2>1. A1 * d \in Nat /\ A2 * e \in Nat
    BY <1>1, <1>3
  <2>2. QED
    BY <1>4, <2>1, WeightsAssumption
<1> HIDE DEF x, y, L
<1>8. (L * x + F1 * d) * e <= (L * y + F2 * e) * d
  <2>1. /\ L * x \in Nat /\ L * y \in Nat /\ F1 * d \in Nat /\ F2 * e \in Nat
        /\ x * e \in Nat /\ y * d \in Nat
    BY <1>1, <1>5, <1>7
  <2>2. /\ (L * x + F1 * d) * e = ((L * x) * e) + ((F1 * d) * e)
        /\ (L * y + F2 * e) * d = ((L * y) * d) + ((F2 * e) * d)
    BY <1>1, <2>1, Distribute
  <2>3. (L * x) * e <= (L * y) * d
    <3>1. (L * x) * e = (x * e) * L /\ (L * y) * d = (y * d) * L
      BY <1>1, <1>7, Reorder, Products
    <3>2. QED
      BY <1>6, <1>7, <2>1, <3>1, ProductsGrow
  <2>4. (F1 * d) * e <= (F2 * e) * d
    <3>1. (F1 * d) * e <= (F2 * d) * e
      <4>1. F1 * d <= F2 * d /\ F2 * d \in Nat
        BY <1>1, <1>5, ProductsGrow
      <4>2. QED
        BY <1>1, <2>1, <4>1, ProductsGrow
    <3>2. (F2 * d) * e = (F2 * e) * d
      BY <1>1, <1>5, Reorder
    <3>3. QED
      BY <3>1, <3>2
  <2>5. /\ (L * x) * e \in Nat /\ (L * y) * d \in Nat
        /\ (F1 * d) * e \in Nat /\ (F2 * e) * d \in Nat
    BY <1>1, <2>1
  <2>6. QED
    BY <2>2, <2>3, <2>4, <2>5
<1>9. QED
  BY <1>2, <1>8 DEF Leq, Fraction

LEMMA LeastLoad ==
  ASSUME Typed, candidates # <<>>
  PROVE  Least \in Nat
<1> DEFINE S == {Load(i) : i \in DOMAIN candidates}
<1>1. /\ S \subseteq Nat
      /\ S # {}
  <2>1. 1 \in DOMAIN candidates /\ \A i \in DOMAIN candidates : candidates[i] \in Candidate
    BY DEF Typed
  <2>2. \A c \in Candidate : c.row.active_prefill_tokens \in Nat
    BY DEF Candidate
  <2>3. QED
    BY <2>1, <2>2 DEF Load
<1> HIDE DEF S
<1>2. \E m \in S : \A k \in S : m <= k
  BY <1>1, SomeLeast
<1> USE DEF S
<1>3. \E m \in S : \A i \in DOMAIN candidates : m <= Load(i)
  BY <1>2
<1>4. QED
  BY <1>1, <1>3 DEF Least

(* A worker with no less load of any kind and no more of the prompt in its *)
(* cache never costs less, for every block size and weight.                *)
THEOREM LoadHelpsNobody == Spec => []LoadNeverHelps
<1>1. Typed => LoadNeverHelps
  <2> SUFFICES ASSUME Typed, NEW i \in DOMAIN candidates, NEW j \in DOMAIN candidates,
                      Load(i) <= Load(j),
                      candidates[i].row.active_decode_blocks
                        <= candidates[j].row.active_decode_blocks,
                      candidates[i].row.active_requests <= candidates[j].row.active_requests,
                      candidates[i].overlap >= candidates[j].overlap
               PROVE  Leq(Costs[i], Costs[j])
    BY DEF LoadNeverHelps
  <2>1. /\ candidates[i] \in Candidate /\ candidates[j] \in Candidate /\ candidates # <<>>
    BY DEF Typed
  <2>2. Least \in Nat /\ PromptLength \in Nat
    BY <2>1, LeastLoad, WeightsAssumption DEF PromptLength
  <2> DEFINE Row == [active_prefill_tokens : Nat, active_decode_blocks : Nat,
                     active_requests : Nat]
  <2>3. /\ candidates[i].row \in Row /\ candidates[j].row \in Row
        /\ candidates[i].overlap \in Nat /\ candidates[j].overlap \in Nat
    BY <2>1 DEF Candidate
  <2>4. Leq(Score(candidates[i].row, PromptLength, candidates[i].overlap, Least),
            Score(candidates[j].row, PromptLength, candidates[j].overlap, Least))
    BY <2>2, <2>3, ScoreGrows DEF Load
  <2>5. QED
    BY <2>4 DEF Costs
<1>2. QED
  BY <1>1, InputsTyped, PTL

-----------------------------------------------------------------------------
(* Picking. *)

Cost == [num : Nat, den : Nat \ {0}]

(* Costs are ordered. *)
LEMMA CostsCompare ==
  ASSUME NEW a \in Cost, NEW b \in Cost
  PROVE  Leq(a, b) \/ Leq(b, a)
<1>1. a.num * b.den \in Nat /\ b.num * a.den \in Nat
  BY Products DEF Cost
<1>2. QED
  BY <1>1 DEF Leq

LEMMA CostsChain ==
  ASSUME NEW a \in Cost, NEW b \in Cost, NEW c \in Cost, Leq(a, b), Leq(b, c)
  PROVE  Leq(a, c)
<1> DEFINE an == a.num  ad == a.den  bn == b.num  bd == b.den  cn == c.num  cd == c.den
<1>1. /\ an \in Nat /\ bn \in Nat /\ cn \in Nat
      /\ ad \in Nat \ {0} /\ bd \in Nat \ {0} /\ cd \in Nat \ {0}
  BY DEF Cost
<1>2. an * bd <= bn * ad /\ bn * cd <= cn * bd
  BY DEF Leq
<1> HIDE DEF an, ad, bn, bd, cn, cd
<1>3. /\ an * bd \in Nat /\ bn * ad \in Nat /\ bn * cd \in Nat /\ cn * bd \in Nat
      /\ an * cd \in Nat /\ cn * ad \in Nat
  BY <1>1, Products
<1>4. (an * bd) * cd <= (bn * ad) * cd /\ (bn * cd) * ad <= (cn * bd) * ad
  BY <1>1, <1>2, <1>3, ProductsGrow
<1>5. /\ (an * bd) * cd = (an * cd) * bd /\ (bn * ad) * cd = (bn * cd) * ad
      /\ (cn * bd) * ad = (cn * ad) * bd
  BY <1>1, Reorder
<1>6. (an * cd) * bd <= (cn * ad) * bd
  <2>1. /\ (an * cd) * bd \in Nat /\ (bn * cd) * ad \in Nat /\ (cn * ad) * bd \in Nat
    BY <1>1, <1>3, Products
  <2>2. QED
    BY <1>4, <1>5, <2>1
<1>7. an * cd <= cn * ad
  BY <1>1, <1>3, <1>6, Cancel
<1>8. QED
  BY <1>7 DEF Leq, an, ad, bn, bd, cn, cd

(* After the walk has seen the first i costs, the best of them is known,   *)
(* so many of them tie with it, and each of those is the one kept with the *)
(* same chance.                                                            *)
Ties(costs, best, i) == {j \in 1 .. i : Leq(costs[j], best)}

Seen(costs, seen, i) ==
  /\ seen \in [best : Cost, ties : Nat, chance : [1 .. Len(costs) -> Cost]]
  /\ seen.ties = 0 <=> i = 0
  /\ \A j \in 1 .. i : Leq(seen.best, costs[j])
  /\ Cardinality(Ties(costs, seen.best, i)) = seen.ties
  /\ \A j \in Ties(costs, seen.best, i) :
       seen.chance[j].num * seen.ties = seen.chance[j].den
  /\ \A j \in 1 .. Len(costs) \ Ties(costs, seen.best, i) : seen.chance[j].num = 0

LEMMA NobodySeen ==
  ASSUME NEW costs \in Seq(Cost)
  PROVE  Seen(costs, Nobody(Len(costs)), 0)
<1>1. Ties(costs, Nobody(Len(costs)).best, 0) = {}
  BY DEF Ties
<1>2. Whole(0) \in Cost /\ Whole(0).num = 0
  BY DEF Whole, Fraction, Cost
<1> DEFINE c == [i \in 1 .. Len(costs) |-> Whole(0)]
<1>3. /\ Nobody(Len(costs)).best = Whole(0) /\ Nobody(Len(costs)).ties = 0
      /\ Nobody(Len(costs)).chance = c
      /\ Nobody(Len(costs)) = [best |-> Whole(0), ties |-> 0, chance |-> c]
  BY DEF Nobody
<1>4. c \in [1 .. Len(costs) -> Cost] /\ \A j \in 1 .. Len(costs) : c[j].num = 0
  BY <1>2
<1> HIDE DEF c
<1>5. QED
  BY <1>1, <1>2, <1>3, <1>4, FS_EmptySet DEF Seen

LEMMA TakesOver ==
  ASSUME NEW costs \in Seq(Cost), NEW seen, NEW i \in 1 .. Len(costs),
         Seen(costs, seen, i - 1),
         seen.ties = 0 \/ ~Leq(seen.best, costs[i])
  PROVE  Seen(costs, TakeOver(seen, costs[i], i), i)
<1> DEFINE c == costs[i]
           new == TakeOver(seen, c, i)
           N == Len(costs)
           chance == [j \in 1 .. N |-> Whole(IF j = i THEN 1 ELSE 0)]
<1>0. c \in Cost /\ N \in Nat /\ seen.best \in Cost /\ \A j \in 1 .. N : costs[j] \in Cost
  BY DEF Seen
<1>1. DOMAIN seen.chance = 1 .. N
  BY DEF Seen
<1>2. /\ new = [best |-> c, ties |-> 1, chance |-> chance]
      /\ new.best = c /\ new.ties = 1 /\ new.chance = chance
  BY <1>1 DEF TakeOver
<1>3. /\ chance \in [1 .. N -> Cost]
      /\ chance[i].num = 1 /\ chance[i].den = 1
      /\ \A j \in 1 .. N : j # i => chance[j].num = 0
  BY DEF Whole, Fraction, Cost
<1> HIDE DEF new, chance
<1>4. \A j \in 1 .. i : Leq(c, costs[j])
  <2>1. Leq(c, c)
    BY <1>0, CostsCompare
  <2>2. ASSUME NEW j \in 1 .. i - 1 PROVE Leq(c, costs[j])
    <3>1. j \in 1 .. N /\ i - 1 # 0
      BY <1>0
    <3>2. ~Leq(seen.best, c) /\ Leq(seen.best, costs[j])
      BY <3>1 DEF Seen
    <3>3. Leq(c, seen.best)
      BY <1>0, <3>2, CostsCompare
    <3>4. QED
      BY <1>0, <3>1, <3>2, <3>3, CostsChain
  <2>3. \A j \in 1 .. i : j = i \/ j \in 1 .. i - 1
    OBVIOUS
  <2>4. QED
    BY <2>1, <2>2, <2>3
<1>5. Ties(costs, c, i) = {i}
  <2>1. ASSUME NEW j \in 1 .. i - 1 PROVE ~Leq(costs[j], c)
    <3>1. j \in 1 .. N /\ i - 1 # 0
      BY <1>0
    <3>2. ~Leq(seen.best, c) /\ Leq(seen.best, costs[j])
      BY <3>1 DEF Seen
    <3>3. QED
      BY <1>0, <3>1, <3>2, CostsChain
  <2>2. Leq(costs[i], c) /\ i \in 1 .. i
    BY <1>4
  <2>3. \A j \in 1 .. i : j = i \/ j \in 1 .. i - 1
    OBVIOUS
  <2> HIDE DEF c
  <2>4. QED
    BY <2>1, <2>2, <2>3 DEF Ties
<1>6. Cardinality({i}) = 1 /\ 1 * 1 = 1 /\ i # 0
  <2>1. Cardinality({i}) = 1
    BY FS_Singleton
  <2>2. QED
    BY <2>1
<1> HIDE DEF c, N
<1>7. /\ new \in [best : Cost, ties : Nat, chance : [1 .. N -> Cost]]
      /\ new.ties = 0 <=> i = 0
  BY <1>0, <1>2, <1>3, <1>6
<1>8. QED
  BY <1>2, <1>3, <1>4, <1>5, <1>6, <1>7 DEF Seen, N, c, new

(* Who ties with the best once one more cost has been seen. *)
LEMMA NextTies ==
  ASSUME NEW costs \in Seq(Cost), NEW best, NEW i \in 1 .. Len(costs)
  PROVE  /\ IsFiniteSet(Ties(costs, best, i - 1)) /\ i \notin Ties(costs, best, i - 1)
         /\ Ties(costs, best, i - 1) \subseteq 1 .. Len(costs)
         /\ Leq(costs[i], best) => Ties(costs, best, i) = Ties(costs, best, i - 1) \cup {i}
         /\ ~Leq(costs[i], best) => Ties(costs, best, i) = Ties(costs, best, i - 1)
<1>1. Ties(costs, best, i - 1) \in SUBSET (1 .. Len(costs)) /\ IsFiniteSet(1 .. Len(costs))
  BY FS_Interval DEF Ties
<1>2. 1 .. i = (1 .. i - 1) \cup {i} /\ i \notin 1 .. i - 1
  OBVIOUS
<1>3. QED
  BY <1>1, <1>2, FS_Subset DEF Ties

LEMMA OneMoreTies ==
  ASSUME NEW costs \in Seq(Cost), NEW seen, NEW i \in 1 .. Len(costs),
         Seen(costs, seen, i - 1), seen.ties # 0,
         Leq(seen.best, costs[i]), Leq(costs[i], seen.best)
  PROVE  Seen(costs, Tie(seen, i), i)
<1> DEFINE N == Len(costs)
           n == seen.ties + 1
           old == seen.chance
           chance == [j \in 1 .. N |-> IF j = i THEN Fraction(1, n)
                                       ELSE Fraction(old[j].num * (n - 1), old[j].den * n)]
           new == Tie(seen, i)
           B == Ties(costs, seen.best, i - 1)
           D == Ties(costs, seen.best, i)
<1>0. /\ N \in Nat /\ n \in Nat /\ n >= 1 /\ n - 1 = seen.ties /\ i # 0
      /\ seen.best \in Cost /\ old \in [1 .. N -> Cost]
      /\ seen = [best |-> seen.best, ties |-> seen.ties, chance |-> old]
  BY DEF Seen
<1>1. /\ new = [best |-> seen.best, ties |-> n, chance |-> chance]
      /\ new.best = seen.best /\ new.ties = n /\ new.chance = chance
  <2>1. new = [seen EXCEPT !.ties = n,
          !.chance = [j \in DOMAIN old |-> IF j = i THEN Fraction(1, n)
                                           ELSE Fraction(old[j].num * (n - 1), old[j].den * n)]]
    BY DEF Tie
  <2>2. DOMAIN old = 1 .. N
    BY <1>0
  <2>3. new = [seen EXCEPT !.ties = n, !.chance = chance]
    BY <2>1, <2>2
  <2> HIDE DEF new, chance, old, n, N
  <2>4. QED
    BY <1>0, <2>3
<1>2. D = B \cup {i} /\ i \notin B /\ IsFiniteSet(B) /\ B \subseteq 1 .. N
  BY NextTies
<1>3. /\ Cardinality(B) = n - 1
      /\ \A j \in B : old[j].num * (n - 1) = old[j].den
      /\ \A j \in 1 .. N \ B : old[j].num = 0
      /\ \A j \in 1 .. i - 1 : Leq(seen.best, costs[j])
  BY <1>0 DEF Seen
<1>4. /\ chance[i] = Fraction(1, n)
      /\ \A j \in 1 .. N : j # i => chance[j] = Fraction(old[j].num * (n - 1), old[j].den * n)
  OBVIOUS
<1>5. DOMAIN chance = 1 .. N /\ chance = [j \in 1 .. N |-> chance[j]]
  OBVIOUS
<1> HIDE DEF new, chance, n, old, B, D, N
<1>6. Cardinality(D) = n
  <2>1. Cardinality(B \cup {i}) = Cardinality(B) + 1
    BY <1>2, <1>3, FS_AddElement
  <2>2. QED
    BY <1>0, <1>2, <1>3, <2>1
<1>7. ASSUME NEW j \in 1 .. N
      PROVE  /\ chance[j] \in Cost
             /\ j \in D => chance[j].num * n = chance[j].den
             /\ j \notin D => chance[j].num = 0
  <2>1. CASE j = i
    <3>1. chance[j].num = 1 /\ chance[j].den = n /\ chance[j] = [num |-> 1, den |-> n]
      BY <1>4, <2>1 DEF Fraction
    <3>2. n \in Nat \ {0}
      BY <1>0
    <3>3. chance[j] \in Cost
      BY <3>1, <3>2 DEF Cost
    <3>4. j \in D /\ 1 * n = n
      BY <1>2, <2>1, <3>2
    <3>5. QED
      BY <3>1, <3>3, <3>4
  <2>2. CASE j # i
    <3> DEFINE a == old[j].num
               b == old[j].den
    <3>0. old[j] \in Cost
      BY <1>0
    <3>1. a \in Nat /\ b \in Nat \ {0} /\ n - 1 \in Nat
      <4>1. n - 1 \in Nat
        BY <1>0
      <4>2. QED
        BY <3>0, <4>1 DEF Cost
    <3>2. /\ chance[j] = [num |-> a * (n - 1), den |-> b * n]
          /\ chance[j].num = a * (n - 1) /\ chance[j].den = b * n
      BY <1>4, <2>2 DEF Fraction
    <3>3. (j \in B => a * (n - 1) = b) /\ (j \notin B => a = 0) /\ (j \in D <=> j \in B)
      BY <1>2, <1>3, <2>2
    <3> HIDE DEF a, b
    <3>4. a * (n - 1) \in Nat /\ b * n \in Nat \ {0}
      <4>1. n \in Nat /\ n >= 1 /\ b \in Nat /\ b >= 1
        BY <1>0, <3>1
      <4>2. b * n \in Nat /\ b * n >= 1
        BY <4>1, Products
      <4>3. a * (n - 1) \in Nat
        BY <3>1, Products
      <4>4. QED
        BY <4>2, <4>3
    <3>5. 0 * (n - 1) = 0
      BY <3>1
    <3>6. chance[j] \in Cost
      BY <3>2, <3>4 DEF Cost
    <3>7. ASSUME j \in D PROVE chance[j].num * n = chance[j].den
      <4>1. a * (n - 1) = b
        BY <3>3, <3>7
      <4>2. chance[j].num = b
        BY <3>2, <4>1, Zenon
      <4>3. QED
        BY <3>2, <4>2, Zenon
    <3>8. j \notin D => chance[j].num = 0
      BY <3>2, <3>3, <3>5
    <3>9. QED
      BY <3>6, <3>7, <3>8
  <2>3. QED
    BY <2>1, <2>2
<1>8. chance \in [1 .. N -> Cost]
  BY <1>5, <1>7
<1>9. new \in [best : Cost, ties : Nat, chance : [1 .. N -> Cost]]
  BY <1>0, <1>1, <1>8
<1>10. \A j \in 1 .. i : Leq(seen.best, costs[j])
  <2>1. \A j \in 1 .. i : j = i \/ j \in 1 .. i - 1
    OBVIOUS
  <2>2. QED
    BY <1>3, <2>1
<1>11. D \subseteq 1 .. N
  BY <1>2 DEF N
<1>12. n # 0
  BY <1>0
<1>13. QED
  BY <1>0, <1>1, <1>6, <1>7, <1>9, <1>10, <1>11, <1>12 DEF Seen, new, D, N

LEMMA DearerIsSkipped ==
  ASSUME NEW costs \in Seq(Cost), NEW seen, NEW i \in 1 .. Len(costs),
         Seen(costs, seen, i - 1), seen.ties # 0,
         Leq(seen.best, costs[i]), ~Leq(costs[i], seen.best)
  PROVE  Seen(costs, seen, i)
<1>1. Ties(costs, seen.best, i) = Ties(costs, seen.best, i - 1)
  BY NextTies
<1>2. \A j \in 1 .. i : j = i \/ j \in 1 .. i - 1
  OBVIOUS
<1>3. i # 0
  OBVIOUS
<1>4. QED
  BY <1>1, <1>2, <1>3 DEF Seen

LEMMA VisitSees ==
  ASSUME NEW costs \in Seq(Cost), NEW seen, NEW i \in 1 .. Len(costs), Seen(costs, seen, i - 1)
  PROVE  Seen(costs, Visit(seen, costs[i], i), i)
<1>1. CASE seen.ties = 0 \/ ~Leq(seen.best, costs[i])
  BY <1>1, TakesOver DEF Visit
<1>2. CASE ~(seen.ties = 0 \/ ~Leq(seen.best, costs[i])) /\ Leq(costs[i], seen.best)
  BY <1>2, OneMoreTies DEF Visit
<1>3. CASE ~(seen.ties = 0 \/ ~Leq(seen.best, costs[i])) /\ ~Leq(costs[i], seen.best)
  BY <1>3, DearerIsSkipped DEF Visit
<1>4. QED
  BY <1>1, <1>2, <1>3

-----------------------------------------------------------------------------
(* The walk, up to the m-th cost. *)
Walks(costs, g, m) ==
  g = [i \in 0 .. m |-> IF i = 0 THEN Nobody(Len(costs)) ELSE Visit(g[i - 1], costs[i], i)]

LEMMA WalkExists ==
  ASSUME NEW costs
  PROVE  \A m \in Nat : \E g : Walks(costs, g, m)
<1> DEFINE A == {m \in Nat : \E g : Walks(costs, g, m)}
<1>1. 0 \in A
  <2> DEFINE g == [i \in 0 .. 0 |-> Nobody(Len(costs))]
  <2>1. Walks(costs, g, 0)
    BY DEF Walks
  <2>2. QED
    BY <2>1
<1>2. ASSUME NEW m \in Nat, m \in A PROVE m + 1 \in A
  <2>1. PICK g : Walks(costs, g, m)
    BY <1>2
  <2> DEFINE h == [i \in 0 .. m + 1 |-> IF i = m + 1 THEN Visit(g[m], costs[i], i) ELSE g[i]]
  <2>2. ASSUME NEW i \in 0 .. m + 1
        PROVE  h[i] = IF i = 0 THEN Nobody(Len(costs)) ELSE Visit(h[i - 1], costs[i], i)
    <3>1. CASE i = m + 1
      <4>1. h[m] = g[m] /\ i - 1 = m /\ i # 0
        BY <3>1
      <4>2. h[i] = Visit(g[m], costs[i], i)
        BY <3>1
      <4> HIDE DEF h
      <4>3. QED
        BY <4>1, <4>2
    <3>2. CASE i # m + 1
      <4>1. i \in 0 .. m
        BY <3>2
      <4>2. g[i] = IF i = 0 THEN Nobody(Len(costs)) ELSE Visit(g[i - 1], costs[i], i)
        BY <2>1, <4>1 DEF Walks
      <4>3. h[i] = g[i]
        BY <3>2
      <4>4. i # 0 => h[i - 1] = g[i - 1]
        BY <4>1
      <4> HIDE DEF h
      <4>5. QED
        BY <4>2, <4>3, <4>4
    <3>3. QED
      BY <3>1, <3>2
  <2>3. h = [i \in 0 .. m + 1 |-> h[i]]
    OBVIOUS
  <2> HIDE DEF h
  <2>4. Walks(costs, h, m + 1)
    BY <2>2, <2>3 DEF Walks
  <2>5. QED
    BY <2>4
<1> HIDE DEF A
<1>3. \A m \in Nat : m \in A
  BY <1>1, <1>2, Induction
<1>4. QED
  BY <1>3 DEF A

LEMMA WalkSees ==
  ASSUME NEW costs \in Seq(Cost), NEW g, Walks(costs, g, Len(costs))
  PROVE  \A i \in 0 .. Len(costs) : Seen(costs, g[i], i)
<1> DEFINE N == Len(costs)
           A == {i \in Nat : i <= N => Seen(costs, g[i], i)}
<1>0. N \in Nat
  OBVIOUS
<1>1. 0 \in A
  <2>1. g[0] = Nobody(N)
    BY <1>0 DEF Walks
  <2>2. QED
    BY <2>1, NobodySeen
<1>2. ASSUME NEW i \in Nat, i \in A PROVE i + 1 \in A
  <2> SUFFICES ASSUME i + 1 <= N PROVE Seen(costs, g[i + 1], i + 1)
    OBVIOUS
  <2> DEFINE k == i + 1
  <2>1. k \in 1 .. N /\ k - 1 = i /\ i <= N /\ k # 0 /\ k \in 0 .. N
    BY <1>0
  <2> HIDE DEF k
  <2>2. Seen(costs, g[k - 1], k - 1)
    BY <1>2, <2>1
  <2>3. g[k] = Visit(g[k - 1], costs[k], k)
    BY <2>1 DEF Walks
  <2>4. Seen(costs, g[k], k)
    BY <2>1, <2>2, <2>3, VisitSees
  <2>5. QED
    BY <2>4 DEF k
<1> HIDE DEF A
<1>3. \A i \in Nat : i \in A
  BY <1>1, <1>2, Induction
<1>4. QED
  BY <1>0, <1>3 DEF A

(* The chances the walk ends with are those of the costs it has seen. *)
LEMMA ReservoirSees ==
  ASSUME NEW costs \in Seq(Cost)
  PROVE  \E seen : Seen(costs, seen, Len(costs)) /\ Reservoir(costs) = seen.chance
<1> DEFINE N == Len(costs)
           w == CHOOSE g : Walks(costs, g, N)
<1>0. N \in Nat
  OBVIOUS
<1>1. Reservoir(costs) = w[N].chance
  BY DEF Reservoir, Walks
<1>2. Walks(costs, w, N)
  BY <1>0, WalkExists
<1> HIDE DEF w
<1>3. Seen(costs, w[N], N)
  BY <1>0, <1>2, WalkSees
<1>4. QED
  BY <1>1, <1>3

(* What the router computes is a cost. *)
LEMMA ScoreIsACost ==
  ASSUME NEW isl \in Nat, NEW least \in Nat, NEW o \in Nat,
         NEW r \in [active_prefill_tokens : Nat, active_decode_blocks : Nat,
                    active_requests : Nat]
  PROVE  Score(r, isl, o, least) \in Cost
<1> DEFINE t == r.active_prefill_tokens
           F == BlockSize * (r.active_decode_blocks + RequestWeight * r.active_requests)
           L == PrefillLoadScale
<1>1. t \in Nat /\ F \in Nat /\ L \in Nat
  BY WeightsAssumption, Products
<1>2. PICK n, d \in Nat \ {0} : CreditLeft(t, isl, least) = Fraction(n, d)
  <2>1. t <= t
    BY <1>1
  <2> HIDE DEF t
  <2>2. Shrinks(CreditLeft(t, isl, least), CreditLeft(t, isl, least))
    BY <1>1, <2>1, CreditShrinks
  <2>3. QED
    BY <2>2 DEF Shrinks
<1> DEFINE K == OverlapCredit * BlockSize * o * n
           x == IF (t + isl) * d > K THEN (t + isl) * d - K ELSE 0
<1>3. Score(r, isl, o, least) = Fraction(L * x + F * d, d)
  BY <1>2 DEF Score, Fraction
<1>4. x \in Nat
  <2>1. (t + isl) * d \in Nat /\ K \in Nat
    BY <1>1, <1>2, WeightsAssumption, Products
  <2>2. QED
    BY <2>1
<1> HIDE DEF t, F, L, x
<1>5. L * x + F * d \in Nat
  BY <1>1, <1>2, <1>4
<1>6. QED
  BY <1>2, <1>3, <1>5 DEF Cost, Fraction

LEMMA CostsAreCosts ==
  ASSUME Typed
  PROVE  Costs \in Seq(Cost) /\ Len(Costs) = Len(candidates)
<1> DEFINE N == Len(candidates)
<1>1. DOMAIN candidates = 1 .. N /\ N \in Nat
  BY DEF Typed
<1>2. ASSUME NEW i \in 1 .. N PROVE Costs[i] \in Cost
  <2>1. candidates[i] \in Candidate /\ candidates # <<>>
    BY DEF Typed
  <2>2. Least \in Nat /\ PromptLength \in Nat
    BY <2>1, LeastLoad, WeightsAssumption DEF PromptLength
  <2>3. /\ candidates[i].row \in [active_prefill_tokens : Nat, active_decode_blocks : Nat,
                                  active_requests : Nat]
        /\ candidates[i].overlap \in Nat
    BY <2>1 DEF Candidate
  <2>4. QED
    BY <1>1, <2>2, <2>3, ScoreIsACost DEF Costs
<1>3. Costs = [i \in 1 .. N |-> Costs[i]]
  BY <1>1 DEF Costs
<1> HIDE DEF N
<1>4. Costs \in [1 .. N -> Cost]
  BY <1>2, <1>3
<1>5. QED
  BY <1>1, <1>4 DEF N

(* The cheapest are those that tie with the best the walk has seen. *)
LEMMA CheapestTie ==
  ASSUME NEW costs \in Seq(Cost), NEW seen, Seen(costs, seen, Len(costs)), Softmin = FALSE
  PROVE  Pick(costs) = Ties(costs, seen.best, Len(costs))
<1> DEFINE N == Len(costs)
<1>1. DOMAIN costs = 1 .. N /\ N \in Nat /\ \A i \in 1 .. N : costs[i] \in Cost
  OBVIOUS
<1>2. seen.best \in Cost /\ \A j \in 1 .. N : Leq(seen.best, costs[j])
  BY DEF Seen
<1>3. Pick(costs) = {w \in 1 .. N : \A v \in 1 .. N : Leq(costs[w], costs[v])}
  BY <1>1 DEF Pick
<1>4. ASSUME NEW w \in 1 .. N, Leq(costs[w], seen.best), NEW v \in 1 .. N
      PROVE  Leq(costs[w], costs[v])
  BY <1>1, <1>2, <1>4, CostsChain
<1>5. ASSUME NEW w \in 1 .. N, \A v \in 1 .. N : Leq(costs[w], costs[v])
      PROVE  Leq(costs[w], seen.best)
  <2>1. PICK k \in Ties(costs, seen.best, N) : TRUE
    <3>1. N # 0 /\ Cardinality(Ties(costs, seen.best, N)) # 0
      BY <1>1 DEF Seen
    <3>2. QED
      BY <3>1, FS_EmptySet
  <2>2. k \in 1 .. N /\ Leq(costs[k], seen.best)
    BY <2>1 DEF Ties
  <2>3. QED
    BY <1>1, <1>2, <1>5, <2>2, CostsChain
<1>6. QED
  BY <1>3, <1>4, <1>5 DEF Ties

(* At temperature 0 the walk of _pick keeps each of the cheapest workers   *)
(* with the same chance and no other at all, however many candidates there *)
(* are and in whatever order they come.                                    *)
THEOREM TiesAreUnbiased == ASSUME Softmin = FALSE PROVE Spec => []UnbiasedTies
<1>1. Typed => UnbiasedTies
  <2> SUFFICES ASSUME Typed PROVE UnbiasedTies
    OBVIOUS
  <2> DEFINE N == Len(candidates)
             chance == Reservoir(Costs)
  <2>1. Costs \in Seq(Cost) /\ Len(Costs) = N /\ DOMAIN candidates = 1 .. N
    BY CostsAreCosts DEF Typed
  <2>2. PICK seen : Seen(Costs, seen, N) /\ chance = seen.chance
    BY <2>1, ReservoirSees
  <2>3. Pick(Costs) = Ties(Costs, seen.best, N)
    BY <2>1, <2>2, CheapestTie
  <2>4. Cardinality(Pick(Costs)) = seen.ties
    BY <2>2, <2>3 DEF Seen
  <2>5. ASSUME NEW i \in 1 .. N
        PROVE  IF i \in Pick(Costs)
                 THEN chance[i].num * Cardinality(Pick(Costs)) = chance[i].den
                 ELSE chance[i].num = 0
    BY <2>1, <2>2, <2>3, <2>4 DEF Seen
  <2>6. QED
    BY <2>1, <2>5 DEF UnbiasedTies
<1>2. QED
  BY <1>1, InputsTyped, PTL
=============================================================================
