---------------------------- MODULE CodecProofs ----------------------------
(***************************************************************************)
(* Whatever is read from a radio is written back bit for bit, but for the  *)
(* values that LosesValue names: for frames of every length, with every    *)
(* text, integer and nesting in them.                                      *)
(*                                                                         *)
(* From the bits up: integers (BitsComeBack, IntegersWrap); one field      *)
(* after the other (EachRead, EachWritten); the types one by one, which    *)
(* are Exact when they lose nothing and Plain when they may; UTF-8; the    *)
(* layouts of protocol/command, each of Sized fields; the dynamic fields,  *)
(* whose functions see less when they read than when they write; the       *)
(* bodies; the message.                                                    *)
(*                                                                         *)
(* The other way round, from what a frame is made of to what is read from  *)
(* it: refusals and wrapped frames.                                        *)
(*                                                                         *)
(* Reading and writing are recursive over types.  Recursion says that      *)
(* Read, Write and Loses, the constants of Fields, are the steps, as the   *)
(* operators of module Codec are.  It has a solution whatever the types    *)
(* are: a step raises when what it calls raises, so reading and writing    *)
(* have a least one, and LosesStep is monotone.                            *)
(***************************************************************************)
EXTENDS Messages, FiniteSetTheorems, SequenceTheorems, WellFoundedInduction, TLAPS

\* A set of numbers that is not empty has a least one.
LEMMA LeastExists ==
  ASSUME NEW I \in SUBSET Nat, I # {}
  PROVE  \E x \in I : \A y \in I : x <= y
  <1>1. \E x \in I : \A y \in I : <<y, x>> \notin OpToRel(<, Nat)
    BY NatLessThanWellFounded, WFMin, Zenon
  <1>2. PICK x \in I : \A y \in I : ~(y < x)
    BY <1>1, Zenon DEF OpToRel
  <1> QED
    BY <1>2

\* Induction over the naturals, for a set.
LEMMA SetInduction ==
  ASSUME NEW S, 0 \in S, \A n \in Nat : n \in S => n + 1 \in S
  PROVE  \A n \in Nat : n \in S
  <1> SUFFICES ASSUME NEW n \in Nat, n \notin S
               PROVE  FALSE
    OBVIOUS
  <1> DEFINE I == Nat \ S
  <1>1. I \in SUBSET Nat /\ I # {}
    OBVIOUS
  <1>2. PICK x \in I : \A y \in I : x <= y
    <2> HIDE DEF I
    <2> QED
      BY <1>1, LeastExists
  <1>3. x - 1 \in Nat /\ x - 1 < x /\ x = (x - 1) + 1
    BY <1>2
  <1> QED
    BY <1>2, <1>3

-----------------------------------------------------------------------------
\* Powers of two are the numbers of subsets: the only thing the library knows.
LEMMA TwoPowers ==
  ASSUME NEW n \in Nat
  PROVE  2^n \in Nat /\ 2^n > 0 /\ 2^(n + 1) = 2 * 2^n
  <1> DEFINE A == SUBSET (1..n)
             B == {T \cup {n + 1} : T \in A}
             f == [T \in A |-> T \cup {n + 1}]
  <1>1. /\ IsFiniteSet(1..n) /\ Cardinality(1..n) = n
        /\ IsFiniteSet(1..n + 1) /\ Cardinality(1..n + 1) = n + 1
    BY FS_Interval
  <1>2. /\ IsFiniteSet(A) /\ Cardinality(A) = 2^n
        /\ Cardinality(SUBSET (1..n + 1)) = 2^(n + 1)
    BY <1>1, FS_SUBSET
  <1>3. SUBSET (1..n + 1) = A \cup B
    <2>1. 1..n + 1 = (1..n) \cup {n + 1}
      OBVIOUS
    <2>2. ASSUME NEW T \in SUBSET (1..n + 1), n + 1 \in T
          PROVE  T \in B
      <3>1. T \ {n + 1} \in A /\ T = (T \ {n + 1}) \cup {n + 1}
        BY <2>1, <2>2
      <3> QED
        BY <3>1, Zenon
    <2>3. ASSUME NEW T \in SUBSET (1..n + 1), n + 1 \notin T
          PROVE  T \in A
      BY <2>1, <2>3
    <2>4. A \cup B \subseteq SUBSET (1..n + 1)
      BY <2>1
    <2> QED
      BY <2>2, <2>3, <2>4, Zenon
  <1>4. A \cap B = {}
    <2>1. n + 1 \notin 1..n
      OBVIOUS
    <2> QED
      BY <2>1
  <1>5. f \in Bijection(A, B)
    <2>1. \A S, T \in A : f[S] = f[T] => S = T
      <3> SUFFICES ASSUME NEW S \in A, NEW T \in A, S \cup {n + 1} = T \cup {n + 1}
                   PROVE  S = T
        OBVIOUS
      <3>1. n + 1 \notin S /\ n + 1 \notin T
        OBVIOUS
      <3> QED
        BY <3>1
    <2>2. f \in [A -> B] /\ \A t \in B : \E s \in A : f[s] = t
      OBVIOUS
    <2> QED
      BY <2>1, <2>2 DEF Bijection, Injection, Surjection, IsInjective
  <1>6. IsFiniteSet(B) /\ Cardinality(B) = Cardinality(A)
    <2>1. ExistsBijection(A, B)
      BY <1>5, Zenon DEF ExistsBijection
    <2> HIDE DEF A, B
    <2> QED
      BY <1>2, <2>1, FS_Bijection
  <1>7. Cardinality(A \cup B) = Cardinality(A) + Cardinality(B) - Cardinality(A \cap B)
    <2> HIDE DEF A, B
    <2> QED
      BY <1>2, <1>6, FS_Union
  <1>8. Cardinality(A) \in Nat /\ Cardinality(A) # 0
    <2>1. {} \in A
      OBVIOUS
    <2> HIDE DEF A
    <2> QED
      BY <1>2, <2>1, FS_CardinalityType, FS_EmptySet
  <1>9. 2^(n + 1) = 2^n + 2^n
    <2> HIDE DEF A, B
    <2>1. Cardinality(A \cap B) = 0
      BY <1>4, FS_EmptySet, Zenon
    <2>2. 2^(n + 1) = Cardinality(A) + Cardinality(A) - 0
      BY <1>2, <1>3, <1>6, <1>7, <2>1, Zenon
    <2> QED
      BY <1>2, <1>8, <2>2
  <1> HIDE DEF A
  <1> QED
    BY <1>2, <1>8, <1>9

-----------------------------------------------------------------------------
\* f starts with a and goes on from one number to the next as step says.
Steps(N, V) == [1..N -> [V -> V]]
Follows(f, N, V, a, step) == /\ f \in [0..N -> V]
                             /\ f[0] = a
                             /\ \A n \in 1..N : f[n] = step[n][f[n - 1]]

\* A recursion over 0..N within a set of values has a solution.
LEMMA RecursionExists ==
  ASSUME NEW N \in Nat, NEW V, NEW a \in V, NEW G \in Steps(N, V)
  PROVE  \E f : Follows(f, N, V, a, G)
  <1> USE DEF Steps, Follows
  <1> DEFINE Solved(m) == \E f \in [0..m -> V] : f[0] = a /\ \A n \in 1..m : f[n] = G[n][f[n - 1]]
             S == {m \in Nat : m <= N => Solved(m)}
  <1>1. 0 \in S
    <2> DEFINE g == [n \in 0..0 |-> a]
    <2>1. g \in [0..0 -> V] /\ g[0] = a /\ \A n \in 1..0 : FALSE
      OBVIOUS
    <2>2. Solved(0)
      <3> HIDE DEF g
      <3> QED
        BY <2>1
    <2> QED
      BY <2>2, Zenon
  <1>2. ASSUME NEW m \in Nat, m \in S
        PROVE  m + 1 \in S
    <2> SUFFICES ASSUME m + 1 <= N PROVE Solved(m + 1)
      OBVIOUS
    <2>1. PICK f \in [0..m -> V] : f[0] = a /\ \A n \in 1..m : f[n] = G[n][f[n - 1]]
      BY <1>2
    <2> DEFINE g == [n \in 0..m + 1 |-> IF n = m + 1 THEN G[m + 1][f[m]] ELSE f[n]]
    <2>2. G[m + 1][f[m]] \in V
      BY <2>1
    <2>3. g \in [0..m + 1 -> V]
      BY <2>1, <2>2
    <2>4. g[0] = a
      BY <2>1
    <2>5. ASSUME NEW n \in 1..m + 1
          PROVE  g[n] = G[n][g[n - 1]]
      <3>1. CASE n = m + 1
        BY <3>1
      <3>2. CASE n # m + 1
        BY <2>1, <3>2
      <3> QED
        BY <3>1, <3>2
    <2> QED
      BY <2>3, <2>4, <2>5
  <1>3. N \in S
    <2> HIDE DEF S
    <2> QED
      BY <1>1, <1>2, SetInduction
  <1> QED
    BY <1>3

Bit == {0, 1}

\* ToInt takes one bit after the other.
LEMMA ToIntSteps ==
  ASSUME NEW bits \in Seq(Bit)
  PROVE  \E f \in [0..Len(bits) -> Nat] :
           /\ f[0] = 0
           /\ \A n \in 1..Len(bits) : f[n] = 2 * f[n - 1] + bits[n]
           /\ ToInt(bits) = f[Len(bits)]
  <1> DEFINE N == Len(bits)
             G == [n \in 1..N |-> [x \in Nat |-> 2 * x + bits[n]]]
             Solves(f) == f = [n \in 0..Len(bits) |-> IF n = 0 THEN 0 ELSE 2 * f[n - 1] + bits[n]]
             first == CHOOSE f : Solves(f)
  <1>1. N \in Nat /\ \A n \in 1..N : bits[n] \in Bit
    OBVIOUS
  <1>2. G \in Steps(N, Nat)
    <2> HIDE DEF N
    <2> QED
      BY <1>1 DEF Bit, Steps
  <1>3. PICK f \in [0..N -> Nat] : f[0] = 0 /\ \A n \in 1..N : f[n] = G[n][f[n - 1]]
    <2>1. 0 \in Nat /\ N \in Nat
      OBVIOUS
    <2>2. \E f : Follows(f, N, Nat, 0, G)
      <3> HIDE DEF N, G
      <3> QED
        BY <1>2, <2>1, RecursionExists, Zenon
    <2> HIDE DEF N, G
    <2> QED
      BY <2>2, Zenon DEF Follows
  <1>4. Solves(f)
    <2>1. ASSUME NEW n \in 1..N
          PROVE  f[n] = 2 * f[n - 1] + bits[n]
      <3>1. n - 1 \in 0..N
        BY <1>1
      <3>2. f[n - 1] \in Nat
        <4> HIDE DEF N
        <4> QED
          BY <1>3, <3>1
      <3>3. G[n][f[n - 1]] = 2 * f[n - 1] + bits[n]
        <4> HIDE DEF N
        <4> QED
          BY <3>2
      <3> HIDE DEF N, G
      <3> QED
        BY <1>3, <3>3, Zenon
    <2>2. \A n \in 0..N : f[n] = IF n = 0 THEN 0 ELSE 2 * f[n - 1] + bits[n]
      <3> HIDE DEF N, G
      <3> QED
        BY <1>1, <1>3, <2>1
    <2>3. f = [n \in 0..N |-> IF n = 0 THEN 0 ELSE 2 * f[n - 1] + bits[n]]
      <3> HIDE DEF N, G
      <3> QED
        BY <1>3, <2>2
    <2> QED
      BY <2>3, Zenon
  <1>5. Solves(first)
    <2> HIDE DEF Solves
    <2> QED
      BY <1>4, Zenon
  <1>6. ToInt(bits) = first[N]
    BY Zenon DEF ToInt
  <1>7. \A n \in 0..N : first[n] = IF n = 0 THEN 0 ELSE 2 * first[n - 1] + bits[n]
    <2> HIDE DEF first
    <2> QED
      BY <1>5
  <1>8. first = [n \in 0..N |-> first[n]]
    <2> HIDE DEF first
    <2> QED
      BY <1>5
  <1>9. \A n \in Nat : n <= N => first[n] \in Nat
    <2> DEFINE S == {m \in Nat : m <= N => first[m] \in Nat}
    <2> HIDE DEF first, N
    <2>1. 0 \in S
      BY <1>1, <1>7
    <2>2. ASSUME NEW m \in Nat, m \in S
          PROVE  m + 1 \in S
      <3> SUFFICES ASSUME m + 1 <= N PROVE first[m + 1] \in Nat
        OBVIOUS
      <3>1. m + 1 \in 0..N /\ m + 1 # 0 /\ (m + 1) - 1 = m /\ m + 1 \in 1..N /\ m <= N
        BY <1>1
      <3>2. first[m + 1] = 2 * first[m] + bits[m + 1]
        BY <1>7, <3>1
      <3>3. first[m] \in Nat /\ bits[m + 1] \in Bit
        BY <1>1, <2>2, <3>1
      <3> QED
        BY <3>2, <3>3 DEF Bit
    <2> HIDE DEF S
    <2>3. \A n \in Nat : n \in S
      BY <2>1, <2>2, SetInduction
    <2> QED
      BY <2>3 DEF S
  <1> HIDE DEF first
  <1>10. first \in [0..N -> Nat]
    <2> HIDE DEF N
    <2> QED
      BY <1>1, <1>8, <1>9
  <1>11. /\ first[0] = 0
         /\ \A n \in 1..N : first[n] = 2 * first[n - 1] + bits[n]
    <2> HIDE DEF N
    <2> QED
      BY <1>1, <1>7
  <1> QED
    BY <1>6, <1>10, <1>11, Zenon

-----------------------------------------------------------------------------
\* Division by a power of two, one bit more.
LEMMA QuotientIsUnique ==
  ASSUME NEW x \in Int, NEW d \in Nat, d > 0, NEW q \in Int, NEW r \in Int,
         0 <= r, r < d, x = d * q + r
  PROVE  x \div d = q /\ x % d = r
  <1>1. /\ x \div d \in Int /\ x % d \in Int
        /\ x = d * (x \div d) + (x % d) /\ 0 <= x % d /\ x % d < d
    OBVIOUS
  <1> DEFINE p == x \div d
             s == x % d
             e == p - q
  <1>2. p \in Int /\ s \in Int /\ 0 <= s /\ s < d /\ d * p + s = d * q + r
    BY <1>1
  <1> HIDE DEF p, s
  <1>3. d * e = r - s
    BY <1>2
  <1>4. e \in Int
    BY <1>2
  <1> HIDE DEF e
  <1>5. CASE e >= 1
    <2>1. d * e >= d
      BY <1>4, <1>5
    <2> QED
      BY <1>2, <1>3, <2>1
  <1>6. CASE e <= -1
    <2>1. d * e <= -d
      BY <1>4, <1>6
    <2> QED
      BY <1>2, <1>3, <2>1
  <1>7. CASE e = 0
    <2>1. p = q
      BY <1>2, <1>7 DEF e
    <2>2. s = r
      BY <1>2, <1>3, <1>7
    <2> QED
      BY <2>1, <2>2 DEF p, s
  <1> QED
    BY <1>4, <1>5, <1>6, <1>7

\* Twice a number plus a bit, divided by an even number: the bit does not matter.
LEMMA BitTakenOff ==
  ASSUME NEW x \in Int, NEW b \in Bit, NEW p \in Nat, p > 0
  PROVE  (2 * x + b) \div (2 * p) = x \div p
  <1> DEFINE q == x \div p
             r == x % p
  <1>1. q \in Int /\ r \in Int /\ x = p * q + r /\ 0 <= r /\ r < p
    OBVIOUS
  <1> HIDE DEF q, r
  <1>2. 2 * x + b = (2 * p) * q + (2 * r + b) /\ 0 <= 2 * r + b /\ 2 * r + b < 2 * p
    BY <1>1 DEF Bit
  <1>3. 2 * x + b \in Int /\ 2 * p \in Nat /\ 2 * p > 0 /\ 2 * r + b \in Int
    BY <1>1 DEF Bit
  <1>4. (2 * x + b) \div (2 * p) = q
    BY <1>1, <1>2, <1>3, QuotientIsUnique
  <1> QED
    BY <1>4 DEF q

\* The remainder by twice a number, from the remainder of the half.
LEMMA RemainderDoubled ==
  ASSUME NEW w \in Int, NEW p \in Nat, p > 0
  PROVE  w % (2 * p) = 2 * ((w \div 2) % p) + (w % 2)
  <1> DEFINE h == w \div 2
             b == w % 2
             q == h \div p
             r == h % p
  <1>1. h \in Int /\ b \in Bit /\ w = 2 * h + b
    BY DEF Bit
  <1> HIDE DEF h, b
  <1>2. q \in Int /\ r \in Int /\ h = p * q + r /\ 0 <= r /\ r < p
    BY <1>1
  <1> HIDE DEF q, r
  <1>3. w = (2 * p) * q + (2 * r + b) /\ 0 <= 2 * r + b /\ 2 * r + b < 2 * p
    BY <1>1, <1>2 DEF Bit
  <1>4. 2 * p \in Nat /\ 2 * p > 0 /\ 2 * r + b \in Int
    BY <1>1, <1>2 DEF Bit
  <1>5. w \div (2 * p) = q /\ w % (2 * p) = 2 * r + b
    BY <1>2, <1>3, <1>4, QuotientIsUnique
  <1> QED
    BY <1>5 DEF h, b, q, r

\* Dividing by d and then by 2 is dividing by 2 and then by d.
LEMMA DivisionsCommute ==
  ASSUME NEW w \in Int, NEW p \in Nat, p > 0
  PROVE  w \div (2 * p) = (w \div p) \div 2
  <1> DEFINE q == w \div p
             r == w % p
             h == q \div 2
             b == q % 2
  <1>1. q \in Int /\ r \in Int /\ w = p * q + r /\ 0 <= r /\ r < p
    OBVIOUS
  <1> HIDE DEF q, r
  <1>2. h \in Int /\ b \in Bit /\ q = 2 * h + b
    BY <1>1 DEF Bit
  <1> HIDE DEF h, b
  <1>3. CASE b = 0
    <2>1. w = (2 * p) * h + r /\ 0 <= r /\ r < 2 * p
      BY <1>1, <1>2, <1>3
    <2> QED
      BY <1>1, <1>2, <2>1, QuotientIsUnique DEF h, q
  <1>4. CASE b = 1
    <2>1. w = (2 * p) * h + (p + r) /\ 0 <= p + r /\ p + r < 2 * p /\ p + r \in Int
      BY <1>1, <1>2, <1>4
    <2> QED
      BY <1>1, <1>2, <2>1, QuotientIsUnique DEF h, q
  <1> QED
    BY <1>2, <1>3, <1>4 DEF Bit

-----------------------------------------------------------------------------
\* n bits are a number below 2^n.
LEMMA ToIntIsBounded ==
  ASSUME NEW bits \in Seq(Bit)
  PROVE  ToInt(bits) \in Nat /\ ToInt(bits) < 2^Len(bits)
  <1> DEFINE N == Len(bits)
  <1>1. PICK f \in [0..N -> Nat] : /\ f[0] = 0
                                   /\ \A n \in 1..N : f[n] = 2 * f[n - 1] + bits[n]
                                   /\ ToInt(bits) = f[N]
    BY ToIntSteps, Zenon
  <1>2. N \in Nat /\ \A n \in 1..N : bits[n] \in Bit
    OBVIOUS
  <1> DEFINE S == {n \in Nat : n <= N => f[n] < 2^n}
  <1> HIDE DEF N
  <1>3. 0 \in S
    BY <1>1
  <1>4. ASSUME NEW n \in Nat, n \in S
        PROVE  n + 1 \in S
    <2> SUFFICES ASSUME n + 1 <= N PROVE f[n + 1] < 2^(n + 1)
      OBVIOUS
    <2>1. n + 1 \in 1..N /\ (n + 1) - 1 = n /\ n \in 0..N /\ n <= N
      BY <1>2
    <2>2. f[n + 1] = 2 * f[n] + bits[n + 1] /\ bits[n + 1] \in Bit
      BY <1>1, <1>2, <2>1
    <2>3. f[n] \in Nat /\ f[n] < 2^n
      BY <1>1, <1>4, <2>1
    <2>4. 2^n \in Nat /\ 2^(n + 1) = 2 * 2^n
      BY TwoPowers
    <2> QED
      BY <2>2, <2>3, <2>4 DEF Bit
  <1> HIDE DEF S
  <1>5. N \in S
    BY <1>2, <1>3, <1>4, SetInduction
  <1>6. f[N] \in Nat
    BY <1>1, <1>2
  <1> QED
    BY <1>1, <1>5, <1>6 DEF S, N

\* Bits read as a number and written as one are the same bits: BFMap with the
\* mapper of bf_int, of every positive width.
THEOREM BitsComeBack ==
  ASSUME NEW bits \in Seq(Bit), Len(bits) # 0
  PROVE  FromInt(ToInt(bits), Len(bits)) = <<bits>>
  <1> DEFINE N == Len(bits)
  <1>1. PICK f \in [0..N -> Nat] : /\ f[0] = 0
                                   /\ \A n \in 1..N : f[n] = 2 * f[n - 1] + bits[n]
                                   /\ ToInt(bits) = f[N]
    BY ToIntSteps, Zenon
  <1>2. N \in Nat /\ \A n \in 1..N : bits[n] \in Bit
    OBVIOUS
  <1>3. bits = [i \in 1..N |-> bits[i]]
    OBVIOUS
  <1>4. f[N] \in Nat /\ f[N] < 2^N
    BY <1>1, ToIntIsBounded, Zenon
  <1> HIDE DEF N
  <1>5. ASSUME NEW i \in 1..N
        PROVE  (f[N] \div 2^(N - i)) % 2 = bits[i]
    <2> DEFINE S == {k \in Nat : i + k <= N => f[i + k] \div 2^k = f[i]}
    <2>1. 0 \in S
      <3>1. f[i] \in Nat /\ i + 0 = i /\ 2^0 = 1
        BY <1>1, <1>2
      <3>2. f[i] \div 1 = f[i]
        BY <3>1
      <3> QED
        BY <3>1, <3>2
    <2>2. ASSUME NEW k \in Nat, k \in S
          PROVE  k + 1 \in S
      <3> SUFFICES ASSUME i + (k + 1) <= N
                   PROVE  f[i + (k + 1)] \div 2^(k + 1) = f[i]
        OBVIOUS
      <3>1. /\ i + (k + 1) \in 1..N /\ (i + (k + 1)) - 1 = i + k
            /\ i + k \in 0..N /\ i + k <= N
        BY <1>2
      <3>2. /\ f[i + (k + 1)] = 2 * f[i + k] + bits[i + (k + 1)]
            /\ bits[i + (k + 1)] \in Bit /\ f[i + k] \in Int
        BY <1>1, <1>2, <3>1
      <3>3. 2^k \in Nat /\ 2^k > 0 /\ 2^(k + 1) = 2 * 2^k
        BY TwoPowers
      <3>4. (2 * f[i + k] + bits[i + (k + 1)]) \div (2 * 2^k) = f[i + k] \div 2^k
        BY <3>2, <3>3, BitTakenOff
      <3> QED
        BY <2>2, <3>1, <3>2, <3>3, <3>4
    <2> HIDE DEF S
    <2>3. N - i \in S
      <3>1. N - i \in Nat
        BY <1>2
      <3> QED
        BY <2>1, <2>2, <3>1, SetInduction
    <2>4. f[N] \div 2^(N - i) = f[i]
      <3>1. i + (N - i) = N
        BY <1>2
      <3> QED
        BY <1>2, <2>3, <3>1 DEF S
    <2>5. f[i] = 2 * f[i - 1] + bits[i] /\ f[i - 1] \in Nat
      BY <1>1, <1>2
    <2>6. (2 * f[i - 1] + bits[i]) % 2 = bits[i]
      <3> DEFINE p == f[i - 1]
                 q == bits[i]
      <3>1. p \in Nat /\ (q = 0 \/ q = 1)
        BY <1>2, <2>5 DEF Bit
      <3> HIDE DEF p, q
      <3>2. (2 * p + q) % 2 = q
        BY <3>1
      <3> QED
        BY <3>2 DEF p, q
    <2> QED
      BY <2>4, <2>5, <2>6
  <1>6. [i \in 1..N |-> (f[N] \div 2^(N - i)) % 2] = bits
    BY <1>3, <1>5
  <1>7. ~(f[N] >= 2^N)
    <2>1. 2^N \in Nat
      BY <1>2, TwoPowers
    <2> QED
      BY <1>4, <2>1
  <1>8. ~(N <= 0)
    BY <1>2 DEF N
  <1> QED
    BY <1>1, <1>6, <1>7, <1>8 DEF FromInt, N

\* What is read of a number written into n bits: the number itself when it fits,
\* an exception when it is too large, but a negative one is let through and wraps.
THEOREM IntegersWrap ==
  ASSUME NEW n \in Nat \ {0}, NEW value \in Int, value < 2^n
  PROVE  /\ FromInt(value, n)[1] \in Seq(Bit)
         /\ Len(FromInt(value, n)[1]) = n
         /\ ToInt(FromInt(value, n)[1]) = value % 2^n
  <1> DEFINE bits == [i \in 1..n |-> (value \div 2^(n - i)) % 2]
  <1>1. FromInt(value, n) = <<bits>>
    <2>1. ~(value >= 2^n)
      <3>1. 2^n \in Nat
        BY TwoPowers
      <3> QED
        BY <3>1
    <2> QED
      BY <2>1 DEF FromInt
  <1>2. \A i \in 1..n : bits[i] \in Bit
    <2> SUFFICES ASSUME NEW i \in 1..n PROVE (value \div 2^(n - i)) % 2 \in Bit
      OBVIOUS
    <2>1. n - i \in Nat
      OBVIOUS
    <2>2. 2^(n - i) \in Nat /\ 2^(n - i) > 0
      BY <2>1, TwoPowers
    <2>3. value \div 2^(n - i) \in Int
      BY <2>2
    <2> QED
      BY <2>3 DEF Bit
  <1>3. bits \in Seq(Bit) /\ Len(bits) = n
    BY <1>2
  <1>4. PICK f \in [0..n -> Nat] : /\ f[0] = 0
                                   /\ \A j \in 1..n : f[j] = 2 * f[j - 1] + bits[j]
                                   /\ ToInt(bits) = f[n]
    <2> HIDE DEF bits
    <2> QED
      BY <1>3, ToIntSteps, Zenon
  <1> DEFINE S == {j \in Nat : j <= n => f[j] = (value \div 2^(n - j)) % 2^j}
  <1>5. 0 \in S
    <2>1. 2^n \in Nat /\ 2^n > 0
      BY TwoPowers
    <2>2. value \div 2^n \in Int
      BY <2>1
    <2>3. (value \div 2^n) % 2^0 = 0 /\ n - 0 = n
      BY <2>2
    <2> QED
      BY <1>4, <2>3
  <1>6. ASSUME NEW j \in Nat, j \in S
        PROVE  j + 1 \in S
    <2> SUFFICES ASSUME j + 1 <= n
                 PROVE  f[j + 1] = (value \div 2^(n - (j + 1))) % 2^(j + 1)
      OBVIOUS
    <2> DEFINE w == value \div 2^(n - (j + 1))
    <2>1. /\ n - (j + 1) \in Nat /\ (n - (j + 1)) + 1 = n - j /\ j + 1 \in 1..n /\ (j + 1) - 1 = j
          /\ j <= n
      OBVIOUS
    <2>2. /\ 2^(n - (j + 1)) \in Nat /\ 2^(n - (j + 1)) > 0
          /\ 2^(n - j) = 2 * 2^(n - (j + 1))
          /\ 2^j \in Nat /\ 2^j > 0 /\ 2^(j + 1) = 2 * 2^j
      BY <2>1, TwoPowers
    <2>3. value \div 2^(n - j) = w \div 2
      <3>1. value \div (2 * 2^(n - (j + 1))) = (value \div 2^(n - (j + 1))) \div 2
        BY <2>2, DivisionsCommute
      <3> QED
        BY <2>2, <3>1
    <2>4. w \in Int
      BY <2>2
    <2>5. f[j + 1] = 2 * f[j] + bits[j + 1]
      BY <1>4, <2>1
    <2>6. bits[j + 1] = w % 2
      BY <2>1
    <2>7. f[j] = (w \div 2) % 2^j
      BY <1>6, <2>1, <2>3
    <2> HIDE DEF w, bits
    <2>8. w % (2 * 2^j) = 2 * ((w \div 2) % 2^j) + (w % 2)
      BY <2>2, <2>4, RemainderDoubled
    <2> QED
      BY <2>2, <2>5, <2>6, <2>7, <2>8 DEF w
  <1> HIDE DEF S, bits
  <1>7. n \in S
    BY <1>5, <1>6, SetInduction
  <1>8. value \div 2^(n - n) = value
    <2>1. 2^(n - n) = 1
      OBVIOUS
    <2>2. value \div 1 = value
      OBVIOUS
    <2> QED
      BY <2>1, <2>2
  <1>9. ToInt(bits) = value % 2^n
    BY <1>4, <1>7, <1>8 DEF S
  <1> QED
    BY <1>1, <1>3, <1>9

-----------------------------------------------------------------------------
\* Read, Write and Loses are the steps themselves, as module Codec has it.
Recursion ==
  /\ \A type, stream, self : Read(type, stream, self) = ReadStep(type, stream, self)
  /\ \A type, value, self : Write(type, value, self) = WriteStep(type, value, self)
  /\ \A type, value, self : Loses(type, value, self) <=> LosesStep(type, value, self)

\* What the step does for every kind of type.
LEMMA BitsKind ==
  ASSUME Recursion, NEW type, type.k = "bits", NEW stream, NEW self, NEW value
  PROVE  /\ Read(type, stream, self) = Take(stream, type.n)
         /\ Write(type, value, self) = IF Len(value) # type.n THEN Raises ELSE <<value>>
         /\ ~Loses(type, value, self)
  <1>1. Read(type, stream, self) = Take(stream, type.n)
    BY Zenon DEF Recursion, ReadStep
  <1>2. Write(type, value, self) = IF Len(value) # type.n THEN Raises ELSE <<value>>
    BY Zenon DEF Recursion, WriteStep
  <1>3. ~Loses(type, value, self)
    BY DEF Recursion, LosesStep
  <1> QED
    BY <1>1, <1>2, <1>3, Zenon

\* bf_list(): range(n) and the items one after the other.
LEMMA ListKind ==
  ASSUME Recursion, NEW type, type.k = "list", NEW stream, NEW self, NEW value
  PROVE  /\ Read(type, stream, self) = ReadEach(Items(type), stream, self, FALSE)
         /\ Write(type, value, self) = IF Len(value) # type.n THEN Raises
                                       ELSE WriteEach(Items(type), value, self)
         /\ Loses(type, value, self) <=> \E i \in DOMAIN value : Loses(type.inner, value[i], self)
  <1>1. Read(type, stream, self) = ReadEach(Items(type), stream, self, FALSE)
    BY Zenon DEF Recursion, ReadStep
  <1>2. Write(type, value, self) = IF Len(value) # type.n THEN Raises
                                   ELSE WriteEach(Items(type), value, self)
    BY Zenon DEF Recursion, WriteStep
  <1>3. Loses(type, value, self) <=> \E i \in DOMAIN value : Loses(type.inner, value[i], self)
    BY DEF Recursion, LosesStep
  <1> QED
    BY <1>1, <1>2, <1>3, Zenon

\* bf_map(): the inner type, then the mapper.
LEMMA MapKind ==
  ASSUME Recursion, NEW type, type.k = "map", NEW stream, NEW self, NEW value
  PROVE  /\ Read(type, stream, self) =
              LET r == Read(type.inner, stream, self)
                  v == IF r = Raises THEN Raises ELSE Forward(type.vm, r[1])
              IN IF v = Raises THEN Raises ELSE <<v[1], r[2]>>
         /\ Write(type, value, self) =
              LET y == Back(type.vm, value)
              IN IF y = Raises THEN Raises ELSE Write(type.inner, y[1], self)
         /\ Loses(type, value, self) <=> LosesValue(type.vm, value)
  <1>1. Read(type, stream, self) =
          LET r == Read(type.inner, stream, self)
              v == IF r = Raises THEN Raises ELSE Forward(type.vm, r[1])
          IN IF v = Raises THEN Raises ELSE <<v[1], r[2]>>
    BY Zenon DEF Recursion, ReadStep
  <1>2. Write(type, value, self) =
          LET y == Back(type.vm, value)
          IN IF y = Raises THEN Raises ELSE Write(type.inner, y[1], self)
    BY Zenon DEF Recursion, WriteStep
  <1>3. Loses(type, value, self) <=> LosesValue(type.vm, value)
    BY DEF Recursion, LosesStep
  <1> QED
    BY <1>1, <1>2, <1>3, Zenon

\* bf_lit(): the inner type and a comparison.
LEMMA LitKind ==
  ASSUME Recursion, NEW type, type.k = "lit", NEW stream, NEW self, NEW value
  PROVE  /\ Read(type, stream, self) =
              LET r == Read(type.inner, stream, self)
              IN IF r = Raises THEN Raises ELSE IF r[1] # type.value THEN Raises ELSE r
         /\ Write(type, value, self) =
              IF value # type.value THEN Raises ELSE Write(type.inner, value, self)
         /\ ~Loses(type, value, self)
  <1>1. Read(type, stream, self) =
          LET r == Read(type.inner, stream, self)
          IN IF r = Raises THEN Raises ELSE IF r[1] # type.value THEN Raises ELSE r
    BY Zenon DEF Recursion, ReadStep
  <1>2. Write(type, value, self) =
          IF value # type.value THEN Raises ELSE Write(type.inner, value, self)
    BY Zenon DEF Recursion, WriteStep
  <1>3. ~Loses(type, value, self)
    BY DEF Recursion, LosesStep
  <1> QED
    BY <1>1, <1>2, <1>3, Zenon

\* An optional field that is not there.
LEMMA NoneKind ==
  ASSUME Recursion, NEW type, type.k = "none", NEW stream, NEW self, NEW value
  PROVE  /\ Read(type, stream, self) = <<None, stream>>
         /\ Write(type, value, self) = IF value # None THEN Raises ELSE << <<>> >>
         /\ ~Loses(type, value, self)
  <1>1. Read(type, stream, self) = <<None, stream>>
    BY Zenon DEF Recursion, ReadStep
  <1>2. Write(type, value, self) = IF value # None THEN Raises ELSE << <<>> >>
    <2>1. Write(type, value, self) = WriteStep(type, value, self)
      BY Zenon DEF Recursion
    <2>2. value # None => WriteStep(type, value, self) = Raises
      BY Zenon DEF WriteStep
    <2>3. value = None => WriteStep(type, value, self) = << <<>> >>
      BY Zenon DEF WriteStep
    <2> QED
      BY <2>1, <2>2, <2>3, Zenon
  <1>3. ~Loses(type, value, self)
    BY DEF Recursion, LosesStep
  <1> QED
    BY <1>1, <1>2, <1>3, Zenon

\* A nested Bitfield: its bits are taken, then parsed as a message of their own.
LEMMA BitfieldKind ==
  ASSUME Recursion, NEW type, type.k = "bitfield", NEW stream, NEW self, NEW value
  PROVE  /\ Read(type, stream, self) =
              LET r == Take(stream, type.n)
                  o == IF r = Raises THEN Raises ELSE FromBits(type.fields, r[1])
              IN IF o = Raises THEN Raises ELSE <<o[1], r[2]>>
         /\ Write(type, value, self) =
              LET bits == ToBits(value)
              IN IF bits = Raises THEN Raises ELSE IF Len(bits[1]) # type.n THEN Raises ELSE bits
         /\ Loses(type, value, self) <=> ObjectLoses(value)
  <1>1. Read(type, stream, self) =
          LET r == Take(stream, type.n)
              o == IF r = Raises THEN Raises ELSE FromBits(type.fields, r[1])
          IN IF o = Raises THEN Raises ELSE <<o[1], r[2]>>
    BY Zenon DEF Recursion, ReadStep
  <1>2. Write(type, value, self) =
          LET bits == ToBits(value)
          IN IF bits = Raises THEN Raises ELSE IF Len(bits[1]) # type.n THEN Raises ELSE bits
    BY Zenon DEF Recursion, WriteStep
  <1>3. Loses(type, value, self) <=> ObjectLoses(value)
    BY DEF Recursion, LosesStep
  <1> QED
    BY <1>1, <1>2, <1>3, Zenon

\* bf_dyn() with a function of the fields only.
LEMMA DynKind ==
  ASSUME Recursion, NEW type, type.k = "dyn", NEW stream, NEW self, NEW value
  PROVE  /\ Read(type, stream, self) =
              LET chosen == Discriminate(type.fn, self, Remaining(stream))
              IN IF chosen = Raises THEN Raises ELSE Read(chosen[1], stream, self)
         /\ Write(type, value, self) =
              LET chosen == Discriminate(type.fn, self, 0)
              IN IF chosen = Raises THEN Raises ELSE Write(chosen[1], value, self)
         /\ Loses(type, value, self) <=> Loses(Discriminate(type.fn, self, 0)[1], value, self)
  <1>1. Read(type, stream, self) =
          LET chosen == Discriminate(type.fn, self, Remaining(stream))
          IN IF chosen = Raises THEN Raises ELSE Read(chosen[1], stream, self)
    BY Zenon DEF Recursion, ReadStep
  <1>2. Write(type, value, self) =
          LET chosen == Discriminate(type.fn, self, 0)
          IN IF chosen = Raises THEN Raises ELSE Write(chosen[1], value, self)
    BY Zenon DEF Recursion, WriteStep
  <1>3. Loses(type, value, self) <=> Loses(Discriminate(type.fn, self, 0)[1], value, self)
    BY DEF Recursion, LosesStep
  <1> QED
    BY <1>1, <1>2, <1>3, Zenon

\* bf_dyn() with a function of the fields and of what is left.
LEMMA DynNKind ==
  ASSUME Recursion, NEW type, type.k = "dynN", NEW stream, NEW self, NEW value
  PROVE  /\ Read(type, stream, self) =
              LET chosen == Discriminate(type.fn, self, Remaining(stream))
              IN IF chosen = Raises THEN Raises ELSE Read(chosen[1], stream, self)
         /\ value.k = "bitfield" => Write(type, value, self) = ToBits(value)
         /\ value.k = "bytes" => Write(type, value, self) = Write(BfBytes(Len(value.v)), value, self)
         /\ value.k = "none" => Write(type, value, self) = << <<>> >>
         /\ Loses(type, value, self) <=> value.k = "bitfield" /\ ObjectLoses(value)
  <1>1. Read(type, stream, self) =
          LET chosen == Discriminate(type.fn, self, Remaining(stream))
          IN IF chosen = Raises THEN Raises ELSE Read(chosen[1], stream, self)
    BY Zenon DEF Recursion, ReadStep
  <1>2. /\ value.k = "bitfield" => Write(type, value, self) = ToBits(value)
        /\ value.k = "bytes" => Write(type, value, self) = Write(BfBytes(Len(value.v)), value, self)
        /\ value.k = "none" => Write(type, value, self) = << <<>> >>
    BY Zenon DEF Recursion, WriteStep
  <1>3. Loses(type, value, self) <=> value.k = "bitfield" /\ ObjectLoses(value)
    BY DEF Recursion, LosesStep
  <1> QED
    BY <1>1, <1>2, <1>3, Zenon

-----------------------------------------------------------------------------
\* What one field or item sees of the values read so far.
Seen(v, i, self, inObject) == IF inObject THEN [j \in 1..i - 1 |-> v[j]] ELSE self

\* v are the values read one after the other, t[i] the stream after the i-th.
ReadInTurn(types, v, t, self, inObject) ==
  /\ v = [i \in 1..Len(types) |-> v[i]]
  /\ \A i \in 1..Len(types) :
       /\ Read(types[i], t[i - 1], Seen(v, i, self, inObject)) # Raises
       /\ Read(types[i], t[i - 1], Seen(v, i, self, inObject))[1] = v[i]
       /\ Read(types[i], t[i - 1], Seen(v, i, self, inObject))[2] = t[i]

\* The loop of reading reads one after the other.
LEMMA EachRead ==
  ASSUME NEW types, Len(types) \in Nat, NEW stream, NEW self, NEW inObject \in BOOLEAN
  PROVE  LET r == ReadEach(types, stream, self, inObject)
         IN r # Raises => \E v, t : /\ r = <<v, t[Len(types)]>>
                                    /\ t[0] = stream
                                    /\ ReadInTurn(types, v, t, self, inObject)
  <1> DEFINE N == Len(types)
             R(b, i) == Read(types[i], b[2], IF inObject THEN b[1] ELSE self)
             G(b, i) == IF b = Raises THEN Raises
                        ELSE IF R(b, i) = Raises THEN Raises
                             ELSE <<Append(b[1], R(b, i)[1]), R(b, i)[2]>>
             start == << <<>>, stream>>
             Solves(f, m) == f = [i \in 0..m |-> IF i = 0 THEN start ELSE G(f[i - 1], i)]
  <1>1. \E f : Solves(f, N)
    <2> DEFINE S == {m \in Nat : \E f : Solves(f, m)}
    <2> HIDE DEF G, start
    <2>1. 0 \in S
      <3>1. Solves([i \in 0..0 |-> start], 0)
        OBVIOUS
      <3> QED
        BY <3>1
    <2>2. ASSUME NEW m \in Nat, m \in S
          PROVE  m + 1 \in S
      <3>1. PICK f : Solves(f, m)
        BY <2>2
      <3> DEFINE g == [i \in 0..m + 1 |-> IF i = m + 1 THEN G(f[m], m + 1) ELSE f[i]]
      <3>2. ASSUME NEW i \in 0..m + 1
            PROVE  g[i] = IF i = 0 THEN start ELSE G(g[i - 1], i)
        BY <3>1
      <3>3. Solves(g, m + 1)
        BY <3>2
      <3> HIDE DEF g, Solves
      <3> QED
        BY <3>3
    <2> HIDE DEF S
    <2>3. N \in S
      BY <2>1, <2>2, SetInduction
    <2> QED
      BY <2>3 DEF S
  <1> DEFINE after == CHOOSE f : Solves(f, N)
  <1>2. Solves(after, N)
    <2> HIDE DEF Solves
    <2> QED
      BY <1>1
  <1>3. ReadEach(types, stream, self, inObject) = after[N]
    BY Zenon DEF ReadEach
  <1> HIDE DEF after
  <1>4. /\ after[0] = start
        /\ \A i \in 1..N : after[i] = G(after[i - 1], i)
    <2> HIDE DEF G, start
    <2> QED
      BY <1>2
  <1> SUFFICES ASSUME after[N] # Raises
               PROVE  \E v, t : /\ after[N] = <<v, t[N]>>
                                /\ t[0] = stream
                                /\ ReadInTurn(types, v, t, self, inObject)
    BY <1>3, Zenon
  <1>5. \A i \in 0..N : after[i] # Raises
    <2> DEFINE S == {m \in Nat : m <= N => after[N - m] # Raises}
    <2>1. 0 \in S
      OBVIOUS
    <2>2. ASSUME NEW m \in Nat, m \in S
          PROVE  m + 1 \in S
      <3> SUFFICES ASSUME m + 1 <= N
                   PROVE  after[N - (m + 1)] # Raises
        OBVIOUS
      <3>1. N - m \in 1..N /\ (N - m) - 1 = N - (m + 1) /\ after[N - m] # Raises
        BY <2>2
      <3>2. after[N - m] = G(after[N - (m + 1)], N - m)
        BY <1>4, <3>1
      <3> QED
        BY <3>1, <3>2
    <2> HIDE DEF S
    <2>3. \A m \in Nat : m \in S
      BY <2>1, <2>2, SetInduction
    <2> QED
      <3> SUFFICES ASSUME NEW i \in 0..N
                   PROVE  after[i] # Raises
        OBVIOUS
      <3>1. N - i \in Nat /\ N - i <= N /\ N - (N - i) = i
        OBVIOUS
      <3> QED
        BY <2>3, <3>1 DEF S
  <1>6. ASSUME NEW i \in 1..N
        PROVE  /\ R(after[i - 1], i) # Raises
               /\ after[i] = <<Append(after[i - 1][1], R(after[i - 1], i)[1]), R(after[i - 1], i)[2]>>
    <2>1. i \in 0..N /\ after[i] = G(after[i - 1], i)
      BY <1>4, SMTT(60)
    <2>2. after[i] # Raises
      BY <1>5, <2>1
    <2> HIDE DEF R
    <2> QED
      BY <2>1, <2>2, Zenon
  <1> DEFINE v == [i \in 1..N |-> R(after[i - 1], i)[1]]
             t == [i \in 0..N |-> after[i][2]]
             V == {R(after[i - 1], i)[1] : i \in 1..N}
             Up(m) == [j \in 1..m |-> v[j]]
  <1>7. \A i \in 0..N : after[i][1] = Up(i)
    <2> DEFINE S == {m \in Nat : m <= N => after[m][1] = Up(m)}
    <2>1. 0 \in S
      <3>1. after[0][1] = <<>>
        BY <1>4
      <3>2. Up(0) = <<>>
        OBVIOUS
      <3> QED
        BY <3>1, <3>2
    <2>2. ASSUME NEW m \in Nat, m \in S
          PROVE  m + 1 \in S
      <3> SUFFICES ASSUME m + 1 <= N
                   PROVE  after[m + 1][1] = Up(m + 1)
        OBVIOUS
      <3>1. m + 1 \in 1..N /\ (m + 1) - 1 = m
        OBVIOUS
      <3>2. after[m][1] = Up(m)
        BY <2>2
      <3>3. R(after[m], m + 1)[1] = v[m + 1]
        BY <3>1
      <3>4. after[m + 1] = <<Append(after[m][1], R(after[m], m + 1)[1]), R(after[m], m + 1)[2]>>
        BY <1>6, <3>1
      <3>5. after[m + 1][1] = Append(Up(m), v[m + 1])
        <4> DEFINE r == R(after[m], m + 1)
                   u == v[m + 1]
        <4>1. r[1] = u /\ after[m + 1] = <<Append(after[m][1], r[1]), r[2]>>
          BY <3>3, <3>4, Zenon
        <4> HIDE DEF r, u, R, Up, v
        <4>2. after[m + 1][1] = Append(Up(m), u)
          BY <3>2, <4>1
        <4> QED
          BY <4>2 DEF u
      <3>6. v \in [1..N -> V]
        OBVIOUS
      <3> HIDE DEF v, V
      <3>7. Up(m) \in Seq(V) /\ Len(Up(m)) = m
        BY <3>6
      <3>8. Append(Up(m), v[m + 1]) = Up(m + 1)
        BY <3>6, <3>7
      <3> QED
        BY <3>5, <3>8
    <2>3. \A m \in Nat : m \in S
      <3> HIDE DEF S
      <3> QED
        BY <2>1, <2>2, SetInduction
    <2> HIDE DEF Up
    <2> QED
      BY <2>3
  <1>8. t[0] = stream
    BY <1>4
  <1>9. after[N] = <<v, t[N]>>
    <2>1. after[N][1] = v
      BY <1>7
    <2>2. after[N] = <<after[N][1], after[N][2]>>
      <3>1. CASE N = 0
        BY <1>4, <3>1
      <3>2. CASE N # 0
        BY <1>6, <3>2
      <3> QED
        BY <3>1, <3>2
    <2> QED
      BY <2>1, <2>2
  <1>10. ReadInTurn(types, v, t, self, inObject)
    <2>1. ASSUME NEW i \in 1..N
          PROVE  /\ Read(types[i], t[i - 1], Seen(v, i, self, inObject)) = R(after[i - 1], i)
                 /\ v[i] = R(after[i - 1], i)[1]
                 /\ t[i] = R(after[i - 1], i)[2]
      <3>1. i - 1 \in 0..N
        OBVIOUS
      <3>2. t[i - 1] = after[i - 1][2]
        BY <3>1
      <3>3. after[i - 1][1] = [j \in 1..i - 1 |-> v[j]]
        BY <1>7, <3>1
      <3>4. Seen(v, i, self, inObject) = IF inObject THEN after[i - 1][1] ELSE self
        BY <3>3, Zenon DEF Seen
      <3>5. v[i] = R(after[i - 1], i)[1]
        OBVIOUS
      <3>6. t[i] = R(after[i - 1], i)[2]
        BY <1>6
      <3> HIDE DEF v, t
      <3> QED
        BY <3>2, <3>4, <3>5, <3>6
    <2>2. v = [i \in 1..N |-> v[i]]
      OBVIOUS
    <2> HIDE DEF v, t, R
    <2> QED
      BY <1>6, <2>1, <2>2, Zenon DEF ReadInTurn
  <1> HIDE DEF v, t
  <1> QED
    BY <1>8, <1>9, <1>10, Zenon

-----------------------------------------------------------------------------
\* The bits from one place in the stream to another.
Part(bits, from, to) == SubSeq(bits, from + 1, to)

\* A stretch of bits is bits, as many as it is long.
LEMMA PartIsOfBits ==
  ASSUME NEW bits \in Seq(Bit), NEW i \in Nat, NEW j \in Nat, i <= j, j <= Len(bits)
  PROVE  Part(bits, i, j) \in Seq(Bit) /\ Len(Part(bits, i, j)) = j - i
  BY DEF Part

\* Two stretches of which one begins where the other ends are one stretch.
LEMMA PartsJoin ==
  ASSUME NEW bits \in Seq(Bit), NEW i \in Nat, NEW j \in Nat, NEW k \in Nat,
         i <= j, j <= k, k <= Len(bits)
  PROVE  Part(bits, i, j) \o Part(bits, j, k) = Part(bits, i, k)
  <1>1. i + 1 \in 1..Len(bits) + 1 /\ j \in (i + 1) - 1..Len(bits) /\ k \in j..Len(bits)
    OBVIOUS
  <1> QED
    BY <1>1, ConcatAdjacentSubSeq, Zenon DEF Part

\* What is joined from parts of the same lengths is equal only part by part.
LEMMA JoinsEqual ==
  ASSUME NEW a \in Seq(Bit), NEW b \in Seq(Bit), NEW c \in Seq(Bit), NEW d \in Seq(Bit),
         Len(a) = Len(c), Len(b) = Len(d), a \o b = c \o d
  PROVE  a = c /\ b = d
  <1>1. \A x \in 1..Len(a) : a[x] = (a \o b)[x] /\ c[x] = (c \o d)[x]
    OBVIOUS
  <1>2. \A x \in 1..Len(b) : b[x] = (a \o b)[x + Len(a)] /\ d[x] = (c \o d)[x + Len(c)]
    <2> SUFFICES ASSUME NEW x \in 1..Len(b)
                 PROVE  b[x] = (a \o b)[x + Len(a)] /\ d[x] = (c \o d)[x + Len(c)]
      BY Zenon
    <2>1. /\ x + Len(a) \in 1..Len(a) + Len(b) /\ x + Len(c) \in 1..Len(c) + Len(d)
          /\ ~(x + Len(a) <= Len(a)) /\ ~(x + Len(c) <= Len(c))
          /\ (x + Len(a)) - Len(a) = x /\ (x + Len(c)) - Len(c) = x
      OBVIOUS
    <2>2. /\ \A i \in 1..Len(a) + Len(b) : (a \o b)[i] = IF i <= Len(a) THEN a[i] ELSE b[i - Len(a)]
          /\ \A i \in 1..Len(c) + Len(d) : (c \o d)[i] = IF i <= Len(c) THEN c[i] ELSE d[i - Len(c)]
      BY ConcatProperties, Zenon
    <2> QED
      BY <2>1, <2>2, Zenon
  <1>3. \A x \in 1..Len(a) : a[x] = c[x]
    BY <1>1
  <1>4. \A x \in 1..Len(b) : b[x] = d[x]
    BY <1>2
  <1> QED
    BY <1>3, <1>4, SeqEqual, Zenon

\* What writing returns: nothing, or n bits.
Fits(w, n) == w = Raises \/ \E b \in Seq(Bit) : Len(b) = n /\ w = <<b>>

\* The places of a stream, each not before the one before it.
InOrder(place, N, bits) ==
  /\ \A i \in 0..N : place[i] \in Nat /\ place[i] <= Len(bits)
  /\ \A i \in 1..N : place[i - 1] <= place[i]

EachFits(types, values, self, place) ==
  \A i \in 1..Len(types) : Fits(Write(types[i], values[i], self), place[i] - place[i - 1])
EachIsPart(types, values, self, bits, place) ==
  \A i \in 1..Len(types) : Write(types[i], values[i], self) = <<Part(bits, place[i - 1], place[i])>>

\* Fields or items that each fit their places fit together, and are the bits of the
\* stream exactly when each of them is.
LEMMA EachWritten ==
  ASSUME NEW types, Len(types) \in Nat, NEW values, NEW self, NEW bits \in Seq(Bit),
         NEW place, InOrder(place, Len(types), bits),
         EachFits(types, values, self, place)
  PROVE  /\ place[0] <= place[Len(types)]
         /\ Fits(WriteEach(types, values, self), place[Len(types)] - place[0])
         /\ WriteEach(types, values, self) = <<Part(bits, place[0], place[Len(types)])>>
            <=> EachIsPart(types, values, self, bits, place)
  <1> DEFINE N == Len(types)
             W(i) == Write(types[i], values[i], self)
             G(b, i) == IF b = Raises THEN Raises
                        ELSE IF W(i) = Raises THEN Raises ELSE <<b[1] \o W(i)[1]>>
             start == << <<>> >>
             Solves(f, m) == f = [i \in 0..m |-> IF i = 0 THEN start ELSE G(f[i - 1], i)]
  <1>1. \E f : Solves(f, N)
    <2> DEFINE S == {m \in Nat : \E f : Solves(f, m)}
    <2> HIDE DEF G, start
    <2>1. 0 \in S
      <3>1. Solves([i \in 0..0 |-> start], 0)
        OBVIOUS
      <3> QED
        BY <3>1
    <2>2. ASSUME NEW m \in Nat, m \in S
          PROVE  m + 1 \in S
      <3>1. PICK f : Solves(f, m)
        BY <2>2
      <3> DEFINE g == [i \in 0..m + 1 |-> IF i = m + 1 THEN G(f[m], m + 1) ELSE f[i]]
      <3>2. ASSUME NEW i \in 0..m + 1
            PROVE  g[i] = IF i = 0 THEN start ELSE G(g[i - 1], i)
        BY <3>1
      <3>3. Solves(g, m + 1)
        BY <3>2
      <3> HIDE DEF g, Solves
      <3> QED
        BY <3>3
    <2> HIDE DEF S
    <2>3. N \in S
      BY <2>1, <2>2, SetInduction
    <2> QED
      BY <2>3 DEF S
  <1> DEFINE upTo == CHOOSE f : Solves(f, N)
  <1>2. Solves(upTo, N)
    <2> HIDE DEF Solves
    <2> QED
      BY <1>1
  <1>3. WriteEach(types, values, self) = upTo[N]
    BY Zenon DEF WriteEach
  <1> HIDE DEF upTo
  <1>4. /\ upTo[0] = start
        /\ \A i \in 1..N : upTo[i] = G(upTo[i - 1], i)
    <2> HIDE DEF G, start
    <2> QED
      BY <1>2
  <1> DEFINE Right(i) == W(i) = <<Part(bits, place[i - 1], place[i])>>
             Claim(m) == /\ place[0] <= place[m]
                         /\ Fits(upTo[m], place[m] - place[0])
                         /\ upTo[m] = <<Part(bits, place[0], place[m])>> <=> \A i \in 1..m : Right(i)
             S == {m \in Nat : m <= N => Claim(m)}
  <1>5. \A i \in 0..N : place[i] \in Nat /\ place[i] <= Len(bits)
    BY DEF InOrder
  <1>6. 0 \in S
    <2>1. upTo[0] = start
      BY <1>4
    <2>2. place[0] \in Nat /\ place[0] <= Len(bits)
      BY <1>5
    <2>3. Part(bits, place[0], place[0]) = <<>>
      <3>1. /\ Part(bits, place[0], place[0]) \in Seq(Bit)
            /\ Len(Part(bits, place[0], place[0])) = place[0] - place[0]
        <4>1. place[0] <= place[0]
          BY <2>2
        <4> QED
          BY <2>2, <4>1, PartIsOfBits, Zenon
      <3> QED
        BY <2>2, <3>1
    <2>4. Fits(upTo[0], place[0] - place[0])
      <3>1. <<>> \in Seq(Bit) /\ Len(<<>>) = place[0] - place[0]
        BY <2>2
      <3> QED
        BY <2>1, <3>1, Zenon DEF Fits
    <2>5. Claim(0)
      <3>1. upTo[0] = <<Part(bits, place[0], place[0])>>
        BY <2>1, <2>3
      <3>2. \A i \in 1..0 : FALSE
        OBVIOUS
      <3> HIDE DEF Right
      <3> QED
        BY <2>2, <2>4, <3>1, <3>2
    <2> HIDE DEF Claim
    <2> QED
      BY <2>5
  <1>7. ASSUME NEW m \in Nat, m \in S
        PROVE  m + 1 \in S
    <2> SUFFICES ASSUME m + 1 <= N
                 PROVE  Claim(m + 1)
      <3> HIDE DEF Claim
      <3> QED
        OBVIOUS
    <2> DEFINE from == place[0]
               mid == place[m]
               to == place[m + 1]
    <2>1. m + 1 \in 1..N /\ (m + 1) - 1 = m /\ m \in 0..N /\ m + 1 \in 0..N /\ 0 \in 0..N
      OBVIOUS
    <2>2. /\ from \in Nat /\ mid \in Nat /\ to \in Nat /\ mid <= to /\ to <= Len(bits)
      BY <1>5, <2>1 DEF InOrder
    <2>3. Claim(m)
      BY <1>7
    <2>4. from <= mid
      BY <2>3
    <2>5. /\ Part(bits, from, mid) \in Seq(Bit) /\ Len(Part(bits, from, mid)) = mid - from
          /\ Part(bits, mid, to) \in Seq(Bit) /\ Len(Part(bits, mid, to)) = to - mid
      <3>1. mid <= Len(bits)
        BY <2>2
      <3> QED
        BY <2>2, <2>4, <3>1, PartIsOfBits, Zenon
    <2>6. Part(bits, from, mid) \o Part(bits, mid, to) = Part(bits, from, to)
      BY <2>2, <2>4, PartsJoin
    <2>7. Fits(W(m + 1), to - mid)
      BY <2>1 DEF EachFits
    <2>8. upTo[m + 1] = G(upTo[m], m + 1)
      BY <1>4, <2>1
    <2>9. Right(m + 1) <=> W(m + 1) = <<Part(bits, mid, to)>>
      BY <2>1
    <2>10. (\A i \in 1..m + 1 : Right(i)) <=> (\A i \in 1..m : Right(i)) /\ Right(m + 1)
      <3> HIDE DEF Right
      <3> QED
        OBVIOUS
    <2>11. Fits(upTo[m], mid - from)
      BY <2>3
    <2>12. upTo[m] = <<Part(bits, from, mid)>> <=> \A i \in 1..m : Right(i)
      BY <2>3
    <2> HIDE DEF W, Right
    <2>13. CASE upTo[m] = Raises \/ W(m + 1) = Raises
      <3>1. upTo[m + 1] = Raises
        BY <2>8, <2>13
      <3>2. ~((\A i \in 1..m : Right(i)) /\ Right(m + 1))
        <4>1. Raises # <<Part(bits, from, mid)>> /\ Raises # <<Part(bits, mid, to)>>
          BY DEF Raises
        <4> HIDE DEF from, mid, to
        <4> QED
          BY <2>9, <2>12, <2>13, <4>1, Zenon
      <3>3. upTo[m + 1] # <<Part(bits, from, to)>>
        BY <3>1 DEF Raises
      <3>4. from <= to
        BY <2>2, <2>4
      <3>5. Fits(upTo[m + 1], to - from)
        BY <3>1, Zenon DEF Fits
      <3> QED
        BY <2>10, <3>2, <3>3, <3>4, <3>5, Zenon
    <2>14. CASE upTo[m] # Raises /\ W(m + 1) # Raises
      <3>1. PICK a \in Seq(Bit) : Len(a) = mid - from /\ upTo[m] = <<a>>
        BY <2>11, <2>14, Zenon DEF Fits
      <3>2. PICK b \in Seq(Bit) : Len(b) = to - mid /\ W(m + 1) = <<b>>
        BY <2>7, <2>14, Zenon DEF Fits
      <3>3. upTo[m + 1] = <<a \o b>>
        BY <2>8, <2>14, <3>1, <3>2
      <3>4. a \o b \in Seq(Bit) /\ Len(a \o b) = to - from
        <4>1. a \o b \in Seq(Bit) /\ Len(a \o b) = Len(a) + Len(b)
          BY ConcatProperties, Zenon
        <4>2. (mid - from) + (to - mid) = to - from
          BY <2>2
        <4> HIDE DEF from, mid, to
        <4> QED
          BY <3>1, <3>2, <4>1, <4>2, Zenon
      <3>5. Fits(upTo[m + 1], to - from)
        BY <3>3, <3>4, Zenon DEF Fits
      <3>6. upTo[m + 1] = <<Part(bits, from, to)>>
            <=> a = Part(bits, from, mid) /\ b = Part(bits, mid, to)
        <4>1. ASSUME upTo[m + 1] = <<Part(bits, from, to)>>
              PROVE  a = Part(bits, from, mid) /\ b = Part(bits, mid, to)
          <5>1. a \o b = Part(bits, from, mid) \o Part(bits, mid, to)
            BY <2>6, <3>3, <4>1
          <5> HIDE DEF from, mid, to
          <5> QED
            BY <2>5, <3>1, <3>2, <5>1, JoinsEqual
        <4>2. ASSUME a = Part(bits, from, mid), b = Part(bits, mid, to)
              PROVE  upTo[m + 1] = <<Part(bits, from, to)>>
          BY <2>6, <3>3, <4>2
        <4> QED
          BY <4>1, <4>2
      <3>7. /\ a = Part(bits, from, mid) <=> \A i \in 1..m : Right(i)
            /\ b = Part(bits, mid, to) <=> Right(m + 1)
        BY <2>9, <2>12, <3>1, <3>2
      <3>8. from <= to
        BY <2>2, <2>4
      <3> QED
        BY <2>10, <3>5, <3>6, <3>7, <3>8, Zenon
    <2> QED
      BY <2>13, <2>14
  <1>8. Claim(N)
    <2>1. N \in S
      <3> HIDE DEF S
      <3> QED
        BY <1>6, <1>7, SetInduction
    <2> HIDE DEF Claim
    <2> QED
      BY <2>1
  <1> QED
    BY <1>3, <1>8, Zenon DEF EachIsPart

-----------------------------------------------------------------------------
Streams == {s \in [bits : Seq(Bit), pos : Nat] : s.pos <= Len(s.bits)}
Onward(s, t) == t \in Streams /\ t.bits = s.bits /\ s.pos <= t.pos

\* What is read is written back where the fields seen at reading are seen and those
\* seen at writing are self: the same bits exactly when the value is not one that
\* to_bytes() does not take back, and never bits of another number.
ComesBack(type, seen, self) ==
  \A s \in Streams :
    LET r == Read(type, s, seen)
        w == Write(type, r[1], self)
    IN r # Raises => /\ Onward(s, r[2])
                     /\ Fits(w, r[2].pos - s.pos)
                     /\ w = <<Part(s.bits, s.pos, r[2].pos)>> <=> ~Loses(type, r[1], self)

\* Whatever the other fields are.
Plain(type) == \A seen, self : ComesBack(type, seen, self)

\* As plain, losing nothing, with values in X.
Exact(type, X) ==
  \A s \in Streams : \A seen, self :
    LET r == Read(type, s, seen)
    IN r # Raises => /\ Onward(s, r[2]) /\ r[1] \in X /\ ~Loses(type, r[1], self)
                     /\ Write(type, r[1], self) = <<Part(s.bits, s.pos, r[2].pos)>>

\* What lies between a stream and the stream further on.
LEMMA PartOnward ==
  ASSUME NEW s \in Streams, NEW t, Onward(s, t)
  PROVE  /\ s.bits \in Seq(Bit) /\ s.pos \in Nat /\ t.pos \in Nat
         /\ s.pos <= t.pos /\ t.pos <= Len(s.bits)
         /\ Part(s.bits, s.pos, t.pos) \in Seq(Bit)
         /\ Len(Part(s.bits, s.pos, t.pos)) = t.pos - s.pos
         /\ Fits(<<Part(s.bits, s.pos, t.pos)>>, t.pos - s.pos)
  <1>1. /\ s.bits \in Seq(Bit) /\ s.pos \in Nat /\ t.pos \in Nat
        /\ s.pos <= t.pos /\ t.pos <= Len(s.bits)
    BY DEF Streams, Onward
  <1>2. /\ Part(s.bits, s.pos, t.pos) \in Seq(Bit)
        /\ Len(Part(s.bits, s.pos, t.pos)) = t.pos - s.pos
    BY <1>1, PartIsOfBits, Zenon
  <1> QED
    BY <1>1, <1>2, Zenon DEF Fits

\* Streams of which each is further on than the one before are all of the same bits.
LEMMA InTurn ==
  ASSUME NEW N \in Nat, NEW t, t[0] \in Streams,
         \A i \in 1..N : t[i - 1] \in Streams => Onward(t[i - 1], t[i])
  PROVE  /\ \A i \in 0..N : t[i] \in Streams /\ t[i].bits = t[0].bits
         /\ InOrder([i \in 0..N |-> t[i].pos], N, t[0].bits)
         /\ Onward(t[0], t[N])
  <1> DEFINE S == {m \in Nat : m <= N => t[m] \in Streams /\ t[m].bits = t[0].bits /\ t[0].pos <= t[m].pos}
  <1>1. 0 \in S
    BY DEF Streams
  <1>2. ASSUME NEW m \in Nat, m \in S
        PROVE  m + 1 \in S
    <2> SUFFICES ASSUME m + 1 <= N
                 PROVE  t[m + 1] \in Streams /\ t[m + 1].bits = t[0].bits /\ t[0].pos <= t[m + 1].pos
      OBVIOUS
    <2>1. m + 1 \in 1..N /\ (m + 1) - 1 = m
      OBVIOUS
    <2>2. t[m] \in Streams /\ t[m].bits = t[0].bits /\ t[0].pos <= t[m].pos
      BY <1>2
    <2>3. Onward(t[m], t[m + 1])
      BY <2>1, <2>2
    <2> QED
      BY <2>2, <2>3 DEF Onward, Streams
  <1>3. \A m \in Nat : m \in S
    <2> HIDE DEF S
    <2> QED
      BY <1>1, <1>2, SetInduction
  <1>4. \A i \in 0..N : t[i] \in Streams /\ t[i].bits = t[0].bits /\ t[0].pos <= t[i].pos
    BY <1>3
  <1> HIDE DEF S
  <1>5. \A i \in 0..N : t[i].pos \in Nat /\ t[i].pos <= Len(t[0].bits)
    BY <1>4 DEF Streams
  <1>6. \A i \in 1..N : t[i - 1].pos <= t[i].pos
    <2>1. \A i \in 1..N : i - 1 \in 0..N
      OBVIOUS
    <2> QED
      BY <1>4, <2>1 DEF Onward
  <1>7. InOrder([i \in 0..N |-> t[i].pos], N, t[0].bits)
    <2> DEFINE place == [i \in 0..N |-> t[i].pos]
    <2>1. \A i \in 0..N : place[i] = t[i].pos
      OBVIOUS
    <2>2. \A i \in 1..N : i \in 0..N /\ i - 1 \in 0..N
      OBVIOUS
    <2> HIDE DEF place
    <2> QED
      BY <1>5, <1>6, <2>1, <2>2 DEF InOrder, place
  <1> QED
    BY <1>4, <1>7 DEF Onward

\* Fields or items that come back one by one come back together.
LEMMA SequenceComesBack ==
  ASSUME NEW types, Len(types) \in Nat, NEW v, NEW t, NEW seen, NEW inObject, NEW self,
         ReadInTurn(types, v, t, seen, inObject), t[0] \in Streams,
         \A i \in 1..Len(types) : ComesBack(types[i], Seen(v, i, seen, inObject), self)
  PROVE  LET w == WriteEach(types, v, self)
             to == t[Len(types)]
         IN /\ Onward(t[0], to)
            /\ Fits(w, to.pos - t[0].pos)
            /\ w = <<Part(t[0].bits, t[0].pos, to.pos)>>
               <=> \A i \in 1..Len(types) : ~Loses(types[i], v[i], self)
  <1> DEFINE N == Len(types)
             place == [i \in 0..N |-> t[i].pos]
             R(i) == Read(types[i], t[i - 1], Seen(v, i, seen, inObject))
             W(i) == Write(types[i], v[i], self)
  <1>1. ASSUME NEW i \in 1..N, t[i - 1] \in Streams
        PROVE  /\ Onward(t[i - 1], t[i])
               /\ Fits(W(i), t[i].pos - t[i - 1].pos)
               /\ W(i) = <<Part(t[i - 1].bits, t[i - 1].pos, t[i].pos)>> <=> ~Loses(types[i], v[i], self)
    <2>1. R(i) # Raises /\ R(i)[1] = v[i] /\ R(i)[2] = t[i]
      BY Zenon DEF ReadInTurn
    <2>2. ComesBack(types[i], Seen(v, i, seen, inObject), self)
      OBVIOUS
    <2> QED
      BY <1>1, <2>1, <2>2, Zenon DEF ComesBack
  <1>2. /\ \A i \in 0..N : t[i] \in Streams /\ t[i].bits = t[0].bits
        /\ InOrder(place, N, t[0].bits)
        /\ Onward(t[0], t[N])
    <2>1. \A i \in 1..N : t[i - 1] \in Streams => Onward(t[i - 1], t[i])
      BY <1>1
    <2> QED
      BY <2>1, InTurn, Zenon
  <1>3. t[0].bits \in Seq(Bit)
    BY DEF Streams
  <1>4. ASSUME NEW i \in 1..N
        PROVE  /\ Fits(W(i), place[i] - place[i - 1])
               /\ W(i) = <<Part(t[0].bits, place[i - 1], place[i])>> <=> ~Loses(types[i], v[i], self)
    <2>1. i \in 0..N /\ i - 1 \in 0..N
      OBVIOUS
    <2>2. place[i] = t[i].pos /\ place[i - 1] = t[i - 1].pos
      BY <2>1
    <2>3. t[i - 1] \in Streams /\ t[i - 1].bits = t[0].bits
      BY <1>2, <2>1
    <2> HIDE DEF W, place
    <2> QED
      BY <1>1, <2>2, <2>3
  <1>5. place[0] = t[0].pos /\ place[N] = t[N].pos
    OBVIOUS
  <1> HIDE DEF place
  <1>6. /\ Fits(WriteEach(types, v, self), place[N] - place[0])
        /\ WriteEach(types, v, self) = <<Part(t[0].bits, place[0], place[N])>>
           <=> EachIsPart(types, v, self, t[0].bits, place)
    <2>1. EachFits(types, v, self, place)
      BY <1>4, Zenon DEF EachFits
    <2> QED
      BY <1>2, <1>3, <2>1, EachWritten, Zenon
  <1>7. EachIsPart(types, v, self, t[0].bits, place)
        <=> \A i \in 1..N : ~Loses(types[i], v[i], self)
    BY <1>4, Zenon DEF EachIsPart
  <1> QED
    BY <1>2, <1>5, <1>6, <1>7, Zenon

-----------------------------------------------------------------------------
\* BitStream.take: the next n bits, and the stream behind them.
LEMMA TakeIsOnward ==
  ASSUME NEW s \in Streams, NEW n \in Nat, Take(s, n) # Raises
  PROVE  LET r == Take(s, n)
         IN /\ r = <<r[1], r[2]>> /\ Onward(s, r[2]) /\ r[2].pos = s.pos + n
            /\ r[1] = Part(s.bits, s.pos, r[2].pos)
            /\ r[1] \in Seq(Bit) /\ Len(r[1]) = n
  <1> DEFINE t == [s EXCEPT !.pos = @ + n]
             b == SubSeq(s.bits, s.pos + 1, s.pos + n)
  <1>1. Take(s, n) = <<b, t>> /\ s.pos + n <= Len(s.bits)
    BY SMTT(60) DEF Take, Remaining, Streams
  <1>2. t.bits = s.bits /\ t.pos = s.pos + n /\ t \in Streams /\ s.pos <= t.pos
    <2>1. s.bits \in Seq(Bit) /\ s.pos \in Nat /\ s = [bits |-> s.bits, pos |-> s.pos]
      BY DEF Streams
    <2>2. t = [bits |-> s.bits, pos |-> s.pos + n]
      BY <2>1
    <2> HIDE DEF t
    <2> QED
      BY <1>1, <2>1, <2>2 DEF Streams
  <1>3. b = Part(s.bits, s.pos, t.pos)
    BY <1>2 DEF Part
  <1>4. s.bits \in Seq(Bit) /\ s.pos \in Nat /\ t.pos \in Nat /\ t.pos <= Len(s.bits)
    BY <1>1, <1>2 DEF Streams
  <1>5. Part(s.bits, s.pos, t.pos) \in Seq(Bit) /\ Len(Part(s.bits, s.pos, t.pos)) = t.pos - s.pos
    BY <1>2, <1>4, PartIsOfBits, Zenon
  <1>6. t.pos - s.pos = n
    BY <1>2, <1>4
  <1> HIDE DEF t, b
  <1> QED
    BY <1>1, <1>2, <1>3, <1>5, <1>6 DEF Onward

\* Fields that come back where they stand in an object with the values v.
FieldsComeBack(fields) ==
  /\ Len(fields) \in Nat /\ DOMAIN fields = 1..Len(fields)
  /\ \A v : \A i \in 1..Len(fields) : ComesBack(fields[i], [j \in 1..i - 1 |-> v[j]], v)

\* What Bitfield.from_bits() has read.
LEMMA ObjectRead ==
  ASSUME NEW fields, Len(fields) \in Nat, NEW bits \in Seq(Bit), FromBits(fields, bits) # Raises
  PROVE  \E v, t : /\ FromBits(fields, bits) = <<Object(fields, v)>>
                   /\ t[0] = Stream(bits) /\ ~(Remaining(t[Len(fields)]) > 0)
                   /\ ReadInTurn(fields, v, t, <<>>, TRUE)
  <1> DEFINE r == ReadEach(fields, Stream(bits), <<>>, TRUE)
  <1>1. r # Raises /\ ~(Remaining(r[2]) > 0) /\ FromBits(fields, bits) = <<Object(fields, r[1])>>
    BY Zenon DEF FromBits
  <1>2. PICK v, t : /\ r = <<v, t[Len(fields)]>> /\ t[0] = Stream(bits)
                    /\ ReadInTurn(fields, v, t, <<>>, TRUE)
    <2>1. TRUE \in BOOLEAN
      OBVIOUS
    <2> QED
      BY <1>1, <2>1, EachRead, Zenon
  <1> HIDE DEF r
  <1>3. r[1] = v /\ r[2] = t[Len(fields)]
    BY <1>2
  <1>4. ~(Remaining(t[Len(fields)]) > 0)
    BY <1>1, <1>3
  <1> QED
    BY <1>1, <1>2, <1>3, <1>4, Zenon

\* A stream that nothing is left of has read all its bits.
LEMMA WholeStream ==
  ASSUME NEW bits \in Seq(Bit), NEW t, Onward(Stream(bits), t), ~(Remaining(t) > 0)
  PROVE  /\ Stream(bits) \in Streams /\ Stream(bits).bits = bits /\ Stream(bits).pos = 0
         /\ t.pos = Len(bits) /\ t.pos - 0 = Len(bits)
         /\ Part(bits, 0, Len(bits)) = bits
  <1>1. /\ Stream(bits) \in Streams /\ Stream(bits).bits = bits /\ Stream(bits).pos = 0
        /\ t.pos = Len(bits) /\ t.pos - 0 = Len(bits)
    BY DEF Stream, Streams, Onward, Remaining
  <1>2. Part(bits, 0, Len(bits)) = bits
    BY SubSeqFull DEF Part
  <1> QED
    BY <1>1, <1>2

\* from_bits() begins at the first bit.
LEMMA StreamIsOne ==
  ASSUME NEW bits \in Seq(Bit)
  PROVE  Stream(bits) \in Streams /\ Stream(bits).bits = bits /\ Stream(bits).pos = 0
  BY DEF Stream, Streams

\* Objects whose fields come back come back.
LEMMA ObjectComesBack ==
  ASSUME NEW fields, FieldsComeBack(fields), NEW bits \in Seq(Bit), FromBits(fields, bits) # Raises
  PROVE  LET o == FromBits(fields, bits)[1]
         IN /\ FromBits(fields, bits) = <<o>> /\ o.k = "bitfield"
            /\ Fits(ToBits(o), Len(bits))
            /\ ToBits(o) = <<bits>> <=> ~ObjectLoses(o)
  <1> DEFINE N == Len(fields)
  <1>1. N \in Nat /\ DOMAIN fields = 1..N
    BY DEF FieldsComeBack
  <1>2. PICK v, t : /\ FromBits(fields, bits) = <<Object(fields, v)>>
                    /\ t[0] = Stream(bits) /\ ~(Remaining(t[N]) > 0)
                    /\ ReadInTurn(fields, v, t, <<>>, TRUE)
    BY <1>1, ObjectRead, Zenon
  <1>3. \A i \in 1..N : ComesBack(fields[i], Seen(v, i, <<>>, TRUE), v)
    BY Zenon DEF FieldsComeBack, Seen
  <1>4. t[0] \in Streams
    BY <1>2, StreamIsOne
  <1>5. /\ Onward(t[0], t[N])
        /\ Fits(WriteEach(fields, v, v), t[N].pos - t[0].pos)
        /\ WriteEach(fields, v, v) = <<Part(t[0].bits, t[0].pos, t[N].pos)>>
           <=> \A i \in 1..N : ~Loses(fields[i], v[i], v)
    BY <1>1, <1>2, <1>3, <1>4, SequenceComesBack, Zenon
  <1>6. /\ t[0].bits = bits /\ t[0].pos = 0 /\ t[N].pos = Len(bits)
        /\ t[N].pos - t[0].pos = Len(bits) /\ Part(bits, 0, Len(bits)) = bits
    BY <1>2, <1>5, WholeStream, Zenon
  <1> DEFINE o == Object(fields, v)
  <1>7. o.k = "bitfield" /\ o.of = fields /\ o.v = v
    BY DEF Object
  <1> HIDE DEF o
  <1>8. ToBits(o) = WriteEach(fields, v, v)
    BY <1>7 DEF ToBits
  <1>9. ObjectLoses(o) <=> ~\A i \in 1..N : ~Loses(fields[i], v[i], v)
    BY <1>1, <1>7 DEF ObjectLoses
  <1>10. FromBits(fields, bits)[1] = o
    BY <1>2 DEF o
  <1> QED
    BY <1>2, <1>5, <1>6, <1>7, <1>8, <1>9, <1>10, Zenon DEF o

\* Reading a type with n bits for an object.
LEMMA BitfieldRead ==
  ASSUME Recursion, NEW fields, FieldsComeBack(fields), NEW n \in Nat, NEW s \in Streams, NEW seen,
         Read(BfBitfield(fields, n), s, seen) # Raises
  PROVE  LET r == Read(BfBitfield(fields, n), s, seen)
         IN /\ r[1].k = "bitfield" /\ Onward(s, r[2]) /\ r[2].pos = s.pos + n
            /\ Fits(ToBits(r[1]), n)
            /\ ToBits(r[1]) = <<Part(s.bits, s.pos, r[2].pos)>> <=> ~ObjectLoses(r[1])
  <1> DEFINE type == BfBitfield(fields, n)
             r == Read(type, s, seen)
             taken == Take(s, n)
  <1>1. type.k = "bitfield" /\ type.fields = fields /\ type.n = n
    BY DEF BfBitfield
  <1> HIDE DEF type
  <1>2. r = LET o == IF taken = Raises THEN Raises ELSE FromBits(fields, taken[1])
            IN IF o = Raises THEN Raises ELSE <<o[1], taken[2]>>
    BY <1>1, BitfieldKind, Zenon
  <1>3. r # Raises
    BY Zenon DEF type
  <1> DEFINE o == FromBits(fields, taken[1])
  <1>4. taken # Raises /\ o # Raises /\ r = <<o[1], taken[2]>>
    BY <1>2, <1>3, Zenon
  <1>5. r[1] = o[1] /\ r[2] = taken[2]
    BY <1>4
  <1>6. /\ Onward(s, taken[2]) /\ taken[2].pos = s.pos + n
        /\ taken[1] = Part(s.bits, s.pos, taken[2].pos)
        /\ taken[1] \in Seq(Bit) /\ Len(taken[1]) = n
    BY <1>4, TakeIsOnward, Zenon
  <1>7. /\ o[1].k = "bitfield" /\ Fits(ToBits(o[1]), Len(taken[1]))
        /\ ToBits(o[1]) = <<taken[1]>> <=> ~ObjectLoses(o[1])
    BY <1>4, <1>6, ObjectComesBack, Zenon
  <1> HIDE DEF r, taken, o
  <1>8. /\ r[1].k = "bitfield" /\ Onward(s, r[2]) /\ r[2].pos = s.pos + n
        /\ Fits(ToBits(r[1]), n)
        /\ ToBits(r[1]) = <<Part(s.bits, s.pos, r[2].pos)>> <=> ~ObjectLoses(r[1])
    BY <1>5, <1>6, <1>7
  <1> QED
    BY <1>8, Zenon DEF r, type

-----------------------------------------------------------------------------
\* A type that loses nothing comes back whatever the other fields are.
LEMMA ExactIsPlain ==
  ASSUME NEW type, NEW X, Exact(type, X)
  PROVE  Plain(type)
  <1> SUFFICES ASSUME NEW seen, NEW self, NEW s \in Streams, Read(type, s, seen) # Raises
               PROVE  LET r == Read(type, s, seen)
                          w == Write(type, r[1], self)
                      IN /\ Onward(s, r[2])
                         /\ Fits(w, r[2].pos - s.pos)
                         /\ w = <<Part(s.bits, s.pos, r[2].pos)>> <=> ~Loses(type, r[1], self)
    BY Zenon DEF Plain, ComesBack
  <1> DEFINE r == Read(type, s, seen)
  <1>1. /\ Onward(s, r[2]) /\ ~Loses(type, r[1], self)
        /\ Write(type, r[1], self) = <<Part(s.bits, s.pos, r[2].pos)>>
    BY Zenon DEF Exact
  <1>2. Fits(<<Part(s.bits, s.pos, r[2].pos)>>, r[2].pos - s.pos)
    BY <1>1, PartOnward, Zenon
  <1> QED
    BY <1>1, <1>2, Zenon

Words(n) == {b \in Seq(Bit) : Len(b) = n}

\* Raw bits come back.
LEMMA BitsExact ==
  ASSUME Recursion, NEW n \in Nat
  PROVE  Exact(BfBits(n), Words(n))
  <1> DEFINE type == BfBits(n)
  <1>1. type.k = "bits" /\ type.n = n
    BY DEF BfBits
  <1> HIDE DEF type
  <1> SUFFICES ASSUME NEW s \in Streams, NEW seen, NEW self, Read(type, s, seen) # Raises
               PROVE  LET r == Read(type, s, seen)
                      IN /\ Onward(s, r[2]) /\ r[1] \in Words(n) /\ ~Loses(type, r[1], self)
                         /\ Write(type, r[1], self) = <<Part(s.bits, s.pos, r[2].pos)>>
    BY Zenon DEF Exact, type
  <1> DEFINE r == Read(type, s, seen)
  <1>2. r = Take(s, n)
    BY <1>1, BitsKind, Zenon
  <1>3. /\ Onward(s, r[2]) /\ r[1] = Part(s.bits, s.pos, r[2].pos)
        /\ r[1] \in Seq(Bit) /\ Len(r[1]) = n
    BY <1>2, TakeIsOnward, Zenon
  <1>4. Write(type, r[1], self) = IF Len(r[1]) # n THEN Raises ELSE <<r[1]>>
    BY <1>1, BitsKind, Zenon
  <1>5. ~Loses(type, r[1], self)
    BY <1>1, BitsKind, Zenon
  <1> HIDE DEF r
  <1>6. r[1] \in Words(n)
    BY <1>3 DEF Words
  <1>7. Write(type, r[1], self) = <<Part(s.bits, s.pos, r[2].pos)>>
    BY <1>3, <1>4, Zenon
  <1> QED
    BY <1>3, <1>5, <1>6, <1>7, Zenon DEF r

\* A mapper that takes back what it has made of X, values in Y.
Faithful(vm, X, Y) ==
  \A x \in X : LET f == Forward(vm, x)
               IN f # Raises => f[1] \in Y /\ ~LosesValue(vm, f[1]) /\ Back(vm, f[1]) = <<x>>

\* A mapper that loses nothing keeps an exact type exact.
LEMMA MapExact ==
  ASSUME Recursion, NEW inner, NEW X, Exact(inner, X), NEW vm, NEW Y, Faithful(vm, X, Y)
  PROVE  Exact(BfMap(inner, vm), Y)
  <1> DEFINE type == BfMap(inner, vm)
  <1>1. type.k = "map" /\ type.inner = inner /\ type.vm = vm
    BY DEF BfMap
  <1> HIDE DEF type
  <1> SUFFICES ASSUME NEW s \in Streams, NEW seen, NEW self, Read(type, s, seen) # Raises
               PROVE  LET r == Read(type, s, seen)
                      IN /\ Onward(s, r[2]) /\ r[1] \in Y /\ ~Loses(type, r[1], self)
                         /\ Write(type, r[1], self) = <<Part(s.bits, s.pos, r[2].pos)>>
    BY Zenon DEF Exact, type
  <1> DEFINE r == Read(type, s, seen)
             i == Read(inner, s, seen)
             f == Forward(vm, i[1])
  <1>2. r = LET v == IF i = Raises THEN Raises ELSE f
            IN IF v = Raises THEN Raises ELSE <<v[1], i[2]>>
    BY <1>1, MapKind, Zenon
  <1>3. i # Raises /\ f # Raises /\ r = <<f[1], i[2]>>
    BY <1>2, Zenon
  <1>4. /\ Onward(s, i[2]) /\ i[1] \in X
        /\ Write(inner, i[1], self) = <<Part(s.bits, s.pos, i[2].pos)>>
    BY <1>3, Zenon DEF Exact
  <1>5. f[1] \in Y /\ ~LosesValue(vm, f[1]) /\ Back(vm, f[1]) = <<i[1]>>
    BY <1>3, <1>4, Zenon DEF Faithful
  <1>6. r[1] = f[1] /\ r[2] = i[2]
    <2> HIDE DEF r, i, f
    <2> QED
      BY <1>3
  <1>7. Loses(type, r[1], self) <=> LosesValue(vm, r[1])
    BY <1>1, MapKind, Zenon
  <1>8. Write(type, r[1], self) = LET y == Back(vm, r[1])
                                  IN IF y = Raises THEN Raises ELSE Write(inner, y[1], self)
    BY <1>1, MapKind, Zenon
  <1>9. Back(vm, r[1]) # Raises /\ Back(vm, r[1])[1] = i[1]
    <2> HIDE DEF r, i, f
    <2> QED
      BY <1>5, <1>6 DEF Raises
  <1> HIDE DEF r, i, f
  <1>10. Write(type, r[1], self) = Write(inner, i[1], self)
    BY <1>8, <1>9, Zenon
  <1>11. /\ Onward(s, r[2]) /\ r[1] \in Y /\ ~Loses(type, r[1], self)
         /\ Write(type, r[1], self) = <<Part(s.bits, s.pos, r[2].pos)>>
    BY <1>4, <1>5, <1>6, <1>7, <1>10
  <1> QED
    BY <1>11, Zenon DEF r

\* Something else than was read, in as many bits, or nothing.
Changed(w, before) == /\ before # Raises => w # before
                      /\ \A n : Fits(before, n) => Fits(w, n)

\* A value that cannot be written is not written back as it was.
LEMMA NothingIsChanged ==
  ASSUME NEW before
  PROVE  Changed(Raises, before)
  BY Zenon DEF Changed, Fits

\* A mapper that takes back what it has made of X, or loses it; and what it loses
\* is changed.
FaithfulOrChanged(vm, inner, X) ==
  \A x \in X : LET f == Forward(vm, x)
               IN f # Raises =>
                    \/ ~LosesValue(vm, f[1]) /\ Back(vm, f[1]) = <<x>>
                    \/ /\ LosesValue(vm, f[1])
                       /\ Back(vm, f[1]) # Raises =>
                            \A self : Changed(Write(inner, Back(vm, f[1])[1], self), Write(inner, x, self))

\* A mapper that loses some values, and writes others for them of the same width.
LEMMA MapPlain ==
  ASSUME Recursion, NEW inner, NEW X, Exact(inner, X), NEW vm, FaithfulOrChanged(vm, inner, X)
  PROVE  Plain(BfMap(inner, vm))
  <1> DEFINE type == BfMap(inner, vm)
  <1>1. type.k = "map" /\ type.inner = inner /\ type.vm = vm
    BY DEF BfMap
  <1> HIDE DEF type
  <1> SUFFICES ASSUME NEW seen, NEW self, NEW s \in Streams, Read(type, s, seen) # Raises
               PROVE  LET r == Read(type, s, seen)
                          w == Write(type, r[1], self)
                      IN /\ Onward(s, r[2])
                         /\ Fits(w, r[2].pos - s.pos)
                         /\ w = <<Part(s.bits, s.pos, r[2].pos)>> <=> ~Loses(type, r[1], self)
    BY Zenon DEF Plain, ComesBack, type
  <1> DEFINE r == Read(type, s, seen)
             i == Read(inner, s, seen)
             f == Forward(vm, i[1])
             part == Part(s.bits, s.pos, r[2].pos)
  <1>2. r = LET v == IF i = Raises THEN Raises ELSE f
            IN IF v = Raises THEN Raises ELSE <<v[1], i[2]>>
    BY <1>1, MapKind, Zenon
  <1>3. i # Raises /\ f # Raises /\ r = <<f[1], i[2]>>
    BY <1>2, Zenon
  <1>4. r[1] = f[1] /\ r[2] = i[2]
    <2> HIDE DEF r, i, f
    <2> QED
      BY <1>3
  <1>5. Onward(s, i[2]) /\ i[1] \in X /\ Write(inner, i[1], self) = <<Part(s.bits, s.pos, i[2].pos)>>
    BY <1>3, Zenon DEF Exact
  <1>6. Onward(s, r[2]) /\ Write(inner, i[1], self) = <<part>>
    <2> HIDE DEF r, i
    <2> QED
      BY <1>4, <1>5
  <1>7. Fits(<<part>>, r[2].pos - s.pos)
    BY <1>6, PartOnward, Zenon
  <1>8. Loses(type, r[1], self) <=> LosesValue(vm, r[1])
    BY <1>1, MapKind, Zenon
  <1>9. Write(type, r[1], self) = LET y == Back(vm, r[1])
                                  IN IF y = Raises THEN Raises ELSE Write(inner, y[1], self)
    BY <1>1, MapKind, Zenon
  <1>10. \/ ~LosesValue(vm, f[1]) /\ Back(vm, f[1]) = <<i[1]>>
         \/ /\ LosesValue(vm, f[1])
            /\ Back(vm, f[1]) # Raises =>
                 Changed(Write(inner, Back(vm, f[1])[1], self), Write(inner, i[1], self))
    BY <1>3, <1>5, Zenon DEF FaithfulOrChanged
  <1> HIDE DEF r, i, f, part
  <1>11. CASE ~LosesValue(vm, f[1]) /\ Back(vm, f[1]) = <<i[1]>>
    <2>1. Back(vm, r[1]) # Raises /\ Back(vm, r[1])[1] = i[1]
      BY <1>4, <1>11 DEF Raises
    <2>2. Write(type, r[1], self) = <<part>>
      BY <1>6, <1>9, <2>1, Zenon
    <2> QED
      BY <1>4, <1>6, <1>7, <1>8, <1>11, <2>2, Zenon DEF r, part
  <1>12. CASE /\ LosesValue(vm, f[1])
              /\ Back(vm, f[1]) # Raises =>
                 Changed(Write(inner, Back(vm, f[1])[1], self), Write(inner, i[1], self))
    <2>1. Changed(Write(type, r[1], self), Write(inner, i[1], self))
      BY <1>4, <1>9, <1>12, NothingIsChanged, Zenon
    <2>2. <<part>> # Raises
      BY DEF Raises
    <2>3. Write(type, r[1], self) # <<part>> /\ Fits(Write(type, r[1], self), r[2].pos - s.pos)
      BY <1>6, <1>7, <2>1, <2>2, Zenon DEF Changed
    <2> QED
      BY <1>4, <1>6, <1>8, <1>12, <2>3, Zenon DEF r, part
  <1> QED
    BY <1>10, <1>11, <1>12, Zenon

\* A literal comes back: it was read only if it was equal.
LEMMA LitExact ==
  ASSUME Recursion, NEW inner, NEW X, Exact(inner, X), NEW value
  PROVE  Exact(BfLit(inner, value), X)
  <1> DEFINE type == BfLit(inner, value)
  <1>1. type.k = "lit" /\ type.inner = inner /\ type.value = value
    BY DEF BfLit
  <1> HIDE DEF type
  <1> SUFFICES ASSUME NEW s \in Streams, NEW seen, NEW self, Read(type, s, seen) # Raises
               PROVE  LET r == Read(type, s, seen)
                      IN /\ Onward(s, r[2]) /\ r[1] \in X /\ ~Loses(type, r[1], self)
                         /\ Write(type, r[1], self) = <<Part(s.bits, s.pos, r[2].pos)>>
    BY Zenon DEF Exact, type
  <1> DEFINE r == Read(type, s, seen)
             i == Read(inner, s, seen)
  <1>2. r = IF i = Raises THEN Raises ELSE IF i[1] # value THEN Raises ELSE i
    BY <1>1, LitKind, ZenonT(60)
  <1>3. i # Raises /\ i[1] = value /\ r = i
    BY <1>2, Zenon
  <1>4. /\ Onward(s, i[2]) /\ i[1] \in X
        /\ Write(inner, i[1], self) = <<Part(s.bits, s.pos, i[2].pos)>>
    BY <1>3, Zenon DEF Exact
  <1>5. Write(type, r[1], self) = IF r[1] # value THEN Raises ELSE Write(inner, r[1], self)
    BY <1>1, LitKind, Zenon
  <1>6. ~Loses(type, r[1], self)
    BY <1>1, LitKind, Zenon
  <1> QED
    BY <1>3, <1>4, <1>5, <1>6, Zenon

\* A field that is not there comes back as no bits.
LEMMA NonePlain ==
  ASSUME Recursion
  PROVE  /\ Plain(BfNone)
         /\ \A s, seen : Read(BfNone, s, seen) = <<None, s>>
         /\ None.k = "none"
  <1>1. BfNone.k = "none" /\ None.k = "none"
    BY DEF BfNone, None
  <1>2. \A s, seen : Read(BfNone, s, seen) = <<None, s>>
    BY <1>1, NoneKind, Zenon
  <1>3. ASSUME NEW seen, NEW self, NEW s \in Streams
        PROVE  LET r == Read(BfNone, s, seen)
                   w == Write(BfNone, r[1], self)
               IN /\ Onward(s, r[2])
                  /\ Fits(w, r[2].pos - s.pos)
                  /\ w = <<Part(s.bits, s.pos, r[2].pos)>> <=> ~Loses(BfNone, r[1], self)
    <2> DEFINE r == Read(BfNone, s, seen)
    <2>1. r[1] = None /\ r[2] = s
      BY <1>2
    <2>2. s.bits \in Seq(Bit) /\ s.pos \in Nat /\ s.pos <= Len(s.bits) /\ s.pos <= s.pos /\ s.pos - s.pos = 0
      BY DEF Streams
    <2>3. Part(s.bits, s.pos, s.pos) \in Seq(Bit) /\ Len(Part(s.bits, s.pos, s.pos)) = s.pos - s.pos
      BY <2>2, PartIsOfBits, Zenon
    <2>4. Part(s.bits, s.pos, s.pos) = <<>>
      BY <2>2, <2>3
    <2>5. Onward(s, s)
      BY <2>2 DEF Onward
    <2>6. Fits(<<Part(s.bits, s.pos, s.pos)>>, s.pos - s.pos)
      BY <2>3, Zenon DEF Fits
    <2>7. Write(BfNone, None, self) = IF None # None THEN Raises ELSE << <<>> >>
      BY <1>1, NoneKind, Zenon
    <2>8. Write(BfNone, None, self) = << <<>> >>
      <3>1. None = None
        OBVIOUS
      <3> QED
        BY <2>7, <3>1, Zenon
    <2>9. ~Loses(BfNone, None, self)
      BY <1>1, NoneKind, Zenon
    <2> QED
      BY <2>1, <2>4, <2>5, <2>6, <2>8, <2>9, Zenon
  <1>4. Plain(BfNone)
    BY <1>3, Zenon DEF Plain, ComesBack
  <1> QED
    BY <1>1, <1>2, <1>4, Zenon

\* The number of items: range(n).
Many(n) == IF n < 0 THEN 0 ELSE n

\* A list has the same type for every item, and none for a negative length.
LEMMA ItemsOf ==
  ASSUME NEW inner, NEW n \in Int
  PROVE  LET items == Items(BfList(inner, n))
         IN /\ Len(items) = Many(n) /\ Many(n) \in Nat
            /\ \A i \in 1..Many(n) : items[i] = inner
            /\ items = [i \in 1..Many(n) |-> inner]
  BY DEF Items, BfList, Many

\* What the list v, read from s to the stream to, is.
ListComesBack(inner, n, s, seen, v, to) ==
  /\ Onward(s, to)
  /\ v = [i \in 1..Many(n) |-> v[i]]
  /\ \A i \in 1..Many(n) : \E u \in Streams : Read(inner, u, seen) # Raises /\ v[i] = Read(inner, u, seen)[1]
  /\ \A self : LET w == WriteEach(Items(BfList(inner, n)), v, self)
               IN /\ Fits(w, to.pos - s.pos)
                  /\ w = <<Part(s.bits, s.pos, to.pos)>> <=> \A i \in 1..Many(n) : ~Loses(inner, v[i], self)

\* Reading a list reads its items one after the other.
LEMMA ListRead ==
  ASSUME Recursion, NEW inner, Plain(inner), NEW n \in Int, NEW s \in Streams, NEW seen,
         Read(BfList(inner, n), s, seen) # Raises
  PROVE  \E v, to : Read(BfList(inner, n), s, seen) = <<v, to>> /\ ListComesBack(inner, n, s, seen, v, to)
  <1> DEFINE type == BfList(inner, n)
             N == Many(n)
             r == Read(type, s, seen)
  <1>1. type.k = "list"
    BY DEF BfList
  <1>2. Len(Items(type)) = N /\ N \in Nat /\ \A i \in 1..N : Items(type)[i] = inner
    BY ItemsOf, Zenon
  <1> HIDE DEF type, N
  <1>3. r = ReadEach(Items(type), s, seen, FALSE)
    BY <1>1, ListKind, Zenon
  <1>4. PICK v, t : r = <<v, t[N]>> /\ t[0] = s /\ ReadInTurn(Items(type), v, t, seen, FALSE)
    <2>1. r # Raises /\ FALSE \in BOOLEAN
      BY Zenon DEF type
    <2> QED
      BY <1>2, <1>3, <2>1, EachRead, Zenon
  <1>5. ASSUME NEW self
        PROVE  LET w == WriteEach(Items(type), v, self)
               IN /\ Onward(s, t[N])
                  /\ Fits(w, t[N].pos - s.pos)
                  /\ w = <<Part(s.bits, s.pos, t[N].pos)>>
                     <=> \A i \in 1..N : ~Loses(inner, v[i], self)
    <2>1. \A i \in 1..Len(Items(type)) : ComesBack(Items(type)[i], Seen(v, i, seen, FALSE), self)
      BY <1>2, Zenon DEF Plain
    <2>2. LET w == WriteEach(Items(type), v, self)
              to == t[Len(Items(type))]
          IN /\ Onward(t[0], to)
             /\ Fits(w, to.pos - t[0].pos)
             /\ w = <<Part(t[0].bits, t[0].pos, to.pos)>>
                <=> \A i \in 1..Len(Items(type)) : ~Loses(Items(type)[i], v[i], self)
      BY <1>2, <1>4, <2>1, SequenceComesBack, Zenon
    <2>3. (\A i \in 1..Len(Items(type)) : ~Loses(Items(type)[i], v[i], self))
          <=> \A i \in 1..N : ~Loses(inner, v[i], self)
      BY <1>2, Zenon
    <2> QED
      BY <1>2, <1>4, <2>2, <2>3, Zenon
  <1>6. v = [i \in 1..N |-> v[i]]
    BY <1>2, <1>4, Zenon DEF ReadInTurn
  <1>7. \A i \in 1..N : t[i - 1] \in Streams => Onward(t[i - 1], t[i])
    <2> SUFFICES ASSUME NEW i \in 1..N, t[i - 1] \in Streams
                 PROVE  Onward(t[i - 1], t[i])
      BY Zenon
    <2> DEFINE x == Read(Items(type)[i], t[i - 1], Seen(v, i, seen, FALSE))
    <2>1. x # Raises /\ x[2] = t[i]
      BY <1>2, <1>4, Zenon DEF ReadInTurn
    <2>2. ComesBack(Items(type)[i], Seen(v, i, seen, FALSE), seen)
      BY <1>2, Zenon DEF Plain
    <2> QED
      BY <2>1, <2>2, Zenon DEF ComesBack
  <1>8. \A i \in 0..N : t[i] \in Streams
    BY <1>2, <1>4, <1>7, InTurn, Zenon
  <1>9. \A i \in 1..N : \E u \in Streams : Read(inner, u, seen) # Raises /\ v[i] = Read(inner, u, seen)[1]
    <2> SUFFICES ASSUME NEW i \in 1..N
                 PROVE  \E u \in Streams : Read(inner, u, seen) # Raises /\ v[i] = Read(inner, u, seen)[1]
      BY Zenon
    <2>1. i - 1 \in 0..N
      BY <1>2
    <2>2. Seen(v, i, seen, FALSE) = seen
      BY DEF Seen
    <2> QED
      BY <1>2, <1>4, <1>8, <2>1, <2>2, Zenon DEF ReadInTurn
  <1> HIDE DEF r
  <1>10. ListComesBack(inner, n, s, seen, v, t[N])
    BY <1>5, <1>6, <1>9, Zenon DEF ListComesBack, type, N
  <1> QED
    BY <1>4, <1>10, Zenon DEF r, type

\* A list of items that come back comes back.
LEMMA ListPlain ==
  ASSUME Recursion, NEW inner, Plain(inner), NEW n \in Nat
  PROVE  Plain(BfList(inner, n))
  <1> DEFINE type == BfList(inner, n)
  <1>1. type.k = "list" /\ type.inner = inner /\ type.n = n
    BY DEF BfList
  <1>2. Many(n) = n /\ n \in Int
    BY DEF Many
  <1> HIDE DEF type
  <1> SUFFICES ASSUME NEW seen, NEW self, NEW s \in Streams, Read(type, s, seen) # Raises
               PROVE  LET r == Read(type, s, seen)
                          w == Write(type, r[1], self)
                      IN /\ Onward(s, r[2])
                         /\ Fits(w, r[2].pos - s.pos)
                         /\ w = <<Part(s.bits, s.pos, r[2].pos)>> <=> ~Loses(type, r[1], self)
    BY Zenon DEF Plain, ComesBack, type
  <1> DEFINE r == Read(type, s, seen)
  <1> DEFINE N == Many(n)
  <1>3. PICK v, to : r = <<v, to>> /\ ListComesBack(inner, n, s, seen, v, to)
    BY <1>2, ListRead, Zenon DEF type
  <1>4. r[1] = v /\ r[2] = to
    <2> HIDE DEF r
    <2> QED
      BY <1>3
  <1>5. /\ Onward(s, to) /\ v = [i \in 1..N |-> v[i]]
        /\ LET w == WriteEach(Items(type), v, self)
           IN /\ Fits(w, to.pos - s.pos)
              /\ w = <<Part(s.bits, s.pos, to.pos)>> <=> \A i \in 1..N : ~Loses(inner, v[i], self)
    BY <1>3, Zenon DEF ListComesBack, type
  <1> HIDE DEF r, N
  <1>6. Len(v) = n /\ DOMAIN v = 1..N
    BY <1>2, <1>5 DEF N
  <1>7. Write(type, v, self) = IF Len(v) # n THEN Raises ELSE WriteEach(Items(type), v, self)
    BY <1>1, ListKind, Zenon
  <1>8. Loses(type, v, self) <=> \E i \in DOMAIN v : Loses(inner, v[i], self)
    BY <1>1, ListKind, Zenon
  <1> QED
    BY <1>4, <1>5, <1>6, <1>7, <1>8, Zenon DEF r

\* An exact list has items with exact values.
LEMMA ListExact ==
  ASSUME Recursion, NEW inner, NEW X, Exact(inner, X), NEW n \in Int, NEW s \in Streams, NEW seen,
         Read(BfList(inner, n), s, seen) # Raises
  PROVE  LET r == Read(BfList(inner, n), s, seen)
         IN /\ Onward(s, r[2]) /\ r[1] \in Seq(X) /\ Len(r[1]) = Many(n)
            /\ \A self : /\ Write(BfList(inner, Many(n)), r[1], self) = <<Part(s.bits, s.pos, r[2].pos)>>
                         /\ ~Loses(BfList(inner, Many(n)), r[1], self)
  <1> DEFINE N == Many(n)
             r == Read(BfList(inner, n), s, seen)
             type == BfList(inner, N)
  <1>1. N \in Nat /\ Items(type) = Items(BfList(inner, n))
    BY DEF Many, Items, BfList
  <1>2. type.k = "list" /\ type.inner = inner /\ type.n = N
    BY DEF BfList
  <1> HIDE DEF type
  <1>3. PICK v, to : r = <<v, to>> /\ ListComesBack(inner, n, s, seen, v, to)
    BY ExactIsPlain, ListRead, Zenon
  <1>4. r[1] = v /\ r[2] = to
    <2> HIDE DEF r
    <2> QED
      BY <1>3
  <1>5. /\ Onward(s, to) /\ v = [i \in 1..N |-> v[i]]
        /\ \A self : WriteEach(Items(type), v, self) = <<Part(s.bits, s.pos, to.pos)>>
                     <=> \A i \in 1..N : ~Loses(inner, v[i], self)
    BY <1>1, <1>3, Zenon DEF ListComesBack
  <1>6. \A i \in 1..N : v[i] \in X /\ \A self : ~Loses(inner, v[i], self)
    BY <1>3, Zenon DEF ListComesBack, Exact
  <1> HIDE DEF r, N
  <1>7. v \in Seq(X) /\ Len(v) = N /\ DOMAIN v = 1..N
    <2>1. \A i \in 1..N : v[i] \in X
      BY <1>6
    <2>2. v \in [1..N -> X]
      BY <1>5, <2>1
    <2> QED
      BY <1>1, <2>2
  <1>8. ASSUME NEW self
        PROVE  Write(type, v, self) = <<Part(s.bits, s.pos, to.pos)>> /\ ~Loses(type, v, self)
    <2>1. Write(type, v, self) = IF Len(v) # N THEN Raises ELSE WriteEach(Items(type), v, self)
      BY <1>2, ListKind, Zenon
    <2>2. Loses(type, v, self) <=> \E i \in DOMAIN v : Loses(inner, v[i], self)
      BY <1>2, ListKind, Zenon
    <2> QED
      BY <1>5, <1>6, <1>7, <2>1, <2>2, Zenon
  <1> QED
    BY <1>4, <1>5, <1>7, <1>8, Zenon DEF r, type, N

\* What a mapped type does, in terms of the type inside.
LEMMA MapOf ==
  ASSUME Recursion, NEW inner, NEW vm
  PROVE  /\ \A stream, self :
              Read(BfMap(inner, vm), stream, self) =
                LET r == Read(inner, stream, self)
                    v == IF r = Raises THEN Raises ELSE Forward(vm, r[1])
                IN IF v = Raises THEN Raises ELSE <<v[1], r[2]>>
         /\ \A value, self :
              Write(BfMap(inner, vm), value, self) =
                LET y == Back(vm, value)
                IN IF y = Raises THEN Raises ELSE Write(inner, y[1], self)
         /\ \A value, self : Loses(BfMap(inner, vm), value, self) <=> LosesValue(vm, value)
  <1> DEFINE type == BfMap(inner, vm)
  <1>1. type.k = "map" /\ type.inner = inner /\ type.vm = vm
    BY DEF BfMap
  <1> HIDE DEF type
  <1>2. ASSUME NEW stream, NEW self
        PROVE  Read(type, stream, self) =
          LET r == Read(inner, stream, self)
              v == IF r = Raises THEN Raises ELSE Forward(vm, r[1])
          IN IF v = Raises THEN Raises ELSE <<v[1], r[2]>>
    BY <1>1, MapKind, Zenon
  <1>3. ASSUME NEW value, NEW self
        PROVE  Write(type, value, self) =
          LET y == Back(vm, value)
          IN IF y = Raises THEN Raises ELSE Write(inner, y[1], self)
    BY <1>1, MapKind, Zenon
  <1>4. ASSUME NEW value, NEW self
        PROVE  Loses(type, value, self) <=> LosesValue(vm, value)
    BY <1>1, MapKind, Zenon
  <1> QED
    BY <1>2, <1>3, <1>4, Zenon DEF type

-----------------------------------------------------------------------------
\* Integers of n bits.
LEMMA IntExact ==
  ASSUME Recursion, NEW n \in Nat \ {0}
  PROVE  Exact(BfInt(n), 0..2^n - 1)
  <1> DEFINE vm == [m |-> "int", n |-> n]
             Y == 0..2^n - 1
  <1>1. vm.m = "int" /\ vm.n = n
    OBVIOUS
  <1> HIDE DEF vm
  <1>2. Faithful(vm, Words(n), Y)
    <2> SUFFICES ASSUME NEW x \in Words(n), Forward(vm, x) # Raises
                 PROVE  LET f == Forward(vm, x)
                        IN f[1] \in Y /\ ~LosesValue(vm, f[1]) /\ Back(vm, f[1]) = <<x>>
      BY Zenon DEF Faithful
    <2>1. Forward(vm, x) = <<ToInt(x)>>
      BY <1>1, Zenon DEF Forward
    <2>2. x \in Seq(Bit) /\ Len(x) = n
      BY DEF Words
    <2>3. ToInt(x) \in Nat /\ ToInt(x) < 2^n
      BY <2>2, ToIntIsBounded, Zenon
    <2>4. FromInt(ToInt(x), n) = <<x>>
      BY <2>2, BitsComeBack, Zenon
    <2>5. \A y : Back(vm, y) = FromInt(y, n)
      BY <1>1, Zenon DEF Back
    <2>6. \A y : ~LosesValue(vm, y)
      BY <1>1 DEF LosesValue
    <2>7. ToInt(x) \in Y
      <3>1. 2^n \in Nat
        BY TwoPowers
      <3> QED
        BY <2>3, <3>1
    <2> HIDE DEF Y
    <2> QED
      BY <2>1, <2>4, <2>5, <2>6, <2>7
  <1>3. Exact(BfMap(BfBits(n), vm), Y)
    BY <1>2, BitsExact, MapExact, Zenon
  <1> QED
    BY <1>3, Zenon DEF BfInt, vm

Byte == 0..2^8 - 1

\* Bytes read, for any number of them: range(n) is empty for n < 0.
LEMMA BytesRead ==
  ASSUME Recursion, NEW n \in Int, NEW s \in Streams, NEW seen, Read(BfBytes(n), s, seen) # Raises
  PROVE  LET r == Read(BfBytes(n), s, seen)
         IN /\ Onward(s, r[2]) /\ r[1] = Bytes(r[1].v) /\ r[1].k = "bytes"
            /\ r[1].v \in Seq(Byte) /\ Len(r[1].v) = Many(n)
            /\ \A self : Write(BfBytes(Many(n)), r[1], self) = <<Part(s.bits, s.pos, r[2].pos)>>
  <1> DEFINE vm == [m |-> "bytes"]
             inner == BfList(BfInt(8), n)
             type == BfMap(inner, vm)
             r == Read(type, s, seen)
             i == Read(inner, s, seen)
             N == Many(n)
             again == BfMap(BfList(BfInt(8), N), vm)
  <1>1. vm.m = "bytes"
    OBVIOUS
  <1>2. BfBytes(n) = type /\ BfBytes(N) = again
    BY Zenon DEF BfBytes
  <1> HIDE DEF vm, type, inner, again
  <1>3. \A x : Forward(vm, x) = <<Bytes(x)>>
    BY <1>1, Zenon DEF Forward
  <1>4. \A y : Back(vm, y) = <<y.v>>
    BY <1>1, Zenon DEF Back
  <1>5. r # Raises
    BY <1>2, Zenon
  <1>6. r = LET v == IF i = Raises THEN Raises ELSE Forward(vm, i[1])
            IN IF v = Raises THEN Raises ELSE <<v[1], i[2]>>
    BY MapOf, ZenonT(60) DEF type
  <1>7. i # Raises /\ r = <<Forward(vm, i[1])[1], i[2]>>
    BY <1>5, <1>6, Zenon
  <1>8. /\ Onward(s, i[2]) /\ i[1] \in Seq(Byte) /\ Len(i[1]) = N
        /\ \A self : Write(BfList(BfInt(8), N), i[1], self) = <<Part(s.bits, s.pos, i[2].pos)>>
    <2>1. Exact(BfInt(8), Byte)
      <3>1. 8 \in Nat \ {0}
        OBVIOUS
      <3> QED
        BY <3>1, IntExact, Zenon DEF Byte
    <2> QED
      BY <1>7, <2>1, ListExact, ZenonT(60) DEF inner
  <1> HIDE DEF r, i, N
  <1>9. r[1] = Bytes(i[1]) /\ r[2] = i[2]
    BY <1>3, <1>7
  <1>10. Bytes(i[1]).v = i[1] /\ Bytes(i[1]).k = "bytes"
    BY DEF Bytes
  <1>11. ASSUME NEW self
         PROVE  Write(again, Bytes(i[1]), self) = <<Part(s.bits, s.pos, i[2].pos)>>
    <2> DEFINE value == Bytes(i[1])
               list == BfList(BfInt(8), N)
    <2>1. Write(BfMap(list, vm), value, self) =
            LET y == Back(vm, value)
            IN IF y = Raises THEN Raises ELSE Write(list, y[1], self)
      <3> HIDE DEF value, list
      <3> QED
        BY MapOf
    <2>2. Back(vm, Bytes(i[1])) # Raises /\ Back(vm, Bytes(i[1]))[1] = i[1]
      BY <1>4, <1>10 DEF Raises
    <2> QED
      BY <1>8, <2>1, <2>2, Zenon DEF again
  <1>12. /\ Onward(s, r[2]) /\ r[1] = Bytes(r[1].v) /\ r[1].k = "bytes"
         /\ r[1].v \in Seq(Byte) /\ Len(r[1].v) = N
    BY <1>8, <1>9, <1>10
  <1>13. \A self : Write(again, r[1], self) = <<Part(s.bits, s.pos, r[2].pos)>>
    BY <1>9, <1>11
  <1> QED
    BY <1>2, <1>12, <1>13, Zenon DEF r, N

\* Bytes come back, any number of them.
LEMMA BytesExact ==
  ASSUME Recursion, NEW n \in Nat
  PROVE  Exact(BfBytes(n), {Bytes(b) : b \in {c \in Seq(Byte) : Len(c) = n}})
  <1> DEFINE X == {Bytes(b) : b \in {c \in Seq(Byte) : Len(c) = n}}
  <1>1. Many(n) = n /\ n \in Int
    BY DEF Many
  <1>2. ASSUME NEW s \in Streams, NEW seen, NEW self, Read(BfBytes(n), s, seen) # Raises
        PROVE  LET r == Read(BfBytes(n), s, seen)
               IN /\ Onward(s, r[2]) /\ r[1] \in X /\ ~Loses(BfBytes(n), r[1], self)
                  /\ Write(BfBytes(n), r[1], self) = <<Part(s.bits, s.pos, r[2].pos)>>
    <2> DEFINE r == Read(BfBytes(n), s, seen)
    <2>1. /\ Onward(s, r[2]) /\ r[1] = Bytes(r[1].v)
          /\ r[1].v \in Seq(Byte) /\ Len(r[1].v) = Many(n)
          /\ \A me : Write(BfBytes(Many(n)), r[1], me) = <<Part(s.bits, s.pos, r[2].pos)>>
      BY <1>1, <1>2, BytesRead, Zenon
    <2>2. ~Loses(BfBytes(n), r[1], self)
      <3>1. BfBytes(n).k = "map" /\ BfBytes(n).vm.m = "bytes"
        BY DEF BfBytes, BfMap
      <3>2. Loses(BfBytes(n), r[1], self) <=> LosesValue(BfBytes(n).vm, r[1])
        BY <3>1, MapKind, Zenon
      <3>3. \A y : ~LosesValue(BfBytes(n).vm, y)
        BY <3>1 DEF LosesValue
      <3> QED
        BY <3>2, <3>3, Zenon
    <2> HIDE DEF r
    <2>3. r[1] \in X
      BY <1>1, <2>1
    <2>4. Write(BfBytes(n), r[1], self) = <<Part(s.bits, s.pos, r[2].pos)>>
      BY <1>1, <2>1, Zenon
    <2> QED
      BY <2>1, <2>2, <2>3, <2>4, Zenon DEF r
  <1> QED
    BY <1>2, Zenon DEF Exact

-----------------------------------------------------------------------------
\* A nested object whose fields come back comes back.
LEMMA BitfieldPlain ==
  ASSUME Recursion, NEW fields, FieldsComeBack(fields), NEW n \in Nat
  PROVE  Plain(BfBitfield(fields, n))
  <1> DEFINE type == BfBitfield(fields, n)
  <1>1. type.k = "bitfield" /\ type.n = n
    BY DEF BfBitfield
  <1> HIDE DEF type
  <1> SUFFICES ASSUME NEW seen, NEW self, NEW s \in Streams, Read(type, s, seen) # Raises
               PROVE  LET r == Read(type, s, seen)
                          w == Write(type, r[1], self)
                      IN /\ Onward(s, r[2])
                         /\ Fits(w, r[2].pos - s.pos)
                         /\ w = <<Part(s.bits, s.pos, r[2].pos)>> <=> ~Loses(type, r[1], self)
    BY Zenon DEF Plain, ComesBack, type
  <1> DEFINE r == Read(type, s, seen)
             bits == ToBits(r[1])
  <1>2. /\ Onward(s, r[2]) /\ r[2].pos = s.pos + n
        /\ Fits(bits, n)
        /\ bits = <<Part(s.bits, s.pos, r[2].pos)>> <=> ~ObjectLoses(r[1])
    BY BitfieldRead, Zenon DEF type
  <1>3. Write(type, r[1], self) = IF bits = Raises THEN Raises ELSE IF Len(bits[1]) # n THEN Raises ELSE bits
    BY <1>1, BitfieldKind, Zenon
  <1>4. Loses(type, r[1], self) <=> ObjectLoses(r[1])
    BY <1>1, BitfieldKind, Zenon
  <1> HIDE DEF r, bits
  <1>5. r[2].pos - s.pos = n
    <2>1. s.pos \in Nat
      BY DEF Streams
    <2> QED
      BY <1>2, <2>1
  <1>6. Write(type, r[1], self) = bits
    <2>1. CASE bits = Raises
      BY <1>3, <2>1, Zenon
    <2>2. CASE bits # Raises
      <3>1. PICK b \in Seq(Bit) : Len(b) = n /\ bits = <<b>>
        BY <1>2, <2>2, Zenon DEF Fits
      <3>2. bits[1] = b
        BY <3>1
      <3> QED
        BY <1>3, <2>2, <3>1, <3>2, Zenon
    <2> QED
      BY <2>1, <2>2
  <1> QED
    BY <1>2, <1>4, <1>5, <1>6, Zenon DEF r

\* A dynamic field comes back when writing chooses the type that reading chose.
LEMMA DynComesBack ==
  ASSUME Recursion, NEW fn, NEW seen, NEW self,
         \A n \in Nat : /\ Discriminate(fn, seen, n) = Discriminate(fn, self, 0)
                        /\ Discriminate(fn, seen, n) # Raises => Plain(Discriminate(fn, seen, n)[1])
  PROVE  ComesBack(BfDyn(fn), seen, self)
  <1> DEFINE type == BfDyn(fn)
             chosen == Discriminate(fn, self, 0)
  <1>1. type.k = "dyn" /\ type.fn = fn
    BY DEF BfDyn
  <1> HIDE DEF type
  <1> SUFFICES ASSUME NEW s \in Streams, Read(type, s, seen) # Raises
               PROVE  LET r == Read(type, s, seen)
                          w == Write(type, r[1], self)
                      IN /\ Onward(s, r[2])
                         /\ Fits(w, r[2].pos - s.pos)
                         /\ w = <<Part(s.bits, s.pos, r[2].pos)>> <=> ~Loses(type, r[1], self)
    BY Zenon DEF ComesBack, type
  <1>2. Remaining(s) \in Nat
    BY DEF Remaining, Streams
  <1>3. Discriminate(fn, seen, Remaining(s)) = chosen
    BY <1>2, Zenon
  <1>4. Read(type, s, seen) = IF chosen = Raises THEN Raises ELSE Read(chosen[1], s, seen)
    BY <1>1, <1>3, DynKind
  <1>5. chosen # Raises /\ Read(type, s, seen) = Read(chosen[1], s, seen)
    BY <1>4, Zenon
  <1>6. Plain(chosen[1])
    BY <1>2, <1>3, <1>5, Zenon
  <1> DEFINE r == Read(type, s, seen)
  <1>7. Write(type, r[1], self) = Write(chosen[1], r[1], self)
    <2>1. Write(type, r[1], self) = IF chosen = Raises THEN Raises ELSE Write(chosen[1], r[1], self)
      BY <1>1, DynKind, Zenon
    <2> QED
      BY <1>5, <2>1, Zenon
  <1>8. Loses(type, r[1], self) <=> Loses(chosen[1], r[1], self)
    BY <1>1, DynKind, Zenon
  <1>9. ComesBack(chosen[1], seen, self)
    BY <1>6, Zenon DEF Plain
  <1> HIDE DEF chosen
  <1> QED
    BY <1>5, <1>7, <1>8, <1>9, Zenon DEF ComesBack

\* The types that bf_dyn_n chooses among: the value tells how to write it.
Chosen(type) == \/ \E fields, n : type = BfBitfield(fields, n) /\ FieldsComeBack(fields) /\ n \in Nat
                \/ \E n \in Int : type = BfBytes(n)
                \/ type = BfNone

\* A dynamic field is written as what it holds: without asking its function again.
LEMMA DynNComesBack ==
  ASSUME Recursion, NEW fn, NEW seen, NEW self,
         \A n \in Nat : Discriminate(fn, seen, n) # Raises => Chosen(Discriminate(fn, seen, n)[1])
  PROVE  ComesBack(BfDynN(fn), seen, self)
  <1> DEFINE type == BfDynN(fn)
  <1>1. type.k = "dynN" /\ type.fn = fn
    BY DEF BfDynN
  <1> HIDE DEF type
  <1> SUFFICES ASSUME NEW s \in Streams, Read(type, s, seen) # Raises
               PROVE  LET r == Read(type, s, seen)
                          w == Write(type, r[1], self)
                      IN /\ Onward(s, r[2])
                         /\ Fits(w, r[2].pos - s.pos)
                         /\ w = <<Part(s.bits, s.pos, r[2].pos)>> <=> ~Loses(type, r[1], self)
    BY Zenon DEF ComesBack, type
  <1>2. Remaining(s) \in Nat
    BY DEF Remaining, Streams
  <1> DEFINE all == Discriminate(fn, seen, Remaining(s))
             T == all[1]
             r == Read(type, s, seen)
  <1>3. r = IF all = Raises THEN Raises ELSE Read(T, s, seen)
    BY <1>1, DynNKind, Zenon
  <1>4. all # Raises /\ r = Read(T, s, seen) /\ r # Raises
    BY <1>3, Zenon
  <1>5. Chosen(T)
    BY <1>2, <1>4, Zenon
  <1> DEFINE v == r[1]
             part == Part(s.bits, s.pos, r[2].pos)
  <1>6. /\ v.k = "bitfield" => Write(type, v, self) = ToBits(v)
        /\ v.k = "bytes" => Write(type, v, self) = Write(BfBytes(Len(v.v)), v, self)
        /\ v.k = "none" => Write(type, v, self) = << <<>> >>
        /\ Loses(type, v, self) <=> v.k = "bitfield" /\ ObjectLoses(v)
    <2> HIDE DEF v
    <2> QED
      BY <1>1, DynNKind, ZenonT(60)
  <1>7. ASSUME NEW fields, FieldsComeBack(fields), NEW n \in Nat, T = BfBitfield(fields, n)
        PROVE  /\ Onward(s, r[2]) /\ Fits(Write(type, v, self), r[2].pos - s.pos)
               /\ Write(type, v, self) = <<part>> <=> ~Loses(type, v, self)
    <2>1. /\ v.k = "bitfield" /\ Onward(s, r[2]) /\ r[2].pos = s.pos + n
          /\ Fits(ToBits(v), n)
          /\ ToBits(v) = <<part>> <=> ~ObjectLoses(v)
      <3>1. r = Read(BfBitfield(fields, n), s, seen) /\ Read(BfBitfield(fields, n), s, seen) # Raises
        BY <1>4, <1>7, Zenon
      <3> HIDE DEF r
      <3> QED
        BY <1>7, <3>1, BitfieldRead, ZenonT(60)
    <2> HIDE DEF r, v, part, T
    <2>2. r[2].pos - s.pos = n
      <3>1. s.pos \in Nat
        BY DEF Streams
      <3> QED
        BY <2>1, <3>1
    <2> QED
      BY <1>6, <2>1, <2>2, Zenon
  <1>8. ASSUME NEW n \in Int, T = BfBytes(n)
        PROVE  /\ Onward(s, r[2]) /\ Fits(Write(type, v, self), r[2].pos - s.pos)
               /\ Write(type, v, self) = <<part>> <=> ~Loses(type, v, self)
    <2>1. /\ Onward(s, r[2]) /\ v.k = "bytes" /\ Len(v.v) = Many(n)
          /\ Write(BfBytes(Many(n)), v, self) = <<part>>
      BY <1>4, <1>8, BytesRead, ZenonT(60)
    <2>2. Fits(<<part>>, r[2].pos - s.pos)
      BY <2>1, PartOnward, Zenon
    <2> HIDE DEF r, v, part, T
    <2>3. v.k # "bitfield"
      BY <2>1
    <2> QED
      BY <1>6, <2>1, <2>2, <2>3, Zenon
  <1>9. ASSUME T = BfNone
        PROVE  /\ Onward(s, r[2]) /\ Fits(Write(type, v, self), r[2].pos - s.pos)
               /\ Write(type, v, self) = <<part>> <=> ~Loses(type, v, self)
    <2>1. r = <<None, s>> /\ None.k = "none"
      BY <1>4, <1>9, NonePlain, Zenon
    <2> HIDE DEF r, T, all
    <2>2. v = None /\ r[2] = s
      BY <2>1
    <2>3. Write(type, v, self) = << <<>> >> /\ ~Loses(type, v, self)
      <3>1. v.k = "none" /\ v.k # "bitfield"
        BY <2>1, <2>2
      <3> HIDE DEF v
      <3> QED
        BY <1>6, <3>1, Zenon
    <2>4. /\ s.bits \in Seq(Bit) /\ s.pos \in Nat /\ s.pos <= Len(s.bits) /\ s.pos <= s.pos
          /\ Onward(s, s) /\ s.pos - s.pos = 0
      BY DEF Streams, Onward
    <2>5. Part(s.bits, s.pos, s.pos) \in Seq(Bit) /\ Len(Part(s.bits, s.pos, s.pos)) = s.pos - s.pos
      BY <2>4, PartIsOfBits, Zenon
    <2>6. Part(s.bits, s.pos, s.pos) = <<>>
      BY <2>4, <2>5
    <2>7. part = <<>> /\ Fits(<<part>>, r[2].pos - s.pos)
      BY <2>2, <2>5, <2>6, Zenon DEF Fits
    <2> QED
      BY <2>2, <2>3, <2>4, <2>7, Zenon
  <1> HIDE DEF r, v, part, T
  <1>10. /\ Onward(s, r[2]) /\ Fits(Write(type, v, self), r[2].pos - s.pos)
         /\ Write(type, v, self) = <<part>> <=> ~Loses(type, v, self)
    BY <1>5, <1>7, <1>8, <1>9, Zenon DEF Chosen
  <1> QED
    BY <1>10, Zenon DEF r, v, part

-----------------------------------------------------------------------------
\* The mappers that lose nothing.
LEMMA BoolFaithful ==
  Faithful([m |-> "bool"], 0..2^1 - 1, BOOLEAN)
  <1> DEFINE vm == [m |-> "bool"]
  <1>1. vm.m = "bool"
    OBVIOUS
  <1> HIDE DEF vm
  <1> SUFFICES ASSUME NEW x \in 0..2^1 - 1, Forward(vm, x) # Raises
               PROVE  LET f == Forward(vm, x)
                      IN f[1] \in BOOLEAN /\ ~LosesValue(vm, f[1]) /\ Back(vm, f[1]) = <<x>>
    BY Zenon DEF Faithful, vm
  <1>2. Forward(vm, x) = <<x = 1>>
    BY <1>1, Zenon DEF Forward
  <1>3. \A y : Back(vm, y) = <<IF y THEN 1 ELSE 0>>
    BY <1>1, Zenon DEF Back
  <1>4. \A y : ~LosesValue(vm, y)
    BY <1>1 DEF LosesValue
  <1>5. \A b : <<b>>[1] = b
    OBVIOUS
  <1>6. Forward(vm, x)[1] = (x = 1)
    BY <1>2, <1>5, Zenon
  <1>7. (x = 1) \in BOOLEAN
    BY Zenon
  <1>8. Back(vm, (x = 1)) = <<x>>
    <2>1. x # 1 => x = 0
      OBVIOUS
    <2>2. Back(vm, (x = 1)) = <<IF x = 1 THEN 1 ELSE 0>>
      BY <1>3, Zenon
    <2>3. x = IF x = 1 THEN 1 ELSE 0
      BY <2>1, Zenon
    <2> QED
      BY <2>2, <2>3, Zenon
  <1> QED
    BY <1>4, <1>6, <1>7, <1>8, Zenon

\* An enumeration without _missing_ keeps the value it knows.
LEMMA EnumFaithful ==
  ASSUME NEW values, NEW X
  PROVE  Faithful([m |-> "enum", values |-> values, missing |-> Raises], X, X \cap values)
  <1> DEFINE vm == [m |-> "enum", values |-> values, missing |-> Raises]
  <1>1. vm.m = "enum" /\ vm.values = values /\ vm.missing = Raises
    OBVIOUS
  <1> HIDE DEF vm
  <1> SUFFICES ASSUME NEW x \in X, Forward(vm, x) # Raises
               PROVE  LET f == Forward(vm, x)
                      IN f[1] \in X \cap values /\ ~LosesValue(vm, f[1]) /\ Back(vm, f[1]) = <<x>>
    BY Zenon DEF Faithful, vm
  <1>2. Forward(vm, x) = IF x \in vm.values THEN <<x>> ELSE vm.missing
    BY <1>1, Zenon DEF Forward
  <1>3. \A y : Back(vm, y) = <<y>>
    BY <1>1, Zenon DEF Back
  <1>4. \A y : ~LosesValue(vm, y)
    BY <1>1 DEF LosesValue
  <1>5. Forward(vm, x) = <<x>> /\ x \in values
    BY <1>1, <1>2, Zenon
  <1> QED
    BY <1>3, <1>4, <1>5

\* A frequency, a voltage, a level: x times the unit, and back to the nearest.
LEMMA ScaleFaithful ==
  ASSUME NEW X \in SUBSET Nat, NEW by \in {1, 10}
  PROVE  Faithful([m |-> "scale", by |-> by], X, Nat)
  <1> DEFINE vm == [m |-> "scale", by |-> by]
  <1>1. vm.m = "scale" /\ vm.by = by
    OBVIOUS
  <1> HIDE DEF vm
  <1> SUFFICES ASSUME NEW x \in X, Forward(vm, x) # Raises
               PROVE  LET f == Forward(vm, x)
                      IN f[1] \in Nat /\ ~LosesValue(vm, f[1]) /\ Back(vm, f[1]) = <<x>>
    BY Zenon DEF Faithful, vm
  <1>2. Forward(vm, x) = <<x * by>>
    BY <1>1, Zenon DEF Forward
  <1>3. \A y : Back(vm, y) = <<Nearest(y, by)>>
    BY <1>1, Zenon DEF Back
  <1>4. \A y : ~LosesValue(vm, y)
    BY <1>1 DEF LosesValue
  <1>5. x * by \in Nat /\ Nearest(x * by, by) = x
    <2>1. CASE by = 1
      <3>1. (x * 1) \div 1 = x /\ (x * 1) % 1 = 0
        OBVIOUS
      <3> QED
        BY <2>1, <3>1 DEF Nearest
    <2>2. CASE by = 10
      <3>1. (x * 10) \div 10 = x /\ (x * 10) % 10 = 0
        OBVIOUS
      <3> QED
        BY <2>2, <3>1 DEF Nearest
    <2> QED
      BY <2>1, <2>2
  <1> QED
    BY <1>2, <1>3, <1>4, <1>5

\* ChannelMapper: zero is no channel, the others are one less.
LEMMA LocChFaithful ==
  ASSUME NEW X \in SUBSET Nat
  PROVE  Faithful([m |-> "locCh"], X, Seq(Nat))
  <1> DEFINE vm == [m |-> "locCh"]
  <1>1. vm.m = "locCh"
    OBVIOUS
  <1> HIDE DEF vm
  <1> SUFFICES ASSUME NEW x \in X, Forward(vm, x) # Raises
               PROVE  LET f == Forward(vm, x)
                      IN f[1] \in Seq(Nat) /\ ~LosesValue(vm, f[1]) /\ Back(vm, f[1]) = <<x>>
    BY Zenon DEF Faithful, vm
  <1>2. Forward(vm, x) = IF x > 0 THEN << <<x - 1>> >> ELSE << <<>> >>
    BY <1>1, Zenon DEF Forward
  <1>3. \A y : Back(vm, y) = IF y = <<>> THEN <<0>> ELSE <<y[1] + 1>>
    BY <1>1, Zenon DEF Back
  <1>4. \A y : ~LosesValue(vm, y)
    BY <1>1 DEF LosesValue
  <1>5. CASE x > 0
    <2>1. Forward(vm, x)[1] = <<x - 1>> /\ x - 1 \in Nat /\ (x - 1) + 1 = x
      BY <1>2, <1>5
    <2>2. <<x - 1>> \in Seq(Nat) /\ <<x - 1>> # <<>> /\ <<x - 1>>[1] = x - 1
      BY <2>1
    <2>3. Back(vm, <<x - 1>>) = <<x>>
      BY <1>3, <2>1, <2>2
    <2> QED
      BY <1>4, <2>1, <2>2, <2>3
  <1>6. CASE ~(x > 0)
    <2>1. Forward(vm, x)[1] = <<>> /\ x = 0
      BY <1>2, <1>6
    <2>2. <<>> \in Seq(Nat) /\ Back(vm, <<>>) = <<0>>
      BY <1>3
    <2> QED
      BY <1>4, <2>1, <2>2
  <1> QED
    BY <1>5, <1>6

\* Two's complement over its own width.
LEMMA SignedFaithful ==
  ASSUME NEW bits \in Nat \ {0}, NEW X \in SUBSET (0..2^bits - 1)
  PROVE  Faithful([m |-> "signed", bits |-> bits], X, -2^(bits - 1)..2^(bits - 1) - 1)
  <1> DEFINE vm == [m |-> "signed", bits |-> bits]
             top == 2^bits
             half == 2^(bits - 1)
  <1>1. vm.m = "signed" /\ vm.bits = bits
    OBVIOUS
  <1> HIDE DEF vm
  <1> SUFFICES ASSUME NEW x \in X, Forward(vm, x) # Raises
               PROVE  LET f == Forward(vm, x)
                      IN f[1] \in -half..half - 1 /\ ~LosesValue(vm, f[1]) /\ Back(vm, f[1]) = <<x>>
    BY Zenon DEF Faithful, vm
  <1>2. Forward(vm, x) = IF x >= half THEN <<x - top>> ELSE <<x>>
    BY <1>1, Zenon DEF Forward
  <1>3. \A y : Back(vm, y) = IF y < 0 THEN <<y + top>> ELSE <<y>>
    BY <1>1, Zenon DEF Back
  <1>4. \A y : ~LosesValue(vm, y)
    BY <1>1 DEF LosesValue
  <1>5. top \in Nat /\ half \in Nat /\ top = 2 * half
    <2>1. bits - 1 \in Nat /\ (bits - 1) + 1 = bits
      OBVIOUS
    <2> QED
      BY <2>1, TwoPowers
  <1> HIDE DEF top, half
  <1>6. x \in Nat /\ x < top
    BY <1>5 DEF top
  <1>7. CASE x >= half
    <2>1. Forward(vm, x)[1] = x - top /\ x - top \in -half..half - 1 /\ x - top < 0 /\ (x - top) + top = x
      BY <1>2, <1>5, <1>6, <1>7
    <2> QED
      BY <1>3, <1>4, <2>1
  <1>8. CASE ~(x >= half)
    <2>1. Forward(vm, x)[1] = x /\ ~(x < 0) /\ x \in -half..half - 1
      BY <1>2, <1>5, <1>6, <1>8
    <2> QED
      BY <1>3, <1>4, <1>6, <2>1
  <1> QED
    BY <1>7, <1>8

\* A magic value stands for None, and None for it.
LEMMA OptionalFaithful ==
  ASSUME NEW X, NEW magic
  PROVE  Faithful([m |-> "optional", magic |-> magic], X, {<<x>> : x \in X} \cup {<<>>})
  <1> DEFINE vm == [m |-> "optional", magic |-> magic]
             Y == {<<x>> : x \in X} \cup {<<>>}
  <1>1. vm.m = "optional" /\ vm.magic = magic
    OBVIOUS
  <1> HIDE DEF vm
  <1> SUFFICES ASSUME NEW x \in X, Forward(vm, x) # Raises
               PROVE  LET f == Forward(vm, x)
                      IN f[1] \in Y /\ ~LosesValue(vm, f[1]) /\ Back(vm, f[1]) = <<x>>
    BY Zenon DEF Faithful, vm
  <1>2. Forward(vm, x) = IF x # magic THEN << <<x>> >> ELSE << <<>> >>
    BY <1>1, Zenon DEF Forward
  <1>3. \A y : Back(vm, y) = IF y # <<>> THEN <<y[1]>> ELSE <<magic>>
    BY <1>1, Zenon DEF Back
  <1>4. \A y : ~LosesValue(vm, y)
    BY <1>1 DEF LosesValue
  <1>5. CASE x # magic
    <2>1. Forward(vm, x)[1] = <<x>>
      BY <1>2, <1>5
    <2>2. <<x>> # <<>> /\ <<x>>[1] = x
      OBVIOUS
    <2>3. Back(vm, <<x>>) = <<x>>
      BY <1>3, <2>2
    <2> QED
      BY <1>4, <2>1, <2>3
  <1>6. CASE x = magic
    <2>1. Forward(vm, x)[1] = <<>>
      BY <1>2, <1>6
    <2>2. Back(vm, <<>>) = <<x>>
      BY <1>3, <1>6
    <2> QED
      BY <1>4, <2>1, <2>2
  <1> QED
    BY <1>5, <1>6

-----------------------------------------------------------------------------
\* The ranges of sub-audible codes and tones.
LEMMA WithinRange ==
  ASSUME NEW x, NEW range
  PROVE  /\ x \in range => Within(range, x) = <<x>>
         /\ x \notin range => Within(range, x) = Raises
  BY Zenon DEF Within

\* DCS codes and tones do not overlap, and zero is neither.
LEMMA CodesAndTones ==
  ASSUME NEW x \in Nat
  PROVE  /\ x \in DcsCodes => x # 0
         /\ x # 0 /\ x \notin DcsCodes => (x \in Tones <=> ~(x > 25410))
  BY DEF DcsCodes, Tones

\* SubAudioMap, without CASE.
LEMMA SubAudioIs ==
  ASSUME NEW x
  PROVE  /\ x = 0 /\ x \notin DcsCodes => SubAudioForward(x) = <<"none">>
         /\ x # 0 /\ x \in DcsCodes => SubAudioForward(x) = <<"DCS", x>>
         /\ x # 0 /\ x \notin DcsCodes => SubAudioForward(x) = <<"tone", x>>
  BY DEF SubAudioForward

\* The mappers that lose something.  A tone beyond 254.1 Hz is refused.
LEMMA SubAudioPlain ==
  ASSUME Recursion
  PROVE  Plain(SubAudio)
  <1> DEFINE vm == [m |-> "subAudio"]
             X == 0..2^16 - 1
  <1>1. vm.m = "subAudio"
    OBVIOUS
  <1> HIDE DEF vm
  <1>2. FaithfulOrChanged(vm, BfInt(16), X)
    <2> SUFFICES ASSUME NEW x \in X, Forward(vm, x) # Raises
                 PROVE  LET f == Forward(vm, x)
                        IN \/ ~LosesValue(vm, f[1]) /\ Back(vm, f[1]) = <<x>>
                           \/ /\ LosesValue(vm, f[1])
                              /\ Back(vm, f[1]) # Raises =>
                                   \A self : Changed(Write(BfInt(16), Back(vm, f[1])[1], self),
                                                    Write(BfInt(16), x, self))
      BY Zenon DEF FaithfulOrChanged
    <2> DEFINE y == SubAudioForward(x)
    <2>1. Forward(vm, x) = <<y>>
      BY <1>1, Zenon DEF Forward
    <2>2. Back(vm, y) = SubAudioBack(y)
      BY <1>1, Zenon DEF Back
    <2>3. LosesValue(vm, y) <=> y[1] = "tone" /\ y[2] > 25410
      BY <1>1 DEF LosesValue
    <2>4. x \in Int /\ x >= 0
      OBVIOUS
    <2>9. x \in Nat
      BY <2>4
    <2>10. /\ x \in DcsCodes => x # 0
           /\ x # 0 /\ x \notin DcsCodes => (x \in Tones <=> ~(x > 25410))
      BY <2>9, CodesAndTones
    <2>5. Forward(vm, x)[1] = y
      <3> HIDE DEF y
      <3> QED
        BY <2>1
    <2>6. CASE x = 0
      <3>1. y = <<"none">>
        BY <2>6, <2>10, SubAudioIs, SMT
      <3>2. y[1] = "none"
        BY <3>1
      <3> HIDE DEF y
      <3>3. SubAudioBack(y) = <<0>>
        BY <3>2, Zenon DEF SubAudioBack
      <3>4. ~LosesValue(vm, y)
        BY <2>3, <3>2
      <3> QED
        BY <2>2, <2>5, <2>6, <3>3, <3>4
    <2>7. CASE x \in DcsCodes
      <3>1. y = <<"DCS", x>>
        BY <2>7, <2>10, SubAudioIs, SMT
      <3>2. y[1] = "DCS" /\ y[2] = x
        BY <3>1
      <3> HIDE DEF y
      <3>3. SubAudioBack(y) = Within(DcsCodes, y[2])
        BY <3>2, Zenon DEF SubAudioBack
      <3>4. SubAudioBack(y) = <<x>>
        <4>1. Within(DcsCodes, x) = <<x>>
          BY <2>7, WithinRange, Zenon
        <4> QED
          BY <3>2, <3>3, <4>1, Zenon
      <3>5. ~LosesValue(vm, y)
        BY <2>3, <3>2
      <3> QED
        BY <2>2, <2>5, <3>4, <3>5
    <2>8. CASE x # 0 /\ x \notin DcsCodes
      <3>1. y = <<"tone", x>>
        BY <2>8, SubAudioIs, Zenon
      <3>2. y[1] = "tone" /\ y[2] = x
        BY <3>1
      <3> HIDE DEF y
      <3>3. SubAudioBack(y) = Within(Tones, y[2])
        BY <3>2, Zenon DEF SubAudioBack
      <3>4. CASE x \notin Tones
        <4>1. Within(Tones, x) = Raises
          BY <3>4, WithinRange, Zenon
        <4>2. SubAudioBack(y) = Raises
          BY <3>2, <3>3, <4>1, Zenon
        <4>3. LosesValue(vm, y)
          BY <2>3, <2>8, <2>10, <3>2, <3>4
        <4> QED
          BY <2>2, <2>5, <4>2, <4>3
      <3>5. CASE x \in Tones
        <4>1. Within(Tones, x) = <<x>>
          BY <3>5, WithinRange, Zenon
        <4>2. SubAudioBack(y) = <<x>>
          BY <3>2, <3>3, <4>1, Zenon
        <4>3. ~LosesValue(vm, y)
          BY <2>3, <2>8, <2>10, <3>2, <3>5
        <4> QED
          BY <2>2, <2>5, <4>2, <4>3
      <3> QED
        BY <3>4, <3>5
    <2> QED
      <3> HIDE DEF y, X, vm
      <3> QED
        BY <2>6, <2>7, <2>8
  <1>3. Exact(BfInt(16), X)
    <2>1. 16 \in Nat \ {0}
      OBVIOUS
    <2> QED
      BY <2>1, IntExact, Zenon
  <1>4. Plain(BfMap(BfInt(16), vm))
    <2> HIDE DEF X
    <2> QED
      BY <1>2, <1>3, MapPlain, Zenon
  <1> QED
    BY <1>4, Zenon DEF SubAudio, vm

\* An integer written is its bits, and no other's.
LEMMA IntWritten ==
  ASSUME Recursion, NEW n \in Nat \ {0}, NEW z \in 0..2^n - 1, NEW self
  PROVE  /\ \E b \in Seq(Bit) : Len(b) = n /\ Write(BfInt(n), z, self) = <<b>>
         /\ \A x \in 0..2^n - 1 : Write(BfInt(n), x, self) = Write(BfInt(n), z, self) => x = z
  <1> DEFINE vm == [m |-> "int", n |-> n]
             D == 0..2^n - 1
  <1>1. vm.m = "int" /\ vm.n = n
    OBVIOUS
  <1> HIDE DEF vm
  <1>2. 2^n \in Nat
    BY TwoPowers
  <1>3. ASSUME NEW x \in D
        PROVE  \E b \in Seq(Bit) : Len(b) = n /\ ToInt(b) = x /\ Write(BfInt(n), x, self) = <<b>>
    <2> DEFINE b == FromInt(x, n)[1]
    <2>1. x \in Int /\ x < 2^n /\ x % 2^n = x /\ ~(x >= 2^n) /\ ~(n <= 0)
      <3>1. x \in Nat /\ x < 2^n
        BY <1>2
      <3> HIDE DEF D
      <3> QED
        BY <1>2, <3>1
    <2>2. b \in Seq(Bit) /\ Len(b) = n /\ ToInt(b) = x
      <3>1. b \in Seq(Bit) /\ Len(b) = n /\ ToInt(b) = x % 2^n
        BY <2>1, IntegersWrap, Zenon
      <3> QED
        BY <2>1, <3>1, Zenon
    <2>3. FromInt(x, n) = <<b>>
      <3> DEFINE c == [i \in 1..n |-> (x \div 2^(n - i)) % 2]
      <3>1. FromInt(x, n) = <<c>>
        BY <2>1, Zenon DEF FromInt
      <3> HIDE DEF c
      <3> QED
        BY <3>1
    <2>4. Back(vm, x) = FromInt(x, n)
      BY <1>1, Zenon DEF Back
    <2> HIDE DEF b
    <2>5. Write(BfMap(BfBits(n), vm), x, self) = Write(BfBits(n), b, self)
      <3>1. Back(vm, x) # Raises /\ Back(vm, x)[1] = b
        BY <2>3, <2>4 DEF Raises
      <3>2. Write(BfMap(BfBits(n), vm), x, self) =
              LET y == Back(vm, x)
              IN IF y = Raises THEN Raises ELSE Write(BfBits(n), y[1], self)
        BY MapOf
      <3> QED
        BY <3>1, <3>2, Zenon
    <2>6. Write(BfBits(n), b, self) = <<b>>
      <3>1. BfBits(n).k = "bits" /\ BfBits(n).n = n
        BY DEF BfBits
      <3>2. Write(BfBits(n), b, self) = IF Len(b) # BfBits(n).n THEN Raises ELSE <<b>>
        BY <3>1, BitsKind
      <3> QED
        BY <2>2, <3>1, <3>2, Zenon
    <2>7. Write(BfInt(n), x, self) = <<b>>
      BY <2>5, <2>6, Zenon DEF BfInt, vm
    <2> QED
      BY <2>2, <2>7, Zenon
  <1>4. PICK b \in Seq(Bit) : Len(b) = n /\ ToInt(b) = z /\ Write(BfInt(n), z, self) = <<b>>
    BY <1>3, Zenon
  <1>5. \E c \in Seq(Bit) : Len(c) = n /\ Write(BfInt(n), z, self) = <<c>>
    BY <1>4, Zenon
  <1>6. ASSUME NEW x \in D, Write(BfInt(n), x, self) = Write(BfInt(n), z, self)
        PROVE  x = z
    <2>1. PICK c \in Seq(Bit) : Len(c) = n /\ ToInt(c) = x /\ Write(BfInt(n), x, self) = <<c>>
      BY <1>3, Zenon
    <2>2. b = c
      BY <1>4, <1>6, <2>1
    <2> QED
      BY <1>4, <2>1, <2>2, Zenon
  <1> QED
    BY <1>5, <1>6, Zenon

\* Another signed number is other bits.
LEMMA SignedWritten ==
  ASSUME Recursion, NEW n \in Nat \ {0}, NEW x \in -2^(n - 1)..2^(n - 1) - 1,
         NEW z \in -2^(n - 1)..2^(n - 1) - 1, x # z, NEW self
  PROVE  LET type == BfMap(BfInt(n), [m |-> "signed", bits |-> n])
         IN Changed(Write(type, z, self), Write(type, x, self))
  <1> DEFINE vm == [m |-> "signed", bits |-> n]
             type == BfMap(BfInt(n), vm)
             top == 2^n
             half == 2^(n - 1)
             U(y) == IF y < 0 THEN y + top ELSE y
  <1>1. vm.m = "signed" /\ vm.bits = n
    OBVIOUS
  <1>2. top \in Nat /\ half \in Nat /\ top = 2 * half
    <2>1. n - 1 \in Nat /\ (n - 1) + 1 = n
      OBVIOUS
    <2> QED
      BY <2>1, TwoPowers
  <1>3. x \in Int /\ z \in Int /\ -half <= x /\ x < half /\ -half <= z /\ z < half
    BY <1>2
  <1> HIDE DEF vm
  <1>4. \A y : Back(vm, y) = IF y < 0 THEN <<y + top>> ELSE <<y>>
    BY <1>1, Zenon DEF Back
  <1>5. \A y : Write(type, y, self) = LET u == Back(vm, y)
                                      IN IF u = Raises THEN Raises ELSE Write(BfInt(n), u[1], self)
    BY MapOf
  <1> HIDE DEF type, top, half
  <1>6. \A y : Back(vm, y) # Raises /\ Back(vm, y)[1] = U(y)
    BY <1>4 DEF Raises
  <1>7. \A y : Write(type, y, self) = Write(BfInt(n), U(y), self)
    BY <1>5, <1>6, Zenon
  <1>8. U(x) \in 0..top - 1 /\ U(z) \in 0..top - 1 /\ U(x) # U(z)
    BY <1>2, <1>3
  <1> HIDE DEF U
  <1>9. n \in Nat
    OBVIOUS
  <1>10. /\ \E b \in Seq(Bit) : Len(b) = n /\ Write(BfInt(n), U(z), self) = <<b>>
         /\ \A y \in 0..2^n - 1 : Write(BfInt(n), y, self) = Write(BfInt(n), U(z), self) => y = U(z)
    BY <1>8, <1>9, IntWritten, Zenon DEF top
  <1>11. /\ \E b \in Seq(Bit) : Len(b) = n /\ Write(BfInt(n), U(x), self) = <<b>>
         /\ \A y \in 0..2^n - 1 : Write(BfInt(n), y, self) = Write(BfInt(n), U(x), self) => y = U(x)
    BY <1>8, <1>9, IntWritten, Zenon DEF top
  <1>12. PICK b, c \in Seq(Bit) : /\ Len(b) = n /\ Write(BfInt(n), U(z), self) = <<b>>
                                  /\ Len(c) = n /\ Write(BfInt(n), U(x), self) = <<c>>
    BY <1>10, <1>11, Zenon
  <1>13. <<b>> # <<c>>
    BY <1>8, <1>10, <1>12, Zenon DEF top
  <1>14. \A m : Fits(<<c>>, m) => Fits(<<b>>, m)
    <2> SUFFICES ASSUME NEW m, Fits(<<c>>, m)
                 PROVE  Fits(<<b>>, m)
      OBVIOUS
    <2>1. <<c>> # Raises
      BY DEF Raises
    <2>2. PICK d \in Seq(Bit) : Len(d) = m /\ <<c>> = <<d>>
      BY <2>1, Zenon DEF Fits
    <2>3. c = d
      BY <2>2
    <2>4. Len(b) = m
      BY <1>12, <2>2, <2>3, Zenon
    <2> QED
      BY <2>4, Zenon DEF Fits
  <1>15. Changed(Write(BfInt(n), U(z), self), Write(BfInt(n), U(x), self))
    BY <1>12, <1>13, <1>14, Zenon DEF Changed
  <1>16. Changed(Write(type, z, self), Write(type, x, self))
    <2>1. /\ Write(type, z, self) = Write(BfInt(n), U(z), self)
          /\ Write(type, x, self) = Write(BfInt(n), U(x), self)
      BY <1>7
    <2> HIDE DEF type
    <2> QED
      BY <1>15, <2>1
  <1> QED
    BY <1>16 DEF type, vm

\* A coordinate that int() rounds to the next one is written as that one.
LEMMA DegreesPlain ==
  ASSUME Recursion
  PROVE  Plain(Degrees)
  <1> DEFINE n == 24
             inner == BfMap(BfInt(n), [m |-> "signed", bits |-> n])
             half == 2^(n - 1)
             X == -half..half - 1
             vm == [m |-> "degrees"]
  <1>1. n \in Nat \ {0} /\ n \in Nat /\ n - 2 \in Nat /\ (n - 2) + 1 = n - 1
    OBVIOUS
  <1>2. vm.m = "degrees"
    OBVIOUS
  <1>3. Degrees = BfMap(inner, vm)
    BY DEF Degrees
  <1> HIDE DEF n, vm
  <1>4. half \in Nat /\ half >= 2
    <2>1. 2^(n - 2) \in Nat /\ 2^(n - 2) > 0 /\ half = 2 * 2^(n - 2)
      BY <1>1, TwoPowers
    <2> HIDE DEF half
    <2> QED
      BY <2>1
  <1>5. Exact(inner, X)
    <2>1. Exact(BfInt(n), 0..2^n - 1)
      BY <1>1, IntExact, Zenon
    <2>2. Faithful([m |-> "signed", bits |-> n], 0..2^n - 1, X)
      BY <1>1, SignedFaithful
    <2> QED
      BY <2>1, <2>2, MapExact, Zenon
  <1>6. FaithfulOrChanged(vm, inner, X)
    <2> SUFFICES ASSUME NEW x \in X, Forward(vm, x) # Raises
                 PROVE  LET f == Forward(vm, x)
                        IN \/ ~LosesValue(vm, f[1]) /\ Back(vm, f[1]) = <<x>>
                           \/ /\ LosesValue(vm, f[1])
                              /\ Back(vm, f[1]) # Raises =>
                                   \A self : Changed(Write(inner, Back(vm, f[1])[1], self),
                                                     Write(inner, x, self))
      BY Zenon DEF FaithfulOrChanged
    <2> DEFINE z == IF x > 0 THEN x - 1 ELSE x + 1
    <2>1. Forward(vm, x) = <<x>>
      BY <1>2, Zenon DEF Forward
    <2>2. Forward(vm, x)[1] = x
      BY <2>1
    <2>3. Back(vm, x) = IF x \in Short THEN <<z>> ELSE <<x>>
      BY <1>2, Zenon DEF Back
    <2>4. LosesValue(vm, x) <=> x \in Short
      BY <1>2 DEF LosesValue
    <2>5. z \in X /\ x # z
      <3> HIDE DEF half
      <3> QED
        BY <1>4
    <2> HIDE DEF z
    <2>6. CASE x \in Short
      <3>1. Back(vm, x)[1] = z
        BY <2>3, <2>6
      <3>2. \A self : Changed(Write(inner, z, self), Write(inner, x, self))
        BY <1>1, <2>5, SignedWritten, Zenon
      <3> HIDE DEF inner
      <3> QED
        BY <2>2, <2>4, <2>6, <3>1, <3>2, Zenon
    <2>7. CASE x \notin Short
      BY <2>2, <2>3, <2>4, <2>7, Zenon
    <2> QED
      BY <2>6, <2>7
  <1> HIDE DEF inner, X
  <1> QED
    BY <1>3, <1>5, <1>6, MapPlain, Zenon

-----------------------------------------------------------------------------
\* The sequence of all, one after the other.
LEMMA FlattenSteps ==
  ASSUME NEW V, NEW C \in Seq(Seq(V)), Len(C) # 0
  PROVE  \E f : /\ f[1] = C[1]
                /\ \A i \in 2..Len(C) : f[i] = f[i - 1] \o C[i]
                /\ \A i \in 1..Len(C) : f[i] \in Seq(V)
                /\ FlattenSeq(C) = f[Len(C)]
  <1> DEFINE N == Len(C)
             Solves(f, m) == f = [i \in 1..m |-> IF i = 1 THEN C[i] ELSE f[i - 1] \o C[i]]
             flatten == CHOOSE f : Solves(f, N)
  <1>1. N \in Nat /\ N >= 1 /\ \A i \in 1..N : C[i] \in Seq(V)
    OBVIOUS
  <1>2. \E f : Solves(f, N)
    <2> DEFINE S == {m \in Nat : \E f : Solves(f, m)}
    <2>1. 0 \in S
      <3>1. Solves([i \in 1..0 |-> <<>>], 0)
        OBVIOUS
      <3> QED
        BY <3>1
    <2>2. ASSUME NEW m \in Nat, m \in S
          PROVE  m + 1 \in S
      <3>1. PICK f : Solves(f, m)
        BY <2>2
      <3> DEFINE last == IF m = 0 THEN C[1] ELSE f[m] \o C[m + 1]
                 g == [i \in 1..m + 1 |-> IF i = m + 1 THEN last ELSE f[i]]
      <3>2. ASSUME NEW i \in 1..m + 1
            PROVE  g[i] = IF i = 1 THEN C[i] ELSE g[i - 1] \o C[i]
        <4>1. \A j \in 1..m : f[j] = IF j = 1 THEN C[j] ELSE f[j - 1] \o C[j]
          BY <3>1
        <4>2. CASE i # m + 1
          <5>1. i \in 1..m /\ g[i] = f[i] /\ (i # 1 => g[i - 1] = f[i - 1])
            BY <4>2
          <5> HIDE DEF g
          <5> QED
            BY <4>1, <5>1
        <4>3. CASE i = m + 1 /\ m # 0
          <5>1. last = f[m] \o C[m + 1]
            BY <4>3
          <5> HIDE DEF last
          <5>2. g[i] = last /\ i - 1 = m /\ g[m] = f[m] /\ i # 1
            BY <4>3
          <5> HIDE DEF g
          <5> QED
            BY <4>3, <5>1, <5>2
        <4>4. CASE i = m + 1 /\ m = 0
          BY <4>4
        <4> QED
          BY <4>2, <4>3, <4>4
      <3>3. Solves(g, m + 1)
        BY <3>2
      <3> HIDE DEF g, Solves
      <3> QED
        BY <3>3
    <2> HIDE DEF S
    <2>3. N \in S
      BY <1>1, <2>1, <2>2, SetInduction
    <2> QED
      BY <2>3 DEF S
  <1>3. Solves(flatten, N)
    <2> HIDE DEF Solves
    <2> QED
      BY <1>2
  <1>4. FlattenSeq(C) = flatten[N]
    BY Zenon DEF FlattenSeq
  <1> HIDE DEF flatten
  <1>5. flatten[1] = C[1] /\ \A i \in 2..N : flatten[i] = flatten[i - 1] \o C[i]
    <2>1. \A i \in 1..N : flatten[i] = IF i = 1 THEN C[i] ELSE flatten[i - 1] \o C[i]
      BY <1>3
    <2> HIDE DEF N
    <2>2. 1 \in 1..N /\ \A i \in 2..N : i \in 1..N /\ i # 1
      BY <1>1
    <2> HIDE DEF Solves
    <2> QED
      BY <2>1, <2>2, Zenon
  <1>6. \A i \in 1..N : flatten[i] \in Seq(V)
    <2> DEFINE S == {m \in Nat : m + 1 <= N => flatten[m + 1] \in Seq(V)}
    <2> HIDE DEF N
    <2>1. 0 \in S
      BY <1>1, <1>5
    <2>2. ASSUME NEW m \in Nat, m \in S
          PROVE  m + 1 \in S
      <3> SUFFICES ASSUME (m + 1) + 1 <= N PROVE flatten[(m + 1) + 1] \in Seq(V)
        OBVIOUS
      <3>1. (m + 1) + 1 \in 2..N /\ (m + 1) + 1 \in 1..N /\ ((m + 1) + 1) - 1 = m + 1 /\ m + 1 <= N
        BY <1>1
      <3>2. flatten[(m + 1) + 1] = flatten[m + 1] \o C[(m + 1) + 1]
        BY <1>5, <3>1
      <3>3. flatten[m + 1] \in Seq(V) /\ C[(m + 1) + 1] \in Seq(V)
        BY <1>1, <2>2, <3>1
      <3>4. flatten[m + 1] \o C[(m + 1) + 1] \in Seq(V)
        BY <3>3, ConcatProperties, Zenon
      <3> QED
        BY <3>2, <3>4, Zenon
    <2> HIDE DEF S
    <2>3. \A m \in Nat : m \in S
      BY <2>1, <2>2, SetInduction
    <2> QED
      <3> SUFFICES ASSUME NEW i \in 1..N PROVE flatten[i] \in Seq(V)
        OBVIOUS
      <3>1. i - 1 \in Nat /\ (i - 1) + 1 = i /\ i <= N
        BY <1>1
      <3> QED
        BY <2>3, <3>1 DEF S
  <1> QED
    BY <1>4, <1>5, <1>6, Zenon

\* Where an element of two sequences joined comes from.
LEMMA JoinAt ==
  ASSUME NEW V, NEW F \in Seq(V), NEW G \in Seq(V), Len(G) = 1
  PROVE  (F \o G)[Len(F) + 1] = G[1]
  <1>1. Len(F) \in Nat
    OBVIOUS
  <1> QED
    BY <1>1, ConcatProperties

\* It is as long as there are characters when all have one byte, and longer when one
\* has more.
LEMMA FlattenLength ==
  ASSUME NEW V, NEW C \in Seq(Seq(V)), \A j \in 1..Len(C) : Len(C[j]) >= 1
  PROVE  /\ FlattenSeq(C) \in Seq(V)
         /\ (\E j \in 1..Len(C) : Len(C[j]) > 1) => Len(FlattenSeq(C)) > Len(C)
         /\ (\A j \in 1..Len(C) : Len(C[j]) = 1) => /\ Len(FlattenSeq(C)) = Len(C)
                                                     /\ \A j \in 1..Len(C) : C[j] = <<FlattenSeq(C)[j]>>
  <1>1. CASE Len(C) = 0
    BY <1>1 DEF FlattenSeq
  <1>2. CASE Len(C) # 0
    <2> DEFINE N == Len(C)
    <2>1. PICK f : /\ f[1] = C[1]
                   /\ \A i \in 2..N : f[i] = f[i - 1] \o C[i]
                   /\ \A i \in 1..N : f[i] \in Seq(V)
                   /\ FlattenSeq(C) = f[N]
      BY <1>2, FlattenSteps, Zenon
    <2>2. N \in Nat /\ N >= 1 /\ \A i \in 1..N : C[i] \in Seq(V) /\ Len(C[i]) \in Nat
      BY <1>2
    <2> DEFINE Upto(m) == /\ Len(f[m]) >= m
                          /\ (\E j \in 1..m : Len(C[j]) > 1) => Len(f[m]) > m
                          /\ (\A j \in 1..m : Len(C[j]) = 1) => /\ Len(f[m]) = m
                                                                 /\ \A j \in 1..m : C[j] = <<f[m][j]>>
               S == {m \in Nat : m + 1 <= N => Upto(m + 1)}
    <2> HIDE DEF N
    <2>3. 0 \in S
      <3>1. C[1] \in Seq(V) /\ Len(C[1]) >= 1 /\ (Len(C[1]) = 1 => C[1] = <<C[1][1]>>)
        BY <2>2 DEF N
      <3>2. \A j \in 1..1 : j = 1
        OBVIOUS
      <3>3. Upto(1)
        BY <2>1, <3>1, <3>2
      <3> QED
        BY <3>3
    <2>4. ASSUME NEW m \in Nat, m \in S
          PROVE  m + 1 \in S
      <3> SUFFICES ASSUME (m + 1) + 1 <= N PROVE Upto((m + 1) + 1)
        OBVIOUS
      <3> DEFINE p == m + 1
                 q == p + 1
      <3>1. p \in 1..N /\ q \in 1..N /\ q \in 2..N /\ q - 1 = p /\ p \in Nat /\ q = p + 1
        BY <2>2
      <3>2. Upto(p)
        BY <2>4, <3>1
      <3> HIDE DEF p, q
      <3>3. f[q] = f[p] \o C[q]
        BY <2>1, <3>1
      <3>4. f[p] \in Seq(V) /\ C[q] \in Seq(V) /\ Len(C[q]) >= 1
        BY <2>1, <2>2, <3>1 DEF N
      <3>5. Len(f[q]) = Len(f[p]) + Len(C[q]) /\ Len(f[p]) \in Nat /\ Len(C[q]) \in Nat
        BY <3>3, <3>4
      <3> HIDE DEF Upto
      <3>11. Len(f[p]) >= p
        BY <3>2, Zenon DEF Upto
      <3>6. \A j \in 1..q : j \in 1..p \/ j = q
        BY <3>1
      <3> DEFINE a == Len(f[p])
                 c == Len(C[q])
                 l == Len(f[q])
      <3>12. l = a + c /\ a \in Nat /\ c \in Nat /\ a >= p /\ c >= 1
        BY <3>4, <3>5, <3>11
      <3>13. p \in Nat /\ q = p + 1
        BY <3>1
      <3>14. l >= q /\ (c > 1 => l > q) /\ (a > p => l > q) /\ (c = 1 /\ a = p => l = q)
        <4> HIDE DEF a, c, l
        <4> QED
          BY <3>12, <3>13
      <3>7. Len(f[q]) >= q
        BY <3>14
      <3>8. ASSUME \E j \in 1..q : Len(C[j]) > 1
            PROVE  Len(f[q]) > q
        <4>1. CASE Len(C[q]) > 1
          BY <3>14, <4>1
        <4>2. CASE \E j \in 1..p : Len(C[j]) > 1
          <5>1. Len(f[p]) > p
            BY <3>2, <4>2, Zenon DEF Upto
          <5> QED
            BY <3>14, <5>1
        <4> QED
          BY <3>6, <3>8, <4>1, <4>2, Zenon
      <3>9. ASSUME \A j \in 1..q : Len(C[j]) = 1
            PROVE  Len(f[q]) = q /\ \A j \in 1..q : C[j] = <<f[q][j]>>
        <4>7. q \in 1..q /\ \A j \in 1..p : j \in 1..q
          BY <3>1
        <4>1. Len(C[q]) = 1 /\ \A j \in 1..p : j \in 1..q /\ Len(C[j]) = 1
          BY <3>9, <4>7, Zenon
        <4>2. Len(f[p]) = p /\ \A j \in 1..p : C[j] = <<f[p][j]>>
          BY <3>2, <4>1, Zenon DEF Upto
        <4>8. Len(f[p]) = p
          BY <4>2
        <4>9. Len(C[q]) = 1
          BY <4>1
        <4>3. \A j \in 1..p : f[q][j] = f[p][j]
          <5> SUFFICES ASSUME NEW j \in 1..p PROVE f[q][j] = f[p][j]
            OBVIOUS
          <5> DEFINE F == f[p]
                     G == C[q]
          <5>1. F \in Seq(V) /\ G \in Seq(V) /\ j \in 1..Len(F) /\ f[q] = F \o G
            BY <3>3, <3>4, <4>8
          <5> HIDE DEF F, G
          <5>2. f[q][j] = F[j]
            BY <5>1
          <5> QED
            BY <5>2 DEF F
        <4>4. f[q][q] = C[q][1]
          <5> DEFINE F == f[p]
                     G == C[q]
          <5>1. F \in Seq(V) /\ G \in Seq(V) /\ Len(F) = p /\ Len(G) = 1 /\ f[q] = F \o G
            BY <3>3, <3>4, <4>8, <4>9
          <5> HIDE DEF F, G
          <5>3. (F \o G)[Len(F) + 1] = G[1]
            BY <5>1, JoinAt
          <5>2. f[q][p + 1] = G[1]
            BY <5>1, <5>3, Zenon
          <5> QED
            BY <3>13, <5>2 DEF G
        <4>5. C[q] = <<C[q][1]>>
          BY <3>4, <4>9
        <4>6. Len(f[q]) = q
          BY <3>14, <4>8, <4>9
        <4> QED
          BY <3>6, <4>2, <4>3, <4>4, <4>5, <4>6, Zenon
      <3>10. Upto(q)
        BY <3>7, <3>8, <3>9, Zenon DEF Upto
      <3> QED
        BY <3>10 DEF p, q
    <2> HIDE DEF S
    <2>5. N - 1 \in S
      <3>1. N - 1 \in Nat
        BY <2>2
      <3> QED
        BY <2>3, <2>4, <3>1, SetInduction
    <2> HIDE DEF Upto
    <2>6. Upto(N)
      BY <2>2, <2>5 DEF S
    <2>7. N \in 1..N
      BY <2>2
    <2> QED
      BY <2>1, <2>6, <2>7 DEF Upto, N
  <1> QED
    BY <1>1, <1>2

-----------------------------------------------------------------------------
\* One character further, from the last to the first: good are the places where a
\* character begins well, head[i] is the character, next[i] the place after it.
Further(f, i, N, good, head, next) ==
  IF i = N + 1 THEN << <<>> >>
  ELSE IF i \notin good THEN Raises
       ELSE IF f[next[i]] = Raises THEN Raises
            ELSE << <<head[i]>> \o f[next[i]][1] >>

IsOnward(N, good, next) == \A i \in 1..N : i \in good => next[i] \in i + 1..N + 1
Solves(f, N, good, head, next) == f = [i \in 1..N + 1 |-> Further(f, i, N, good, head, next)]

\* The recursive function of Decode, from the last byte to the first, exists.
LEMMA BackwardsExists ==
  ASSUME NEW N \in Nat, NEW good, NEW head, NEW next, IsOnward(N, good, next)
  PROVE  \E f : Solves(f, N, good, head, next)
  <1> USE DEF IsOnward
  <1> DEFINE G(f, i) == Further(f, i, N, good, head, next)
             Upto(f, m) == f = [i \in N + 1 - m..N + 1 |-> G(f, i)]
             S == {m \in Nat : m <= N => \E f : Upto(f, m)}
  <1>0. \A f, g, i : i = N + 1 \/ i \notin good \/ f[next[i]] = g[next[i]] => G(f, i) = G(g, i)
    BY Zenon DEF Further
  <1> HIDE DEF G
  <1>1. 0 \in S
    <2> DEFINE g == [i \in N + 1..N + 1 |-> G(<<>>, i)]
    <2>1. \A i \in N + 1..N + 1 : i = N + 1
      OBVIOUS
    <2>2. \A i \in N + 1..N + 1 : G(<<>>, i) = G(g, i)
      BY <1>0, <2>1, Zenon
    <2>3. g = [i \in N + 1..N + 1 |-> G(g, i)]
      <3> HIDE DEF g
      <3>1. g = [i \in N + 1..N + 1 |-> G(<<>>, i)]
        BY DEF g
      <3> QED
        BY <2>2, <3>1
    <2>4. N + 1 - 0 = N + 1
      OBVIOUS
    <2>5. Upto(g, 0)
      BY <2>3, <2>4, Zenon
    <2> HIDE DEF Upto
    <2> QED
      BY <2>5
  <1>2. ASSUME NEW m \in Nat, m \in S
        PROVE  m + 1 \in S
    <2> SUFFICES ASSUME m + 1 <= N PROVE \E f : Upto(f, m + 1)
      OBVIOUS
    <2> DEFINE a == N + 1 - m
    <2>1. PICK f : Upto(f, m)
      BY <1>2
    <2>2. a - 1 = N + 1 - (m + 1) /\ a \in Nat /\ a >= 2 /\ a <= N + 1 /\ a - 1 \in 1..N
      OBVIOUS
    <2>3. f = [i \in a..N + 1 |-> G(f, i)]
      BY <2>1, Zenon
    <2> HIDE DEF a, Upto
    <2> DEFINE g == [i \in a - 1..N + 1 |-> IF i = a - 1 THEN G(f, i) ELSE f[i]]
    <2>4. \A i \in a..N + 1 : g[i] = f[i]
      BY <2>2
    <2>5. g[a - 1] = G(f, a - 1)
      BY <2>2
    <2>6. g = [i \in a - 1..N + 1 |-> g[i]]
      OBVIOUS
    <2> HIDE DEF g
    <2>7. ASSUME NEW i \in a - 1..N + 1
          PROVE  g[i] = G(g, i)
      <3>1. i \in 1..N + 1 /\ (i = N + 1 \/ i \in 1..N)
        BY <2>2
      <3>2. i \in good /\ i # N + 1 => next[i] \in a..N + 1
        BY <2>2, <3>1
      <3>3. i \in good /\ i # N + 1 => f[next[i]] = g[next[i]]
        BY <2>4, <3>2
      <3>4. G(f, i) = G(g, i)
        BY <1>0, <3>3, Zenon
      <3>5. CASE i = a - 1
        BY <2>5, <3>4, <3>5
      <3>6. CASE i # a - 1
        <4>1. i \in a..N + 1
          BY <2>2, <3>6
        <4> QED
          BY <2>3, <2>4, <3>4, <4>1
      <3> QED
        BY <3>5, <3>6
    <2>8. g = [i \in a - 1..N + 1 |-> G(g, i)]
      BY <2>6, <2>7
    <2>9. Upto(g, m + 1)
      BY <2>2, <2>8 DEF Upto
    <2> QED
      BY <2>9
  <1> HIDE DEF S, Upto
  <1>3. N \in S
    BY <1>1, <1>2, SetInduction
  <1>4. PICK f : Upto(f, N)
    BY <1>3 DEF S
  <1>5. N + 1 - N = 1
    OBVIOUS
  <1>6. f = [i \in 1..N + 1 |-> G(f, i)]
    BY <1>4, <1>5 DEF Upto
  <1> QED
    BY <1>6 DEF G, Solves

\* C are characters of the bytes b from the i-th on: none is empty, and if every one
\* has one byte they are these bytes.
Chars(C, b, i, V) ==
  /\ C \in Seq(Seq(V))
  /\ \A j \in 1..Len(C) : Len(C[j]) >= 1
  /\ (\A j \in 1..Len(C) : Len(C[j]) = 1) => /\ Len(C) = Len(b) + 1 - i
                                             /\ \A j \in 1..Len(C) : C[j] = <<b[i + j - 1]>>

\* One character more, of the bytes before the others, keeps the characters' bytes.
LEMMA OneMoreChar ==
  ASSUME NEW V, NEW b \in Seq(V), NEW i \in 1..Len(b), NEW k \in i + 1..Len(b) + 1,
         NEW D, Chars(D, b, k, V)
  PROVE  Chars(<<SubSeq(b, i, k - 1)>> \o D, b, i, V)
  <1> DEFINE h == SubSeq(b, i, k - 1)
             N == Len(b)
             C == <<h>> \o D
  <1>1. N \in Nat /\ i \in Nat /\ k \in Nat /\ 1 <= i /\ i < k /\ k <= N + 1
    OBVIOUS
  <1>2. h \in Seq(V) /\ Len(h) = k - i /\ h[1] = b[i]
    BY <1>1
  <1>3. D \in Seq(Seq(V)) /\ Len(D) \in Nat
    BY DEF Chars
  <1> HIDE DEF h, N
  <1>4. C \in Seq(Seq(V)) /\ Len(C) = Len(D) + 1 /\ C[1] = h /\ \A j \in 1..Len(D) : C[j + 1] = D[j]
    <2>1. <<h>> \in Seq(Seq(V)) /\ Len(<<h>>) = 1 /\ <<h>>[1] = h
      BY <1>2
    <2>2. /\ C \in Seq(Seq(V)) /\ Len(C) = Len(<<h>>) + Len(D)
          /\ \A j \in 1..Len(<<h>>) + Len(D) : C[j] = IF j <= Len(<<h>>) THEN <<h>>[j] ELSE D[j - Len(<<h>>)]
      BY <1>3, <2>1, ConcatProperties
    <2> HIDE DEF C
    <2>3. 1 \in 1..1 + Len(D)
      BY <1>3
    <2>4. \A j \in 1..Len(D) : j + 1 \in 1..1 + Len(D) /\ ~(j + 1 <= 1) /\ (j + 1) - 1 = j
      BY <1>3
    <2> QED
      BY <1>3, <2>1, <2>2, <2>3, <2>4
  <1> HIDE DEF C
  <1>5. \A j \in 1..Len(C) : j = 1 \/ \E l \in 1..Len(D) : j = l + 1
    <2> SUFFICES ASSUME NEW j \in 1..Len(C), j # 1
                 PROVE  j - 1 \in 1..Len(D) /\ j = (j - 1) + 1
      BY Zenon
    <2> QED
      BY <1>3, <1>4
  <1>6. 1 \in 1..Len(C) /\ \A l \in 1..Len(D) : l + 1 \in 1..Len(C)
    BY <1>3, <1>4
  <1>7. \A j \in 1..Len(C) : Len(C[j]) >= 1
    <2> SUFFICES ASSUME NEW j \in 1..Len(C)
                 PROVE  Len(C[j]) >= 1
      OBVIOUS
    <2>1. CASE j = 1
      BY <1>1, <1>2, <1>4, <2>1
    <2>2. CASE \E l \in 1..Len(D) : j = l + 1
      <3>1. PICK l \in 1..Len(D) : j = l + 1
        BY <2>2
      <3>2. C[j] = D[l] /\ Len(D[l]) >= 1
        BY <1>4, <3>1 DEF Chars
      <3> QED
        BY <3>2
    <2> QED
      BY <1>5, <2>1, <2>2, Zenon
  <1>8. ASSUME \A j \in 1..Len(C) : Len(C[j]) = 1
        PROVE  Len(C) = N + 1 - i /\ \A j \in 1..Len(C) : C[j] = <<b[i + j - 1]>>
    <2>1. Len(h) = 1
      BY <1>4, <1>6, <1>8
    <2>2. k = i + 1
      <3>1. k - i = 1
        BY <1>2, <2>1, Zenon
      <3> QED
        BY <1>1, <3>1
    <2>3. \A l \in 1..Len(D) : Len(D[l]) = 1
      BY <1>4, <1>6, <1>8
    <2>4. Len(D) = N + 1 - k /\ \A l \in 1..Len(D) : D[l] = <<b[k + l - 1]>>
      BY <2>3, Zenon DEF Chars, N
    <2>5. Len(C) = N + 1 - i
      BY <1>1, <1>4, <2>2, <2>4
    <2>6. h = <<b[i]>>
      BY <1>2, <2>1
    <2>7. ASSUME NEW j \in 1..Len(C)
          PROVE  C[j] = <<b[i + j - 1]>>
      <3>1. CASE j = 1
        <4>1. i + 1 - 1 = i
          BY <1>1
        <4> QED
          BY <1>4, <2>6, <3>1, <4>1
      <3>2. CASE \E l \in 1..Len(D) : j = l + 1
        <4>1. PICK l \in 1..Len(D) : j = l + 1
          BY <3>2
        <4>2. k + l - 1 = i + j - 1
          BY <1>1, <2>2, <4>1
        <4>3. C[j] = D[l] /\ D[l] = <<b[k + l - 1]>>
          BY <1>4, <2>4, <4>1
        <4> QED
          BY <4>2, <4>3
      <3> QED
        BY <1>5, <3>1, <3>2, Zenon
    <2> QED
      BY <2>5, <2>7
  <1> QED
    BY <1>4, <1>7, <1>8, Zenon DEF Chars, C, h, N

AreHeads(b, good, head, next) ==
  \A i \in 1..Len(b) : i \in good => head[i] = SubSeq(b, i, next[i] - 1)
AreChars(f, b, V) ==
  \A i \in 1..Len(b) + 1 : f[i] # Raises => f[i] = <<f[i][1]>> /\ Chars(f[i][1], b, i, V)

\* Every suffix that decodes is decoded to characters that are its bytes.
LEMMA BackwardsChars ==
  ASSUME NEW V, NEW b \in Seq(V), NEW good, NEW head, NEW next, NEW f,
         IsOnward(Len(b), good, next), AreHeads(b, good, head, next),
         Solves(f, Len(b), good, head, next)
  PROVE  AreChars(f, b, V)
  <1>0. /\ \A i \in 1..Len(b) : i \in good =>
             next[i] \in i + 1..Len(b) + 1 /\ head[i] = SubSeq(b, i, next[i] - 1)
        /\ \A i \in 1..Len(b) + 1 : f[i] = Further(f, i, Len(b), good, head, next)
    BY DEF IsOnward, AreHeads, Solves
  <1> DEFINE N == Len(b)
             Done(i) == f[i] # Raises => f[i] = <<f[i][1]>> /\ Chars(f[i][1], b, i, V)
             S == {m \in Nat : m <= N => \A i \in N + 1 - m..N + 1 : Done(i)}
  <1>1. N \in Nat
    OBVIOUS
  <1> HIDE DEF Done
  <1>2. Done(N + 1)
    <2>1. f[N + 1] = << <<>> >>
      <3>1. N + 1 \in 1..N + 1
        BY <1>1
      <3> QED
        BY <1>0, <3>1, Zenon DEF Further
    <2>2. f[N + 1][1] = <<>> /\ f[N + 1] = <<f[N + 1][1]>>
      BY <2>1
    <2>3. Chars(<<>>, b, N + 1, V)
      <3>1. <<>> \in Seq(Seq(V)) /\ Len(<<>>) = 0 /\ N + 1 - (N + 1) = 0 /\ \A j \in 1..0 : FALSE
        BY <1>1
      <3> QED
        BY <3>1 DEF Chars
    <2> QED
      BY <2>2, <2>3 DEF Done
  <1>3. ASSUME NEW i \in 1..N, \A k \in i + 1..N + 1 : Done(k)
        PROVE  Done(i)
    <2> SUFFICES ASSUME f[i] # Raises
                 PROVE  f[i] = <<f[i][1]>> /\ Chars(f[i][1], b, i, V)
      BY DEF Done
    <2>1. i # N + 1 /\ i \in 1..N + 1
      BY <1>1
    <2>2. i \in good /\ f[next[i]] # Raises /\ f[i] = << <<head[i]>> \o f[next[i]][1] >>
      BY <1>0, <2>1, Zenon DEF Further
    <2>3. next[i] \in i + 1..N + 1 /\ head[i] = SubSeq(b, i, next[i] - 1)
      BY <1>0, <2>2
    <2>4. Chars(f[next[i]][1], b, next[i], V)
      BY <1>3, <2>2, <2>3 DEF Done
    <2>5. Chars(<<SubSeq(b, i, next[i] - 1)>> \o f[next[i]][1], b, i, V)
      BY <2>3, <2>4, OneMoreChar
    <2>6. f[i][1] = <<head[i]>> \o f[next[i]][1] /\ f[i] = <<f[i][1]>>
      BY <2>2
    <2> QED
      BY <2>3, <2>5, <2>6
  <1> HIDE DEF N
  <1>4. 0 \in S
    BY <1>1, <1>2
  <1>5. ASSUME NEW m \in Nat, m \in S
        PROVE  m + 1 \in S
    <2> SUFFICES ASSUME m + 1 <= N, NEW i \in N + 1 - (m + 1)..N + 1
                 PROVE  Done(i)
      OBVIOUS
    <2>1. \A k \in N + 1 - m..N + 1 : Done(k)
      BY <1>1, <1>5
    <2>2. CASE i \in N + 1 - m..N + 1
      BY <2>1, <2>2
    <2>3. CASE i \notin N + 1 - m..N + 1
      <3>1. i \in 1..N /\ \A k \in i + 1..N + 1 : k \in N + 1 - m..N + 1
        BY <1>1, <2>3
      <3> QED
        BY <1>3, <2>1, <3>1
    <2> QED
      BY <2>2, <2>3
  <1> HIDE DEF S
  <1>6. N \in S
    BY <1>1, <1>4, <1>5, SetInduction
  <1>7. \A i \in 1..N + 1 : Done(i)
    <2>1. \A i \in 1..N + 1 : i \in N + 1 - N..N + 1
      BY <1>1
    <2> QED
      BY <1>6, <2>1 DEF S
  <1> QED
    BY <1>7, Zenon DEF AreChars, Done, N

\* A first byte announces at most three more; four stands for one that begins no character.
LEMMA FollowingIsSmall ==
  ASSUME NEW b \in Nat
  PROVE  Following(b) \in 0..4
  BY DEF Following

\* bytes.decode(): characters whose bytes, joined, are the bytes decoded.
LEMMA DecodeChars ==
  ASSUME NEW b \in Seq(Byte), Decode(b) # Raises
  PROVE  Decode(b) = <<Decode(b)[1]>> /\ Chars(Decode(b)[1], b, 1, Byte)
  <1> DEFINE N == Len(b)
             more(i) == Following(b[i])
             bad(i) == \/ more(i) = 4 \/ Len(b) < i + more(i)
                       \/ more(i) > 0 /\ b[i + 1] \notin Second(b[i])
                       \/ \E j \in i + 2..i + more(i) : b[j] \notin 128..191
             good == {i \in 1..N : ~bad(i)}
             head == [i \in 1..N |-> SubSeq(b, i, i + more(i))]
             next == [i \in 1..N |-> i + more(i) + 1]
             Decodes(f) == f = [i \in 1..Len(b) + 1 |->
                                 IF i = Len(b) + 1 THEN << <<>> >>
                                 ELSE IF bad(i) THEN Raises
                                      ELSE LET rest == f[i + more(i) + 1]
                                           IN IF rest = Raises THEN Raises
                                              ELSE << <<SubSeq(b, i, i + more(i))>> \o rest[1] >>]
             from == CHOOSE f : Decodes(f)
  <1>1. N \in Nat /\ \A i \in 1..N : b[i] \in Byte
    OBVIOUS
  <1>2. \A i \in 1..N : more(i) \in 0..4
    <2>1. \A x \in Byte : x \in Nat
      BY TwoPowers DEF Byte
    <2> QED
      BY <1>1, <2>1, FollowingIsSmall, Zenon
  <1>3. Decode(b) = from[1]
    BY Zenon DEF Decode
  <1>4. ASSUME NEW i \in 1..N, i \in good
        PROVE  next[i] \in i + 1..N + 1 /\ head[i] = SubSeq(b, i, next[i] - 1)
    <2>1. ~(N < i + more(i)) /\ more(i) \in 0..4
      BY <1>2, <1>4
    <2>2. next[i] = i + more(i) + 1 /\ head[i] = SubSeq(b, i, i + more(i))
      OBVIOUS
    <2> HIDE DEF more, N, next, head
    <2>3. next[i] \in i + 1..N + 1 /\ next[i] - 1 = i + more(i)
      BY <1>1, <2>1, <2>2
    <2> QED
      BY <2>2, <2>3
  <1>5. \A f : \A i \in 1..N + 1 :
          Further(f, i, N, good, head, next) =
            IF i = N + 1 THEN << <<>> >>
            ELSE IF bad(i) THEN Raises
                 ELSE LET rest == f[i + more(i) + 1]
                      IN IF rest = Raises THEN Raises
                         ELSE << <<SubSeq(b, i, i + more(i))>> \o rest[1] >>
    <2> SUFFICES ASSUME NEW f, NEW i \in 1..N + 1, i # N + 1
                 PROVE  Further(f, i, N, good, head, next) =
                          IF bad(i) THEN Raises
                          ELSE LET rest == f[i + more(i) + 1]
                               IN IF rest = Raises THEN Raises
                                  ELSE << <<SubSeq(b, i, i + more(i))>> \o rest[1] >>
      BY ZenonT(60) DEF Further
    <2> HIDE DEF bad, more
    <2>1. i \in 1..N
      BY <1>1
    <2>2. i \in good <=> ~bad(i)
      BY <2>1, Zenon
    <2>3. next[i] = i + more(i) + 1 /\ head[i] = SubSeq(b, i, i + more(i))
      BY <2>1, Zenon
    <2> HIDE DEF good, next, head
    <2>4. Further(f, i, N, good, head, next) =
            IF i \notin good THEN Raises
            ELSE IF f[next[i]] = Raises THEN Raises
                 ELSE << <<head[i]>> \o f[next[i]][1] >>
      BY Zenon DEF Further
    <2> QED
      BY <2>2, <2>3, <2>4, Zenon
  <1>6. \E f : Decodes(f)
    <2> HIDE DEF N, good, head, next
    <2>3. IsOnward(N, good, next)
      BY <1>4, Zenon DEF IsOnward
    <2>1. PICK f : Solves(f, N, good, head, next)
      BY <1>1, <2>3, BackwardsExists, Zenon
    <2>2. Decodes(f)
      <3> HIDE DEF bad, more
      <3> QED
        BY <1>5, <2>1 DEF Solves, N
    <2> HIDE DEF Decodes
    <2> QED
      BY <2>2
  <1>7. Decodes(from)
    <2> HIDE DEF Decodes
    <2> QED
      BY <1>6, Zenon
  <1>8. Solves(from, N, good, head, next)
    <2> HIDE DEF from, bad, more, good, head, next
    <2> QED
      BY <1>5, <1>7 DEF Solves
  <1> HIDE DEF good, head, next, from
  <1>9. AreChars(from, b, Byte)
    <2>1. IsOnward(N, good, next) /\ AreHeads(b, good, head, next)
      BY <1>4, Zenon DEF IsOnward, AreHeads
    <2> QED
      BY <1>8, <2>1, BackwardsChars, Zenon
  <1>10. 1 \in 1..N + 1
    BY <1>1
  <1> QED
    BY <1>3, <1>9, <1>10, Zenon DEF AreChars

\* What rstrip takes off is nothing but NULs.
LEMMA StripNulsIs ==
  ASSUME NEW V, NEW C \in Seq(V)
  PROVE  \E m \in 0..Len(C) : /\ StripNuls(C) = SubSeq(C, 1, m)
                              /\ \A i \in m + 1..Len(C) : C[i] = Nul
  <1> DEFINE L == Len(C)
             Ends(n) == \A i \in n + 1..L : C[i] = Nul
             IsLast(n) == (n = 0 \/ C[n] # Nul) /\ Ends(n)
             I == {n \in 0..L : Ends(n)}
  <1>1. L \in Nat
    OBVIOUS
  <1>2. \E n \in 0..L : IsLast(n)
    <2> HIDE DEF L
    <2>1. L \in I /\ I \in SUBSET Nat
      BY <1>1
    <2>2. PICK n \in I : \A k \in I : n <= k
      <3> HIDE DEF I
      <3> QED
        BY <2>1, LeastExists
    <2>3. n = 0 \/ C[n] # Nul
      <3> SUFFICES ASSUME n # 0, C[n] = Nul
                   PROVE  FALSE
        OBVIOUS
      <3>1. n - 1 \in 0..L /\ ~(n <= n - 1) /\ n \in Nat
        BY <1>1
      <3>2. \A i \in (n - 1) + 1..L : i = n \/ i \in n + 1..L
        BY <1>1, <3>1
      <3>3. Ends(n - 1)
        BY <2>2, <3>2
      <3> HIDE DEF Ends
      <3> QED
        BY <2>2, <3>1, <3>3
    <2> HIDE DEF Ends
    <2> QED
      BY <2>2, <2>3
  <1> DEFINE m == CHOOSE n \in 0..L : IsLast(n)
  <1>3. m \in 0..L /\ IsLast(m)
    <2> HIDE DEF IsLast, L
    <2> QED
      BY <1>2, Zenon
  <1>4. StripNuls(C) = SubSeq(C, 1, m)
    BY Zenon DEF StripNuls
  <1> HIDE DEF m
  <1> QED
    BY <1>3, <1>4, Zenon

\* ljust goes on with NULs.
LEMMA PadIs ==
  ASSUME NEW V, Nul \in V, NEW s \in Seq(V), NEW n \in Nat
  PROVE  /\ Pad(s, n) \in Seq(V)
         /\ Len(Pad(s, n)) = IF n > Len(s) THEN n ELSE Len(s)
         /\ \A j \in 1..Len(Pad(s, n)) : Pad(s, n)[j] = IF j <= Len(s) THEN s[j] ELSE Nul
  <1> DEFINE d == n - Len(s)
             nuls == [i \in 1..d |-> Nul]
             e == IF d > 0 THEN d ELSE 0
  <1>1. Len(s) \in Nat
    OBVIOUS
  <1>2. nuls \in Seq(V) /\ Len(nuls) = e /\ \A i \in 1..e : nuls[i] = Nul
    <2>1. CASE d > 0
      <3>1. d \in Nat /\ e = d
        BY <1>1, <2>1
      <3> HIDE DEF d, e
      <3> QED
        BY <3>1
    <2>2. CASE ~(d > 0)
      <3>1. 1..d = {} /\ e = 0
        BY <1>1, <2>2
      <3> HIDE DEF d, e
      <3>2. nuls = <<>>
        BY <3>1
      <3> HIDE DEF nuls
      <3> QED
        BY <3>1, <3>2
    <2> QED
      BY <2>1, <2>2
  <1>3. Pad(s, n) = s \o nuls
    BY Zenon DEF Pad
  <1>4. e \in Nat /\ Len(s) + e = IF n > Len(s) THEN n ELSE Len(s)
    BY <1>1
  <1> HIDE DEF nuls, e, d
  <1>5. /\ s \o nuls \in Seq(V)
        /\ Len(s \o nuls) = Len(s) + e
        /\ \A i \in 1..Len(s) + e : (s \o nuls)[i] = IF i <= Len(s) THEN s[i] ELSE nuls[i - Len(s)]
    BY <1>2, ConcatProperties
  <1>6. \A i \in 1..Len(s) + e : ~(i <= Len(s)) => nuls[i - Len(s)] = Nul
    <2>1. \A i \in 1..Len(s) + e : ~(i <= Len(s)) => i - Len(s) \in 1..e
      BY <1>1, <1>4
    <2> QED
      BY <1>2, <2>1
  <1>7. \A i \in 1..Len(s) + e : (s \o nuls)[i] = IF i <= Len(s) THEN s[i] ELSE Nul
    BY <1>5, <1>6
  <1> QED
    BY <1>3, <1>4, <1>5, <1>7

\* A padding character is one byte.
LEMMA NulIsByte ==
  Nul \in Seq(Byte) /\ Len(Nul) = 1
  <1>1. 0 \in Byte
    <2>1. 2^8 \in Nat /\ 2^8 > 0
      BY TwoPowers
    <2> QED
      BY <2>1 DEF Byte
  <1> HIDE DEF Byte
  <1> QED
    BY <1>1 DEF Nul

\* A name without the NULs at its end, padded with them again, has the bytes it came
\* from when its characters have one byte each, and too many when one has more.
LEMMA StrBack ==
  ASSUME NEW b \in Seq(Byte), NEW C, Chars(C, b, 1, Byte)
  PROVE  LET s == StripNuls(C)
             back == FlattenSeq(Pad(s, Len(b)))
         IN /\ (\E j \in DOMAIN s : Len(s[j]) > 1) => Len(back) # Len(b)
            /\ (\A j \in DOMAIN s : ~(Len(s[j]) > 1)) => back = b
  <1> DEFINE V == Seq(Byte)
             s == StripNuls(C)
             n == Len(b)
             P == Pad(s, n)
             back == FlattenSeq(P)
  <1>1. n \in Nat /\ C \in Seq(V) /\ Len(C) \in Nat
    BY DEF Chars
  <1>2. Nul \in V /\ Len(Nul) = 1
    BY NulIsByte
  <1>3. PICK m \in 0..Len(C) : s = SubSeq(C, 1, m) /\ \A i \in m + 1..Len(C) : C[i] = Nul
    BY <1>1, StripNulsIs, Zenon
  <1>4. /\ s \in Seq(V) /\ Len(s) = m /\ m \in Nat /\ m <= Len(C) /\ DOMAIN s = 1..m
        /\ \A j \in 1..m : s[j] = C[j]
    <2> HIDE DEF s, V
    <2> QED
      BY <1>1, <1>3
  <1>5. /\ P \in Seq(V)
        /\ Len(P) = IF n > m THEN n ELSE m
        /\ \A j \in 1..Len(P) : P[j] = IF j <= m THEN s[j] ELSE Nul
    <2> HIDE DEF s, V, n
    <2> QED
      BY <1>1, <1>2, <1>4, PadIs
  <1> HIDE DEF P, s, n
  <1>6. Len(P) \in Nat /\ Len(P) >= n /\ Len(P) >= m
    BY <1>1, <1>4, <1>5
  <1>7. \A j \in 1..Len(C) : Len(C[j]) >= 1
    BY DEF Chars
  <1>8. \A j \in 1..Len(P) : Len(P[j]) >= 1
    <2> SUFFICES ASSUME NEW j \in 1..Len(P)
                 PROVE  Len(P[j]) >= 1
      OBVIOUS
    <2>1. CASE j <= m
      <3>1. j \in 1..m /\ j \in 1..Len(C)
        BY <1>1, <1>4, <1>6, <2>1
      <3>2. P[j] = C[j]
        BY <1>4, <1>5, <2>1, <3>1
      <3> QED
        BY <1>7, <3>1, <3>2
    <2>2. CASE ~(j <= m)
      <3>1. P[j] = Nul
        BY <1>5, <2>2
      <3>2. Len(P[j]) = 1
        BY <1>2, <3>1, Zenon
      <3>3. 1 >= 1
        OBVIOUS
      <3> QED
        BY <3>2, <3>3, Zenon
    <2> QED
      BY <2>1, <2>2
  <1>9. /\ back \in V
        /\ (\E j \in 1..Len(P) : Len(P[j]) > 1) => Len(back) > Len(P)
        /\ (\A j \in 1..Len(P) : Len(P[j]) = 1) => /\ Len(back) = Len(P)
                                                   /\ \A j \in 1..Len(P) : P[j] = <<back[j]>>
    BY <1>5, <1>8, FlattenLength
  <1> HIDE DEF back
  <1>10. ASSUME NEW j \in DOMAIN s, Len(s[j]) > 1
         PROVE  Len(back) # n
    <2>1. j \in 1..Len(P) /\ j <= m
      BY <1>4, <1>6
    <2>2. P[j] = s[j]
      BY <1>5, <2>1
    <2>3. Len(back) > Len(P)
      BY <1>9, <1>10, <2>1, <2>2
    <2> QED
      BY <1>1, <1>6, <1>9, <2>3
  <1>11. ASSUME \A j \in DOMAIN s : ~(Len(s[j]) > 1)
         PROVE  back = b
    <2>1. ASSUME NEW j \in 1..Len(C)
          PROVE  Len(C[j]) = 1
      <3>1. CASE j <= m
        <4>1. j \in 1..m /\ C[j] \in Seq(Byte)
          BY <1>1, <1>4, <3>1
        <4>2. s[j] = C[j] /\ ~(Len(s[j]) > 1)
          BY <1>4, <1>11, <4>1
        <4>3. Len(C[j]) \in Nat /\ Len(C[j]) >= 1
          BY <1>7, <4>1
        <4> DEFINE l == Len(C[j])
        <4>4. l \in Nat /\ l >= 1 /\ ~(l > 1)
          BY <4>2, <4>3
        <4> HIDE DEF l
        <4>5. l = 1
          BY <4>4
        <4> QED
          BY <4>5 DEF l
      <3>2. CASE ~(j <= m)
        <4>1. j \in m + 1..Len(C)
          BY <1>1, <1>4, <3>2
        <4> QED
          BY <1>2, <1>3, <4>1
      <3> QED
        BY <3>1, <3>2
    <2>2. Len(C) = n + 1 - 1 /\ \A j \in 1..Len(C) : C[j] = <<b[1 + j - 1]>>
      BY <2>1, Zenon DEF Chars, n
    <2>3. Len(C) = n /\ \A j \in 1..n : C[j] = <<b[j]>>
      <3>1. n + 1 - 1 = n
        BY <1>1
      <3>2. \A j \in 1..n : 1 + j - 1 = j
        BY <1>1
      <3> QED
        BY <2>2, <3>1, <3>2
    <2>4. Len(P) = n
      BY <1>1, <1>4, <1>5, <2>3
    <2>5. ASSUME NEW j \in 1..n
          PROVE  P[j] = <<b[j]>>
      <3>1. CASE j <= m
        <4>1. j \in 1..m
          BY <1>1, <1>4, <3>1
        <4> QED
          BY <1>4, <1>5, <2>3, <2>4, <3>1, <4>1
      <3>2. CASE ~(j <= m)
        <4>1. j \in m + 1..Len(C)
          BY <1>1, <1>4, <2>3, <3>2
        <4> QED
          BY <1>3, <1>5, <2>3, <2>4, <3>2, <4>1
      <3> QED
        BY <3>1, <3>2
    <2>6. \A j \in 1..Len(P) : Len(P[j]) = 1
      <3> SUFFICES ASSUME NEW j \in 1..n
                   PROVE  Len(P[j]) = 1
        BY <2>4
      <3>1. P[j] = <<b[j]>>
        BY <2>5
      <3> QED
        BY <3>1
    <2>7. Len(back) = n /\ \A j \in 1..n : P[j] = <<back[j]>>
      BY <1>9, <2>4, <2>6
    <2>8. \A j \in 1..n : back[j] = b[j]
      BY <2>5, <2>7
    <2> QED
      BY <1>9, <2>7, <2>8, SeqEqual DEF n
  <1> QED
    BY <1>10, <1>11, Zenon DEF back, P, n, s

\* A number of bytes that is not the field's is refused.
LEMMA TooManyBytes ==
  ASSUME Recursion, NEW n \in Nat, NEW v, Len(v) # n
  PROVE  \A self : Write(BfBytes(n), Bytes(v), self) = Raises
  <1> SUFFICES ASSUME NEW self
               PROVE  Write(BfBytes(n), Bytes(v), self) = Raises
    OBVIOUS
  <1> DEFINE list == BfList(BfInt(8), n)
             vm == [m |-> "bytes"]
  <1>1. vm.m = "bytes" /\ list.k = "list" /\ list.n = n /\ BfBytes(n) = BfMap(list, vm)
    BY DEF BfList, BfBytes
  <1> HIDE DEF vm, list
  <1>2. Back(vm, Bytes(v)) = <<Bytes(v).v>>
    BY <1>1, Zenon DEF Back
  <1>3. Bytes(v).v = v
    BY DEF Bytes
  <1>4. Back(vm, Bytes(v)) # Raises /\ Back(vm, Bytes(v))[1] = v
    BY <1>2, <1>3 DEF Raises
  <1>5. Write(list, v, self) = Raises
    BY <1>1, ListKind, Zenon
  <1>6. Write(BfMap(list, vm), Bytes(v), self) =
          LET y == Back(vm, Bytes(v))
          IN IF y = Raises THEN Raises ELSE Write(list, y[1], self)
    BY MapOf
  <1> QED
    BY <1>1, <1>4, <1>5, <1>6, Zenon

\* A name.
LEMMA StrPlain ==
  ASSUME Recursion, NEW n \in Nat
  PROVE  Plain(BfStr(n))
  <1> DEFINE vm == [m |-> "str", n |-> n]
             X == {Bytes(b) : b \in {c \in Seq(Byte) : Len(c) = n}}
             inner == BfBytes(n)
  <1>1. vm.m = "str" /\ vm.n = n
    OBVIOUS
  <1>2. BfStr(n) = BfMap(inner, vm)
    BY DEF BfStr
  <1> HIDE DEF vm
  <1>3. Exact(inner, X)
    BY BytesExact, Zenon
  <1>4. FaithfulOrChanged(vm, inner, X)
    <2> SUFFICES ASSUME NEW x \in X, Forward(vm, x) # Raises
                 PROVE  LET f == Forward(vm, x)
                        IN \/ ~LosesValue(vm, f[1]) /\ Back(vm, f[1]) = <<x>>
                           \/ /\ LosesValue(vm, f[1])
                              /\ Back(vm, f[1]) # Raises =>
                                   \A self : Changed(Write(inner, Back(vm, f[1])[1], self),
                                                     Write(inner, x, self))
      BY Zenon DEF FaithfulOrChanged
    <2>1. PICK b \in Seq(Byte) : Len(b) = n /\ x = Bytes(b)
      OBVIOUS
    <2>2. x.v = b
      BY <2>1 DEF Bytes
    <2> HIDE DEF X, inner
    <2>3. Forward(vm, x) = LET chars == Decode(b)
                           IN IF chars = Raises THEN Raises ELSE <<StripNuls(chars[1])>>
      BY <1>1, <2>2, Zenon DEF Forward
    <2> DEFINE C == Decode(b)[1]
               s == StripNuls(C)
               back == FlattenSeq(Pad(s, n))
    <2>4. Decode(b) # Raises /\ Forward(vm, x) = <<s>>
      BY <2>3, Zenon
    <2>5. Chars(C, b, 1, Byte)
      BY <2>4, DecodeChars
    <2> HIDE DEF C
    <2>6. /\ (\E j \in DOMAIN s : Len(s[j]) > 1) => Len(back) # n
          /\ (\A j \in DOMAIN s : ~(Len(s[j]) > 1)) => back = b
      BY <2>1, <2>5, StrBack, Zenon
    <2>7. Back(vm, s) = <<Bytes(back)>>
      BY <1>1, Zenon DEF Back
    <2>8. LosesValue(vm, s) <=> \E j \in DOMAIN s : Len(s[j]) > 1
      <3> HIDE DEF s
      <3> QED
        BY <1>1 DEF LosesValue
    <2> HIDE DEF s, back
    <2>9. Forward(vm, x)[1] = s
      BY <2>4
    <2>10. CASE LosesValue(vm, s)
      <3>1. Len(back) # n
        BY <2>6, <2>8, <2>10, Zenon
      <3>2. \A self : Write(inner, Bytes(back), self) = Raises
        BY <3>1, TooManyBytes, Zenon DEF inner
      <3>3. Back(vm, s)[1] = Bytes(back)
        BY <2>7
      <3>4. \A self : Changed(Write(inner, Back(vm, s)[1], self), Write(inner, x, self))
        BY <3>2, <3>3, NothingIsChanged, Zenon
      <3> QED
        BY <2>9, <2>10, <3>4, Zenon
    <2>11. CASE ~LosesValue(vm, s)
      <3>1. back = b
        BY <2>6, <2>8, <2>11, Zenon
      <3> QED
        BY <2>1, <2>7, <2>9, <2>11, <3>1, Zenon
    <2> QED
      BY <2>10, <2>11, Zenon
  <1> HIDE DEF X, inner
  <1> QED
    BY <1>2, <1>3, <1>4, MapPlain, Zenon

-----------------------------------------------------------------------------
\* A field that comes back whatever the other fields are, of a size known before.
Sized(type) == Plain(type) /\ type.len \in Nat

\* A layout of such fields only.
Layout(fields) == \E U : fields \in Seq(U) /\ \A t \in U : Sized(t)

\* A sequence of sized types is a layout.
LEMMA LayoutOfTypes ==
  ASSUME NEW U, \A t \in U : Sized(t), NEW fields \in Seq(U)
  PROVE  Layout(fields)
  BY Zenon DEF Layout

\* Two layouts one after the other are a layout.
LEMMA LayoutsJoin ==
  ASSUME NEW F, NEW G, Layout(F), Layout(G)
  PROVE  Layout(F \o G)
  <1>1. PICK U : F \in Seq(U) /\ \A t \in U : Sized(t)
    BY Zenon DEF Layout
  <1>2. PICK W : G \in Seq(W) /\ \A t \in W : Sized(t)
    BY Zenon DEF Layout
  <1>3. F \in Seq(U \cup W) /\ G \in Seq(U \cup W)
    BY <1>1, <1>2
  <1>4. F \o G \in Seq(U \cup W)
    BY <1>3, ConcatProperties, Zenon
  <1>5. \A t \in U \cup W : Sized(t)
    BY <1>1, <1>2, Zenon
  <1> QED
    BY <1>4, <1>5, Zenon DEF Layout

\* A layout of one field.
LEMMA LayoutOfOne ==
  ASSUME NEW a, Sized(a)
  PROVE  Layout(<<a>>)
  <1> DEFINE U == {a}
  <1>1. <<a>> \in Seq(U) /\ \A t \in U : t = a
    OBVIOUS
  <1>2. \A t \in U : Sized(t)
    BY <1>1, Zenon
  <1> HIDE DEF U
  <1> QED
    BY <1>1, <1>2, Zenon DEF Layout

\* A layout of two fields.
LEMMA LayoutOfTwo ==
  ASSUME NEW a, Sized(a), NEW b, Sized(b)
  PROVE  Layout(<<a, b>>)
  <1> DEFINE U == {a, b}
  <1>1. <<a, b>> \in Seq(U) /\ \A t \in U : t = a \/ t = b
    OBVIOUS
  <1>2. \A t \in U : Sized(t)
    BY <1>1, Zenon
  <1> HIDE DEF U
  <1> QED
    BY <1>1, <1>2, Zenon DEF Layout

\* The fields of a layout come back: they do not look at each other.
LEMMA LayoutComesBack ==
  ASSUME NEW fields, Layout(fields)
  PROVE  FieldsComeBack(fields)
  <1>1. PICK U : fields \in Seq(U) /\ \A t \in U : Sized(t)
    BY Zenon DEF Layout
  <1>2. Len(fields) \in Nat /\ DOMAIN fields = 1..Len(fields) /\ \A i \in 1..Len(fields) : fields[i] \in U
    BY <1>1
  <1>3. \A i \in 1..Len(fields) : Plain(fields[i])
    BY <1>1, <1>2, Zenon DEF Sized
  <1> QED
    BY <1>2, <1>3, Zenon DEF FieldsComeBack, Plain

\* The length of a layout is known before.
LEMMA LengthIsKnown ==
  ASSUME NEW fields, Layout(fields)
  PROVE  Length(fields) \in Nat
  <1>1. PICK U : fields \in Seq(U) /\ \A t \in U : Sized(t)
    BY Zenon DEF Layout
  <1> DEFINE N == Len(fields)
             G == [n \in 1..N |-> [x \in Nat |-> x + fields[n].len]]
             Solved(f) == f = [n \in 0..Len(fields) |-> IF n = 0 THEN 0 ELSE f[n - 1] + fields[n].len]
             first == CHOOSE f : Solved(f)
  <1>2. N \in Nat /\ DOMAIN fields = 1..N /\ \A i \in 1..N : fields[i].len \in Nat
    <2>1. N \in Nat /\ DOMAIN fields = 1..N /\ \A i \in 1..N : fields[i] \in U
      BY <1>1
    <2> QED
      BY <1>1, <2>1, Zenon DEF Sized
  <1>3. G \in Steps(N, Nat)
    <2> HIDE DEF N
    <2> QED
      BY <1>2 DEF Steps
  <1>4. PICK f \in [0..N -> Nat] : f[0] = 0 /\ \A n \in 1..N : f[n] = G[n][f[n - 1]]
    <2>1. 0 \in Nat
      OBVIOUS
    <2>2. \E f : Follows(f, N, Nat, 0, G)
      <3> HIDE DEF N, G
      <3> QED
        BY <1>2, <1>3, <2>1, RecursionExists, Zenon
    <2> HIDE DEF N, G
    <2> QED
      BY <2>2, Zenon DEF Follows
  <1>5. \A g : Solved(g) => g[N] \in Nat
    <2> SUFFICES ASSUME NEW g, Solved(g)
                 PROVE  g[N] \in Nat
      OBVIOUS
    <2> DEFINE S == {m \in Nat : m <= N => g[m] \in Nat}
    <2>1. g[0] = 0 /\ \A m \in 1..N : g[m] = g[m - 1] + fields[m].len
      BY <1>2
    <2> HIDE DEF N, Solved
    <2>2. 0 \in S
      BY <2>1
    <2>3. ASSUME NEW m \in Nat, m \in S
          PROVE  m + 1 \in S
      <3> SUFFICES ASSUME m + 1 <= N PROVE g[m + 1] \in Nat
        OBVIOUS
      <3>1. m + 1 \in 1..N /\ (m + 1) - 1 = m /\ m <= N
        BY <1>2
      <3>2. g[m + 1] = g[m] + fields[m + 1].len /\ fields[m + 1].len \in Nat /\ g[m] \in Nat
        BY <1>2, <2>1, <2>3, <3>1
      <3> QED
        BY <3>2
    <2> HIDE DEF S
    <2>4. N \in S
      BY <1>2, <2>2, <2>3, SetInduction
    <2> QED
      BY <1>2, <2>4 DEF S
  <1>6. Solved(f)
    <2>1. \A n \in 0..N : f[n] = IF n = 0 THEN 0 ELSE f[n - 1] + fields[n].len
      <3> SUFFICES ASSUME NEW n \in 1..N
                   PROVE  f[n] = f[n - 1] + fields[n].len
        BY <1>2, <1>4
      <3>1. n - 1 \in 0..N
        BY <1>2
      <3> HIDE DEF N
      <3>2. f[n - 1] \in Nat
        BY <1>4, <3>1
      <3> QED
        BY <1>4, <3>2
    <2> HIDE DEF G
    <2> QED
      BY <1>4, <2>1
  <1>7. Solved(first)
    <2> HIDE DEF Solved
    <2> QED
      BY <1>6, Zenon
  <1>8. Length(fields) = IF \E i \in DOMAIN fields : fields[i].len = Dynamic THEN Dynamic ELSE first[N]
    BY Zenon DEF Length
  <1>9. ~(\E i \in DOMAIN fields : fields[i].len = Dynamic)
    <2>1. \A x \in Nat : x # Dynamic
      BY DEF Dynamic
    <2> QED
      BY <1>2, <2>1, Zenon
  <1> HIDE DEF first, Solved
  <1> QED
    BY <1>5, <1>7, <1>8, <1>9, Zenon

\* Raw bits have their width.
LEMMA BitsSized ==
  ASSUME Recursion, NEW n \in Nat
  PROVE  Sized(BfBits(n))
  <1>1. Plain(BfBits(n))
    BY BitsExact, ExactIsPlain, Zenon
  <1>2. BfBits(n).len = n
    BY DEF BfBits
  <1> QED
    BY <1>1, <1>2, Zenon DEF Sized

\* A map is as long as the type inside.
LEMMA MapLength ==
  ASSUME NEW inner, NEW vm
  PROVE  BfMap(inner, vm).len = inner.len
  BY DEF BfMap

\* An integer has its width.
LEMMA IntLength ==
  ASSUME NEW n
  PROVE  BfInt(n).len = n
  <1>1. BfBits(n).len = n
    BY DEF BfBits
  <1> QED
    BY <1>1, MapLength, Zenon DEF BfInt

\* Integers come back and have their width.
LEMMA IntSized ==
  ASSUME Recursion, NEW n \in Nat \ {0}
  PROVE  Sized(BfInt(n))
  <1>1. Plain(BfInt(n))
    BY IntExact, ExactIsPlain, Zenon
  <1> QED
    BY <1>1, IntLength, Zenon DEF Sized

\* A map that loses nothing over an integer.
LEMMA IntMapSized ==
  ASSUME Recursion, NEW n \in Nat \ {0}, NEW vm, NEW Y, Faithful(vm, 0..2^n - 1, Y)
  PROVE  Sized(BfMap(BfInt(n), vm))
  <1> DEFINE X == 0..2^n - 1
  <1>1. Exact(BfInt(n), X)
    BY IntExact, Zenon
  <1> HIDE DEF X
  <1>2. Plain(BfMap(BfInt(n), vm))
    BY <1>1, MapExact, ExactIsPlain, Zenon DEF X
  <1>3. BfMap(BfInt(n), vm).len = n
    BY MapLength, IntLength, Zenon
  <1> QED
    BY <1>2, <1>3, Zenon DEF Sized

\* Enumerations come back and have their width.
LEMMA EnumSized ==
  ASSUME Recursion, NEW n \in Nat \ {0}, NEW values
  PROVE  Sized(BfIntEnum(values, n))
  <1> DEFINE X == 0..2^n - 1
             vm == [m |-> "enum", values |-> values, missing |-> Raises]
  <1>1. Faithful(vm, X, X \cap values)
    BY EnumFaithful, Zenon
  <1>2. Sized(BfMap(BfInt(n), vm))
    <2> HIDE DEF vm
    <2> QED
      BY <1>1, IntMapSized, Zenon
  <1> QED
    BY <1>2, Zenon DEF BfIntEnum

\* A range of naturals is a set of naturals.
LEMMA RangeOfNats ==
  ASSUME NEW n \in Nat
  PROVE  0..2^n - 1 \in SUBSET Nat
  BY TwoPowers

\* Scaled integers come back and have their width.
LEMMA ScaleSized ==
  ASSUME Recursion, NEW n \in Nat \ {0}, NEW by \in {1, 10}
  PROVE  Sized(BfMap(BfInt(n), [m |-> "scale", by |-> by]))
  <1> DEFINE vm == [m |-> "scale", by |-> by]
  <1>1. Faithful(vm, 0..2^n - 1, Nat)
    BY RangeOfNats, ScaleFaithful, Zenon
  <1> HIDE DEF vm
  <1> QED
    BY <1>1, IntMapSized, Zenon DEF vm

\* Channels of a location come back and have their width.
LEMMA LocChSized ==
  ASSUME Recursion, NEW n \in Nat \ {0}
  PROVE  Sized(BfMap(BfInt(n), [m |-> "locCh"]))
  <1> DEFINE vm == [m |-> "locCh"]
  <1>1. Faithful(vm, 0..2^n - 1, Seq(Nat))
    BY RangeOfNats, LocChFaithful, Zenon
  <1> HIDE DEF vm
  <1> QED
    BY <1>1, IntMapSized, Zenon DEF vm

\* A literal of n bits.
LEMMA LitIntSized ==
  ASSUME Recursion, NEW n \in Nat \ {0}, NEW value
  PROVE  Sized(BfLitInt(n, value))
  <1>1. Plain(BfLitInt(n, value))
    BY IntExact, LitExact, ExactIsPlain, Zenon DEF BfLitInt
  <1>2. BfLitInt(n, value).len = BfInt(n).len
    BY DEF BfLitInt, BfLit
  <1> QED
    BY <1>1, <1>2, IntLength, Zenon DEF Sized

\* Sub-audio tones and codes come back, but for the tones LosesValue names.
LEMMA SubAudioSized ==
  ASSUME Recursion
  PROVE  Sized(SubAudio)
  <1>1. SubAudio.len = 16
    BY MapLength, IntLength, Zenon DEF SubAudio
  <1>2. 16 \in Nat
    OBVIOUS
  <1> QED
    BY <1>1, <1>2, SubAudioPlain, Zenon DEF Sized

\* Bytes have eight bits each.
LEMMA BytesLength ==
  ASSUME NEW n \in Nat
  PROVE  BfBytes(n).len = n * 8
  <1>1. BfList(BfInt(8), n).len = IF BfInt(8).len = Dynamic THEN Dynamic ELSE n * BfInt(8).len
    BY DEF BfList
  <1>2. BfInt(8).len = 8 /\ 8 # Dynamic
    BY IntLength DEF Dynamic
  <1>3. BfList(BfInt(8), n).len = n * 8
    BY <1>1, <1>2, Zenon
  <1> QED
    BY <1>3, MapLength, Zenon DEF BfBytes

\* Names come back, but for the characters of several bytes.
LEMMA StrSized ==
  ASSUME Recursion, NEW n \in Nat
  PROVE  Sized(BfStr(n))
  <1>1. n * 8 \in Nat
    OBVIOUS
  <1>2. BfStr(n).len = n * 8
    BY MapLength, BytesLength, Zenon DEF BfStr
  <1> QED
    BY <1>1, <1>2, StrPlain, Zenon DEF Sized

\* Coordinates come back, but for those int() rounds to another.
LEMMA DegreesSized ==
  ASSUME Recursion
  PROVE  Sized(Degrees)
  <1>1. Degrees.len = 24
    BY MapLength, IntLength, ZenonT(60) DEF Degrees
  <1>2. 24 \in Nat
    OBVIOUS
  <1> QED
    BY <1>1, <1>2, DegreesPlain, Zenon DEF Sized

\* Optional integers come back and have their width.
LEMMA OptionalSized ==
  ASSUME Recursion, NEW n \in Nat \ {0}, NEW magic
  PROVE  Sized(OptionalInt(BfInt(n), magic))
  <1> DEFINE vm == [m |-> "optional", magic |-> magic]
             X == 0..2^n - 1
             Y == {<<x>> : x \in X} \cup {<<>>}
  <1>1. Faithful(vm, X, Y)
    BY OptionalFaithful, Zenon
  <1> HIDE DEF vm, Y
  <1> QED
    BY <1>1, IntMapSized, Zenon DEF OptionalInt, vm

\* An altitude comes back: 16 bits, read as if they were 24, are never negative.
LEMMA AltitudeSized ==
  ASSUME Recursion, NEW n \in Nat \ {0}, NEW bits \in Nat \ {0}, n <= bits, 2^n <= 2^bits, NEW magic
  PROVE  Sized(OptionalInt(BfMap(BfInt(n), [m |-> "signed", bits |-> bits]), magic))
  <1> DEFINE signed == [m |-> "signed", bits |-> bits]
             vm == [m |-> "optional", magic |-> magic]
             X == 0..2^n - 1
             Y == -2^(bits - 1)..2^(bits - 1) - 1
             Z == {<<x>> : x \in Y} \cup {<<>>}
  <1>1. X \in SUBSET (0..2^bits - 1)
    BY TwoPowers
  <1>2. Faithful(signed, X, Y)
    <2> HIDE DEF X
    <2> QED
      BY <1>1, SignedFaithful
  <1>3. Faithful(vm, Y, Z)
    BY OptionalFaithful, Zenon
  <1>4. Exact(BfInt(n), X)
    BY IntExact, Zenon
  <1> HIDE DEF signed, vm, X, Y, Z
  <1>5. Plain(BfMap(BfMap(BfInt(n), signed), vm))
    BY <1>2, <1>3, <1>4, MapExact, ExactIsPlain, Zenon
  <1>6. BfMap(BfMap(BfInt(n), signed), vm).len = n
    BY MapLength, IntLength, Zenon
  <1>7. Sized(BfMap(BfMap(BfInt(n), signed), vm))
    BY <1>5, <1>6, Zenon DEF Sized
  <1> QED
    BY <1>7, Zenon DEF OptionalInt, signed, vm

\* Flags come back and are one bit.
LEMMA BoolSized ==
  ASSUME Recursion
  PROVE  Sized(BfBool)
  <1> DEFINE vm == [m |-> "bool"]
  <1>1. 1 \in Nat \ {0}
    OBVIOUS
  <1>2. Faithful(vm, 0..2^1 - 1, BOOLEAN)
    BY BoolFaithful, Zenon
  <1> HIDE DEF vm
  <1>3. Sized(BfMap(BfInt(1), vm))
    BY <1>1, <1>2, IntMapSized, Zenon
  <1> QED
    BY <1>3, Zenon DEF BfBool, vm

-----------------------------------------------------------------------------
\* Integers of any widths in a row are a layout.
LEMMA IntsLayout ==
  ASSUME Recursion, NEW widths \in Seq(Nat \ {0})
  PROVE  Layout(Ints(widths))
  <1> DEFINE U == {BfInt(n) : n \in Nat \ {0}}
  <1>1. Ints(widths) = [i \in 1..Len(widths) |-> BfInt(widths[i])] /\ Len(widths) \in Nat
    BY DEF Ints
  <1>2. \A i \in 1..Len(widths) : BfInt(widths[i]) \in U
    OBVIOUS
  <1>3. \A t \in U : Sized(t)
    BY IntSized, Zenon
  <1> HIDE DEF U
  <1>4. Ints(widths) \in Seq(U)
    BY <1>1, <1>2
  <1> QED
    BY <1>3, <1>4, LayoutOfTypes, Zenon

\* Flags in a row are a layout.
LEMMA BoolsLayout ==
  ASSUME Recursion, NEW count \in Nat
  PROVE  Layout(Bools(count))
  <1> DEFINE U == {BfBool}
  <1>1. \A t \in U : Sized(t)
    BY BoolSized, Zenon
  <1>2. BfBool \in U
    OBVIOUS
  <1> HIDE DEF U
  <1>3. Bools(count) \in Seq(U)
    BY <1>2 DEF Bools
  <1> QED
    BY <1>1, <1>3, LayoutOfTypes, Zenon

\* Lists of sized items are sized.
LEMMA ListSized ==
  ASSUME Recursion, NEW inner, Sized(inner), NEW n \in Nat
  PROVE  Sized(BfList(inner, n))
  <1>1. Plain(BfList(inner, n))
    BY ListPlain, Zenon DEF Sized
  <1>2. BfList(inner, n).len = IF inner.len = Dynamic THEN Dynamic ELSE n * inner.len
    BY DEF BfList
  <1>3. inner.len \in Nat
    BY DEF Sized
  <1>4. inner.len # Dynamic /\ n * inner.len \in Nat
    BY <1>3 DEF Dynamic
  <1> QED
    BY <1>1, <1>2, <1>4, Zenon DEF Sized

\* A nested class whose fields are a layout is sized.
LEMMA ClassSized ==
  ASSUME Recursion, NEW fields, Layout(fields)
  PROVE  Sized(OfClass(fields))
  <1>1. Length(fields) \in Nat /\ FieldsComeBack(fields)
    BY LengthIsKnown, LayoutComesBack, Zenon
  <1>2. Plain(OfClass(fields))
    BY <1>1, BitfieldPlain, Zenon DEF OfClass
  <1>3. OfClass(fields).len = Length(fields)
    BY DEF OfClass, BfBitfield
  <1> QED
    BY <1>1, <1>2, <1>3, Zenon DEF Sized

\* The classes without dynamic fields.
LEMMA DevInfoLayout ==
  ASSUME Recursion
  PROVE  Layout(DevInfo)
  <1>1. Layout(Ints(<<8, 16, 8, 16>>)) /\ Layout(Ints(<<8, 4>>))
    <2>1. <<8, 16, 8, 16>> \in Seq(Nat \ {0}) /\ <<8, 4>> \in Seq(Nat \ {0})
      OBVIOUS
    <2> QED
      BY <2>1, IntsLayout, Zenon
  <1>2. Layout(Bools(6)) /\ Layout(Bools(4)) /\ Layout(Bools(2))
    <2>1. 6 \in Nat /\ 4 \in Nat /\ 2 \in Nat
      OBVIOUS
    <2> QED
      BY <2>1, BoolsLayout, Zenon
  <1>3. Layout(<<BfInt(6)>>) /\ Layout(<<BfLitInt(2, 0)>>)
    <2>1. 6 \in Nat \ {0} /\ 2 \in Nat \ {0}
      OBVIOUS
    <2> QED
      BY <2>1, IntSized, LitIntSized, LayoutOfOne, Zenon
  <1> QED
    BY <1>1, <1>2, <1>3, LayoutsJoin, Zenon DEF DevInfo

\* settings.py
LEMMA SettingsLayout ==
  ASSUME Recursion
  PROVE  Layout(Settings)
  <1>1. /\ Layout(Ints(<<4, 4>>)) /\ Layout(Ints(<<1, 2, 4>>)) /\ Layout(Ints(<<3, 4, 5, 2, 3>>))
        /\ Layout(Ints(<<2, 4, 6>>)) /\ Layout(Ints(<<5, 2>>)) /\ Layout(Ints(<<4, 4, 2, 4, 2, 2>>))
    <2>1. /\ <<4, 4>> \in Seq(Nat \ {0})
          /\ <<1, 2, 4>> \in Seq(Nat \ {0}) /\ <<3, 4, 5, 2, 3>> \in Seq(Nat \ {0})
          /\ <<2, 4, 6>> \in Seq(Nat \ {0})
          /\ <<5, 2>> \in Seq(Nat \ {0}) /\ <<4, 4, 2, 4, 2, 2>> \in Seq(Nat \ {0})
      OBVIOUS
    <2> QED
      BY <2>1, IntsLayout, Zenon
  <1>2. Layout(Bools(1)) /\ Layout(Bools(4)) /\ Layout(Bools(3))
    <2>1. 1 \in Nat /\ 4 \in Nat /\ 3 \in Nat
      OBVIOUS
    <2> QED
      BY <2>1, BoolsLayout, Zenon
  <1>3. Layout(<<BfInt(3), BfMap(BfInt(5), [m |-> "locCh"])>>)
    <2>1. 3 \in Nat \ {0} /\ 5 \in Nat \ {0}
      OBVIOUS
    <2> QED
      BY <2>1, IntSized, LocChSized, LayoutOfTwo, Zenon
  <1>4. Layout(<<BfLitInt(3, 0), BfBits(32), BfBits(32)>>)
    <2> DEFINE a == BfLitInt(3, 0)
               b == BfBits(32)
    <2>1. 3 \in Nat \ {0} /\ 32 \in Nat \ {0}
      OBVIOUS
    <2>2. Sized(a) /\ Sized(b)
      BY <2>1, LitIntSized, BitsSized, Zenon
    <2> HIDE DEF a, b
    <2> DEFINE U == {a, b}
    <2>3. <<a, b, b>> \in Seq(U)
      OBVIOUS
    <2>4. \A t \in U : Sized(t)
      BY <2>2
    <2> HIDE DEF U
    <2> QED
      BY <2>3, <2>4, LayoutOfTypes, Zenon DEF a, b
  <1> QED
    BY <1>1, <1>2, <1>3, <1>4, LayoutsJoin, ZenonT(60) DEF Settings

\* rf_ch.py
LEMMA RfChLayout ==
  ASSUME Recursion
  PROVE  Layout(RfCh) /\ Layout(RfChDMR)
  <1> DEFINE scale == [m |-> "scale", by |-> 1]
  <1>1. /\ 2 \in Nat \ {0} /\ 30 \in Nat \ {0} /\ 8 \in Nat \ {0} /\ 3 \in Nat \ {0}
        /\ 1 \in Nat \ {0} /\ 4 \in Nat \ {0} /\ 10 \in Nat \ {0}
        /\ 7 \in Nat \ {0} /\ 1 \in {1, 10}
    OBVIOUS
  <1>2. Layout(Frequency)
    BY <1>1, EnumSized, ScaleSized, LayoutOfTwo, Zenon DEF Frequency
  <1>3. Layout(<<SubAudio, SubAudio>>)
    BY SubAudioSized, LayoutOfTwo, Zenon
  <1>4. Layout(<<BfInt(8)>>) /\ Layout(<<BfIntEnum(0..1, 1)>>)
    BY <1>1, IntSized, EnumSized, LayoutOfOne, Zenon
  <1>5. Layout(Bools(3)) /\ Layout(Bools(8))
    BY <1>1, BoolsLayout, Zenon
  <1>6. Layout(<<BfLitInt(4, 0), BfStr(10)>>)
    BY <1>1, LitIntSized, StrSized, LayoutOfTwo, Zenon
  <1>7. Layout(RfCh)
    BY <1>2, <1>3, <1>4, <1>5, <1>6, LayoutsJoin, Zenon DEF RfCh
  <1>8. Layout(Ints(<<4, 4, 1>>))
    <2>1. <<4, 4, 1>> \in Seq(Nat \ {0})
      OBVIOUS
    <2> QED
      BY <2>1, IntsLayout, Zenon
  <1>9. Layout(<<BfLitInt(7, 0)>>)
    BY <1>1, LitIntSized, LayoutOfOne, Zenon
  <1>10. Layout(RfChDMR)
    BY <1>7, <1>8, <1>9, LayoutsJoin, Zenon DEF RfChDMR
  <1> QED
    BY <1>7, <1>10

\* status.py
LEMMA StatusLayout ==
  ASSUME Recursion
  PROVE  Layout(Status) /\ Layout(StatusExt)
  <1>1. 2 \in Nat \ {0} /\ 3 \in Nat \ {0} /\ 1 \in Nat \ {0} /\ 4 \in Nat \ {0} /\ 1 \in {1, 10}
    OBVIOUS
  <1>2. Layout(Bools(4)) /\ Layout(Bools(2)) /\ Layout(Bools(3))
    BY <1>1, BoolsLayout, Zenon
  <1>3. /\ Layout(<<BfIntEnum(0..2, 2)>>) /\ Layout(<<BfInt(4)>>) /\ Layout(<<BfInt(1)>>)
        /\ Layout(<<BfLitInt(2, 0)>>)
    BY <1>1, IntSized, EnumSized, LitIntSized, LayoutOfOne, Zenon
  <1>4. Layout(Status)
    BY <1>2, <1>3, LayoutsJoin, Zenon DEF Status
  <1>5. Layout(<<BfMap(BfInt(4), [m |-> "scale", by |-> 1])>>)
    BY <1>1, ScaleSized, LayoutOfOne, Zenon
  <1>6. Layout(Ints(<<6, 4>>))
    <2>1. <<6, 4>> \in Seq(Nat \ {0})
      OBVIOUS
    <2> QED
      BY <2>1, IntsLayout, Zenon
  <1>7. Layout(StatusExt)
    BY <1>3, <1>4, <1>5, <1>6, LayoutsJoin, Zenon DEF StatusExt
  <1> QED
    BY <1>4, <1>7

\* bss_settings.py
LEMMA BSSLayout ==
  ASSUME Recursion
  PROVE  Layout(BSSSettings) /\ Layout(BSSSettingsExt)
  <1>1. /\ 5 \in Nat \ {0} /\ 1 \in Nat \ {0} /\ 4 \in Nat \ {0} /\ 8 \in Nat \ {0}
        /\ 32 \in Nat \ {0} /\ 12 \in Nat \ {0} /\ 18 \in Nat \ {0}
        /\ 2 \in Nat \ {0} /\ 6 \in Nat \ {0} /\ 10 \in {1, 10}
    OBVIOUS
  <1>2. Layout(Ints(<<4, 4>>))
    <2>1. <<4, 4>> \in Seq(Nat \ {0})
      OBVIOUS
    <2> QED
      BY <2>1, IntsLayout, Zenon
  <1>3. Layout(Bools(5)) /\ Layout(Bools(1)) /\ Layout(<<BfIntEnum(0..1, 1)>>)
    BY <1>1, BoolsLayout, EnumSized, LayoutOfOne, Zenon
  <1>4. Layout(<<BfBits(32)>>)
    BY <1>1, BitsSized, LayoutOfOne, Zenon
  <1> DEFINE a == BfLitInt(1, 0)
             b == BfInt(4)
             c == BfLitInt(4, 0)
             d == BfMap(BfInt(8), [m |-> "scale", by |-> 10])
             e == BfBits(32)
             f == BfStr(12)
             g == BfStr(18)
             h == BfStr(2)
             i == BfStr(6)
  <1>5. Layout(<<a, b, c, d, e, f, g, h, i>>)
    <2>1. Sized(a) /\ Sized(b) /\ Sized(c) /\ Sized(e)
      BY <1>1, LitIntSized, IntSized, BitsSized, Zenon
    <2>2. Sized(d)
      BY <1>1, ScaleSized, Zenon
    <2>3. Sized(f) /\ Sized(g) /\ Sized(h) /\ Sized(i)
      BY <1>1, StrSized, Zenon
    <2> HIDE DEF a, b, c, d, e, f, g, h, i
    <2> DEFINE U == {a, b, c, d, e, f, g, h, i}
    <2>4. <<a, b, c, d, e, f, g, h, i>> \in Seq(U)
      OBVIOUS
    <2>5. \A t \in U : Sized(t)
      BY <2>1, <2>2, <2>3, Zenon
    <2> HIDE DEF U
    <2> QED
      BY <2>4, <2>5, LayoutOfTypes, Zenon
  <1>6. Layout(BSSSettings)
    BY <1>2, <1>3, <1>5, LayoutsJoin, Zenon DEF BSSSettings
  <1>7. Layout(BSSSettingsExt)
    BY <1>4, <1>6, LayoutsJoin, Zenon DEF BSSSettingsExt
  <1> QED
    BY <1>6, <1>7

\* position.py
LEMMA PositionLayout ==
  ASSUME Recursion
  PROVE  Layout(Position)
  <1> DEFINE a == Degrees
             b == OptionalInt(BfMap(BfInt(16), [m |-> "signed", bits |-> 24]), -32768)
             c == OptionalInt(BfInt(16), 65535)
             d == BfBits(32)
             e == BfInt(16)
  <1>1. 16 \in Nat \ {0} /\ 32 \in Nat \ {0}
    OBVIOUS
  <1>2. Sized(a) /\ Sized(d) /\ Sized(e)
    BY <1>1, DegreesSized, BitsSized, IntSized, Zenon
  <1>3. Sized(c)
    BY <1>1, OptionalSized
  <1>4. Sized(b)
    <2> DEFINE n == 16
               bits == 24
               magic == -32768
    <2>1. n \in Nat \ {0} /\ bits \in Nat \ {0} /\ n <= bits /\ 2^n <= 2^bits
      OBVIOUS
    <2> HIDE DEF n, bits, magic
    <2>2. Sized(OptionalInt(BfMap(BfInt(n), [m |-> "signed", bits |-> bits]), magic))
      BY <2>1, AltitudeSized, Zenon
    <2> QED
      BY <2>2 DEF n, bits, magic
  <1> HIDE DEF a, b, c, d, e
  <1> DEFINE U == {a, b, c, d, e}
  <1>5. <<a, a, b, c, c, d, e>> \in Seq(U)
    OBVIOUS
  <1>6. \A t \in U : Sized(t)
    BY <1>2, <1>3, <1>4, Zenon
  <1> HIDE DEF U
  <1>7. Layout(<<a, a, b, c, c, d, e>>)
    BY <1>5, <1>6, LayoutOfTypes, Zenon
  <1> QED
    BY <1>7 DEF Position, a, b, c, d, e

\* pf.py
LEMMA PFLayout ==
  ASSUME Recursion
  PROVE  Layout(PF)
  <1> DEFINE a == BfInt(4)
             b == BfIntEnum(0..13, 4)
             c == BfIntEnum(0..23, 8)
             U == {a, b, c}
  <1>1. 4 \in Nat \ {0} /\ 8 \in Nat \ {0}
    OBVIOUS
  <1>2. Sized(a) /\ Sized(b) /\ Sized(c)
    BY <1>1, IntSized, EnumSized, Zenon
  <1> HIDE DEF a, b, c
  <1>3. <<a, b, c>> \in Seq(U)
    OBVIOUS
  <1>4. \A t \in U : Sized(t)
    BY <1>2, Zenon
  <1> HIDE DEF U
  <1>5. Layout(<<a, b, c>>)
    BY <1>3, <1>4, LayoutOfTypes, Zenon
  <1> QED
    BY <1>5, Zenon DEF PF, a, b, c

\* phone_status.py
LEMMA SetPhoneStatusLayout ==
  ASSUME Recursion
  PROVE  Layout(SetPhoneStatus)
  <1> DEFINE a == BfList(BfBool, 16)
             b == BfBool
             c == BfLitInt(1, 0)
             d == BfLitInt(14, 0)
             U == {a, b, c, d}
  <1>1. 16 \in Nat \ {0} /\ 1 \in Nat \ {0} /\ 14 \in Nat \ {0}
    OBVIOUS
  <1>2. Sized(a) /\ Sized(b) /\ Sized(c) /\ Sized(d)
    BY <1>1, BoolSized, ListSized, LitIntSized, Zenon
  <1> HIDE DEF a, b, c, d
  <1>3. <<a, b, c, a, d>> \in Seq(U)
    OBVIOUS
  <1>4. \A t \in U : Sized(t)
    BY <1>2, Zenon
  <1> HIDE DEF U
  <1>5. Layout(<<a, b, c, a, d>>)
    BY <1>3, <1>4, LayoutOfTypes, Zenon
  <1> QED
    BY <1>5, Zenon DEF SetPhoneStatus, a, b, c, d

\* The bodies of one or two fields that are known before.
LEMMA SmallLayouts ==
  ASSUME Recursion
  PROVE  /\ Layout(StatusOnly) /\ Layout(GetDevInfo) /\ Layout(WriteSettings) /\ Layout(ReadRFCh)
         /\ Layout(WriteRFChReply) /\ Layout(ReadBSSSettings) /\ Layout(GetPFReply)
         /\ Layout(ReadPowerStatus) /\ Layout(BatteryVoltage) /\ Layout(BatteryLevel)
         /\ Layout(RegisterNotification) /\ Layout(<<>>) /\ Layout(<<OfClass(RfCh)>>)
         /\ Sized(ReplyStatus) /\ Sized(PowerStatusType)
  <1>1. 8 \in Nat \ {0} /\ 16 \in Nat \ {0} /\ 1 \in {1, 10}
    OBVIOUS
  <1>2. Sized(ReplyStatus) /\ Sized(PowerStatusType)
    BY <1>1, EnumSized, Zenon DEF ReplyStatus, PowerStatusType
  <1>3. Layout(StatusOnly) /\ Layout(ReadPowerStatus)
    BY <1>2, LayoutOfOne, Zenon DEF StatusOnly, ReadPowerStatus
  <1>4. Layout(GetDevInfo) /\ Layout(ReadBSSSettings)
    BY <1>1, LitIntSized, LayoutOfOne, Zenon DEF GetDevInfo, ReadBSSSettings
  <1>5. Layout(ReadRFCh) /\ Layout(BatteryLevel)
    BY <1>1, IntSized, LayoutOfOne, Zenon DEF ReadRFCh, BatteryLevel
  <1>6. Layout(WriteSettings) /\ Layout(<<OfClass(RfCh)>>)
    BY SettingsLayout, RfChLayout, ClassSized, LayoutOfOne, Zenon DEF WriteSettings
  <1>7. Layout(WriteRFChReply)
    BY <1>1, <1>2, IntSized, LayoutOfTwo, Zenon DEF WriteRFChReply
  <1>8. Layout(GetPFReply)
    BY <1>1, <1>2, PFLayout, ClassSized, ListSized, LayoutOfTwo, Zenon DEF GetPFReply
  <1>9. Layout(BatteryVoltage)
    BY <1>1, ScaleSized, LayoutOfOne, Zenon DEF BatteryVoltage
  <1>10. Layout(RegisterNotification)
    BY <1>1, EnumSized, LayoutOfOne, Zenon DEF RegisterNotification
  <1>11. Layout(<<>>)
    <2> DEFINE U == {}
    <2>1. <<>> \in Seq(U) /\ \A t \in U : Sized(t)
      OBVIOUS
    <2> HIDE DEF U
    <2> QED
      BY <2>1, LayoutOfTypes, Zenon
  <1> QED
    BY <1>2, <1>3, <1>4, <1>5, <1>6, <1>7, <1>8, <1>9, <1>10, <1>11, Zenon

-----------------------------------------------------------------------------
\* A field after n others that comes back, the others seen before it or all of them.
ComesBackAfter(type, n) == \A v : ComesBack(type, [j \in 1..n |-> v[j]], v)

\* A field that does not look at the others comes back wherever it stands.
LEMMA PlainAfter ==
  ASSUME NEW type, Plain(type), NEW n
  PROVE  ComesBackAfter(type, n)
  BY Zenon DEF Plain, ComesBackAfter

\* An object of one field that comes back.
LEMMA FieldsOfOne ==
  ASSUME NEW a, ComesBackAfter(a, 0)
  PROVE  FieldsComeBack(<<a>>)
  <1> DEFINE fields == <<a>>
  <1>1. Len(fields) = 1 /\ DOMAIN fields = 1..1 /\ fields[1] = a /\ 1 \in Nat /\ 1 - 1 = 0
    OBVIOUS
  <1> HIDE DEF fields
  <1>2. ASSUME NEW v, NEW i \in 1..1
        PROVE  ComesBack(fields[i], [j \in 1..i - 1 |-> v[j]], v)
    <2>1. i = 1
      OBVIOUS
    <2>2. ComesBack(a, [j \in 1..0 |-> v[j]], v)
      BY Zenon DEF ComesBackAfter
    <2> QED
      BY <1>1, <2>1, <2>2
  <1>3. FieldsComeBack(fields)
    BY <1>1, <1>2 DEF FieldsComeBack
  <1> QED
    BY <1>3 DEF fields

\* An object of two fields that come back where they stand.
LEMMA FieldsOfTwo ==
  ASSUME NEW a, ComesBackAfter(a, 0), NEW b, ComesBackAfter(b, 1)
  PROVE  FieldsComeBack(<<a, b>>)
  <1> DEFINE fields == <<a, b>>
  <1>1. Len(fields) = 2 /\ DOMAIN fields = 1..2 /\ fields[1] = a /\ fields[2] = b /\ 2 \in Nat
    OBVIOUS
  <1> HIDE DEF fields
  <1>2. ASSUME NEW v, NEW i \in 1..2
        PROVE  ComesBack(fields[i], [j \in 1..i - 1 |-> v[j]], v)
    <2>1. (i = 1 /\ i - 1 = 0) \/ (i = 2 /\ i - 1 = 1)
      OBVIOUS
    <2>2. ComesBack(a, [j \in 1..0 |-> v[j]], v) /\ ComesBack(b, [j \in 1..1 |-> v[j]], v)
      BY Zenon DEF ComesBackAfter
    <2> QED
      BY <1>1, <2>1, <2>2
  <1>3. FieldsComeBack(fields)
    BY <1>1, <1>2 DEF FieldsComeBack
  <1> QED
    BY <1>3 DEF fields

\* The functions given to bf_dyn(), of fields and of what is left.
LEMMA Discriminated ==
  ASSUME NEW self, NEW n
  PROVE  /\ Discriminate("tnc_data", self, n) = <<BfBytes((IF self[2] THEN n - 1 ELSE n) \div 8)>>
         /\ Discriminate("tnc_channel", self, n) = <<IF self[2] THEN BfInt(8) ELSE BfNone>>
         /\ Discriminate("fragment", self, n) = <<BfBitfield(TncDataFragment, n)>>
         /\ Discriminate("dev_info", self, n) = OnSuccess(self, <<OfClass(DevInfo)>>)
         /\ Discriminate("settings", self, n) = OnSuccess(self, <<OfClass(Settings)>>)
         /\ Discriminate("rf_ch_reply", self, n) = OnSuccess(self, BySize(n, RfCh, RfChDMR))
         /\ Discriminate("rf_ch", self, n) = BySize(n, RfCh, RfChDMR)
         /\ Discriminate("status", self, n) = OnSuccess(self, BySize(n, Status, StatusExt))
         /\ Discriminate("event_status", self, n) = BySize(n, Status, StatusExt)
         /\ Discriminate("bss_reply", self, n) = OnSuccess(self, BySize(n, BSSSettings, BSSSettingsExt))
         /\ Discriminate("bss", self, n) = BySize(n, BSSSettings, BSSSettingsExt)
         /\ Discriminate("power_value", self, n) = StatusValue(self[1])
         /\ Discriminate("power_reply", self, n) = OnSuccess(self, <<BfBitfield(PowerStatus, n)>>)
         /\ Discriminate("position", self, n) = OnSuccess(self, <<OfClass(Position)>>)
         /\ Discriminate("event", self, n) = <<EventDisc(self[1], n)>>
         /\ Discriminate("all_bytes", self, n) = <<BfBytes(n \div 8)>>
         /\ Discriminate("command", self, n) = <<IF self[1] = BASIC THEN BfIntEnum(BasicCommands, 15)
                                                 ELSE BfEnumOr(ExtendedCommands, 15, 0)>>
         /\ Discriminate("body", self, n) = BodyDisc(self, n)
  BY Zenon DEF Discriminate

\* A function of fields and of what is left that chooses what a message can hold.
Choosing(fn) == \A self : \A n \in Nat :
  Discriminate(fn, self, n) # Raises => Chosen(Discriminate(fn, self, n)[1])

\* A dynamic field comes back if its function chooses what a message can hold.
LEMMA ChoosingAfter ==
  ASSUME Recursion, NEW fn, Choosing(fn), NEW n
  PROVE  ComesBackAfter(BfDynN(fn), n)
  BY DynNComesBack, Zenon DEF Choosing, ComesBackAfter

\* A function of fields that chooses the same when it sees only the first m of them.
Steady(fn, m) == \A v : \A n \in Nat :
  LET seen == [j \in 1..m |-> v[j]]
  IN /\ Discriminate(fn, seen, n) = Discriminate(fn, v, 0)
     /\ Discriminate(fn, seen, n) # Raises => Plain(Discriminate(fn, seen, n)[1])

\* A dynamic field comes back if its function never changes its mind.
LEMMA SteadyAfter ==
  ASSUME Recursion, NEW fn, NEW m, Steady(fn, m)
  PROVE  ComesBackAfter(BfDyn(fn), m)
  BY DynComesBack, Zenon DEF Steady, ComesBackAfter

\* A class whose fields are a layout is something a message can hold.
LEMMA ClassChosen ==
  ASSUME NEW fields, Layout(fields)
  PROVE  Chosen(OfClass(fields))
  BY LayoutComesBack, LengthIsKnown, Zenon DEF Chosen, OfClass

\* One class of two, or neither.
LEMMA BySizeChooses ==
  ASSUME NEW short, Layout(short), NEW long, Layout(long), NEW n, BySize(n, short, long) # Raises
  PROVE  Chosen(BySize(n, short, long)[1])
  <1> DEFINE size == BySize(n, short, long)
  <1>1. size = <<OfClass(short)>> \/ size = <<OfClass(long)>>
    BY DEF BySize
  <1>2. size[1] = OfClass(short) \/ size[1] = OfClass(long)
    BY <1>1
  <1> QED
    BY <1>2, ClassChosen, Zenon

\* A reply carries its data or nothing.
LEMMA OnSuccessIs ==
  ASSUME NEW self, NEW type
  PROVE  OnSuccess(self, type) = type \/ OnSuccess(self, type) = <<BfNone>>
  BY Zenon DEF OnSuccess

\* A reply may hold what its data may.
LEMMA OnSuccessChooses ==
  ASSUME NEW self, NEW type, type # Raises => Chosen(type[1])
  PROVE  OnSuccess(self, type) # Raises => Chosen(OnSuccess(self, type)[1])
  <1>1. Chosen(<<BfNone>>[1])
    BY DEF Chosen
  <1> QED
    BY <1>1, OnSuccessIs

\* Fields that come back after those before them, in an object.
LEMMA FieldsAfter ==
  ASSUME NEW fields, Len(fields) \in Nat, DOMAIN fields = 1..Len(fields),
         \A i \in 1..Len(fields) : ComesBackAfter(fields[i], i - 1)
  PROVE  FieldsComeBack(fields)
  BY Zenon DEF FieldsComeBack, ComesBackAfter

\* The first field of a reply does not depend on others.
LEMMA SizedFirst ==
  ASSUME NEW type, Sized(type)
  PROVE  ComesBackAfter(type, 0)
  BY PlainAfter, Zenon DEF Sized

\* The functions that choose by what is left, after a status or not.
BySizeOnly(fn, short, long) == \A self, n : Discriminate(fn, self, n) = BySize(n, short, long)
BySizeOnSuccess(fn, short, long) ==
  \A self, n : Discriminate(fn, self, n) = OnSuccess(self, BySize(n, short, long))

\* Functions that choose a class by its size.
LEMMA ChoosingBySize ==
  ASSUME NEW short, Layout(short), NEW long, Layout(long), NEW fn, BySizeOnly(fn, short, long)
  PROVE  Choosing(fn)
  <1> SUFFICES ASSUME NEW self, NEW n \in Nat, Discriminate(fn, self, n) # Raises
               PROVE  Chosen(Discriminate(fn, self, n)[1])
    BY Zenon DEF Choosing
  <1> DEFINE size == BySize(n, short, long)
  <1>1. size # Raises => Chosen(size[1])
    BY BySizeChooses, Zenon
  <1>2. Discriminate(fn, self, n) = size
    BY Zenon DEF BySizeOnly
  <1> HIDE DEF size
  <1> QED
    BY <1>1, <1>2, Zenon

\* Functions that choose a class by its size, in a reply.
LEMMA ChoosingReply ==
  ASSUME NEW short, Layout(short), NEW long, Layout(long), NEW fn, BySizeOnSuccess(fn, short, long)
  PROVE  Choosing(fn)
  <1> SUFFICES ASSUME NEW self, NEW n \in Nat, Discriminate(fn, self, n) # Raises
               PROVE  Chosen(Discriminate(fn, self, n)[1])
    BY Zenon DEF Choosing
  <1> DEFINE size == BySize(n, short, long)
  <1>1. size # Raises => Chosen(size[1])
    BY BySizeChooses, Zenon
  <1>2. Discriminate(fn, self, n) = OnSuccess(self, size)
    BY Zenon DEF BySizeOnSuccess
  <1> HIDE DEF size
  <1> QED
    BY <1>1, <1>2, OnSuccessChooses, Zenon

\* The functions that look at what is left.
LEMMA SizesChoose ==
  ASSUME Recursion
  PROVE  /\ Choosing("rf_ch") /\ Choosing("rf_ch_reply") /\ Choosing("event_status")
         /\ Choosing("status") /\ Choosing("bss") /\ Choosing("bss_reply") /\ Choosing("all_bytes")
         /\ Choosing("tnc_data")
  <1>1. Choosing("rf_ch") /\ Choosing("rf_ch_reply")
    <2>1. BySizeOnly("rf_ch", RfCh, RfChDMR)
      BY Discriminated, Zenon DEF BySizeOnly
    <2>2. BySizeOnSuccess("rf_ch_reply", RfCh, RfChDMR)
      BY Discriminated, Zenon DEF BySizeOnSuccess
    <2> QED
      BY <2>1, <2>2, RfChLayout, ChoosingBySize, ChoosingReply, Zenon
  <1>2. Choosing("event_status") /\ Choosing("status")
    <2>1. BySizeOnly("event_status", Status, StatusExt)
      BY Discriminated, Zenon DEF BySizeOnly
    <2>2. BySizeOnSuccess("status", Status, StatusExt)
      BY Discriminated, Zenon DEF BySizeOnSuccess
    <2> QED
      BY <2>1, <2>2, StatusLayout, ChoosingBySize, ChoosingReply, Zenon
  <1>3. Choosing("bss") /\ Choosing("bss_reply")
    <2>1. BySizeOnly("bss", BSSSettings, BSSSettingsExt)
      BY Discriminated, Zenon DEF BySizeOnly
    <2>2. BySizeOnSuccess("bss_reply", BSSSettings, BSSSettingsExt)
      BY Discriminated, Zenon DEF BySizeOnSuccess
    <2> QED
      BY <2>1, <2>2, BSSLayout, ChoosingBySize, ChoosingReply, Zenon
  <1>6. \A m \in Int : Chosen(BfBytes(m))
    BY Zenon DEF Chosen
  <1>7. Choosing("all_bytes")
    <2> SUFFICES ASSUME NEW self, NEW n \in Nat
                 PROVE  Chosen(Discriminate("all_bytes", self, n)[1])
      BY Zenon DEF Choosing
    <2>1. n \div 8 \in Int
      OBVIOUS
    <2>2. Discriminate("all_bytes", self, n) = <<BfBytes(n \div 8)>>
      BY Discriminated, Zenon
    <2> QED
      BY <1>6, <2>1, <2>2
  <1>8. Choosing("tnc_data")
    <2> SUFFICES ASSUME NEW self, NEW n \in Nat
                 PROVE  Chosen(Discriminate("tnc_data", self, n)[1])
      BY Zenon DEF Choosing
    <2> DEFINE left == (IF self[2] THEN n - 1 ELSE n) \div 8
    <2>1. left \in Int
      OBVIOUS
    <2>2. Discriminate("tnc_data", self, n) = <<BfBytes(left)>>
      BY Discriminated, Zenon
    <2> HIDE DEF left
    <2> QED
      BY <1>6, <2>1, <2>2
  <1> QED
    BY <1>1, <1>2, <1>3, <1>7, <1>8, Zenon

\* Two fields and three are five.
LEMMA TwoAndThree ==
  ASSUME NEW a, NEW b, NEW c, NEW d, NEW e
  PROVE  <<a, b>> \o <<c, d, e>> = <<a, b, c, d, e>>
  <1> DEFINE U == {a, b, c, d, e}
             F == <<a, b>>
             G == <<c, d, e>>
             H == <<a, b, c, d, e>>
  <1>1. /\ F \in Seq(U) /\ Len(F) = 2 /\ F[1] = a /\ F[2] = b
        /\ G \in Seq(U) /\ Len(G) = 3 /\ G[1] = c /\ G[2] = d /\ G[3] = e
        /\ H \in Seq(U) /\ Len(H) = 5 /\ H[1] = a /\ H[2] = b /\ H[3] = c /\ H[4] = d /\ H[5] = e
    OBVIOUS
  <1> HIDE DEF U, F, G, H
  <1>2. /\ F \o G \in Seq(U) /\ Len(F \o G) = 2 + 3
        /\ \A i \in 1..2 + 3 : (F \o G)[i] = IF i <= 2 THEN F[i] ELSE G[i - 2]
    <2>1. /\ F \o G \in Seq(U) /\ Len(F \o G) = Len(F) + Len(G)
          /\ \A i \in 1..Len(F) + Len(G) : (F \o G)[i] = IF i <= Len(F) THEN F[i] ELSE G[i - Len(F)]
      BY <1>1, ConcatProperties
    <2>2. Len(F) = 2 /\ Len(G) = 3
      BY <1>1
    <2> QED
      BY <2>1, <2>2, Zenon
  <1>3. \A i \in 1..2 + 3 : i = 1 \/ i = 2 \/ i = 3 \/ i = 4 \/ i = 5
    OBVIOUS
  <1>4. \A i \in 1..2 + 3 : (F \o G)[i] = H[i]
    BY <1>1, <1>2, <1>3
  <1>5. F \o G = H
    <2>1. Len(F \o G) = Len(H) /\ \A i \in 1..Len(F \o G) : (F \o G)[i] = H[i]
      BY <1>1, <1>2, <1>4
    <2> QED
      BY <1>1, <1>2, <2>1, SeqEqual, Zenon
  <1> QED
    BY <1>5 DEF F, G, H

\* common.py: a fragment, whose channel is there only if the flag before says so.
LEMMA FragmentComesBack ==
  ASSUME Recursion
  PROVE  FieldsComeBack(TncDataFragment)
  <1> DEFINE data == BfDynN("tnc_data")
             channel == BfDyn("tnc_channel")
             six == BfInt(6)
             bool == BfBool
  <1>1. \A n : ComesBackAfter(data, n)
    BY SizesChoose, ChoosingAfter, Zenon
  <1>2. Steady("tnc_channel", 4)
    <2> SUFFICES ASSUME NEW v, NEW n \in Nat
                 PROVE  LET seen == [j \in 1..4 |-> v[j]]
                        IN /\ Discriminate("tnc_channel", seen, n) = Discriminate("tnc_channel", v, 0)
                           /\ Plain(Discriminate("tnc_channel", seen, n)[1])
      BY Zenon DEF Steady
    <2> DEFINE seen == [j \in 1..4 |-> v[j]]
    <2>1. seen[2] = v[2]
      OBVIOUS
    <2> HIDE DEF seen
    <2>2. /\ Discriminate("tnc_channel", seen, n) = <<IF seen[2] THEN BfInt(8) ELSE BfNone>>
          /\ Discriminate("tnc_channel", v, 0) = <<IF v[2] THEN BfInt(8) ELSE BfNone>>
      BY Discriminated, Zenon
    <2>3. Plain(BfInt(8)) /\ Plain(BfNone)
      <3>1. 8 \in Nat \ {0}
        OBVIOUS
      <3> QED
        BY <3>1, IntSized, NonePlain, Zenon DEF Sized
    <2>4. Discriminate("tnc_channel", seen, n)[1] = IF v[2] THEN BfInt(8) ELSE BfNone
      BY <2>1, <2>2
    <2>5. Plain(Discriminate("tnc_channel", seen, n)[1])
      BY <2>3, <2>4, Zenon
    <2>6. Discriminate("tnc_channel", seen, n) = Discriminate("tnc_channel", v, 0)
      BY <2>1, <2>2
    <2> QED
      BY <2>5, <2>6, Zenon DEF seen
  <1>3. ComesBackAfter(channel, 4)
    BY <1>2, SteadyAfter, Zenon
  <1>4. \A n : ComesBackAfter(six, n) /\ ComesBackAfter(bool, n)
    <2>1. 6 \in Nat \ {0}
      OBVIOUS
    <2> QED
      BY <2>1, IntSized, BoolSized, PlainAfter, Zenon DEF Sized
  <1>5. TncDataFragment = <<bool, bool, six, data, channel>>
    <2> HIDE DEF bool, six, data, channel
    <2>1. Bools(2) = <<bool, bool>>
      BY DEF Bools, bool
    <2>2. TncDataFragment = Bools(2) \o <<six, data, channel>>
      BY Zenon DEF TncDataFragment, six, data, channel
    <2> QED
      BY <2>1, <2>2, TwoAndThree, ZenonT(60)
  <1> HIDE DEF bool, six, data, channel
  <1> DEFINE fields == <<bool, bool, six, data, channel>>
  <1>6. /\ Len(fields) = 5 /\ DOMAIN fields = 1..5 /\ fields[1] = bool /\ fields[2] = bool
        /\ fields[3] = six /\ fields[4] = data /\ fields[5] = channel
    OBVIOUS
  <1> HIDE DEF fields
  <1>7. ASSUME NEW i \in 1..5
        PROVE  ComesBackAfter(fields[i], i - 1)
    <2>1. i = 1 \/ i = 2 \/ i = 3 \/ i = 4 \/ i = 5
      OBVIOUS
    <2>2. 5 - 1 = 4
      OBVIOUS
    <2> QED
      BY <1>1, <1>3, <1>4, <1>6, <2>1, <2>2, Zenon
  <1>8. FieldsComeBack(fields)
    <2>1. 5 \in Nat \ {0}
      OBVIOUS
    <2> QED
      BY <1>6, <1>7, <2>1, FieldsAfter
  <1> QED
    BY <1>5, <1>8 DEF fields

\* ht_send_data.py
LEMMA SendDataComesBack ==
  ASSUME Recursion
  PROVE  FieldsComeBack(HTSendData)
  <1>1. Choosing("fragment")
    <2> SUFFICES ASSUME NEW self, NEW n \in Nat
                 PROVE  Chosen(Discriminate("fragment", self, n)[1])
      BY Zenon DEF Choosing
    <2>1. Discriminate("fragment", self, n) = <<BfBitfield(TncDataFragment, n)>>
      BY Discriminated, Zenon
    <2>2. Chosen(BfBitfield(TncDataFragment, n))
      BY FragmentComesBack, Zenon DEF Chosen
    <2> QED
      BY <2>1, <2>2
  <1> QED
    BY <1>1, ChoosingAfter, FieldsOfOne, Zenon DEF HTSendData

\* Replies whose data depends on the status.
LEMMA OnSuccessSteady ==
  ASSUME Recursion, NEW fn, NEW fields, Layout(fields),
         \A self, n : Discriminate(fn, self, n) = OnSuccess(self, <<OfClass(fields)>>)
  PROVE  Steady(fn, 1)
  <1> SUFFICES ASSUME NEW v, NEW n \in Nat
               PROVE  LET seen == [j \in 1..1 |-> v[j]]
                      IN /\ Discriminate(fn, seen, n) = Discriminate(fn, v, 0)
                         /\ Plain(Discriminate(fn, seen, n)[1])
    BY Zenon DEF Steady
  <1> DEFINE seen == [j \in 1..1 |-> v[j]]
             type == <<OfClass(fields)>>
  <1>1. seen[1] = v[1]
    OBVIOUS
  <1>2. Plain(type[1])
    BY ClassSized DEF Sized
  <1> HIDE DEF seen, type
  <1>3. Discriminate(fn, seen, n) = OnSuccess(seen, type) /\ Discriminate(fn, v, 0) = OnSuccess(v, type)
    BY Zenon DEF type
  <1>4. OnSuccess(seen, type) = OnSuccess(v, type)
    BY <1>1, Zenon DEF OnSuccess
  <1>5. Plain(<<BfNone>>[1])
    BY NonePlain
  <1>6. Plain(OnSuccess(seen, type)[1])
    BY <1>2, <1>5, OnSuccessIs
  <1> QED
    BY <1>3, <1>4, <1>6, Zenon DEF seen

\* The replies whose data is always of the same class.
LEMMA RepliesSteady ==
  ASSUME Recursion
  PROVE  Steady("dev_info", 1) /\ Steady("settings", 1) /\ Steady("position", 1)
  <1>1. Steady("dev_info", 1)
    BY Discriminated, DevInfoLayout, OnSuccessSteady, Zenon
  <1>2. Steady("settings", 1)
    BY Discriminated, SettingsLayout, OnSuccessSteady, Zenon
  <1>3. Steady("position", 1)
    BY Discriminated, PositionLayout, OnSuccessSteady, Zenon
  <1> QED
    BY <1>1, <1>2, <1>3

\* power_status.py: the value's type is chosen by the field before it.
LEMMA PowerStatusComesBack ==
  ASSUME Recursion
  PROVE  FieldsComeBack(PowerStatus)
  <1>1. Steady("power_value", 1)
    <2> SUFFICES ASSUME NEW v, NEW n \in Nat
                 PROVE  LET seen == [j \in 1..1 |-> v[j]]
                        IN /\ Discriminate("power_value", seen, n) = Discriminate("power_value", v, 0)
                           /\ Discriminate("power_value", seen, n) # Raises =>
                                Plain(Discriminate("power_value", seen, n)[1])
      BY Zenon DEF Steady
    <2> DEFINE seen == [j \in 1..1 |-> v[j]]
    <2>1. seen[1] = v[1]
      OBVIOUS
    <2> HIDE DEF seen
    <2>2. /\ Discriminate("power_value", seen, n) = StatusValue(v[1])
          /\ Discriminate("power_value", v, 0) = StatusValue(v[1])
      BY <2>1, Discriminated, ZenonT(60)
    <2>3. Plain(OfClass(BatteryVoltage)) /\ Plain(OfClass(BatteryLevel))
      BY SmallLayouts, ClassSized, Zenon DEF Sized
    <2>4. \/ StatusValue(v[1]) = <<OfClass(BatteryVoltage)>> \/ StatusValue(v[1]) = <<OfClass(BatteryLevel)>>
          \/ StatusValue(v[1]) = Raises
      BY DEF StatusValue
    <2>5. StatusValue(v[1]) # Raises => Plain(StatusValue(v[1])[1])
      BY <2>3, <2>4
    <2> QED
      BY <2>2, <2>5, Zenon DEF seen
  <1> QED
    BY <1>1, SmallLayouts, SizedFirst, SteadyAfter, FieldsOfTwo, Zenon DEF PowerStatus

\* The power status in a reply.
LEMMA PowerReplyChooses ==
  ASSUME Recursion
  PROVE  Choosing("power_reply")
  <1> SUFFICES ASSUME NEW self, NEW n \in Nat
               PROVE  Discriminate("power_reply", self, n) # Raises =>
                        Chosen(Discriminate("power_reply", self, n)[1])
    BY Zenon DEF Choosing
  <1> DEFINE type == <<BfBitfield(PowerStatus, n)>>
  <1>1. Discriminate("power_reply", self, n) = OnSuccess(self, type)
    BY Discriminated, Zenon
  <1>2. Chosen(BfBitfield(PowerStatus, n))
    BY PowerStatusComesBack, Zenon DEF Chosen
  <1>3. Chosen(type[1])
    BY <1>2
  <1> HIDE DEF type
  <1> QED
    BY <1>1, <1>3, OnSuccessChooses, Zenon

\* notification.py
LEMMA EventComesBack ==
  ASSUME Recursion
  PROVE  FieldsComeBack(EventNotification)
  <1>1. Choosing("event")
    <2> SUFFICES ASSUME NEW self, NEW n \in Nat
                 PROVE  Chosen(Discriminate("event", self, n)[1])
      BY Zenon DEF Choosing
    <2>1. Discriminate("event", self, n) = <<EventDisc(self[1], n)>>
      BY Discriminated, Zenon
    <2> DEFINE type == EventDisc(self[1], n)
    <2>2. \/ type = OfClass(WriteSettings) \/ type = BfBitfield(HTStatusChangedEvent, n)
          \/ type = BfBitfield(HTSendData, n) \/ type = OfClass(<<OfClass(RfCh)>>)
          \/ type = BfBitfield(UnknownEvent, n)
      BY DEF EventDisc
    <2>3. Chosen(OfClass(WriteSettings)) /\ Chosen(OfClass(<<OfClass(RfCh)>>))
      BY SmallLayouts, ClassChosen, Zenon
    <2>4. /\ FieldsComeBack(HTStatusChangedEvent) /\ FieldsComeBack(UnknownEvent)
      BY SizesChoose, ChoosingAfter, FieldsOfOne, Zenon DEF HTStatusChangedEvent, UnknownEvent
    <2>5. /\ Chosen(BfBitfield(HTStatusChangedEvent, n)) /\ Chosen(BfBitfield(HTSendData, n))
          /\ Chosen(BfBitfield(UnknownEvent, n))
      BY <2>4, SendDataComesBack, Zenon DEF Chosen
    <2>6. Chosen(type)
      BY <2>2, <2>3, <2>5, Zenon
    <2> HIDE DEF type
    <2>7. Discriminate("event", self, n)[1] = type
      BY <2>1 DEF type
    <2> QED
      BY <2>6, <2>7, Zenon
  <1>2. Sized(BfIntEnum(EventTypes, 8))
    <2>1. 8 \in Nat \ {0}
      OBVIOUS
    <2> QED
      BY <2>1, EnumSized, Zenon
  <1> QED
    BY <1>1, <1>2, SizedFirst, ChoosingAfter, FieldsOfTwo, Zenon DEF EventNotification

-----------------------------------------------------------------------------
\* The requests and the replies that hold more than a layout.
LEMMA DynamicBodies ==
  ASSUME Recursion
  PROVE  /\ FieldsComeBack(WriteRFCh) /\ FieldsComeBack(WriteBSSSettings)
         /\ FieldsComeBack(GetDevInfoReply) /\ FieldsComeBack(ReadSettingsReply)
         /\ FieldsComeBack(GetPositionReply) /\ FieldsComeBack(ReadPowerStatusReply)
         /\ FieldsComeBack(ReadRFChReply) /\ FieldsComeBack(ReadBSSSettingsReply)
         /\ FieldsComeBack(GetHtStatusReply)
  <1>1. ComesBackAfter(ReplyStatus, 0)
    BY SmallLayouts, SizedFirst, Zenon
  <1>2. FieldsComeBack(WriteRFCh) /\ FieldsComeBack(WriteBSSSettings)
    BY SizesChoose, ChoosingAfter, FieldsOfOne, Zenon DEF WriteRFCh, WriteBSSSettings
  <1>3. FieldsComeBack(GetDevInfoReply) /\ FieldsComeBack(ReadSettingsReply)
    BY <1>1, RepliesSteady, SteadyAfter, FieldsOfTwo, Zenon DEF GetDevInfoReply, ReadSettingsReply
  <1>4. FieldsComeBack(GetPositionReply)
    BY <1>1, RepliesSteady, SteadyAfter, FieldsOfTwo, Zenon DEF GetPositionReply
  <1>5. FieldsComeBack(ReadPowerStatusReply) /\ FieldsComeBack(ReadRFChReply)
    BY <1>1, SizesChoose, PowerReplyChooses, ChoosingAfter, FieldsOfTwo, Zenon
    DEF ReadPowerStatusReply, ReadRFChReply
  <1>6. FieldsComeBack(ReadBSSSettingsReply) /\ FieldsComeBack(GetHtStatusReply)
    BY <1>1, SizesChoose, ChoosingAfter, FieldsOfTwo, Zenon
    DEF ReadBSSSettingsReply, GetHtStatusReply
  <1> QED
    BY <1>2, <1>3, <1>4, <1>5, <1>6

\* A table of bodies in which every one comes back.
AllComeBack(bodies) == \A c \in DOMAIN bodies : FieldsComeBack(bodies[c])

\* Every body of a request or a reply comes back.
LEMMA BodiesComeBack ==
  ASSUME Recursion
  PROVE  AllComeBack(Requests) /\ AllComeBack(Replies)
  <1>1. /\ FieldsComeBack(StatusOnly) /\ FieldsComeBack(GetDevInfo) /\ FieldsComeBack(WriteSettings)
        /\ FieldsComeBack(ReadRFCh) /\ FieldsComeBack(WriteRFChReply) /\ FieldsComeBack(ReadBSSSettings)
        /\ FieldsComeBack(GetPFReply) /\ FieldsComeBack(ReadPowerStatus)
        /\ FieldsComeBack(RegisterNotification) /\ FieldsComeBack(<<>>) /\ FieldsComeBack(SetPhoneStatus)
    BY SmallLayouts, SetPhoneStatusLayout, LayoutComesBack, Zenon
  <1>2. AllComeBack(Requests)
    <2> SUFFICES ASSUME NEW c \in DOMAIN Requests
                 PROVE  FieldsComeBack(RequestOf(c))
      BY Zenon DEF AllComeBack, Requests
    <2>1. FieldsComeBack(HTSendData) /\ FieldsComeBack(EventNotification)
      BY SendDataComesBack, EventComesBack
    <2>2. c = 4 => RequestOf(c) = GetDevInfo
      BY DEF RequestOf
    <2>3. c = 5 => RequestOf(c) = ReadPowerStatus
      BY DEF RequestOf
    <2>4. c = 6 => RequestOf(c) = RegisterNotification
      BY DEF RequestOf
    <2>5. c = 9 => RequestOf(c) = EventNotification
      BY DEF RequestOf
    <2>6. c = 11 => RequestOf(c) = WriteSettings
      BY DEF RequestOf
    <2>7. c = 13 => RequestOf(c) = ReadRFCh
      BY DEF RequestOf
    <2>8. c = 14 => RequestOf(c) = WriteRFCh
      BY DEF RequestOf
    <2>9. c = 31 => RequestOf(c) = HTSendData
      BY DEF RequestOf
    <2>10. c = 33 => RequestOf(c) = ReadBSSSettings
      BY DEF RequestOf
    <2>11. c = 34 => RequestOf(c) = WriteBSSSettings
      BY DEF RequestOf
    <2>12. c = 51 => RequestOf(c) = SetPhoneStatus
      BY DEF RequestOf
    <2>13. c \notin {4, 5, 6, 9, 11, 13, 14, 31, 33, 34, 51} => RequestOf(c) = <<>>
      BY DEF RequestOf
    <2>14. \/ c = 4 \/ c = 5 \/ c = 6 \/ c = 9 \/ c = 11 \/ c = 13 \/ c = 14 \/ c = 31 \/ c = 33 \/ c = 34 \/ c = 51
           \/ c \notin {4, 5, 6, 9, 11, 13, 14, 31, 33, 34, 51}
      OBVIOUS
    <2> QED
      BY <1>1, DynamicBodies, <2>1, <2>2, <2>3, <2>4, <2>5, <2>6, <2>7, <2>8,
         <2>9, <2>10, <2>11, <2>12, <2>13, <2>14, Zenon
  <1>3. AllComeBack(Replies)
    <2> SUFFICES ASSUME NEW c \in DOMAIN Replies
                 PROVE  FieldsComeBack(ReplyOf(c))
      BY Zenon DEF AllComeBack, Replies
    <2>1. /\ FieldsComeBack(StatusOnly) /\ FieldsComeBack(GetPFReply) /\ FieldsComeBack(WriteRFChReply)
          /\ FieldsComeBack(GetDevInfoReply) /\ FieldsComeBack(ReadSettingsReply)
          /\ FieldsComeBack(GetPositionReply) /\ FieldsComeBack(ReadPowerStatusReply)
          /\ FieldsComeBack(ReadRFChReply) /\ FieldsComeBack(ReadBSSSettingsReply)
          /\ FieldsComeBack(GetHtStatusReply)
      BY <1>1, DynamicBodies, Zenon
    <2>2. c = 4 => ReplyOf(c) = GetDevInfoReply
      BY DEF ReplyOf
    <2>3. c = 5 => ReplyOf(c) = ReadPowerStatusReply
      BY DEF ReplyOf
    <2>4. c = 10 => ReplyOf(c) = ReadSettingsReply
      BY DEF ReplyOf
    <2>5. c = 13 => ReplyOf(c) = ReadRFChReply
      BY DEF ReplyOf
    <2>6. c = 14 => ReplyOf(c) = WriteRFChReply
      BY DEF ReplyOf
    <2>7. c = 20 => ReplyOf(c) = GetHtStatusReply
      BY DEF ReplyOf
    <2>8. c = 33 => ReplyOf(c) = ReadBSSSettingsReply
      BY DEF ReplyOf
    <2>9. c = 55 => ReplyOf(c) = GetPFReply
      BY DEF ReplyOf
    <2>10. c = 76 => ReplyOf(c) = GetPositionReply
      BY DEF ReplyOf
    <2>11. c \notin {4, 5, 10, 13, 14, 20, 33, 55, 76} => ReplyOf(c) = StatusOnly
      BY DEF ReplyOf
    <2>12. \/ c = 4 \/ c = 5 \/ c = 10 \/ c = 13 \/ c = 14 \/ c = 20 \/ c = 33 \/ c = 55 \/ c = 76
           \/ c \notin {4, 5, 10, 13, 14, 20, 33, 55, 76}
      OBVIOUS
    <2> QED
      BY <2>1, <2>2, <2>3, <2>4, <2>5, <2>6, <2>7, <2>8, <2>9, <2>10, <2>11, <2>12, Zenon
  <1> QED
    BY <1>2, <1>3

\* body_disc()
LEMMA BodyChooses ==
  ASSUME Recursion
  PROVE  Choosing("body")
  <1> SUFFICES ASSUME NEW self, NEW n \in Nat, Discriminate("body", self, n) # Raises
               PROVE  Chosen(Discriminate("body", self, n)[1])
    BY Zenon DEF Choosing
  <1> DEFINE bodies == IF self[2] THEN Replies ELSE Requests
             type == BodyDisc(self, n)
  <1>1. Discriminate("body", self, n) = type
    BY Discriminated, Zenon
  <1>2. AllComeBack(bodies)
    BY BodiesComeBack, Zenon
  <1>3. \/ self[3] \in DOMAIN bodies /\ type = <<BfBitfield(bodies[self[3]], n)>>
        \/ type = Raises
        \/ type = <<BfBytes(n \div 8)>>
    BY DEF BodyDisc
  <1> HIDE DEF bodies, type
  <1>4. ASSUME self[3] \in DOMAIN bodies, type = <<BfBitfield(bodies[self[3]], n)>>
        PROVE  Chosen(type[1])
    <2>1. Chosen(BfBitfield(bodies[self[3]], n))
      BY <1>2, <1>4, Zenon DEF AllComeBack, Chosen
    <2> QED
      BY <1>4, <2>1
  <1>5. ASSUME type = <<BfBytes(n \div 8)>>
        PROVE  Chosen(type[1])
    <2>1. n \div 8 \in Int
      OBVIOUS
    <2>2. Chosen(BfBytes(n \div 8))
      BY <2>1, Zenon DEF Chosen
    <2> QED
      BY <1>5, <2>2
  <1> QED
    BY <1>1, <1>3, <1>4, <1>5, Zenon

-----------------------------------------------------------------------------
\* Integers and enumerations where a message reads and writes them.
LEMMA IntRead ==
  ASSUME Recursion, NEW n \in Nat, NEW s \in Streams, NEW seen, Read(BfInt(n), s, seen) # Raises
  PROVE  LET r == Read(BfInt(n), s, seen)
         IN /\ Onward(s, r[2]) /\ r[2].pos = s.pos + n
            /\ r[1] = ToInt(Part(s.bits, s.pos, r[2].pos))
  <1> DEFINE vm == [m |-> "int", n |-> n]
             r == Read(BfInt(n), s, seen)
             taken == Read(BfBits(n), s, seen)
  <1>1. vm.m = "int" /\ BfInt(n) = BfMap(BfBits(n), vm) /\ BfBits(n).k = "bits" /\ BfBits(n).n = n
    BY DEF BfInt, BfBits
  <1> HIDE DEF vm
  <1>2. \A x : Forward(vm, x) = <<ToInt(x)>>
    BY <1>1, Zenon DEF Forward
  <1>3. r = LET v == IF taken = Raises THEN Raises ELSE Forward(vm, taken[1])
            IN IF v = Raises THEN Raises ELSE <<v[1], taken[2]>>
    <2> DEFINE type == BfMap(BfBits(n), vm)
    <2>1. Read(type, s, seen) = LET v == IF taken = Raises THEN Raises ELSE Forward(vm, taken[1])
                                IN IF v = Raises THEN Raises ELSE <<v[1], taken[2]>>
      BY MapOf, ZenonT(60)
    <2>2. r = Read(type, s, seen)
      BY <1>1
    <2> HIDE DEF type
    <2> QED
      BY <2>1, <2>2, Zenon
  <1>4. taken = Take(s, n)
    BY <1>1, BitsKind, Zenon
  <1>5. r # Raises
    OBVIOUS
  <1> HIDE DEF r, taken
  <1>6. taken # Raises
    BY <1>3, <1>5, Zenon
  <1>7. /\ Onward(s, taken[2]) /\ taken[2].pos = s.pos + n
        /\ taken[1] = Part(s.bits, s.pos, taken[2].pos)
    BY <1>4, <1>6, TakeIsOnward, Zenon
  <1>8. r = <<ToInt(taken[1]), taken[2]>>
    BY <1>2, <1>3, <1>6 DEF Raises
  <1>9. r[1] = ToInt(taken[1]) /\ r[2] = taken[2]
    BY <1>8
  <1>10. /\ Onward(s, r[2]) /\ r[2].pos = s.pos + n
         /\ r[1] = ToInt(Part(s.bits, s.pos, r[2].pos))
    BY <1>7, <1>9
  <1> QED
    BY <1>10, Zenon DEF r

\* How an integer is written.
LEMMA IntWrittenAs ==
  ASSUME Recursion, NEW n \in Nat \ {0}, NEW y \in Int, y < 2^n, NEW self
  PROVE  Write(BfInt(n), y, self) = <<FromInt(y, n)[1]>>
  <1> DEFINE vm == [m |-> "int", n |-> n]
             w == FromInt(y, n)
             b == w[1]
  <1>1. vm.m = "int" /\ vm.n = n /\ BfInt(n) = BfMap(BfBits(n), vm)
        /\ BfBits(n).k = "bits" /\ BfBits(n).n = n
    BY DEF BfInt, BfBits
  <1> HIDE DEF vm
  <1>2. Back(vm, y) = w
    BY <1>1, Zenon DEF Back
  <1>3. Write(BfInt(n), y, self) = IF w = Raises THEN Raises ELSE Write(BfBits(n), b, self)
    <2> DEFINE type == BfMap(BfBits(n), vm)
    <2>1. Write(type, y, self) = LET z == Back(vm, y)
                                 IN IF z = Raises THEN Raises ELSE Write(BfBits(n), z[1], self)
      BY MapOf
    <2>2. Write(type, y, self) = Write(BfInt(n), y, self)
      BY <1>1
    <2> HIDE DEF type, w
    <2> QED
      BY <1>2, <2>1, <2>2
  <1>4. Len(b) = n
    BY IntegersWrap, Zenon
  <1>5. w # Raises
    <2>1. ~(y >= 2^n) /\ ~(n <= 0)
      <3>1. 2^n \in Nat
        BY TwoPowers
      <3> QED
        BY <3>1
    <2>2. w = <<[i \in 1..n |-> (y \div 2^(n - i)) % 2]>>
      BY <2>1, Zenon DEF FromInt
    <2> HIDE DEF w
    <2> QED
      BY <2>2 DEF Raises
  <1>6. Write(BfBits(n), b, self) = <<b>>
    <2> DEFINE type == BfBits(n)
    <2>1. type.k = "bits" /\ type.n = n
      BY <1>1
    <2> HIDE DEF type, b
    <2>2. Write(type, b, self) = IF Len(b) # type.n THEN Raises ELSE <<b>>
      BY <2>1, BitsKind, Zenon
    <2>3. Write(type, b, self) = <<b>>
      BY <1>4, <2>1, <2>2
    <2> QED
      BY <2>3 DEF type
  <1> QED
    BY <1>3, <1>5, <1>6, Zenon

\* The enumeration r read from the stream s, and how its type writes.
EnumIsRead(type, n, s, r, self) ==
  LET x == ToInt(Part(s.bits, s.pos, r[2].pos))
  IN /\ Onward(s, r[2]) /\ r[2].pos = s.pos + n
     /\ \/ x \in type.vm.values /\ r[1] = x
        \/ x \notin type.vm.values /\ type.vm.missing # Raises /\ r[1] = type.vm.missing[1]
     /\ ~Loses(type, r[1], self)
     /\ x \in Int /\ x < 2^n
     /\ FromInt(x, n) = <<Part(s.bits, s.pos, r[2].pos)>>
     /\ \A y \in Int : y < 2^n => Write(type, y, self) = <<FromInt(y, n)[1]>>

\* Reading an enumeration, with or without _missing_.
LEMMA EnumRead ==
  ASSUME Recursion, NEW n \in Nat \ {0}, NEW vm, vm.m = "enum", NEW s \in Streams, NEW seen, NEW self,
         Read(BfMap(BfInt(n), vm), s, seen) # Raises
  PROVE  EnumIsRead(BfMap(BfInt(n), vm), n, s, Read(BfMap(BfInt(n), vm), s, seen), self)
  <1> DEFINE type == BfMap(BfInt(n), vm)
             r == Read(type, s, seen)
             inner == Read(BfInt(n), s, seen)
             b == Part(s.bits, s.pos, inner[2].pos)
             x == ToInt(b)
  <1>1. r = LET v == IF inner = Raises THEN Raises ELSE Forward(vm, inner[1])
            IN IF v = Raises THEN Raises ELSE <<v[1], inner[2]>>
    BY MapOf, ZenonT(60)
  <1>2. \A y : Write(type, y, self) = LET z == Back(vm, y)
                                      IN IF z = Raises THEN Raises ELSE Write(BfInt(n), z[1], self)
    BY MapOf
  <1>3. \A y : ~Loses(type, y, self)
    <2>1. \A y : ~LosesValue(vm, y)
      BY DEF LosesValue
    <2> QED
      BY <2>1, MapOf, Zenon
  <1>4. \A y : Back(vm, y) = <<y>>
    BY Zenon DEF Back
  <1>5. ASSUME NEW y \in Int, y < 2^n
        PROVE  Write(type, y, self) = <<FromInt(y, n)[1]>>
    <2>1. Back(vm, y) # Raises /\ Back(vm, y)[1] = y
      BY <1>4 DEF Raises
    <2>2. Write(BfInt(n), y, self) = <<FromInt(y, n)[1]>>
      BY <1>5, IntWrittenAs, Zenon
    <2> HIDE DEF type
    <2> QED
      BY <1>2, <2>1, <2>2, Zenon
  <1>6. r # Raises
    OBVIOUS
  <1> HIDE DEF type, r
  <1>7. inner # Raises
    BY <1>1, <1>6, Zenon
  <1>8. Onward(s, inner[2]) /\ inner[2].pos = s.pos + n /\ inner[1] = x
    BY <1>7, IntRead, Zenon
  <1>9. b \in Seq(Bit) /\ Len(b) = n
    <2>1. /\ s.pos \in Nat /\ b \in Seq(Bit) /\ Len(b) = inner[2].pos - s.pos
      BY <1>8, PartOnward, Zenon
    <2> HIDE DEF b, inner
    <2> QED
      BY <1>8, <2>1
  <1> HIDE DEF b
  <1>10. x \in Int /\ x < 2^n /\ FromInt(x, n) = <<b>>
    <2>1. x \in Nat /\ x < 2^n
      BY <1>9, ToIntIsBounded, Zenon
    <2>2. FromInt(x, n) = <<b>>
      BY <1>9, BitsComeBack, Zenon
    <2> HIDE DEF x
    <2> QED
      BY <2>1, <2>2
  <1> HIDE DEF x, inner
  <1>11. Forward(vm, x) = IF x \in vm.values THEN <<x>> ELSE vm.missing
    BY Zenon DEF Forward
  <1>12. Forward(vm, x) # Raises /\ r = <<Forward(vm, x)[1], inner[2]>>
    BY <1>1, <1>6, <1>7, <1>8, Zenon
  <1>13. r[1] = Forward(vm, x)[1] /\ r[2] = inner[2]
    BY <1>12
  <1>14. \/ x \in vm.values /\ r[1] = x
         \/ x \notin vm.values /\ vm.missing # Raises /\ r[1] = vm.missing[1]
    BY <1>11, <1>12, <1>13
  <1>15. x = ToInt(Part(s.bits, s.pos, r[2].pos)) /\ b = Part(s.bits, s.pos, r[2].pos)
    BY <1>13, Zenon DEF x, b
  <1>16. Onward(s, r[2]) /\ r[2].pos = s.pos + n
    BY <1>8, <1>13
  <1>17. FromInt(x, n) = <<Part(s.bits, s.pos, r[2].pos)>> /\ x \in Int /\ x < 2^n
    BY <1>10, <1>15
  <1> DEFINE y == ToInt(Part(s.bits, s.pos, r[2].pos))
  <1>18. x = y
    BY <1>15
  <1> HIDE DEF y
  <1>19. /\ y \in Int /\ y < 2^n /\ FromInt(y, n) = <<Part(s.bits, s.pos, r[2].pos)>>
         /\ \/ y \in vm.values /\ r[1] = y
            \/ y \notin vm.values /\ vm.missing # Raises /\ r[1] = vm.missing[1]
    BY <1>14, <1>17, <1>18
  <1>20. type.vm = vm
    BY DEF BfMap, type
  <1>21. EnumIsRead(type, n, s, r, self)
    <2>1. /\ Onward(s, r[2]) /\ r[2].pos = s.pos + n
          /\ \/ y \in type.vm.values /\ r[1] = y
             \/ y \notin type.vm.values /\ type.vm.missing # Raises /\ r[1] = type.vm.missing[1]
          /\ ~Loses(type, r[1], self)
          /\ y \in Int /\ y < 2^n /\ FromInt(y, n) = <<Part(s.bits, s.pos, r[2].pos)>>
          /\ \A z \in Int : z < 2^n => Write(type, z, self) = <<FromInt(z, n)[1]>>
      BY <1>3, <1>5, <1>16, <1>19, <1>20, Zenon
    <2> QED
      BY <2>1, Zenon DEF EnumIsRead, y
  <1> QED
    BY <1>21, Zenon DEF r, type

-----------------------------------------------------------------------------
\* The bits of a command as they are written again: those read, or UNKNOWN's.
CommandBits(group, b) ==
  IF group = EXTENDED /\ ToInt(b) \notin ExtendedCommands THEN FromInt(0, 15)[1] ELSE b

\* The command is written as it was read, or as UNKNOWN.
LEMMA CommandComesBack ==
  ASSUME Recursion, NEW s \in Streams, NEW seen, NEW v, seen[1] = v[1], v[1] \in {BASIC, EXTENDED},
         Read(BfDyn("command"), s, seen) # Raises
  PROVE  LET r == Read(BfDyn("command"), s, seen)
         IN /\ Onward(s, r[2]) /\ r[2].pos = s.pos + 15
            /\ Write(BfDyn("command"), r[1], v) = <<CommandBits(v[1], Part(s.bits, s.pos, r[2].pos))>>
            /\ ~Loses(BfDyn("command"), r[1], v)
  <1> DEFINE type == BfDyn("command")
             r == Read(type, s, seen)
             missing == IF v[1] = BASIC THEN Raises ELSE <<0>>
             values == IF v[1] = BASIC THEN BasicCommands ELSE ExtendedCommands
             vm == [m |-> "enum", values |-> values, missing |-> missing]
             chosen == BfMap(BfInt(15), vm)
  <1>1. type.k = "dyn" /\ type.fn = "command"
    BY DEF BfDyn
  <1>2. \A n : Discriminate("command", seen, n) = <<chosen>> /\ Discriminate("command", v, n) = <<chosen>>
    <2> SUFFICES ASSUME NEW n, NEW self, self[1] = v[1]
                 PROVE  Discriminate("command", self, n) = <<chosen>>
      BY Zenon
    <2> DEFINE basic == BfIntEnum(BasicCommands, 15)
               extended == BfEnumOr(ExtendedCommands, 15, 0)
    <2>1. Discriminate("command", self, n) = <<IF self[1] = BASIC THEN basic ELSE extended>>
      BY Discriminated, Zenon
    <2>2. chosen = IF v[1] = BASIC THEN basic ELSE extended
      <3>1. ASSUME v[1] = BASIC
            PROVE  chosen = basic
        BY <3>1, Zenon DEF BfIntEnum
      <3>2. ASSUME v[1] # BASIC
            PROVE  chosen = extended
        BY <3>2, Zenon DEF BfEnumOr
      <3> QED
        BY <3>1, <3>2, Zenon
    <2> HIDE DEF basic, extended, chosen
    <2> QED
      BY <2>1, <2>2
  <1>3. vm.m = "enum" /\ vm.values = values /\ vm.missing = missing
    OBVIOUS
  <1>4. r # Raises
    OBVIOUS
  <1> HIDE DEF type, r, vm
  <1>5. r = Read(chosen, s, seen)
    <2> HIDE DEF chosen
    <2>1. \A n : Discriminate("command", seen, n) # Raises /\ Discriminate("command", seen, n)[1] = chosen
      BY <1>2 DEF Raises
    <2>2. r = LET c == Discriminate(type.fn, seen, Remaining(s))
              IN IF c = Raises THEN Raises ELSE Read(c[1], s, seen)
      BY <1>1, DynKind, Zenon DEF r
    <2>3. /\ Discriminate(type.fn, seen, Remaining(s)) # Raises
          /\ Discriminate(type.fn, seen, Remaining(s))[1] = chosen
      BY <1>1, <2>1
    <2> QED
      BY <2>2, <2>3, Zenon
  <1>6. \A y : /\ Write(type, y, v) = Write(chosen, y, v)
               /\ Loses(type, y, v) <=> Loses(chosen, y, v)
    <2> HIDE DEF chosen
    <2> SUFFICES ASSUME NEW y
                 PROVE  /\ Write(type, y, v) = Write(chosen, y, v)
                        /\ Loses(type, y, v) <=> Loses(chosen, y, v)
      BY Zenon
    <2>1. Discriminate("command", v, 0) # Raises /\ Discriminate("command", v, 0)[1] = chosen
      BY <1>2 DEF Raises
    <2>2. Write(type, y, v) = LET c == Discriminate("command", v, 0)
                              IN IF c = Raises THEN Raises ELSE Write(c[1], y, v)
      BY <1>1, DynKind, Zenon
    <2>3. Loses(type, y, v) <=> Loses(Discriminate("command", v, 0)[1], y, v)
      BY <1>1, DynKind, Zenon
    <2>4. Write(type, y, v) = Write(chosen, y, v)
      BY <2>1, <2>2, Zenon
    <2>5. Loses(type, y, v) <=> Loses(chosen, y, v)
      BY <2>1, <2>3
    <2> QED
      BY <2>4, <2>5
  <1> DEFINE b == Part(s.bits, s.pos, r[2].pos)
             x == ToInt(b)
  <1>7. /\ Onward(s, r[2]) /\ r[2].pos = s.pos + 15
        /\ \/ x \in vm.values /\ r[1] = x
           \/ x \notin vm.values /\ vm.missing # Raises /\ r[1] = vm.missing[1]
        /\ ~Loses(chosen, r[1], v)
        /\ x \in Int /\ x < 2^15 /\ FromInt(x, 15) = <<b>>
        /\ \A y \in Int : y < 2^15 => Write(chosen, y, v) = <<FromInt(y, 15)[1]>>
    <2> DEFINE n == 15
               q == Read(BfMap(BfInt(n), vm), s, seen)
    <2>1. n \in Nat \ {0} /\ q = r /\ q # Raises /\ vm.m = "enum" /\ chosen = BfMap(BfInt(n), vm)
      BY <1>3, <1>4, <1>5
    <2> HIDE DEF n
    <2>2. EnumIsRead(BfMap(BfInt(n), vm), n, s, q, v)
      BY <2>1, EnumRead, Zenon
    <2>3. chosen.vm = vm
      BY DEF BfMap
    <2> HIDE DEF q, chosen
    <2>4. EnumIsRead(chosen, n, s, r, v)
      BY <2>1, <2>2
    <2> HIDE DEF b, x
    <2> QED
      BY <2>3, <2>4 DEF EnumIsRead, n, b, x
  <1> HIDE DEF b, x, chosen
  <1>8. \/ r[1] = x /\ ~(v[1] = EXTENDED /\ x \notin ExtendedCommands)
        \/ r[1] = 0 /\ v[1] = EXTENDED /\ x \notin ExtendedCommands
    <2>1. BASIC # EXTENDED
      BY DEF BASIC, EXTENDED
    <2>2. CASE v[1] = BASIC
      BY <1>3, <1>7, <2>1, <2>2, Zenon
    <2>3. CASE v[1] = EXTENDED
      <3>1. vm.values = ExtendedCommands /\ vm.missing = <<0>>
        BY <1>3, <2>1, <2>3, Zenon
      <3>2. vm.missing[1] = 0
        BY <3>1
      <3> QED
        BY <1>7, <2>3, <3>1, <3>2, Zenon
    <2> QED
      BY <2>2, <2>3, Zenon
  <1>9. Write(chosen, x, v) = <<b>>
    <2>1. FromInt(x, 15)[1] = b
      BY <1>7
    <2> QED
      BY <1>7, <2>1
  <1>10. Write(chosen, 0, v) = <<FromInt(0, 15)[1]>>
    <2>1. 0 \in Int /\ 0 < 2^15
      BY TwoPowers
    <2> QED
      BY <1>7, <2>1, Zenon
  <1>11. Write(type, r[1], v) = <<CommandBits(v[1], b)>>
    BY <1>6, <1>8, <1>9, <1>10, Zenon DEF CommandBits, x
  <1>12. ~Loses(type, r[1], v)
    BY <1>6, <1>7, Zenon
  <1> QED
    BY <1>7, <1>11, <1>12, Zenon DEF type, r, b

\* A stretch of bits replaced by another of its length.
LEMMA PartReplaced ==
  ASSUME NEW bits \in Seq(Bit), NEW i \in Nat, NEW j \in Nat, NEW k \in Nat,
         i <= j, j <= k, k <= Len(bits), NEW b \in Seq(Bit), Len(b) = k - j
  PROVE  LET new == Part(bits, 0, j) \o b \o Part(bits, k, Len(bits))
         IN /\ new \in Seq(Bit) /\ Len(new) = Len(bits)
            /\ Part(new, 0, i) = Part(bits, 0, i) /\ Part(new, i, j) = Part(bits, i, j)
            /\ Part(new, j, k) = b /\ Part(new, k, Len(bits)) = Part(bits, k, Len(bits))
  <1> DEFINE N == Len(bits)
             first == Part(bits, 0, j)
             last == Part(bits, k, N)
             front == first \o b
             new == front \o last
  <1>1. /\ N \in Nat /\ 0 \in Nat /\ 0 <= i /\ 0 <= j /\ 0 <= k /\ i <= k /\ j <= N /\ i <= N /\ k <= N
        /\ N <= N
    OBVIOUS
  <1>2. first \in Seq(Bit) /\ Len(first) = j /\ last \in Seq(Bit) /\ Len(last) = N - k
    <2>1. first \in Seq(Bit) /\ Len(first) = j - 0
      BY <1>1, PartIsOfBits, Zenon
    <2>2. last \in Seq(Bit) /\ Len(last) = N - k
      BY <1>1, PartIsOfBits, Zenon
    <2> HIDE DEF first, last
    <2> QED
      BY <2>1, <2>2
  <1> HIDE DEF N, first, last
  <1>3. front \in Seq(Bit) /\ Len(front) = k
    <2>1. front \in Seq(Bit) /\ Len(front) = Len(first) + Len(b)
      BY <1>2, ConcatProperties, Zenon
    <2> HIDE DEF front
    <2> QED
      BY <1>2, <2>1
  <1> HIDE DEF front
  <1>4. new \in Seq(Bit) /\ Len(new) = N
    <2>1. new \in Seq(Bit) /\ Len(new) = Len(front) + Len(last)
      BY <1>2, <1>3, ConcatProperties, Zenon
    <2> HIDE DEF new
    <2> QED
      BY <1>1, <1>2, <1>3, <2>1
  <1> DEFINE P(m, n) == Part(new, m, n)
  <1>5. new = P(0, N)
    BY <1>4, SubSeqFull DEF Part
  <1> HIDE DEF new
  <1>6. ASSUME NEW m \in Nat, NEW n \in Nat, m <= n, n <= N
        PROVE  P(m, n) \in Seq(Bit) /\ Len(P(m, n)) = n - m
    <2>1. n <= Len(new)
      BY <1>4, <1>6
    <2> QED
      BY <1>4, <1>6, <2>1, PartIsOfBits, Zenon
  <1>7. ASSUME NEW l \in Nat, NEW m \in Nat, NEW n \in Nat, l <= m, m <= n, n <= N
        PROVE  P(l, m) \o P(m, n) = P(l, n)
    <2>1. n <= Len(new)
      BY <1>4, <1>7
    <2> QED
      BY <1>4, <1>7, <2>1, PartsJoin, Zenon
  <1> HIDE DEF P
  <1>9. /\ P(0, k) \in Seq(Bit) /\ Len(P(0, k)) = k - 0 /\ P(k, N) \in Seq(Bit) /\ Len(P(k, N)) = N - k
        /\ P(0, j) \in Seq(Bit) /\ Len(P(0, j)) = j - 0 /\ P(j, k) \in Seq(Bit) /\ Len(P(j, k)) = k - j
        /\ P(0, i) \in Seq(Bit) /\ Len(P(0, i)) = i - 0 /\ P(i, j) \in Seq(Bit) /\ Len(P(i, j)) = j - i
    <2>1. P(0, k) \in Seq(Bit) /\ Len(P(0, k)) = k - 0 /\ P(k, N) \in Seq(Bit) /\ Len(P(k, N)) = N - k
      BY <1>1, <1>6, Zenon
    <2>2. P(0, j) \in Seq(Bit) /\ Len(P(0, j)) = j - 0 /\ P(j, k) \in Seq(Bit) /\ Len(P(j, k)) = k - j
      BY <1>1, <1>6, Zenon
    <2>3. P(0, i) \in Seq(Bit) /\ Len(P(0, i)) = i - 0 /\ P(i, j) \in Seq(Bit) /\ Len(P(i, j)) = j - i
      BY <1>1, <1>6, Zenon
    <2> QED
      BY <2>1, <2>2, <2>3
  <1>10. P(0, k) \o P(k, N) = P(0, N) /\ P(0, j) \o P(j, k) = P(0, k) /\ P(0, i) \o P(i, j) = P(0, j)
    BY <1>1, <1>7, Zenon
  <1>11. /\ k - 0 = k /\ j - 0 = j /\ i - 0 = i
    OBVIOUS
  <1>12. front \o last = P(0, N)
    BY <1>5, Zenon DEF new
  <1>13. P(0, k) = front /\ P(k, N) = last
    <2>1. P(0, k) \o P(k, N) = front \o last
      BY <1>10, <1>12, Zenon
    <2>2. Len(P(0, k)) = Len(front) /\ Len(P(k, N)) = Len(last)
      BY <1>2, <1>3, <1>9, <1>11, Zenon
    <2> QED
      <3>1. P(0, k) \in Seq(Bit) /\ P(k, N) \in Seq(Bit) /\ front \in Seq(Bit) /\ last \in Seq(Bit)
        BY <1>2, <1>3, <1>9
      <3> QED
        BY <2>1, <2>2, <3>1, JoinsEqual
  <1>14. P(0, j) = first /\ P(j, k) = b
    <2>1. P(0, j) \o P(j, k) = first \o b
      BY <1>10, <1>13, Zenon DEF front
    <2>2. Len(P(0, j)) = Len(first) /\ Len(P(j, k)) = Len(b)
      BY <1>2, <1>9, <1>11, Zenon
    <2> QED
      <3>1. P(0, j) \in Seq(Bit) /\ P(j, k) \in Seq(Bit) /\ first \in Seq(Bit) /\ b \in Seq(Bit)
        BY <1>2, <1>9
      <3> QED
        BY <2>1, <2>2, <3>1, JoinsEqual
  <1>15. P(0, i) = Part(bits, 0, i) /\ P(i, j) = Part(bits, i, j)
    <2> DEFINE a == Part(bits, 0, i)
               c == Part(bits, i, j)
    <2>1. /\ a \in Seq(Bit) /\ Len(a) = i - 0 /\ c \in Seq(Bit) /\ Len(c) = j - i
      BY <1>1, PartIsOfBits, Zenon DEF N
    <2>2. a \o c = first
      BY <1>1, PartsJoin, Zenon DEF first, N
    <2> HIDE DEF a, c
    <2>3. P(0, i) \o P(i, j) = a \o c
      BY <1>10, <1>14, <2>2, Zenon
    <2>4. Len(P(0, i)) = Len(a) /\ Len(P(i, j)) = Len(c)
      BY <1>9, <2>1, Zenon
    <2>5. P(0, i) = a /\ P(i, j) = c
      <3>1. P(0, i) \in Seq(Bit) /\ P(i, j) \in Seq(Bit) /\ a \in Seq(Bit) /\ c \in Seq(Bit)
        BY <1>9, <2>1
      <3> QED
        <4> DEFINE p == P(0, i)
                   q == P(i, j)
        <4>1. /\ p \in Seq(Bit) /\ q \in Seq(Bit) /\ p \o q = a \o c
              /\ Len(p) = Len(a) /\ Len(q) = Len(c)
          BY <2>3, <2>4, <3>1
        <4> HIDE DEF p, q
        <4>2. p = a /\ q = c
          BY <3>1, <4>1, JoinsEqual, ZenonT(60)
        <4> QED
          BY <4>2 DEF p, q
    <2> QED
      BY <2>5, Zenon DEF a, c
  <1> QED
    BY <1>4, <1>13, <1>14, <1>15, Zenon DEF P, N, first, last, front, new

\* Reading a flag.
LEMMA BoolRead ==
  ASSUME Recursion, NEW s \in Streams, NEW seen, NEW self, Read(BfBool, s, seen) # Raises
  PROVE  LET r == Read(BfBool, s, seen)
         IN /\ Onward(s, r[2]) /\ r[2].pos = s.pos + 1
            /\ Write(BfBool, r[1], self) = <<Part(s.bits, s.pos, r[2].pos)>> <=> ~Loses(BfBool, r[1], self)
            /\ Fits(Write(BfBool, r[1], self), r[2].pos - s.pos)
  <1> DEFINE int == BfInt(1)
             vm == [m |-> "bool"]
             r == Read(BfBool, s, seen)
             inner == Read(int, s, seen)
  <1>1. /\ Onward(s, r[2]) /\ Fits(Write(BfBool, r[1], self), r[2].pos - s.pos)
        /\ Write(BfBool, r[1], self) = <<Part(s.bits, s.pos, r[2].pos)>> <=> ~Loses(BfBool, r[1], self)
    <2>1. ComesBack(BfBool, seen, self)
      BY BoolSized, Zenon DEF Sized, Plain
    <2> QED
      BY <2>1, Zenon DEF ComesBack
  <1>2. Read(BfMap(int, vm), s, seen) = LET v == IF inner = Raises THEN Raises ELSE Forward(vm, inner[1])
                                        IN IF v = Raises THEN Raises ELSE <<v[1], inner[2]>>
    <2> HIDE DEF int, vm
    <2> QED
      BY MapOf, ZenonT(60)
  <1>3. r = Read(BfMap(int, vm), s, seen)
    BY Zenon DEF BfBool
  <1>4. r # Raises
    OBVIOUS
  <1> HIDE DEF r, vm, inner
  <1>5. inner # Raises /\ r[2] = inner[2]
    <2>1. inner # Raises /\ r = <<Forward(vm, inner[1])[1], inner[2]>>
      BY <1>2, <1>3, <1>4, Zenon
    <2> QED
      BY <2>1
  <1>6. inner[2].pos = s.pos + 1
    <2>1. 1 \in Nat \ {0}
      OBVIOUS
    <2> QED
      BY <1>5, <2>1, IntRead, Zenon DEF inner
  <1>7. r[2].pos = s.pos + 1
    BY <1>5, <1>6
  <1> QED
    BY <1>1, <1>7, Zenon DEF r

\* The group of a message, which comes back as every enumeration does.
LEMMA GroupRead ==
  ASSUME Recursion, NEW s \in Streams, NEW seen, NEW self, NEW values, NEW n \in Nat \ {0},
         Read(BfIntEnum(values, n), s, seen) # Raises
  PROVE  LET r == Read(BfIntEnum(values, n), s, seen)
         IN /\ Onward(s, r[2]) /\ r[2].pos = s.pos + n
            /\ r[1] = ToInt(Part(s.bits, s.pos, r[2].pos)) /\ r[1] \in values
            /\ Write(BfIntEnum(values, n), r[1], self) = <<Part(s.bits, s.pos, r[2].pos)>>
            /\ ~Loses(BfIntEnum(values, n), r[1], self)
  <1> DEFINE vm == [m |-> "enum", values |-> values, missing |-> Raises]
             type == BfMap(BfInt(n), vm)
             r == Read(type, s, seen)
             x == ToInt(Part(s.bits, s.pos, r[2].pos))
  <1>1. type = BfIntEnum(values, n)
    BY Zenon DEF BfIntEnum
  <1>2. r # Raises
    BY <1>1
  <1>3. vm.m = "enum" /\ vm.values = values /\ vm.missing = Raises
    OBVIOUS
  <1> HIDE DEF vm
  <1>4. EnumIsRead(type, n, s, r, self)
    BY <1>2, <1>3, EnumRead, Zenon
  <1>5. type.vm.values = values /\ type.vm.missing = Raises
    BY <1>3 DEF BfMap
  <1> HIDE DEF type, r
  <1>6. /\ Onward(s, r[2]) /\ r[2].pos = s.pos + n
        /\ x \in values /\ r[1] = x /\ ~Loses(type, r[1], self)
        /\ x \in Int /\ x < 2^n /\ FromInt(x, n) = <<Part(s.bits, s.pos, r[2].pos)>>
        /\ \A y \in Int : y < 2^n => Write(type, y, self) = <<FromInt(y, n)[1]>>
    BY <1>4, <1>5, Zenon DEF EnumIsRead
  <1>7. Write(type, r[1], self) = <<Part(s.bits, s.pos, r[2].pos)>>
    <2> DEFINE b == Part(s.bits, s.pos, r[2].pos)
    <2> HIDE DEF x, b
    <2>1. FromInt(x, n)[1] = b
      BY <1>6 DEF b
    <2>2. Write(type, x, self) = <<FromInt(x, n)[1]>>
      BY <1>6, Zenon
    <2>3. Write(type, r[1], self) = <<b>>
      BY <1>6, <2>1, <2>2
    <2> QED
      BY <2>3, Zenon DEF b
  <1>8. Read(BfIntEnum(values, n), s, seen) = r
    BY <1>1, Zenon DEF r
  <1> DEFINE q == Read(BfIntEnum(values, n), s, seen)
             e == BfIntEnum(values, n)
  <1>9. q = r /\ e = type
    BY <1>1, <1>8
  <1> HIDE DEF q, e
  <1>10. /\ Onward(s, q[2]) /\ q[2].pos = s.pos + n
         /\ q[1] = ToInt(Part(s.bits, s.pos, q[2].pos)) /\ q[1] \in values
         /\ Write(e, q[1], self) = <<Part(s.bits, s.pos, q[2].pos)>>
         /\ ~Loses(e, q[1], self)
    BY <1>6, <1>7, <1>9
  <1> QED
    BY <1>10, Zenon DEF q, e

\* Canonical() changes the command and nothing else.
LEMMA CanonicalParts ==
  ASSUME NEW bits \in Seq(Bit), 32 <= Len(bits)
  PROVE  LET C == Canonical(bits)
             N == Len(bits)
         IN /\ C \in Seq(Bit) /\ Len(C) = N
            /\ Part(C, 0, 16) = Part(bits, 0, 16) /\ Part(C, 16, 17) = Part(bits, 16, 17)
            /\ Part(C, 17, 32) = CommandBits(ToInt(Part(bits, 0, 16)), Part(bits, 17, 32))
            /\ Part(C, 32, N) = Part(bits, 32, N)
  <1> DEFINE N == Len(bits)
             unknown == FromInt(0, 15)[1]
             new == Part(bits, 0, 17) \o unknown \o Part(bits, 32, N)
             changed == ToInt(Part(bits, 0, 16)) = EXTENDED
                        /\ ToInt(Part(bits, 17, 32)) \notin ExtendedCommands
  <1>1. Canonical(bits) = IF changed THEN new ELSE bits
    BY DEF Canonical, Part
  <1>2. CommandBits(ToInt(Part(bits, 0, 16)), Part(bits, 17, 32))
        = IF changed THEN unknown ELSE Part(bits, 17, 32)
    BY Zenon DEF CommandBits
  <1>3. /\ new \in Seq(Bit) /\ Len(new) = N
        /\ Part(new, 0, 16) = Part(bits, 0, 16) /\ Part(new, 16, 17) = Part(bits, 16, 17)
        /\ Part(new, 17, 32) = unknown /\ Part(new, 32, N) = Part(bits, 32, N)
    <2> DEFINE i == 16
               j == 17
               k == 32
               b == unknown
    <2>1. b \in Seq(Bit) /\ Len(b) = k - j
      <3>1. 15 \in Nat \ {0} /\ 0 \in Int /\ 0 < 2^15
        BY TwoPowers
      <3>2. b \in Seq(Bit) /\ Len(b) = 15
        BY <3>1, IntegersWrap, Zenon
      <3> QED
        BY <3>2
    <2>2. i \in Nat /\ j \in Nat /\ k \in Nat /\ i <= j /\ j <= k /\ k <= Len(bits)
      OBVIOUS
    <2> HIDE DEF i, j, k, b
    <2>3. LET other == Part(bits, 0, j) \o b \o Part(bits, k, Len(bits))
          IN /\ other \in Seq(Bit) /\ Len(other) = Len(bits)
             /\ Part(other, 0, i) = Part(bits, 0, i) /\ Part(other, i, j) = Part(bits, i, j)
             /\ Part(other, j, k) = b /\ Part(other, k, Len(bits)) = Part(bits, k, Len(bits))
      BY <2>1, <2>2, PartReplaced, SMTT(60)
    <2> QED
      BY <2>3 DEF i, j, k, b
  <1> HIDE DEF N, unknown, new, changed
  <1>4. CASE changed
    BY <1>1, <1>2, <1>3, <1>4, Zenon DEF N
  <1>5. CASE ~changed
    BY <1>1, <1>2, <1>5, Zenon DEF N
  <1> QED
    BY <1>4, <1>5, Zenon

\* The fields of a message, read from the bits at these places.
Places(i, N) == CASE i = 0 -> 0 [] i = 1 -> 16 [] i = 2 -> 17 [] i = 3 -> 32 [] OTHER -> N

\* Group, flag, command and body lie one after the other.
LEMMA PlacesInOrder ==
  ASSUME NEW bits \in Seq(Bit), 32 <= Len(bits)
  PROVE  LET place == [i \in 0..4 |-> Places(i, Len(bits))]
         IN /\ place[0] = 0 /\ place[1] = 16 /\ place[2] = 17 /\ place[3] = 32 /\ place[4] = Len(bits)
            /\ InOrder(place, 4, bits)
  <1> DEFINE N == Len(bits)
             place == [i \in 0..4 |-> Places(i, N)]
  <1>1. N \in Nat
    OBVIOUS
  <1> HIDE DEF N
  <1>2. place[0] = 0 /\ place[1] = 16 /\ place[2] = 17 /\ place[3] = 32 /\ place[4] = N
    BY DEF Places
  <1> HIDE DEF place
  <1>3. InOrder(place, 4, bits)
    <2>1. 32 <= N /\ N = Len(bits)
      BY DEF N
    <2>2. ASSUME NEW i \in 0..4
          PROVE  place[i] \in Nat /\ place[i] <= Len(bits)
      <3>1. i = 0 \/ i = 1 \/ i = 2 \/ i = 3 \/ i = 4
        OBVIOUS
      <3> QED
        BY <1>1, <1>2, <2>1, <3>1
    <2>3. ASSUME NEW i \in 1..4
          PROVE  place[i - 1] <= place[i]
      <3>1. (i = 1 /\ i - 1 = 0) \/ (i = 2 /\ i - 1 = 1) \/ (i = 3 /\ i - 1 = 2) \/ (i = 4 /\ i - 1 = 3)
        OBVIOUS
      <3> QED
        BY <1>1, <1>2, <2>1, <3>1
    <2> QED
      BY <2>2, <2>3, Zenon DEF InOrder
  <1> QED
    BY <1>2, <1>3, Zenon DEF place, N

\* A message whose fields are written into their places is written back.
LEMMA FourWritten ==
  ASSUME NEW fields, Len(fields) = 4, NEW v, NEW bits \in Seq(Bit), 32 <= Len(bits),
         Fits(Write(fields[1], v[1], v), 16 - 0), Fits(Write(fields[2], v[2], v), 17 - 16),
         Fits(Write(fields[3], v[3], v), 32 - 17), Fits(Write(fields[4], v[4], v), Len(bits) - 32)
  PROVE  WriteEach(fields, v, v) = <<bits>> <=>
           /\ Write(fields[1], v[1], v) = <<Part(bits, 0, 16)>>
           /\ Write(fields[2], v[2], v) = <<Part(bits, 16, 17)>>
           /\ Write(fields[3], v[3], v) = <<Part(bits, 17, 32)>>
           /\ Write(fields[4], v[4], v) = <<Part(bits, 32, Len(bits))>>
  <1> DEFINE place == [i \in 0..4 |-> Places(i, Len(bits))]
             W(i) == Write(fields[i], v[i], v)
  <1>1. /\ place[0] = 0 /\ place[1] = 16 /\ place[2] = 17 /\ place[3] = 32 /\ place[4] = Len(bits)
        /\ InOrder(place, 4, bits)
    BY PlacesInOrder, Zenon
  <1> HIDE DEF place
  <1>2. \A i \in 1..Len(fields) : \/ i = 1 /\ i - 1 = 0
                                  \/ i = 2 /\ i - 1 = 1
                                  \/ i = 3 /\ i - 1 = 2
                                  \/ i = 4 /\ i - 1 = 3
    <2>1. \A i \in 1..4 : \/ i = 1 /\ i - 1 = 0
                          \/ i = 2 /\ i - 1 = 1
                          \/ i = 3 /\ i - 1 = 2
                          \/ i = 4 /\ i - 1 = 3
      OBVIOUS
    <2> QED
      BY <2>1, Zenon
  <1>3. EachFits(fields, v, v, place)
    BY <1>1, <1>2, Zenon DEF EachFits
  <1>4. WriteEach(fields, v, v) = <<Part(bits, place[0], place[4])>> <=> EachIsPart(fields, v, v, bits, place)
    <2>1. Len(fields) \in Nat
      OBVIOUS
    <2> QED
      BY <1>1, <1>3, <2>1, EachWritten, ZenonT(60)
  <1>5. Part(bits, place[0], place[4]) = bits
    <2>1. Part(bits, 0, Len(bits)) = bits
      BY SubSeqFull DEF Part
    <2> QED
      BY <1>1, <2>1
  <1>6. EachIsPart(fields, v, v, bits, place) <=>
          W(1) = <<Part(bits, 0, 16)>> /\ W(2) = <<Part(bits, 16, 17)>>
          /\ W(3) = <<Part(bits, 17, 32)>> /\ W(4) = <<Part(bits, 32, Len(bits))>>
    <2> DEFINE P(i) == Part(bits, place[i - 1], place[i])
    <2>1. EachIsPart(fields, v, v, bits, place) <=> \A i \in 1..Len(fields) : W(i) = <<P(i)>>
      BY Zenon DEF EachIsPart
    <2>2. /\ P(1) = Part(bits, 0, 16) /\ P(2) = Part(bits, 16, 17) /\ P(3) = Part(bits, 17, 32)
          /\ P(4) = Part(bits, 32, Len(bits))
      <3>1. 1 - 1 = 0 /\ 2 - 1 = 1 /\ 3 - 1 = 2 /\ 4 - 1 = 3
        OBVIOUS
      <3> QED
        BY <1>1, <3>1
    <2> HIDE DEF P, W
    <2>3. /\ 1 \in 1..Len(fields) /\ 2 \in 1..Len(fields) /\ 3 \in 1..Len(fields) /\ 4 \in 1..Len(fields)
          /\ \A i \in 1..Len(fields) : i = 1 \/ i = 2 \/ i = 3 \/ i = 4
      OBVIOUS
    <2> QED
      BY <2>1, <2>2, <2>3, Zenon
  <1> QED
    BY <1>4, <1>5, <1>6, Zenon

\* What is read of a message: a group and a command that it has, and fields that
\* are written back.
MessageFields(bits, v) ==
  /\ 32 <= Len(bits) /\ v[1] = ToInt(Part(bits, 0, 16)) /\ v[1] \in {BASIC, EXTENDED}
  /\ LET group == BfIntEnum({BASIC, EXTENDED}, 16)
     IN Write(group, v[1], v) = <<Part(bits, 0, 16)>> /\ ~Loses(group, v[1], v)
  /\ Fits(Write(BfBool, v[2], v), 17 - 16)
  /\ Write(BfBool, v[2], v) = <<Part(bits, 16, 17)>> <=> ~Loses(BfBool, v[2], v)
  /\ LET command == BfDyn("command")
     IN Write(command, v[3], v) = <<CommandBits(v[1], Part(bits, 17, 32))>> /\ ~Loses(command, v[3], v)
  /\ LET body == BfDynN("body")
     IN /\ Fits(Write(body, v[4], v), Len(bits) - 32)
        /\ Write(body, v[4], v) = <<Part(bits, 32, Len(bits))>> <=> ~Loses(body, v[4], v)

\* Message: its four fields.
LEMMA FourFields ==
  /\ Len(Message) = 4 /\ DOMAIN Message = 1..4
  /\ Message[1] = BfIntEnum({BASIC, EXTENDED}, 16) /\ Message[2] = BfBool
  /\ Message[3] = BfDyn("command") /\ Message[4] = BfDynN("body")
  <1> DEFINE group == BfIntEnum({BASIC, EXTENDED}, 16)
             bool == BfBool
             command == BfDyn("command")
             body == BfDynN("body")
  <1>1. Message = <<group, bool, command, body>>
    BY Zenon DEF Message
  <1> HIDE DEF group, bool, command, body
  <1>2. /\ Len(Message) = 4 /\ DOMAIN Message = 1..4
        /\ Message[1] = group /\ Message[2] = bool /\ Message[3] = command /\ Message[4] = body
    BY <1>1
  <1> QED
    BY <1>2, Zenon DEF group, bool, command, body

\* Message.from_bytes
LEMMA MessageIsRead ==
  ASSUME Recursion, NEW bits \in Seq(Bit), FromBits(Message, bits) # Raises
  PROVE  \E v : FromBits(Message, bits) = <<Object(Message, v)>> /\ MessageFields(bits, v)
  <1> DEFINE group == BfIntEnum({BASIC, EXTENDED}, 16)
             command == BfDyn("command")
             body == BfDynN("body")
             fields == Message
             N == Len(bits)
  <1>1. /\ Len(fields) = 4 /\ DOMAIN fields = 1..4
        /\ fields[1] = group /\ fields[2] = BfBool /\ fields[3] = command /\ fields[4] = body
    BY FourFields, Zenon
  <1> HIDE DEF fields
  <1>3. PICK v, t : /\ FromBits(fields, bits) = <<Object(fields, v)>>
                    /\ t[0] = Stream(bits) /\ ~(Remaining(t[Len(fields)]) > 0)
                    /\ ReadInTurn(fields, v, t, <<>>, TRUE)
    <2>1. Len(fields) \in Nat
      BY <1>1
    <2>2. FromBits(fields, bits) # Raises
      BY Zenon DEF fields
    <2> QED
      BY <2>1, <2>2, ObjectRead, Zenon
  <1> DEFINE S(i) == Seen(v, i, <<>>, TRUE)
  <1>4. \A i \in 1..4 : /\ Read(fields[i], t[i - 1], S(i)) # Raises
                        /\ Read(fields[i], t[i - 1], S(i))[1] = v[i]
                        /\ Read(fields[i], t[i - 1], S(i))[2] = t[i]
    BY <1>1, <1>3, Zenon DEF ReadInTurn
  <1>5. S(3)[1] = v[1]
    BY DEF Seen
  <1> HIDE DEF S, group, command, body
  <1>6. /\ Read(group, t[0], S(1)) # Raises /\ Read(group, t[0], S(1))[1] = v[1]
        /\ Read(group, t[0], S(1))[2] = t[1]
        /\ Read(BfBool, t[1], S(2)) # Raises /\ Read(BfBool, t[1], S(2))[1] = v[2]
        /\ Read(BfBool, t[1], S(2))[2] = t[2]
        /\ Read(command, t[2], S(3)) # Raises /\ Read(command, t[2], S(3))[1] = v[3]
        /\ Read(command, t[2], S(3))[2] = t[3]
        /\ Read(body, t[3], S(4)) # Raises /\ Read(body, t[3], S(4))[1] = v[4]
        /\ Read(body, t[3], S(4))[2] = t[4]
    <2>1. /\ 1 \in 1..4 /\ 2 \in 1..4 /\ 3 \in 1..4 /\ 4 \in 1..4
          /\ 1 - 1 = 0 /\ 2 - 1 = 1 /\ 3 - 1 = 2 /\ 4 - 1 = 3
      OBVIOUS
    <2> QED
      BY <1>1, <1>4, <2>1
  <1>7. t[0] \in Streams /\ t[0].bits = bits /\ t[0].pos = 0
    BY <1>3, StreamIsOne
  <1>8. /\ Onward(t[0], t[1]) /\ t[1].pos = t[0].pos + 16
        /\ v[1] = ToInt(Part(t[0].bits, t[0].pos, t[1].pos)) /\ v[1] \in {BASIC, EXTENDED}
        /\ Write(group, v[1], v) = <<Part(t[0].bits, t[0].pos, t[1].pos)>> /\ ~Loses(group, v[1], v)
    <2> DEFINE s == t[0]
               seen == S(1)
               r == Read(group, s, seen)
               values == {BASIC, EXTENDED}
               n == 16
    <2>1. n \in Nat \ {0} /\ group = BfIntEnum(values, n) /\ r # Raises
      BY <1>6 DEF group
    <2> HIDE DEF s, seen, values, n
    <2>2. /\ Onward(s, r[2]) /\ r[2].pos = s.pos + n
          /\ r[1] = ToInt(Part(s.bits, s.pos, r[2].pos)) /\ r[1] \in values
          /\ Write(group, r[1], v) = <<Part(s.bits, s.pos, r[2].pos)>>
          /\ ~Loses(group, r[1], v)
      <3> DEFINE e == BfIntEnum(values, n)
      <3>1. s \in Streams /\ Read(e, s, seen) # Raises
        BY <1>7, <2>1 DEF s
      <3>2. LET q == Read(e, s, seen)
            IN /\ Onward(s, q[2]) /\ q[2].pos = s.pos + n
               /\ q[1] = ToInt(Part(s.bits, s.pos, q[2].pos)) /\ q[1] \in values
               /\ Write(e, q[1], v) = <<Part(s.bits, s.pos, q[2].pos)>>
               /\ ~Loses(e, q[1], v)
        BY <2>1, <3>1, GroupRead, Zenon
      <3>3. e = group
        BY <2>1
      <3> HIDE DEF e
      <3> QED
        BY <3>2, <3>3
    <2>3. r[1] = v[1] /\ r[2] = t[1]
      BY <1>6 DEF s, seen
    <2> HIDE DEF r
    <2> QED
      BY <2>2, <2>3 DEF s, values, n
  <1>9. t[1] \in Streams /\ t[1].bits = bits /\ t[1].pos = 16
    BY <1>7, <1>8 DEF Onward
  <1>10. /\ Onward(t[1], t[2]) /\ t[2].pos = t[1].pos + 1
         /\ Write(BfBool, v[2], v) = <<Part(t[1].bits, t[1].pos, t[2].pos)>> <=> ~Loses(BfBool, v[2], v)
         /\ Fits(Write(BfBool, v[2], v), t[2].pos - t[1].pos)
    <2> DEFINE r == Read(BfBool, t[1], S(2))
    <2>1. /\ Onward(t[1], r[2]) /\ r[2].pos = t[1].pos + 1
          /\ Write(BfBool, r[1], v) = <<Part(t[1].bits, t[1].pos, r[2].pos)>> <=> ~Loses(BfBool, r[1], v)
          /\ Fits(Write(BfBool, r[1], v), r[2].pos - t[1].pos)
      BY <1>6, <1>9, BoolRead, Zenon
    <2>2. r[1] = v[2] /\ r[2] = t[2]
      BY <1>6
    <2> HIDE DEF r
    <2> QED
      BY <2>1, <2>2
  <1>11. t[2] \in Streams /\ t[2].bits = bits /\ t[2].pos = 17
    BY <1>9, <1>10 DEF Onward
  <1>12. /\ Onward(t[2], t[3]) /\ t[3].pos = t[2].pos + 15
         /\ Write(command, v[3], v) = <<CommandBits(v[1], Part(t[2].bits, t[2].pos, t[3].pos))>>
         /\ ~Loses(command, v[3], v)
    <2> DEFINE r == Read(command, t[2], S(3))
    <2>1. /\ Onward(t[2], r[2]) /\ r[2].pos = t[2].pos + 15
          /\ Write(command, r[1], v) = <<CommandBits(v[1], Part(t[2].bits, t[2].pos, r[2].pos))>>
          /\ ~Loses(command, r[1], v)
      BY <1>5, <1>6, <1>8, <1>11, CommandComesBack, Zenon DEF command
    <2>2. r[1] = v[3] /\ r[2] = t[3]
      BY <1>6
    <2> HIDE DEF r
    <2> QED
      BY <2>1, <2>2
  <1>13. t[3] \in Streams /\ t[3].bits = bits /\ t[3].pos = 32
    BY <1>11, <1>12 DEF Onward
  <1>14. /\ Onward(t[3], t[4])
         /\ Fits(Write(body, v[4], v), t[4].pos - t[3].pos)
         /\ Write(body, v[4], v) = <<Part(t[3].bits, t[3].pos, t[4].pos)>> <=> ~Loses(body, v[4], v)
    <2> DEFINE r == Read(body, t[3], S(4))
    <2>1. ComesBack(body, S(4), v)
      BY BodyChooses, DynNComesBack, Zenon DEF Choosing, body
    <2>2. /\ Onward(t[3], r[2])
          /\ Fits(Write(body, r[1], v), r[2].pos - t[3].pos)
          /\ Write(body, r[1], v) = <<Part(t[3].bits, t[3].pos, r[2].pos)>> <=> ~Loses(body, r[1], v)
      BY <1>6, <1>13, <2>1, Zenon DEF ComesBack
    <2>3. r[1] = v[4] /\ r[2] = t[4]
      BY <1>6
    <2> HIDE DEF r
    <2> QED
      BY <2>2, <2>3
  <1>15. t[4] \in Streams /\ t[4].pos = N /\ 32 <= N
    <2>1. t[4] \in Streams /\ t[4].bits = bits /\ 32 <= t[4].pos
      BY <1>13, <1>14 DEF Onward
    <2>2. ~(Remaining(t[4]) > 0)
      BY <1>1, <1>3
    <2> QED
      BY <2>1, <2>2 DEF Streams, Remaining
  <1> HIDE DEF N
  <1>16. /\ N = Len(bits) /\ v[1] = ToInt(Part(bits, 0, 16)) /\ v[1] \in {BASIC, EXTENDED}
         /\ Write(group, v[1], v) = <<Part(bits, 0, 16)>> /\ ~Loses(group, v[1], v)
         /\ Fits(Write(BfBool, v[2], v), 17 - 16)
         /\ Write(BfBool, v[2], v) = <<Part(bits, 16, 17)>> <=> ~Loses(BfBool, v[2], v)
         /\ Write(command, v[3], v) = <<CommandBits(v[1], Part(bits, 17, 32))>> /\ ~Loses(command, v[3], v)
         /\ Fits(Write(body, v[4], v), N - 32)
         /\ Write(body, v[4], v) = <<Part(bits, 32, N)>> <=> ~Loses(body, v[4], v)
    BY <1>7, <1>8, <1>9, <1>10, <1>11, <1>12, <1>13, <1>14, <1>15 DEF N
  <1>17. MessageFields(bits, v)
    BY <1>15, <1>16, Zenon DEF MessageFields, group, command, body
  <1> QED
    BY <1>3, <1>17, Zenon DEF fields

\* Message: the four fields put together.
LEMMA MessageComesBack ==
  ASSUME Recursion, NEW bits \in Seq(Bit), FromBits(Message, bits) # Raises
  PROVE  LET o == FromBits(Message, bits)[1]
         IN ToBits(o) = <<Canonical(bits)>> <=> ~ObjectLoses(o)
  <1> DEFINE group == BfIntEnum({BASIC, EXTENDED}, 16)
             command == BfDyn("command")
             body == BfDynN("body")
             fields == Message
             N == Len(bits)
             C == Canonical(bits)
  <1>1. /\ Len(fields) = 4 /\ DOMAIN fields = 1..4
        /\ fields[1] = group /\ fields[2] = BfBool /\ fields[3] = command /\ fields[4] = body
    BY FourFields, Zenon
  <1>2. PICK v : FromBits(fields, bits) = <<Object(fields, v)>> /\ MessageFields(bits, v)
    BY MessageIsRead, Zenon
  <1>3. /\ v[1] = ToInt(Part(bits, 0, 16)) /\ 32 <= N
        /\ Write(group, v[1], v) = <<Part(bits, 0, 16)>> /\ ~Loses(group, v[1], v)
        /\ Fits(Write(BfBool, v[2], v), 17 - 16)
        /\ Write(BfBool, v[2], v) = <<Part(bits, 16, 17)>> <=> ~Loses(BfBool, v[2], v)
        /\ Write(command, v[3], v) = <<CommandBits(v[1], Part(bits, 17, 32))>> /\ ~Loses(command, v[3], v)
        /\ Fits(Write(body, v[4], v), N - 32)
        /\ Write(body, v[4], v) = <<Part(bits, 32, N)>> <=> ~Loses(body, v[4], v)
    BY <1>2, Zenon DEF MessageFields
  <1> HIDE DEF fields, group, command, body
  <1>4. /\ C \in Seq(Bit) /\ Len(C) = N
        /\ Part(C, 0, 16) = Part(bits, 0, 16) /\ Part(C, 16, 17) = Part(bits, 16, 17)
        /\ Part(C, 17, 32) = CommandBits(ToInt(Part(bits, 0, 16)), Part(bits, 17, 32))
        /\ Part(C, 32, N) = Part(bits, 32, N)
    BY <1>3, CanonicalParts, Zenon
  <1> HIDE DEF C, N
  <1>5. /\ Write(group, v[1], v) = <<Part(C, 0, 16)>> /\ Write(command, v[3], v) = <<Part(C, 17, 32)>>
        /\ Write(BfBool, v[2], v) = <<Part(C, 16, 17)>> <=> ~Loses(BfBool, v[2], v)
        /\ Write(body, v[4], v) = <<Part(C, 32, N)>> <=> ~Loses(body, v[4], v)
    BY <1>3, <1>4
  <1>6. /\ Fits(Write(group, v[1], v), 16 - 0) /\ Fits(Write(BfBool, v[2], v), 17 - 16)
        /\ Fits(Write(command, v[3], v), 32 - 17) /\ Fits(Write(body, v[4], v), Len(C) - 32)
    <2>1. /\ Part(C, 0, 16) \in Seq(Bit) /\ Len(Part(C, 0, 16)) = 16 - 0
          /\ Part(C, 17, 32) \in Seq(Bit) /\ Len(Part(C, 17, 32)) = 32 - 17
      <3>1. /\ 0 \in Nat /\ 16 \in Nat /\ 17 \in Nat /\ 32 \in Nat /\ 0 <= 16 /\ 17 <= 32
            /\ 16 <= Len(C) /\ 32 <= Len(C)
        <4>1. Len(C) \in Nat /\ 32 <= Len(C)
          BY <1>3, <1>4
        <4> QED
          BY <4>1
      <3>2. C \in Seq(Bit)
        BY <1>4
      <3> QED
        BY <3>1, <3>2, PartIsOfBits, Zenon
    <2>2. Fits(Write(group, v[1], v), 16 - 0) /\ Fits(Write(command, v[3], v), 32 - 17)
      BY <1>5, <2>1, Zenon DEF Fits
    <2>3. Fits(Write(BfBool, v[2], v), 17 - 16) /\ Fits(Write(body, v[4], v), Len(C) - 32)
      BY <1>3, <1>4
    <2> QED
      BY <2>2, <2>3, Zenon
  <1>7. WriteEach(fields, v, v) = <<C>> <=>
          /\ Write(group, v[1], v) = <<Part(C, 0, 16)>>
          /\ Write(BfBool, v[2], v) = <<Part(C, 16, 17)>>
          /\ Write(command, v[3], v) = <<Part(C, 17, 32)>>
          /\ Write(body, v[4], v) = <<Part(C, 32, Len(C))>>
    <2>1. 32 <= Len(C)
      BY <1>3, <1>4
    <2>2. /\ Fits(Write(fields[1], v[1], v), 16 - 0) /\ Fits(Write(fields[2], v[2], v), 17 - 16)
          /\ Fits(Write(fields[3], v[3], v), 32 - 17) /\ Fits(Write(fields[4], v[4], v), Len(C) - 32)
      BY <1>1, <1>6
    <2>3. WriteEach(fields, v, v) = <<C>> <=>
            /\ Write(fields[1], v[1], v) = <<Part(C, 0, 16)>>
            /\ Write(fields[2], v[2], v) = <<Part(C, 16, 17)>>
            /\ Write(fields[3], v[3], v) = <<Part(C, 17, 32)>>
            /\ Write(fields[4], v[4], v) = <<Part(C, 32, Len(C))>>
      <3>1. Len(fields) = 4 /\ C \in Seq(Bit)
        BY <1>1, <1>4
      <3> QED
        BY <2>1, <2>2, <3>1, FourWritten, SMTT(60)
    <2> QED
      BY <1>1, <2>3
  <1> DEFINE o == Object(fields, v)
  <1>8. o.of = fields /\ o.v = v
    BY DEF Object
  <1>9. FromBits(Message, bits)[1] = o
    BY <1>2 DEF fields
  <1> HIDE DEF o
  <1>10. ToBits(o) = WriteEach(fields, v, v)
    BY <1>8 DEF ToBits
  <1>11. ObjectLoses(o) <=> Loses(BfBool, v[2], v) \/ Loses(body, v[4], v)
    <2>1. ObjectLoses(o) <=> \E i \in 1..4 : Loses(fields[i], v[i], v)
      BY <1>1, <1>8 DEF ObjectLoses
    <2>2. /\ 1 \in 1..4 /\ 2 \in 1..4 /\ 3 \in 1..4 /\ 4 \in 1..4
          /\ \A i \in 1..4 : i = 1 \/ i = 2 \/ i = 3 \/ i = 4
      OBVIOUS
    <2>3. /\ ~Loses(fields[1], v[1], v) /\ ~Loses(fields[3], v[3], v)
          /\ Loses(fields[2], v[2], v) <=> Loses(BfBool, v[2], v)
          /\ Loses(fields[4], v[4], v) <=> Loses(body, v[4], v)
      BY <1>1, <1>3
    <2> QED
      BY <2>1, <2>2, <2>3, Zenon
  <1>12. ToBits(o) = <<C>> <=> ~ObjectLoses(o)
    BY <1>4, <1>5, <1>7, <1>10, <1>11, Zenon
  <1> QED
    BY <1>9, <1>12, Zenon DEF C

\* Radio and library: read_settings() and WRITE_SETTINGS, a channel read and
\* written back.  Whatever a radio sends, of any length, what Message.from_bytes
\* makes of it Message.to_bytes turns into the same bits, exactly but for the
\* values that LosesValue names.
THEOREM EveryMessageComesBack ==
  ASSUME Recursion, frame \in Seq(Bit)
  PROVE  WhatIsReadIsWrittenBack
  <1>1. ASSUME ParseMessage(frame) # Raises
        PROVE  LET o == ParseMessage(frame)[1]
               IN ToBits(o) = <<Canonical(frame)>> <=> ~ObjectLoses(o)
    BY <1>1, MessageComesBack, Zenon DEF ParseMessage
  <1> QED
    BY <1>1, Zenon DEF WhatIsReadIsWrittenBack

-----------------------------------------------------------------------------
\* A stream of these bits, read up to this place.
At(bits, place) == [bits |-> bits, pos |-> place]

\* BitStream.take where enough is left.
LEMMA TakeAt ==
  ASSUME NEW bits \in Seq(Bit), NEW p \in Nat, NEW n \in Nat, p + n <= Len(bits)
  PROVE  Take(At(bits, p), n) = <<Part(bits, p, p + n), At(bits, p + n)>>
  <1> DEFINE s == At(bits, p)
  <1>1. s.bits = bits /\ s.pos = p /\ [s EXCEPT !.pos = @ + n] = At(bits, p + n)
    BY DEF At
  <1> HIDE DEF s
  <1>2. ~(n > Remaining(s))
    BY <1>1 DEF Remaining
  <1>3. Take(s, n) = <<SubSeq(s.bits, s.pos + 1, s.pos + n), [s EXCEPT !.pos = @ + n]>>
    BY <1>2, Zenon DEF Take
  <1> QED
    BY <1>1, <1>3 DEF Part, s

\* A mapped type where the type inside can be read and its value mapped.
LEMMA MapAt ==
  ASSUME Recursion, NEW inner, NEW vm, NEW s, NEW seen, NEW x, NEW v, NEW t,
         Read(inner, s, seen) = <<x, t>>, Forward(vm, x) = <<v>>
  PROVE  Read(BfMap(inner, vm), s, seen) = <<v, t>>
  <1> DEFINE r == Read(inner, s, seen)
             f == Forward(vm, r[1])
  <1>1. Read(BfMap(inner, vm), s, seen) =
          LET y == IF r = Raises THEN Raises ELSE Forward(vm, r[1])
          IN IF y = Raises THEN Raises ELSE <<y[1], r[2]>>
    BY MapOf, ZenonT(60)
  <1>2. r # Raises /\ r[1] = x /\ r[2] = t
    BY DEF Raises
  <1>3. f # Raises /\ f[1] = v
    BY <1>2 DEF Raises
  <1> HIDE DEF r, f
  <1>4. Read(BfMap(inner, vm), s, seen) = <<f[1], r[2]>>
    BY <1>1, <1>2, <1>3, Zenon DEF f
  <1> QED
    BY <1>2, <1>3, <1>4

\* An integer where there are n bits.
LEMMA IntAt ==
  ASSUME Recursion, NEW bits \in Seq(Bit), NEW p \in Nat, NEW n \in Nat, p + n <= Len(bits), NEW seen
  PROVE  Read(BfInt(n), At(bits, p), seen) = <<ToInt(Part(bits, p, p + n)), At(bits, p + n)>>
  <1> DEFINE vm == [m |-> "int", n |-> n]
             s == At(bits, p)
             t == At(bits, p + n)
             b == Part(bits, p, p + n)
  <1>1. vm.m = "int" /\ BfInt(n) = BfMap(BfBits(n), vm) /\ BfBits(n).k = "bits" /\ BfBits(n).n = n
    BY DEF BfInt, BfBits
  <1>2. Take(s, n) = <<b, t>>
    BY TakeAt, Zenon
  <1> HIDE DEF vm, s, t, b
  <1>3. Read(BfBits(n), s, seen) = <<b, t>>
    <2>1. Read(BfBits(n), s, seen) = Take(s, BfBits(n).n)
      BY <1>1, BitsKind, Zenon
    <2> QED
      BY <1>1, <1>2, <2>1
  <1>4. Forward(vm, b) = <<ToInt(b)>>
    BY <1>1, Zenon DEF Forward
  <1>5. Read(BfMap(BfBits(n), vm), s, seen) = <<ToInt(b), t>>
    BY <1>3, <1>4, MapAt
  <1> QED
    BY <1>1, <1>5 DEF s, t, b

\* An enumeration where the bits are one of its values.
LEMMA EnumAt ==
  ASSUME Recursion, NEW bits \in Seq(Bit), NEW p \in Nat, NEW n \in Nat, p + n <= Len(bits), NEW seen,
         NEW values, ToInt(Part(bits, p, p + n)) \in values
  PROVE  Read(BfIntEnum(values, n), At(bits, p), seen) = <<ToInt(Part(bits, p, p + n)), At(bits, p + n)>>
  <1> DEFINE vm == [m |-> "enum", values |-> values, missing |-> Raises]
             x == ToInt(Part(bits, p, p + n))
             s == At(bits, p)
             t == At(bits, p + n)
  <1>1. vm.m = "enum" /\ vm.values = values
    OBVIOUS
  <1>2. Read(BfInt(n), s, seen) = <<x, t>>
    BY IntAt, Zenon
  <1>3. x \in values
    OBVIOUS
  <1>4. BfIntEnum(values, n) = BfMap(BfInt(n), vm)
    BY Zenon DEF BfIntEnum
  <1> HIDE DEF vm, x, s, t
  <1>5. Forward(vm, x) = <<x>>
    <2>1. Forward(vm, x) = IF x \in vm.values THEN <<x>> ELSE vm.missing
      BY <1>1, Zenon DEF Forward
    <2> QED
      BY <1>1, <1>3, <2>1
  <1>6. Read(BfMap(BfInt(n), vm), s, seen) = <<x, t>>
    BY <1>2, <1>5, MapAt
  <1> QED
    BY <1>4, <1>6 DEF x, s, t

\* A flag.
LEMMA BoolAt ==
  ASSUME Recursion, NEW bits \in Seq(Bit), NEW p \in Nat, p + 1 <= Len(bits), NEW seen
  PROVE  Read(BfBool, At(bits, p), seen) = <<ToInt(Part(bits, p, p + 1)) = 1, At(bits, p + 1)>>
  <1> DEFINE vm == [m |-> "bool"]
             x == ToInt(Part(bits, p, p + 1))
             s == At(bits, p)
             t == At(bits, p + 1)
             int == BfInt(1)
  <1>1. vm.m = "bool"
    OBVIOUS
  <1>2. Read(int, s, seen) = <<x, t>>
    <2>1. 1 \in Nat
      OBVIOUS
    <2> QED
      BY <2>1, IntAt, Zenon
  <1>3. BfBool = BfMap(int, vm)
    BY Zenon DEF BfBool
  <1> HIDE DEF vm, x, s, t, int
  <1>4. Forward(vm, x) = <<x = 1>>
    BY <1>1, Zenon DEF Forward
  <1> DEFINE v == x = 1
  <1>5. Forward(vm, x) = <<v>>
    BY <1>4, Zenon
  <1> HIDE DEF v
  <1>6. Read(BfMap(int, vm), s, seen) = <<v, t>>
    BY <1>2, <1>5, MapAt
  <1> QED
    BY <1>3, <1>6, Zenon DEF x, s, t, v

\* Nothing.
LEMMA NoneAt ==
  ASSUME Recursion, NEW s, NEW seen
  PROVE  Read(BfNone, s, seen) = <<None, s>>
  <1>1. BfNone.k = "none"
    BY DEF BfNone
  <1> QED
    BY <1>1, NoneKind, Zenon

-----------------------------------------------------------------------------
\* The loop of reading, field by field: what there is after the i-th.
OneMore(types, before, i, self, inObject) ==
  LET r == Read(types[i], before[2], IF inObject THEN before[1] ELSE self)
  IN IF before = Raises THEN Raises
     ELSE IF r = Raises THEN Raises ELSE <<Append(before[1], r[1]), r[2]>>

LoopOf(after, types, stream, self, inObject) ==
  /\ after[0] = << <<>>, stream>>
  /\ \A i \in 1..Len(types) : after[i] = OneMore(types, after[i - 1], i, self, inObject)
  /\ ReadEach(types, stream, self, inObject) = after[Len(types)]

\* There is such a loop.
LEMMA EachSteps ==
  ASSUME NEW types, Len(types) \in Nat, NEW stream, NEW self, NEW inObject
  PROVE  \E after : LoopOf(after, types, stream, self, inObject)
  <1> DEFINE N == Len(types)
             G(b, i) == OneMore(types, b, i, self, inObject)
             start == << <<>>, stream>>
             Goes(f, m) == f = [i \in 0..m |-> IF i = 0 THEN start ELSE G(f[i - 1], i)]
             after == CHOOSE f : Goes(f, N)
  <1>1. \E f : Goes(f, N)
    <2> DEFINE S == {m \in Nat : \E f : Goes(f, m)}
    <2> HIDE DEF G, start
    <2>1. 0 \in S
      <3>1. Goes([i \in 0..0 |-> start], 0)
        OBVIOUS
      <3> QED
        BY <3>1
    <2>2. ASSUME NEW m \in Nat, m \in S
          PROVE  m + 1 \in S
      <3>1. PICK f : Goes(f, m)
        BY <2>2
      <3> DEFINE g == [i \in 0..m + 1 |-> IF i = m + 1 THEN G(f[m], m + 1) ELSE f[i]]
      <3>2. ASSUME NEW i \in 0..m + 1
            PROVE  g[i] = IF i = 0 THEN start ELSE G(g[i - 1], i)
        BY <3>1
      <3>3. Goes(g, m + 1)
        BY <3>2
      <3> HIDE DEF g, Goes
      <3> QED
        BY <3>3
    <2> HIDE DEF S
    <2>3. N \in S
      BY <2>1, <2>2, SetInduction
    <2> QED
      BY <2>3 DEF S
  <1>2. Goes(after, N)
    <2> HIDE DEF Goes
    <2> QED
      BY <1>1
  <1>3. ReadEach(types, stream, self, inObject) = after[N]
    BY Zenon DEF ReadEach, OneMore
  <1> HIDE DEF after
  <1>4. /\ after[0] = start
        /\ \A i \in 1..N : after[i] = G(after[i - 1], i)
    <2> HIDE DEF G, start
    <2> QED
      BY <1>2
  <1> QED
    BY <1>3, <1>4, Zenon DEF LoopOf

\* The values v can be read, the i-th to the stream t[i].
Readable(types, v, t, self, inObject) ==
  /\ v = [i \in 1..Len(types) |-> v[i]]
  /\ \A i \in 1..Len(types) :
       Read(types[i], t[i - 1], Seen(v, i, self, inObject)) = <<v[i], t[i]>>

\* Fields or items that can be read one by one can be read together.
LEMMA EachAt ==
  ASSUME NEW types, Len(types) \in Nat, NEW v, NEW t, NEW self, NEW inObject,
         Readable(types, v, t, self, inObject)
  PROVE  ReadEach(types, t[0], self, inObject) = <<v, t[Len(types)]>>
  <1> USE DEF Readable
  <1> DEFINE N == Len(types)
             Up(m) == [j \in 1..m |-> v[j]]
  <1>0. PICK after : LoopOf(after, types, t[0], self, inObject)
    BY EachSteps, Zenon
  <1>1. /\ after[0] = << <<>>, t[0]>>
        /\ \A i \in 1..N : after[i] = OneMore(types, after[i - 1], i, self, inObject)
        /\ ReadEach(types, t[0], self, inObject) = after[N]
    BY <1>0, Zenon DEF LoopOf
  <1> DEFINE S == {m \in Nat : m <= N => after[m] = <<Up(m), t[m]>>}
  <1>2. 0 \in S
    <2>1. Up(0) = <<>>
      OBVIOUS
    <2> HIDE DEF Up
    <2> QED
      BY <1>1, <2>1
  <1>3. ASSUME NEW m \in Nat, m \in S
        PROVE  m + 1 \in S
    <2> SUFFICES ASSUME m + 1 <= N
                 PROVE  after[m + 1] = <<Up(m + 1), t[m + 1]>>
      OBVIOUS
    <2> DEFINE i == m + 1
               b == after[m]
               see == IF inObject THEN b[1] ELSE self
               r == Read(types[i], b[2], see)
    <2>1. i \in 1..N /\ i - 1 = m
      OBVIOUS
    <2>2. b = <<Up(m), t[m]>>
      BY <1>3
    <2>3. after[i] = OneMore(types, b, i, self, inObject)
      BY <1>1, <2>1
    <2>4. Append(Up(m), v[i]) = Up(i)
      <3> DEFINE V == {v[j] : j \in 1..N}
      <3>1. v \in [1..N -> V] /\ m \in Nat /\ m + 1 <= N
        OBVIOUS
      <3> HIDE DEF V
      <3>2. Up(m) \in Seq(V) /\ Len(Up(m)) = m
        BY <3>1
      <3> QED
        BY <3>1, <3>2
    <2>5. Seen(v, i, self, inObject) = IF inObject THEN Up(m) ELSE self
      BY <2>1, Zenon DEF Seen
    <2> HIDE DEF Up, b, S
    <2>6. b[1] = Up(m) /\ b[2] = t[m] /\ b # Raises
      BY <2>2 DEF Raises
    <2>7. see = Seen(v, i, self, inObject)
      BY <2>5, <2>6, Zenon
    <2>8. r = <<v[i], t[i]>>
      <3>1. Read(types[i], t[i - 1], Seen(v, i, self, inObject)) = <<v[i], t[i]>>
        BY <2>1
      <3>2. r = Read(types[i], t[i - 1], Seen(v, i, self, inObject))
        BY <2>1, <2>6, <2>7
      <3> QED
        BY <3>1, <3>2
    <2>9. r # Raises /\ r[1] = v[i] /\ r[2] = t[i]
      BY <2>8 DEF Raises
    <2>10. after[i] = <<Append(b[1], r[1]), r[2]>>
      BY <2>3, <2>6, <2>9, Zenon DEF OneMore
    <2> HIDE DEF i, r, see
    <2>11. after[i] = <<Up(i), t[i]>>
      BY <2>4, <2>6, <2>9, <2>10
    <2> QED
      BY <2>11, Zenon DEF i
  <1>4. N \in S
    <2> HIDE DEF S
    <2> QED
      BY <1>2, <1>3, SetInduction
  <1>5. v = Up(N)
    OBVIOUS
  <1> HIDE DEF Up
  <1> QED
    BY <1>1, <1>4, <1>5

-----------------------------------------------------------------------------
\* The bytes that begin at this place.
BytesFrom(bits, p, n) == [i \in 1..n |-> ToInt(Part(bits, p + 8 * (i - 1), p + 8 * i))]

\* Bytes where there are enough of them.
LEMMA BytesAt ==
  ASSUME Recursion, NEW bits \in Seq(Bit), NEW p \in Nat, NEW n \in Nat, p + 8 * n <= Len(bits), NEW seen
  PROVE  Read(BfBytes(n), At(bits, p), seen) = <<Bytes(BytesFrom(bits, p, n)), At(bits, p + 8 * n)>>
  <1> DEFINE inner == BfInt(8)
             list == BfList(inner, n)
             items == Items(list)
             vm == [m |-> "bytes"]
             v == BytesFrom(bits, p, n)
             place(i) == p + 8 * i
             t == [i \in 0..n |-> At(bits, place(i))]
  <1>1. Len(items) = n /\ \A i \in 1..n : items[i] = inner
    <2>1. Many(n) = n /\ n \in Int
      BY DEF Many
    <2> HIDE DEF inner
    <2> QED
      BY <2>1, ItemsOf, Zenon
  <1>2. v = [i \in 1..n |-> v[i]] /\ \A i \in 1..n : v[i] = ToInt(Part(bits, place(i - 1), place(i)))
    BY DEF BytesFrom
  <1>3. t[0] = At(bits, p) /\ t[n] = At(bits, p + 8 * n)
    OBVIOUS
  <1>4. ASSUME NEW i \in 1..n
        PROVE  Read(items[i], t[i - 1], Seen(v, i, seen, FALSE)) = <<v[i], t[i]>>
    <2> DEFINE q == place(i - 1)
    <2>1. q \in Nat /\ q + 8 <= Len(bits) /\ q + 8 = place(i) /\ 8 \in Nat
      OBVIOUS
    <2>2. t[i - 1] = At(bits, q) /\ t[i] = At(bits, place(i))
      OBVIOUS
    <2>3. Seen(v, i, seen, FALSE) = seen
      BY DEF Seen
    <2> HIDE DEF q, place, v, t, items, inner
    <2>4. Read(BfInt(8), At(bits, q), seen) = <<ToInt(Part(bits, q, q + 8)), At(bits, q + 8)>>
      BY <2>1, IntAt, Zenon
    <2>5. items[i] = BfInt(8) /\ v[i] = ToInt(Part(bits, q, place(i)))
      BY <1>1, <1>2 DEF inner, q
    <2> QED
      BY <2>1, <2>2, <2>3, <2>4, <2>5
  <1> HIDE DEF v, t, items
  <1>5. ReadEach(items, t[0], seen, FALSE) = <<v, t[n]>>
    <2>1. Len(items) \in Nat /\ v = [i \in 1..Len(items) |-> v[i]]
      BY <1>1, <1>2
    <2>2. \A i \in 1..Len(items) : Read(items[i], t[i - 1], Seen(v, i, seen, FALSE)) = <<v[i], t[i]>>
      BY <1>1, <1>4
    <2>3. Readable(items, v, t, seen, FALSE)
      BY <2>1, <2>2, Zenon DEF Readable
    <2>4. ReadEach(items, t[0], seen, FALSE) = <<v, t[Len(items)]>>
      BY <2>1, <2>3, EachAt, Zenon
    <2> QED
      BY <1>1, <2>4
  <1>6. Read(list, At(bits, p), seen) = <<v, t[n]>>
    <2>1. list.k = "list"
      BY DEF BfList
    <2> HIDE DEF list
    <2>2. Read(list, At(bits, p), seen) = ReadEach(items, At(bits, p), seen, FALSE)
      BY <2>1, ListKind, Zenon DEF items
    <2> QED
      BY <1>3, <1>5, <2>2
  <1>7. Forward(vm, v) = <<Bytes(v)>>
    BY Zenon DEF Forward
  <1> HIDE DEF vm, list
  <1>8. Read(BfMap(list, vm), At(bits, p), seen) = <<Bytes(v), t[n]>>
    BY <1>6, <1>7, MapAt
  <1>9. BfBytes(n) = BfMap(list, vm)
    BY Zenon DEF BfBytes, list, vm
  <1> QED
    BY <1>3, <1>8, <1>9 DEF v

\* A byte that is what it must be.
LEMMA LitAt ==
  ASSUME Recursion, NEW bits \in Seq(Bit), NEW p \in Nat, p + 8 <= Len(bits), NEW seen,
         NEW b, ToInt(Part(bits, p, p + 8)) = b
  PROVE  Read(BfLit(BfBytes(1), Bytes(<<b>>)), At(bits, p), seen) = <<Bytes(<<b>>), At(bits, p + 8)>>
  <1> DEFINE value == Bytes(<<b>>)
             inner == BfBytes(1)
             type == BfLit(inner, value)
             s == At(bits, p)
             r == Read(inner, s, seen)
  <1>1. r = <<value, At(bits, p + 8)>>
    <2>1. BytesFrom(bits, p, 1) = <<b>>
      <3>1. p + 8 * (1 - 1) = p /\ p + 8 * 1 = p + 8
        OBVIOUS
      <3> QED
        BY <3>1 DEF BytesFrom
    <2>2. 1 \in Nat /\ p + 8 * 1 = p + 8
      OBVIOUS
    <2>3. r = <<Bytes(BytesFrom(bits, p, 1)), At(bits, p + 8 * 1)>>
      BY <2>2, BytesAt, Zenon
    <2> QED
      BY <2>1, <2>2, <2>3
  <1>2. type.k = "lit" /\ type.inner = inner /\ type.value = value
    BY DEF BfLit
  <1> HIDE DEF type, inner, value, s
  <1>3. Read(type, s, seen) = IF r = Raises THEN Raises ELSE IF r[1] # type.value THEN Raises ELSE r
    BY <1>2, LitKind, ZenonT(60)
  <1>4. r # Raises /\ r[1] = value
    BY <1>1 DEF Raises
  <1> QED
    BY <1>1, <1>2, <1>3, <1>4 DEF type, inner, value, s

\* A dynamic field of the type chosen.
LEMMA DynAt ==
  ASSUME Recursion, NEW fn, NEW s, NEW seen, NEW type,
         Discriminate(fn, seen, Remaining(s)) = <<type>>
  PROVE  Read(BfDyn(fn), s, seen) = Read(type, s, seen) /\ Read(BfDynN(fn), s, seen) = Read(type, s, seen)
  <1> DEFINE d == BfDyn(fn)
             n == BfDynN(fn)
             chosen == Discriminate(fn, seen, Remaining(s))
  <1>1. d.k = "dyn" /\ d.fn = fn /\ n.k = "dynN" /\ n.fn = fn
    BY DEF BfDyn, BfDynN
  <1>2. chosen # Raises /\ chosen[1] = type
    BY DEF Raises
  <1> HIDE DEF d, n, chosen
  <1>3. Read(d, s, seen) = IF chosen = Raises THEN Raises ELSE Read(chosen[1], s, seen)
    BY <1>1, DynKind, ZenonT(60) DEF chosen
  <1>4. Read(n, s, seen) = IF chosen = Raises THEN Raises ELSE Read(chosen[1], s, seen)
    BY <1>1, DynNKind DEF chosen
  <1>5. Read(d, s, seen) = Read(type, s, seen) /\ Read(n, s, seen) = Read(type, s, seen)
    BY <1>2, <1>3, <1>4
  <1> QED
    BY <1>5 DEF d, n

-----------------------------------------------------------------------------
\* Stretches of two sequences of bits joined.
LEMMA PartOfFirst ==
  ASSUME NEW a \in Seq(Bit), NEW b \in Seq(Bit), NEW i \in Nat, NEW j \in Nat, i <= j, j <= Len(a)
  PROVE  Part(a \o b, i, j) = Part(a, i, j)
  <1> DEFINE c == a \o b
  <1>1. c \in Seq(Bit) /\ Len(a) <= Len(c) /\ \A x \in 1..Len(a) : c[x] = a[x]
    OBVIOUS
  <1>2. Len(Part(c, i, j)) = j - i /\ Len(Part(a, i, j)) = j - i
    <2> HIDE DEF c
    <2> QED
      BY <1>1 DEF Part
  <1>3. \A x \in 1..j - i : Part(c, i, j)[x] = Part(a, i, j)[x]
    <2> HIDE DEF c
    <2> QED
      BY <1>1 DEF Part
  <1>4. Part(c, i, j) \in Seq(Bit) /\ Part(a, i, j) \in Seq(Bit)
    <2>1. j <= Len(c)
      <3> HIDE DEF c
      <3> QED
        BY <1>1
    <2> QED
      BY <1>1, <2>1, PartIsOfBits, Zenon
  <1> HIDE DEF c
  <1>5. Part(c, i, j) = Part(a, i, j)
    BY <1>2, <1>3, <1>4
  <1> QED
    BY <1>5 DEF c

LEMMA PartOfSecond ==
  ASSUME NEW a \in Seq(Bit), NEW b \in Seq(Bit), NEW i \in Nat, NEW j \in Nat, i <= j, j <= Len(b)
  PROVE  Part(a \o b, Len(a) + i, Len(a) + j) = Part(b, i, j)
  <1> DEFINE c == a \o b
             l == Len(a)
  <1>1. c \in Seq(Bit) /\ l \in Nat /\ Len(c) = l + Len(b) /\ \A x \in 1..Len(b) : c[l + x] = b[x]
    OBVIOUS
  <1> HIDE DEF c, l
  <1>2. Len(Part(c, l + i, l + j)) = j - i /\ Len(Part(b, i, j)) = j - i
    BY <1>1 DEF Part
  <1>3. \A x \in 1..j - i : Part(c, l + i, l + j)[x] = Part(b, i, j)[x]
    <2> SUFFICES ASSUME NEW x \in 1..j - i
                 PROVE  Part(c, l + i, l + j)[x] = Part(b, i, j)[x]
      OBVIOUS
    <2>1. Part(c, l + i, l + j)[x] = c[l + (i + x)]
      BY <1>1 DEF Part
    <2>2. Part(b, i, j)[x] = b[i + x]
      BY DEF Part
    <2>3. i + x \in 1..Len(b)
      OBVIOUS
    <2> QED
      BY <1>1, <2>1, <2>2, <2>3
  <1>4. Part(c, l + i, l + j) \in Seq(Bit) /\ Part(b, i, j) \in Seq(Bit)
    <2>1. l + i \in Nat /\ l + j \in Nat /\ l + i <= l + j /\ l + j <= Len(c)
      BY <1>1
    <2> QED
      BY <1>1, <2>1, PartIsOfBits, Zenon
  <1>5. Part(c, l + i, l + j) = Part(b, i, j)
    BY <1>2, <1>3, <1>4
  <1> QED
    BY <1>5 DEF c, l

\* Two sequences of bits joined, and where they are then.
LEMMA Joined ==
  ASSUME NEW a \in Seq(Bit), NEW b \in Seq(Bit)
  PROVE  /\ a \o b \in Seq(Bit) /\ Len(a \o b) = Len(a) + Len(b)
         /\ Part(a \o b, 0, Len(a)) = a /\ Part(a \o b, Len(a), Len(a) + Len(b)) = b
  <1>1. a \o b \in Seq(Bit) /\ Len(a \o b) = Len(a) + Len(b) /\ Len(a) \in Nat /\ Len(b) \in Nat /\ 0 \in Nat
    OBVIOUS
  <1>2. 0 <= Len(a) /\ Len(a) <= Len(a) /\ 0 <= Len(b) /\ Len(b) <= Len(b) /\ Len(a) + 0 = Len(a)
    BY <1>1
  <1>3. Part(a \o b, 0, Len(a)) = Part(a, 0, Len(a))
    BY <1>1, <1>2, PartOfFirst, Zenon
  <1>4. Part(a \o b, Len(a) + 0, Len(a) + Len(b)) = Part(b, 0, Len(b))
    BY <1>1, <1>2, PartOfSecond, Zenon
  <1>5. Part(a, 0, Len(a)) = a /\ Part(b, 0, Len(b)) = b
    BY SubSeqFull DEF Part
  <1> QED
    BY <1>1, <1>2, <1>3, <1>4, <1>5

\* The bits of a byte, and the byte they are.
LEMMA ByteBits ==
  ASSUME NEW b \in Byte
  PROVE  LET c == FromInt(b, 8)[1] IN c \in Seq(Bit) /\ Len(c) = 8 /\ ToInt(c) = b
  <1> DEFINE N == 2^8
  <1>1. N \in Nat /\ 8 \in Nat \ {0}
    BY TwoPowers
  <1>2. b \in 0..N - 1
    BY DEF Byte
  <1> HIDE DEF N
  <1>3. b \in Int /\ b < N /\ b % N = b
    BY <1>1, <1>2
  <1>4. b \in Int /\ b < 2^8
    BY <1>3 DEF N
  <1>5. FromInt(b, 8)[1] \in Seq(Bit) /\ Len(FromInt(b, 8)[1]) = 8 /\ ToInt(FromInt(b, 8)[1]) = b % 2^8
    BY <1>1, <1>4, IntegersWrap, Zenon
  <1> QED
    BY <1>3, <1>5, Zenon DEF N

\* Bits.from_bytes: eight bits after the other.
LEMMA BitsOfBytes ==
  ASSUME NEW bytes \in Seq(Byte)
  PROVE  /\ BitsOf(bytes) \in Seq(Bit) /\ Len(BitsOf(bytes)) = 8 * Len(bytes)
         /\ \A i \in 1..Len(bytes) : Part(BitsOf(bytes), 8 * (i - 1), 8 * i) = FromInt(bytes[i], 8)[1]
  <1> DEFINE C == [i \in DOMAIN bytes |-> FromInt(bytes[i], 8)[1]]
             N == Len(bytes)
  <1>1. N \in Nat /\ DOMAIN bytes = 1..N /\ \A i \in 1..N : bytes[i] \in Byte
    OBVIOUS
  <1>2. \A i \in 1..N : C[i] = FromInt(bytes[i], 8)[1]
    BY <1>1
  <1>3. \A i \in 1..N : C[i] \in Seq(Bit) /\ Len(C[i]) = 8
    <2> HIDE DEF C
    <2> QED
      BY <1>1, <1>2, ByteBits
  <1>4. C \in Seq(Seq(Bit)) /\ Len(C) = N
    <2>1. C = [i \in 1..N |-> C[i]]
      BY <1>1
    <2> HIDE DEF C
    <2> QED
      BY <1>1, <1>3, <2>1
  <1>5. BitsOf(bytes) = FlattenSeq(C)
    BY Zenon DEF BitsOf
  <1> HIDE DEF C
  <1>6. CASE N = 0
    <2>1. FlattenSeq(C) = <<>>
      BY <1>4, <1>6 DEF FlattenSeq
    <2> QED
      BY <1>5, <1>6, <2>1
  <1>7. CASE N # 0
    <2>1. PICK f : /\ f[1] = C[1]
                   /\ \A i \in 2..Len(C) : f[i] = f[i - 1] \o C[i]
                   /\ \A i \in 1..Len(C) : f[i] \in Seq(Bit)
                   /\ FlattenSeq(C) = f[Len(C)]
      BY <1>4, <1>7, FlattenSteps, Zenon
    <2> DEFINE Upto(m) == /\ Len(f[m]) = 8 * m
                          /\ \A i \in 1..m : Part(f[m], 8 * (i - 1), 8 * i) = C[i]
               S == {m \in Nat : m + 1 <= N => Upto(m + 1)}
    <2> HIDE DEF N
    <2>2. /\ \A i \in 2..N : f[i] = f[i - 1] \o C[i]
          /\ \A i \in 1..N : f[i] \in Seq(Bit)
          /\ FlattenSeq(C) = f[N]
      BY <1>4, <2>1
    <2>3. 0 \in S
      <3> SUFFICES ASSUME 1 <= N PROVE Upto(1)
        OBVIOUS
      <3>1. C[1] \in Seq(Bit) /\ Len(C[1]) = 8 /\ f[1] = C[1]
        BY <1>1, <1>3, <2>1
      <3>2. Part(C[1], 0, 8) = C[1]
        BY <3>1, SubSeqFull DEF Part
      <3>3. \A i \in 1..1 : i = 1 /\ 8 * (i - 1) = 0 /\ 8 * i = 8
        OBVIOUS
      <3> QED
        BY <3>1, <3>2, <3>3
    <2>4. ASSUME NEW m \in Nat, m \in S
          PROVE  m + 1 \in S
      <3> SUFFICES ASSUME (m + 1) + 1 <= N PROVE Upto((m + 1) + 1)
        OBVIOUS
      <3> DEFINE p == m + 1
                 q == p + 1
                 a == f[p]
                 b == C[q]
      <3>1. p \in Nat /\ q = p + 1 /\ p \in 1..N /\ q \in 1..N /\ q \in 2..N /\ q - 1 = p
        BY <1>1
      <3>2. Upto(p)
        BY <2>4, <3>1
      <3> HIDE DEF p, q
      <3>3. a \in Seq(Bit) /\ b \in Seq(Bit) /\ Len(b) = 8 /\ f[q] = a \o b
        BY <1>3, <2>2, <3>1
      <3>4. Len(a) = 8 * p /\ \A i \in 1..p : Part(a, 8 * (i - 1), 8 * i) = C[i]
        BY <3>2
      <3> HIDE DEF a, b
      <3>5. Len(a \o b) = 8 * q
        <4>1. Len(a \o b) = Len(a) + Len(b)
          <5>1. a \in Seq(Bit) /\ b \in Seq(Bit)
            BY <3>3, Zenon
          <5> QED
            BY <5>1, Joined, Zenon
        <4>2. Len(a) = 8 * p /\ Len(b) = 8
          BY <3>3, <3>4
        <4> QED
          BY <3>1, <4>1, <4>2
      <3>6. ASSUME NEW i \in 1..p
            PROVE  Part(a \o b, 8 * (i - 1), 8 * i) = C[i]
        <4> DEFINE x == 8 * (i - 1)
                   y == 8 * i
        <4>1. x \in Nat /\ y \in Nat /\ x <= y /\ y <= Len(a)
          BY <3>1, <3>4
        <4>2. Part(a, x, y) = C[i]
          BY <3>4
        <4> HIDE DEF x, y
        <4>3. Part(a \o b, x, y) = Part(a, x, y)
          BY <3>3, <4>1, PartOfFirst, Zenon
        <4> QED
          BY <4>2, <4>3 DEF x, y
      <3>7. Part(a \o b, 8 * (q - 1), 8 * q) = b
        <4> DEFINE l == Len(a)
        <4>1. 8 * (q - 1) = l + 0 /\ 8 * q = l + 8
          BY <3>1, <3>4
        <4>2. 0 \in Nat /\ 8 \in Nat /\ 0 <= 8 /\ 8 <= Len(b)
          BY <3>3
        <4>3. Part(a \o b, Len(a) + 0, Len(a) + 8) = Part(b, 0, 8)
          BY <3>3, <4>2, PartOfSecond, Zenon
        <4>4. Part(b, 0, 8) = b
          BY <3>3, SubSeqFull DEF Part
        <4> QED
          BY <4>1, <4>3, <4>4
      <3>8. \A i \in 1..q : i \in 1..p \/ i = q
        BY <3>1
      <3>9. Upto(q)
        BY <3>3, <3>5, <3>6, <3>7, <3>8 DEF b
      <3> QED
        BY <3>9 DEF p, q
    <2>5. N - 1 \in S
      <3> HIDE DEF S
      <3>1. N - 1 \in Nat
        BY <1>1, <1>7 DEF N
      <3> QED
        BY <2>3, <2>4, <3>1, SetInduction
    <2>6. Upto(N)
      <3> HIDE DEF Upto
      <3>1. (N - 1) + 1 = N
        BY <1>1
      <3> QED
        BY <2>5, <3>1, <1>1
    <2>7. N \in 1..N
      BY <1>1, <1>7 DEF N
    <2> QED
      BY <1>2, <1>5, <2>2, <2>6, <2>7 DEF N
  <1> QED
    BY <1>6, <1>7

\* Bits that are the same byte by byte are the same.
LEMMA SameByBytes ==
  ASSUME NEW a \in Seq(Bit), NEW b \in Seq(Bit), NEW n \in Nat, Len(a) = 8 * n, Len(b) = 8 * n,
         \A i \in 1..n : Part(a, 8 * (i - 1), 8 * i) = Part(b, 8 * (i - 1), 8 * i)
  PROVE  a = b
  <1>1. ASSUME NEW x \in 1..8 * n
        PROVE  a[x] = b[x]
    <2> DEFINE i == (x - 1) \div 8 + 1
               y == x - 8 * (i - 1)
    <2>1. i \in 1..n /\ y \in 1..8 /\ x = 8 * (i - 1) + y
      OBVIOUS
    <2> HIDE DEF i, y
    <2>2. Part(a, 8 * (i - 1), 8 * i)[y] = a[x] /\ Part(b, 8 * (i - 1), 8 * i)[y] = b[x]
      BY <2>1 DEF Part
    <2> QED
      BY <2>1, <2>2
  <1> QED
    BY <1>1

\* Whole bytes of bits are what their bytes are made of.
LEMMA WholeBytes ==
  ASSUME NEW bits \in Seq(Bit), NEW n \in Nat, Len(bits) = 8 * n
  PROVE  BytesFrom(bits, 0, n) \in Seq(Byte) /\ BitsOf(BytesFrom(bits, 0, n)) = bits
  <1> DEFINE bytes == BytesFrom(bits, 0, n)
             from(i) == 8 * (i - 1)
             to(i) == 8 * i
  <1>1. ASSUME NEW i \in 1..n
        PROVE  /\ bytes[i] = ToInt(Part(bits, from(i), to(i))) /\ bytes[i] \in Byte
               /\ FromInt(bytes[i], 8)[1] = Part(bits, from(i), to(i))
    <2> DEFINE c == Part(bits, from(i), to(i))
    <2>1. c \in Seq(Bit) /\ Len(c) = 8 /\ Len(c) # 0
      <3>1. from(i) \in Nat /\ to(i) \in Nat /\ from(i) <= to(i) /\ to(i) <= Len(bits) /\ to(i) - from(i) = 8
        OBVIOUS
      <3> HIDE DEF from, to
      <3>2. c \in Seq(Bit) /\ Len(c) = to(i) - from(i)
        BY <3>1, PartIsOfBits, Zenon
      <3> HIDE DEF c
      <3> QED
        BY <3>1, <3>2
    <2>2. bytes[i] = ToInt(Part(bits, from(i), to(i)))
      BY DEF BytesFrom
    <2> HIDE DEF c, bytes, from, to
    <2>3. ToInt(c) \in Nat /\ ToInt(c) < 2^Len(c) /\ FromInt(ToInt(c), Len(c)) = <<c>>
      BY <2>1, ToIntIsBounded, BitsComeBack, Zenon
    <2>4. ToInt(c) \in Byte
      <3> DEFINE N == 2^8
      <3>1. N \in Nat /\ Len(c) = 8 /\ ToInt(c) < 2^8
        BY <2>1, <2>3, TwoPowers
      <3>2. ToInt(c) < N
        BY <3>1
      <3> HIDE DEF N
      <3>3. ToInt(c) \in 0..N - 1
        BY <2>3, <3>1, <3>2
      <3> QED
        BY <3>3 DEF Byte, N
    <2>5. FromInt(ToInt(c), 8)[1] = c
      BY <2>1, <2>3
    <2> QED
      BY <2>2, <2>4, <2>5 DEF c
  <1>2. bytes \in Seq(Byte) /\ Len(bytes) = n
    <2>1. bytes = [i \in 1..n |-> bytes[i]]
      BY DEF BytesFrom
    <2> HIDE DEF bytes
    <2> QED
      BY <1>1, <2>1
  <1> HIDE DEF bytes
  <1>3. /\ BitsOf(bytes) \in Seq(Bit) /\ Len(BitsOf(bytes)) = 8 * n
        /\ \A i \in 1..n : Part(BitsOf(bytes), from(i), to(i)) = FromInt(bytes[i], 8)[1]
    BY <1>2, BitsOfBytes
  <1>4. \A i \in 1..n : Part(BitsOf(bytes), from(i), to(i)) = Part(bits, from(i), to(i))
    BY <1>1, <1>3, Zenon
  <1>5. BitsOf(bytes) = bits
    BY <1>3, <1>4, SameByBytes
  <1> QED
    BY <1>2, <1>5 DEF bytes

-----------------------------------------------------------------------------
\* An object whose fields can be read from all the bits.
LEMMA ObjectAt ==
  ASSUME NEW fields, Len(fields) \in Nat, NEW v, NEW t, Readable(fields, v, t, <<>>, TRUE),
         NEW bits \in Seq(Bit), t[0] = At(bits, 0), t[Len(fields)] = At(bits, Len(bits))
  PROVE  FromBits(fields, bits) = <<Object(fields, v)>>
  <1> DEFINE r == ReadEach(fields, Stream(bits), <<>>, TRUE)
             end == At(bits, Len(bits))
  <1>1. Stream(bits) = t[0]
    BY DEF Stream, At
  <1>2. ReadEach(fields, t[0], <<>>, TRUE) = <<v, t[Len(fields)]>>
    BY EachAt, Zenon
  <1>3. r = <<v, end>>
    BY <1>1, <1>2
  <1>4. Remaining(end) = 0
    BY DEF Remaining, At
  <1> HIDE DEF end, r
  <1>5. r # Raises /\ r[1] = v /\ ~(Remaining(r[2]) > 0)
    BY <1>3, <1>4 DEF Raises
  <1>6. FromBits(fields, bits) = <<Object(fields, r[1])>>
    BY <1>5, Zenon DEF FromBits, r
  <1> QED
    BY <1>5, <1>6

\* A nested object, where its bits make one.
LEMMA BitfieldAt ==
  ASSUME Recursion, NEW bits \in Seq(Bit), NEW p \in Nat, NEW n \in Nat, p + n <= Len(bits), NEW seen,
         NEW fields, NEW o, FromBits(fields, Part(bits, p, p + n)) = <<o>>
  PROVE  Read(BfBitfield(fields, n), At(bits, p), seen) = <<o, At(bits, p + n)>>
  <1> DEFINE type == BfBitfield(fields, n)
             s == At(bits, p)
             b == Part(bits, p, p + n)
             taken == Take(s, n)
             made == FromBits(fields, taken[1])
  <1>1. type.k = "bitfield" /\ type.fields = fields /\ type.n = n
    BY DEF BfBitfield
  <1>2. taken = <<b, At(bits, p + n)>>
    BY TakeAt, Zenon
  <1> HIDE DEF type, s, b, taken
  <1>3. taken # Raises /\ taken[1] = b /\ taken[2] = At(bits, p + n)
    BY <1>2 DEF Raises
  <1>4. made = <<o>>
    BY <1>3 DEF b
  <1>5. made # Raises /\ made[1] = o
    BY <1>4 DEF Raises
  <1>6. Read(type, s, seen) = LET x == IF taken = Raises THEN Raises ELSE FromBits(fields, taken[1])
                              IN IF x = Raises THEN Raises ELSE <<x[1], taken[2]>>
    BY <1>1, BitfieldKind, Zenon DEF taken
  <1> HIDE DEF made
  <1>7. Read(type, s, seen) = <<made[1], taken[2]>>
    BY <1>3, <1>5, <1>6, Zenon DEF made
  <1> QED
    BY <1>3, <1>5, <1>7 DEF type, s

\* The bits of a message: group, flag, command and body.
IsHead(a, f, c) == /\ a \in Seq(Bit) /\ Len(a) = 16
                   /\ f \in Seq(Bit) /\ Len(f) = 1
                   /\ c \in Seq(Bit) /\ Len(c) = 15
LaidOut(w, a, f, c, d) == /\ w \in Seq(Bit) /\ Len(w) = 32 + Len(d)
                          /\ Part(w, 0, 16) = a /\ Part(w, 16, 17) = f /\ Part(w, 17, 32) = c
                          /\ Part(w, 32, 32 + Len(d)) = d

LEMMA HeadAndBody ==
  ASSUME NEW a, NEW f, NEW c, IsHead(a, f, c), NEW d \in Seq(Bit)
  PROVE  LaidOut(a \o f \o c \o d, a, f, c, d)
  <1> DEFINE x == a \o f
             y == x \o c
             w == y \o d
  <1>0. /\ a \in Seq(Bit) /\ Len(a) = 16 /\ f \in Seq(Bit) /\ Len(f) = 1
        /\ c \in Seq(Bit) /\ Len(c) = 15
    BY Zenon DEF IsHead
  <1>1. x \in Seq(Bit) /\ Len(x) = 17 /\ Part(x, 0, 16) = a /\ Part(x, 16, 17) = f
    <2>1. x \in Seq(Bit) /\ Len(x) = Len(a) + Len(f) /\ Part(x, 0, Len(a)) = a
          /\ Part(x, Len(a), Len(a) + Len(f)) = f
      BY <1>0, Joined, Zenon
    <2> HIDE DEF x
    <2>2. Len(a) + Len(f) = 17
      BY <1>0
    <2> QED
      BY <1>0, <2>1, <2>2
  <1> HIDE DEF x
  <1>2. y \in Seq(Bit) /\ Len(y) = 32 /\ Part(y, 0, 17) = x /\ Part(y, 17, 32) = c
    <2>1. y \in Seq(Bit) /\ Len(y) = Len(x) + Len(c) /\ Part(y, 0, Len(x)) = x
          /\ Part(y, Len(x), Len(x) + Len(c)) = c
      BY <1>0, <1>1, Joined, Zenon
    <2> HIDE DEF y
    <2>2. Len(x) + Len(c) = 32 /\ Len(x) = 17
      BY <1>0, <1>1
    <2> QED
      BY <2>1, <2>2
  <1>3. Part(y, 0, 16) = Part(x, 0, 16) /\ Part(y, 16, 17) = Part(x, 16, 17)
    <2>1. 0 \in Nat /\ 16 \in Nat /\ 17 \in Nat /\ 0 <= 16 /\ 16 <= Len(x) /\ 16 <= 17 /\ 17 <= Len(x)
      BY <1>1
    <2>2. x \in Seq(Bit)
      BY <1>1, Zenon
    <2>3. \A i, j \in Nat : i <= j /\ j <= Len(x) => Part(x \o c, i, j) = Part(x, i, j)
      BY <1>0, <2>2, PartOfFirst, Zenon
    <2> HIDE DEF y
    <2> QED
      BY <2>1, <2>3 DEF y
  <1> HIDE DEF y
  <1>4. w \in Seq(Bit) /\ Len(w) = 32 + Len(d) /\ Part(w, 32, 32 + Len(d)) = d
    <2>1. w \in Seq(Bit) /\ Len(w) = Len(y) + Len(d) /\ Part(w, Len(y), Len(y) + Len(d)) = d
      BY <1>2, Joined, Zenon
    <2> HIDE DEF w
    <2> QED
      BY <1>2, <2>1
  <1>5. Part(w, 0, 16) = Part(y, 0, 16) /\ Part(w, 16, 17) = Part(y, 16, 17) /\ Part(w, 17, 32) = Part(y, 17, 32)
    <2>1. /\ 0 \in Nat /\ 16 \in Nat /\ 17 \in Nat /\ 32 \in Nat
          /\ 0 <= 16 /\ 16 <= Len(y) /\ 16 <= 17 /\ 17 <= Len(y) /\ 17 <= 32 /\ 32 <= Len(y)
      BY <1>2
    <2>2. y \in Seq(Bit)
      BY <1>2, Zenon
    <2>3. \A i, j \in Nat : i <= j /\ j <= Len(y) => Part(y \o d, i, j) = Part(y, i, j)
      BY <2>2, PartOfFirst, Zenon
    <2> HIDE DEF w
    <2> QED
      BY <2>1, <2>3 DEF w
  <1> HIDE DEF w
  <1>6. /\ w \in Seq(Bit) /\ Len(w) = 32 + Len(d)
        /\ Part(w, 0, 16) = a /\ Part(w, 16, 17) = f /\ Part(w, 17, 32) = c
        /\ Part(w, 32, 32 + Len(d)) = d
    BY <1>1, <1>2, <1>3, <1>4, <1>5, Zenon
  <1> QED
    BY <1>6, Zenon DEF LaidOut, w, x, y

\* The powers that bound the numbers of a message.
LEMMA KnownPowers == 2^8 = 256 /\ 2^15 = 32768 /\ 2^16 = 65536 /\ 2^1 = 2
  OBVIOUS

\* A number written into n bits, where it fits.
LEMMA NumberBits ==
  ASSUME NEW n \in Nat \ {0}, NEW x \in Nat, x < 2^n
  PROVE  /\ FromInt(x, n)[1] \in Seq(Bit) /\ Len(FromInt(x, n)[1]) = n
         /\ ToInt(FromInt(x, n)[1]) = x
  <1> DEFINE N == 2^n
  <1>1. N \in Nat /\ x \in Int
    BY TwoPowers
  <1>2. x < N
    OBVIOUS
  <1> HIDE DEF N
  <1>3. x % N = x
    BY <1>1, <1>2
  <1>4. /\ FromInt(x, n)[1] \in Seq(Bit) /\ Len(FromInt(x, n)[1]) = n
        /\ ToInt(FromInt(x, n)[1]) = x % 2^n
    BY <1>1, IntegersWrap, Zenon
  <1> QED
    BY <1>3, <1>4, Zenon DEF N

\* One bit.
LEMMA OneBit ==
  ASSUME NEW b \in Bit
  PROVE  <<b>> \in Seq(Bit) /\ Len(<<b>>) = 1 /\ ToInt(<<b>>) = b
  <1> DEFINE bits == <<b>>
  <1>1. bits \in Seq(Bit) /\ Len(bits) = 1 /\ bits[1] = b
    OBVIOUS
  <1> HIDE DEF bits
  <1>2. PICK f \in [0..Len(bits) -> Nat] : /\ f[0] = 0
                                           /\ \A n \in 1..Len(bits) : f[n] = 2 * f[n - 1] + bits[n]
                                           /\ ToInt(bits) = f[Len(bits)]
    BY <1>1, ToIntSteps, Zenon
  <1>3. ToInt(bits) = b
    <2>1. 1 \in 1..Len(bits) /\ 1 - 1 = 0
      BY <1>1
    <2>2. f[1] = 2 * f[0] + bits[1]
      BY <1>2, <2>1
    <2> QED
      BY <1>1, <1>2, <2>2 DEF Bit
  <1> QED
    BY <1>1, <1>3 DEF bits

-----------------------------------------------------------------------------
\* A field of a reply that is nothing after a status other than SUCCESS.
NothingOnFailure(type) ==
  \A s, seen : seen[1] # SUCCESS => Read(type, s, seen) = <<None, s>>

DataOnSuccess(fn) == \A seen, n : \E type : Discriminate(fn, seen, n) = OnSuccess(seen, type)

LEMMA NothingIsRead ==
  ASSUME Recursion, NEW fn, DataOnSuccess(fn)
  PROVE  NothingOnFailure(BfDyn(fn)) /\ NothingOnFailure(BfDynN(fn))
  <1> SUFFICES ASSUME NEW s, NEW seen, seen[1] # SUCCESS
               PROVE  Read(BfDyn(fn), s, seen) = <<None, s>> /\ Read(BfDynN(fn), s, seen) = <<None, s>>
    BY Zenon DEF NothingOnFailure
  <1>1. Discriminate(fn, seen, Remaining(s)) = <<BfNone>>
    <2>1. PICK type : Discriminate(fn, seen, Remaining(s)) = OnSuccess(seen, type)
      BY Zenon DEF DataOnSuccess
    <2> QED
      BY <2>1, Zenon DEF OnSuccess
  <1>2. Read(BfDyn(fn), s, seen) = Read(BfNone, s, seen) /\ Read(BfDynN(fn), s, seen) = Read(BfNone, s, seen)
    BY <1>1, DynAt
  <1> QED
    BY <1>2, NoneAt, Zenon

\* The functions that look at the status.
LEMMA NothingWhenRefused ==
  ASSUME Recursion
  PROVE  /\ NothingOnFailure(BfDyn("dev_info")) /\ NothingOnFailure(BfDyn("settings"))
         /\ NothingOnFailure(BfDyn("position")) /\ NothingOnFailure(BfDynN("rf_ch_reply"))
         /\ NothingOnFailure(BfDynN("status")) /\ NothingOnFailure(BfDynN("bss_reply"))
         /\ NothingOnFailure(BfDynN("power_reply"))
  <1>1. /\ DataOnSuccess("dev_info") /\ DataOnSuccess("settings") /\ DataOnSuccess("position")
        /\ DataOnSuccess("rf_ch_reply") /\ DataOnSuccess("status") /\ DataOnSuccess("bss_reply")
        /\ DataOnSuccess("power_reply")
    BY Discriminated, ZenonT(60) DEF DataOnSuccess
  <1> QED
    BY <1>1, NothingIsRead, Zenon

\* The replies that are a status and no more when it is not SUCCESS.
StatusFirst(fields) ==
  fields = StatusOnly \/ \E type : NothingOnFailure(type) /\ fields = <<ReplyStatus, type>>

LEMMA RepliesSayNo ==
  ASSUME Recursion, NEW c \in DOMAIN Replies \ {Cmd.GET_PF, Cmd.WRITE_RF_CH}
  PROVE  StatusFirst(Replies[c])
  <1>1. c \in DOMAIN Replies /\ c # 55 /\ c # 14
    BY DEF Cmd
  <1>2. Replies[c] = ReplyOf(c)
    BY <1>1, Zenon DEF Replies
  <1>3. c = 4 => ReplyOf(c) = GetDevInfoReply
    BY DEF ReplyOf
  <1>4. c = 5 => ReplyOf(c) = ReadPowerStatusReply
    BY DEF ReplyOf
  <1>5. c = 10 => ReplyOf(c) = ReadSettingsReply
    BY DEF ReplyOf
  <1>6. c = 13 => ReplyOf(c) = ReadRFChReply
    BY DEF ReplyOf
  <1>7. c = 20 => ReplyOf(c) = GetHtStatusReply
    BY DEF ReplyOf
  <1>8. c = 33 => ReplyOf(c) = ReadBSSSettingsReply
    BY DEF ReplyOf
  <1>9. c = 76 => ReplyOf(c) = GetPositionReply
    BY DEF ReplyOf
  <1>10. c \notin {4, 5, 10, 13, 14, 20, 33, 55, 76} => ReplyOf(c) = StatusOnly
    BY DEF ReplyOf
  <1>11. \/ c = 4 \/ c = 5 \/ c = 10 \/ c = 13 \/ c = 20 \/ c = 33 \/ c = 76
         \/ c \notin {4, 5, 10, 13, 14, 20, 33, 55, 76}
    BY <1>1
  <1>12. /\ StatusFirst(GetDevInfoReply) /\ StatusFirst(ReadPowerStatusReply)
         /\ StatusFirst(ReadSettingsReply) /\ StatusFirst(ReadRFChReply)
         /\ StatusFirst(GetHtStatusReply) /\ StatusFirst(ReadBSSSettingsReply)
         /\ StatusFirst(GetPositionReply)
    <2>1. \A type : NothingOnFailure(type) => StatusFirst(<<ReplyStatus, type>>)
      BY Zenon DEF StatusFirst
    <2> QED
      BY <2>1, NothingWhenRefused, Zenon
      DEF GetDevInfoReply, ReadPowerStatusReply, ReadSettingsReply, ReadRFChReply, GetHtStatusReply,
          ReadBSSSettingsReply, GetPositionReply
  <1>13. StatusFirst(StatusOnly)
    BY Zenon DEF StatusFirst
  <1>14. StatusFirst(ReplyOf(c))
    BY <1>3, <1>4, <1>5, <1>6, <1>7, <1>8, <1>9, <1>10, <1>11, <1>12, <1>13
  <1> QED
    BY <1>2, <1>14

\* Such a reply is read from the status alone.
LEMMA StatusReadAlone ==
  ASSUME Recursion, NEW fields, StatusFirst(fields), NEW status \in 1..7
  PROVE  \E v : /\ FromBits(fields, FromInt(status, 8)[1]) = <<Object(fields, v)>>
                /\ v[1] = status
  <1> DEFINE bits == FromInt(status, 8)[1]
             s == At(bits, 0)
             end == At(bits, 8)
  <1>1. bits \in Seq(Bit) /\ Len(bits) = 8 /\ ToInt(bits) = status
    <2>1. status \in Nat /\ 8 \in Nat \ {0} /\ status < 2^8
      BY KnownPowers
    <2> QED
      BY <2>1, NumberBits, Zenon
  <1> HIDE DEF bits
  <1>2. \A seen : Read(ReplyStatus, s, seen) = <<status, end>>
    <2> SUFFICES ASSUME NEW seen PROVE Read(ReplyStatus, s, seen) = <<status, end>>
      OBVIOUS
    <2>1. Part(bits, 0, 0 + 8) = bits
      BY <1>1, SubSeqFull DEF Part
    <2>2. ToInt(Part(bits, 0, 0 + 8)) = status
      BY <1>1, <2>1
    <2>3. 0 \in Nat /\ 8 \in Nat /\ 0 + 8 <= Len(bits) /\ status \in 0..7 /\ 0 + 8 = 8
      BY <1>1
    <2>4. Read(BfIntEnum(0..7, 8), At(bits, 0), seen) = <<ToInt(Part(bits, 0, 0 + 8)), At(bits, 0 + 8)>>
      <3>1. bits \in Seq(Bit)
        BY <1>1, Zenon
      <3> QED
        BY <3>1, <2>2, <2>3, EnumAt, ZenonT(60)
    <2> QED
      BY <2>2, <2>3, <2>4, Zenon DEF ReplyStatus
  <1> HIDE DEF s, end
  <1>3. CASE fields = StatusOnly
    <2> DEFINE v == <<status>>
               t == [i \in 0..1 |-> IF i = 0 THEN s ELSE end]
    <2>1. /\ Len(fields) = 1 /\ fields[1] = ReplyStatus /\ v[1] = status /\ v = [i \in 1..1 |-> v[i]]
          /\ t[0] = s /\ t[1] = end
      BY <1>3 DEF StatusOnly
    <2> HIDE DEF v, t
    <2>2. Readable(fields, v, t, <<>>, TRUE)
      <3>1. \A i \in 1..1 : i = 1 /\ i - 1 = 0
        OBVIOUS
      <3> QED
        BY <1>2, <2>1, <3>1 DEF Readable
    <2>3. Len(fields) \in Nat /\ t[0] = At(bits, 0) /\ t[Len(fields)] = At(bits, Len(bits))
      BY <1>1, <2>1 DEF s, end
    <2>4. FromBits(fields, bits) = <<Object(fields, v)>>
      BY <1>1, <2>2, <2>3, ObjectAt, Zenon
    <2> QED
      BY <2>1, <2>4, Zenon DEF bits
  <1>4. ASSUME NEW type, NothingOnFailure(type), fields = <<ReplyStatus, type>>
        PROVE  \E v : FromBits(fields, bits) = <<Object(fields, v)>> /\ v[1] = status
    <2> DEFINE v == <<status, None>>
               t == [i \in 0..2 |-> IF i = 0 THEN s ELSE end]
    <2>1. /\ Len(fields) = 2 /\ fields[1] = ReplyStatus /\ fields[2] = type
          /\ v[1] = status /\ v[2] = None /\ v = [i \in 1..2 |-> v[i]]
          /\ t[0] = s /\ t[1] = end /\ t[2] = end
      BY <1>4
    <2> HIDE DEF v, t
    <2>2. Read(type, end, Seen(v, 2, <<>>, TRUE)) = <<None, end>>
      <3>1. Seen(v, 2, <<>>, TRUE)[1] = status
        BY <2>1 DEF Seen
      <3>2. status # SUCCESS
        BY DEF SUCCESS
      <3> QED
        BY <1>4, <3>1, <3>2, Zenon DEF NothingOnFailure
    <2>3. Readable(fields, v, t, <<>>, TRUE)
      <3>1. \A i \in 1..2 : (i = 1 /\ i - 1 = 0) \/ (i = 2 /\ i - 1 = 1)
        OBVIOUS
      <3> QED
        BY <1>2, <2>1, <2>2, <3>1 DEF Readable
    <2>4. Len(fields) \in Nat /\ t[0] = At(bits, 0) /\ t[Len(fields)] = At(bits, Len(bits))
      BY <1>1, <2>1 DEF s, end
    <2>5. FromBits(fields, bits) = <<Object(fields, v)>>
      BY <1>1, <2>3, <2>4, ObjectAt, Zenon
    <2> QED
      BY <2>1, <2>5, Zenon
  <1> QED
    BY <1>3, <1>4, Zenon DEF StatusFirst, bits

-----------------------------------------------------------------------------
\* The four fields of a message, read where they are.
MessageRead(bits, group, flag, command, body) ==
  /\ \A seen : Read(BfIntEnum({BASIC, EXTENDED}, 16), At(bits, 0), seen) = <<group, At(bits, 16)>>
  /\ \A seen : Read(BfBool, At(bits, 16), seen) = <<flag, At(bits, 17)>>
  /\ \A seen : seen[1] = group => Read(BfDyn("command"), At(bits, 17), seen) = <<command, At(bits, 32)>>
  /\ \A seen : seen[1] = group /\ seen[2] = flag /\ seen[3] = command =>
       Read(BfDynN("body"), At(bits, 32), seen) = <<body, At(bits, Len(bits))>>

\* They are the message.
LEMMA MessageAt ==
  ASSUME NEW bits \in Seq(Bit), 32 <= Len(bits), NEW group, NEW flag, NEW command, NEW body,
         MessageRead(bits, group, flag, command, body)
  PROVE  FromBits(Message, bits) = <<Object(Message, <<group, flag, command, body>>)>>
  <1> DEFINE v == <<group, flag, command, body>>
             N == Len(bits)
             t == [i \in 0..4 |-> At(bits, Places(i, N))]
             see(i) == Seen(v, i, <<>>, TRUE)
  <1>1. /\ Len(Message) = 4
        /\ Message[1] = BfIntEnum({BASIC, EXTENDED}, 16) /\ Message[2] = BfBool
        /\ Message[3] = BfDyn("command") /\ Message[4] = BfDynN("body")
    BY FourFields, Zenon
  <1>2. v = [i \in 1..4 |-> v[i]] /\ v[1] = group /\ v[2] = flag /\ v[3] = command /\ v[4] = body
    OBVIOUS
  <1>3. /\ t[0] = At(bits, 0) /\ t[1] = At(bits, 16) /\ t[2] = At(bits, 17) /\ t[3] = At(bits, 32)
        /\ t[4] = At(bits, N)
    BY DEF Places
  <1>4. /\ see(3)[1] = v[1]
        /\ see(4)[1] = v[1] /\ see(4)[2] = v[2] /\ see(4)[3] = v[3]
    BY DEF Seen
  <1> HIDE DEF v, t, N, see
  <1>5. /\ Read(Message[1], t[0], see(1)) = <<v[1], t[1]>>
        /\ Read(Message[2], t[1], see(2)) = <<v[2], t[2]>>
        /\ Read(Message[3], t[2], see(3)) = <<v[3], t[3]>>
        /\ Read(Message[4], t[3], see(4)) = <<v[4], t[4]>>
    BY <1>1, <1>2, <1>3, <1>4 DEF MessageRead, N
  <1>6. Readable(Message, v, t, <<>>, TRUE)
    <2>1. \A i \in 1..4 : \/ i = 1 /\ i - 1 = 0
                          \/ i = 2 /\ i - 1 = 1
                          \/ i = 3 /\ i - 1 = 2
                          \/ i = 4 /\ i - 1 = 3
      OBVIOUS
    <2> QED
      BY <1>1, <1>2, <1>5, <2>1 DEF Readable, see
  <1>7. Len(Message) \in Nat /\ t[0] = At(bits, 0) /\ t[Len(Message)] = At(bits, Len(bits))
    BY <1>1, <1>3 DEF N
  <1>8. FromBits(Message, bits) = <<Object(Message, v)>>
    BY <1>6, <1>7, ObjectAt, Zenon
  <1> QED
    BY <1>8, Zenon DEF v

\* body_disc() of a reply.
LEMMA ReplyChosen ==
  ASSUME NEW self, self[1] = BASIC, self[2], self[3] \in DOMAIN Replies, NEW n
  PROVE  BodyDisc(self, n) = <<BfBitfield(Replies[self[3]], n)>>
  <1>1. self[3] # Cmd.EVENT_NOTIFICATION
    <2>1. self[3] \in {4, 5, 10, 11, 13, 14, 20, 31, 33, 34, 51, 55, 76}
      BY DEF Replies
    <2> QED
      BY <2>1 DEF Cmd
  <1> QED
    BY <1>1, Zenon DEF BodyDisc

\* A request that is refused parses as what it is: the callers of _request see
\* the status and do not wait for a time-out.
LEMMA RefusalParses ==
  ASSUME Recursion, NEW cmd \in DOMAIN Replies \ {Cmd.GET_PF, Cmd.WRITE_RF_CH}, NEW status \in 1..7
  PROVE  \E body : /\ FromBits(Message, Refusal(cmd, status)) = <<Object(Message, <<BASIC, TRUE, cmd, body>>)>>
                   /\ body.v[1] = status
  <1> DEFINE a == FromInt(BASIC, 16)[1]
             f == <<1>>
             c == FromInt(cmd, 15)[1]
             d == FromInt(status, 8)[1]
             bits == a \o f \o c \o d
             fields == Replies[cmd]
  <1>1. cmd \in BasicCommands /\ cmd \in Nat /\ cmd < 2^15 /\ cmd \in DOMAIN Replies
    <2>1. cmd \in {4, 5, 10, 11, 13, 14, 20, 31, 33, 34, 51, 55, 76}
      BY DEF Replies
    <2>2. cmd \in 0..76
      BY <2>1
    <2> QED
      BY <2>2, KnownPowers DEF BasicCommands
  <1>2. a \in Seq(Bit) /\ Len(a) = 16 /\ ToInt(a) = BASIC
    <2>1. BASIC \in Nat /\ 16 \in Nat \ {0} /\ BASIC < 2^16
      BY KnownPowers DEF BASIC
    <2> QED
      BY <2>1, NumberBits, Zenon
  <1>3. f \in Seq(Bit) /\ Len(f) = 1 /\ ToInt(f) = 1
    <2>1. 1 \in Bit
      BY DEF Bit
    <2> QED
      BY <2>1, OneBit, Zenon
  <1>4. c \in Seq(Bit) /\ Len(c) = 15 /\ ToInt(c) = cmd
    <2>1. 15 \in Nat \ {0}
      OBVIOUS
    <2> QED
      BY <1>1, <2>1, NumberBits, Zenon
  <1>5. d \in Seq(Bit) /\ Len(d) = 8
    <2>1. status \in Nat /\ 8 \in Nat \ {0} /\ status < 2^8
      BY KnownPowers
    <2> QED
      BY <2>1, NumberBits, Zenon
  <1>6. PICK v : FromBits(fields, d) = <<Object(fields, v)>> /\ v[1] = status
    BY RepliesSayNo, StatusReadAlone, Zenon
  <1>7. Refusal(cmd, status) = bits
    BY Zenon DEF Refusal
  <1> DEFINE body == Object(fields, v)
  <1>8. body.v[1] = status
    BY <1>6 DEF Object
  <1> HIDE DEF a, f, c, d, fields, body
  <1> DEFINE reply == TRUE
  <1> HIDE DEF reply
  <1>9. /\ bits \in Seq(Bit) /\ Len(bits) = 32 + Len(d)
        /\ Part(bits, 0, 16) = a /\ Part(bits, 16, 17) = f /\ Part(bits, 17, 32) = c
        /\ Part(bits, 32, 32 + Len(d)) = d
    <2>1. IsHead(a, f, c)
      BY <1>2, <1>3, <1>4, Zenon DEF IsHead
    <2>2. LaidOut(a \o f \o c \o d, a, f, c, d)
      BY <1>5, <2>1, HeadAndBody, Zenon
    <2> QED
      BY <2>2, Zenon DEF LaidOut
  <1> HIDE DEF bits
  <1>b. bits \in Seq(Bit)
    BY <1>9, Zenon
  <1>10. /\ Len(bits) = 40 /\ ToInt(Part(bits, 0, 0 + 16)) = BASIC /\ ToInt(Part(bits, 16, 16 + 1)) = 1
         /\ ToInt(Part(bits, 17, 17 + 15)) = cmd /\ Part(bits, 32, 32 + 8) = d
    BY <1>2, <1>3, <1>4, <1>5, <1>9
  <1>11. \A seen : Read(BfIntEnum({BASIC, EXTENDED}, 16), At(bits, 0), seen) = <<BASIC, At(bits, 16)>>
    <2>1. 0 \in Nat /\ 16 \in Nat /\ 0 + 16 <= Len(bits) /\ 0 + 16 = 16
          /\ ToInt(Part(bits, 0, 0 + 16)) \in {BASIC, EXTENDED}
      BY <1>10
    <2> SUFFICES ASSUME NEW seen
                 PROVE  Read(BfIntEnum({BASIC, EXTENDED}, 16), At(bits, 0), seen) = <<BASIC, At(bits, 16)>>
      OBVIOUS
    <2>2. Read(BfIntEnum({BASIC, EXTENDED}, 16), At(bits, 0), seen) = <<ToInt(Part(bits, 0, 0 + 16)), At(bits, 0 + 16)>>
      BY <1>b, <2>1, EnumAt, ZenonT(60)
    <2> QED
      BY <1>10, <2>1, <2>2, Zenon
  <1>12. \A seen : Read(BfBool, At(bits, 16), seen) = <<TRUE, At(bits, 17)>>
    <2>1. 16 \in Nat /\ 16 + 1 <= Len(bits) /\ 16 + 1 = 17
      BY <1>10
    <2> SUFFICES ASSUME NEW seen
                 PROVE  Read(BfBool, At(bits, 16), seen) = <<TRUE, At(bits, 17)>>
      OBVIOUS
    <2>2. Read(BfBool, At(bits, 16), seen) = <<ToInt(Part(bits, 16, 16 + 1)) = 1, At(bits, 16 + 1)>>
      BY <1>b, <2>1, BoolAt, ZenonT(60)
    <2>3. (ToInt(Part(bits, 16, 16 + 1)) = 1) = TRUE
      BY <1>10
    <2> QED
      BY <2>1, <2>2, <2>3, Zenon
  <1>13. \A seen : seen[1] = BASIC => Read(BfDyn("command"), At(bits, 17), seen) = <<cmd, At(bits, 32)>>
    <2> SUFFICES ASSUME NEW seen, seen[1] = BASIC
                 PROVE  Read(BfDyn("command"), At(bits, 17), seen) = <<cmd, At(bits, 32)>>
      OBVIOUS
    <2> DEFINE type == BfIntEnum(BasicCommands, 15)
               s == At(bits, 17)
    <2>1. 17 \in Nat /\ 15 \in Nat /\ 17 + 15 <= Len(bits) /\ 17 + 15 = 32
          /\ ToInt(Part(bits, 17, 17 + 15)) \in BasicCommands
      BY <1>1, <1>10
    <2>2. Discriminate("command", seen, Remaining(s)) = <<type>>
      BY Discriminated, Zenon
    <2>3. Read(BfDyn("command"), s, seen) = Read(type, s, seen)
      <3> HIDE DEF type, s
      <3> QED
        BY <2>2, DynAt
    <2>4. Read(type, s, seen) = <<ToInt(Part(bits, 17, 17 + 15)), At(bits, 17 + 15)>>
      BY <1>b, <2>1, EnumAt, ZenonT(60)
    <2> QED
      BY <1>10, <2>1, <2>3, <2>4, Zenon
  <1>14. \A seen : seen[1] = BASIC /\ seen[2] = TRUE /\ seen[3] = cmd =>
           Read(BfDynN("body"), At(bits, 32), seen) = <<body, At(bits, Len(bits))>>
    <2> SUFFICES ASSUME NEW seen, seen[1] = BASIC, seen[2] = TRUE, seen[3] = cmd
                 PROVE  Read(BfDynN("body"), At(bits, 32), seen) = <<body, At(bits, Len(bits))>>
      OBVIOUS
    <2> DEFINE s == At(bits, 32)
               type == BfBitfield(fields, 8)
    <2>1. Remaining(s) = 8
      BY <1>10 DEF Remaining, At
    <2>2. Discriminate("body", seen, 8) = <<type>>
      <3>1. Discriminate("body", seen, 8) = BodyDisc(seen, 8)
        BY Discriminated, Zenon
      <3>2. BodyDisc(seen, 8) = <<type>>
        <4>1. seen[2]
          BY Zenon
        <4>2. seen[1] = BASIC /\ seen[3] \in DOMAIN Replies /\ fields = Replies[seen[3]]
          BY <1>1 DEF fields
        <4> QED
          BY <4>1, <4>2, ReplyChosen
      <3> QED
        BY <3>1, <3>2, Zenon
    <2>3. Read(BfDynN("body"), s, seen) = Read(type, s, seen)
      <3> HIDE DEF type, s
      <3> QED
        BY <2>1, <2>2, DynAt
    <2>4. Read(type, s, seen) = <<body, At(bits, 32 + 8)>>
      <3> DEFINE p == 32
                 n == 8
      <3>2. p \in Nat /\ n \in Nat /\ p + n <= Len(bits)
        BY <1>10
      <3>3. FromBits(fields, Part(bits, p, p + n)) = <<body>>
        BY <1>6, <1>10 DEF body
      <3>4. type = BfBitfield(fields, n) /\ s = At(bits, p) /\ At(bits, p + n) = At(bits, 32 + 8)
        OBVIOUS
      <3> HIDE DEF p, n
      <3>5. Read(BfBitfield(fields, n), At(bits, p), seen) = <<body, At(bits, p + n)>>
        BY <1>b, <3>2, <3>3, BitfieldAt, SMTT(60)
      <3> HIDE DEF type, s
      <3> QED
        BY <3>4, <3>5, ZenonT(60)
    <2>5. 32 + 8 = Len(bits)
      BY <1>10
    <2> QED
      BY <2>3, <2>4, <2>5
  <1>15. MessageRead(bits, BASIC, reply, cmd, body)
    BY <1>11, <1>12, <1>13, <1>14, Zenon DEF MessageRead, reply
  <1>16. FromBits(Message, bits) = <<Object(Message, <<BASIC, reply, cmd, body>>)>>
    <2>1. 32 <= Len(bits)
      BY <1>10
    <2> QED
      BY <1>9, <1>15, <2>1, MessageAt
  <1> QED
    BY <1>7, <1>8, <1>16, Zenon DEF reply

\* Radio.get_device_info(), read_settings() and the others: a radio that says no
\* is understood, whatever the command and the reason are.
THEOREM EveryRefusalIsUnderstood ==
  ASSUME Recursion
  PROVE  RefusalsAreUnderstood
  <1> SUFFICES ASSUME NEW cmd \in DOMAIN Replies \ {Cmd.GET_PF, Cmd.WRITE_RF_CH}, NEW status \in 1..7,
                      frame = Refusal(cmd, status)
               PROVE  LET m == ParseMessage(frame)
                      IN m # Raises /\ m[1].v[2] /\ m[1].v[3] = cmd /\ m[1].v[4].v[1] = status
    BY Zenon DEF RefusalsAreUnderstood
  <1>1. PICK body : /\ ParseMessage(frame) = <<Object(Message, <<BASIC, TRUE, cmd, body>>)>>
                    /\ body.v[1] = status
    BY RefusalParses, ZenonT(60) DEF ParseMessage
  <1> DEFINE v == <<BASIC, TRUE, cmd, body>>
             m == ParseMessage(frame)
  <1>2. v[2] = TRUE /\ v[3] = cmd /\ v[4] = body
    OBVIOUS
  <1> HIDE DEF v, m
  <1>3. m = <<Object(Message, v)>>
    BY <1>1, Zenon DEF v, m
  <1>4. m # Raises /\ m[1].v = v
    BY <1>3 DEF Raises, Object
  <1>5. m # Raises /\ m[1].v[2] /\ m[1].v[3] = cmd /\ m[1].v[4].v[1] = status
    BY <1>1, <1>2, <1>4
  <1> QED
    BY <1>5, Zenon DEF m

-----------------------------------------------------------------------------
\* What a frame holds where it was put together.
IsWrapped(w, bits, flags) ==
  LET k == Len(bits) \div 8
      end == 32 + Len(bits)
  IN /\ w \in Seq(Bit) /\ Part(w, 0, 8) = FromInt(255, 8)[1] /\ Part(w, 8, 16) = FromInt(1, 8)[1]
     /\ Part(w, 16, 24) = FromInt(flags, 8)[1] /\ Part(w, 24, 32) = FromInt(k - 4, 8)[1]
     /\ \A i, j \in Nat : i <= j /\ j <= Len(bits) => Part(w, 32 + i, 32 + j) = Part(bits, i, j)
     /\ IF flags = 1 THEN Len(w) = end + 8 /\ ToInt(Part(w, end, end + 8)) = 170 ELSE Len(w) = end

\* Wrapped() puts a header, the message and a checksum together.
LEMMA WrappedIs ==
  ASSUME NEW bits \in Seq(Bit), NEW k \in 4..259, Len(bits) = 8 * k, NEW flags \in {0, 1}
  PROVE  IsWrapped(Wrapped(bits, flags), bits, flags)
  <1> DEFINE bytes == <<255, 1, flags, Len(bits) \div 8 - 4>>
             head == BitsOf(bytes)
             tail == IF flags = 1 THEN BitsOf(<<170>>) ELSE <<>>
             x == head \o bits
             w == x \o tail
  <1>1. Len(bits) \div 8 = k
    OBVIOUS
  <1>2. /\ head \in Seq(Bit) /\ Len(head) = 32
        /\ Part(head, 0, 8) = FromInt(255, 8)[1] /\ Part(head, 8, 16) = FromInt(1, 8)[1]
        /\ Part(head, 16, 24) = FromInt(flags, 8)[1] /\ Part(head, 24, 32) = FromInt(k - 4, 8)[1]
    <2>1. bytes \in Seq(Byte) /\ Len(bytes) = 4 /\ bytes[1] = 255 /\ bytes[2] = 1 /\ bytes[3] = flags /\ bytes[4] = k - 4
      <3>1. 255 \in Byte /\ 1 \in Byte /\ flags \in Byte /\ k - 4 \in Byte
        BY KnownPowers DEF Byte
      <3> QED
        BY <1>1, <3>1
    <2> HIDE DEF bytes
    <2>2. /\ head \in Seq(Bit) /\ Len(head) = 8 * Len(bytes)
          /\ \A i \in 1..Len(bytes) : Part(head, 8 * (i - 1), 8 * i) = FromInt(bytes[i], 8)[1]
      BY <2>1, BitsOfBytes, Zenon
    <2> HIDE DEF head
    <2>3. /\ Part(head, 8 * (1 - 1), 8 * 1) = FromInt(bytes[1], 8)[1]
          /\ Part(head, 8 * (2 - 1), 8 * 2) = FromInt(bytes[2], 8)[1]
          /\ Part(head, 8 * (3 - 1), 8 * 3) = FromInt(bytes[3], 8)[1]
          /\ Part(head, 8 * (4 - 1), 8 * 4) = FromInt(bytes[4], 8)[1]
      BY <2>1, <2>2
    <2>4. 8 * (1 - 1) = 0 /\ 8 * 1 = 8 /\ 8 * (2 - 1) = 8 /\ 8 * 2 = 16 /\ 8 * (3 - 1) = 16 /\ 8 * 3 = 24
          /\ 8 * (4 - 1) = 24 /\ 8 * 4 = 32
      OBVIOUS
    <2> QED
      BY <2>1, <2>2, <2>3, <2>4
  <1>3. tail \in Seq(Bit) /\ IF flags = 1 THEN Len(tail) = 8 /\ ToInt(tail) = 170 ELSE Len(tail) = 0
    <2>1. CASE flags = 1
      <3> DEFINE one == <<170>>
                 b == BitsOf(one)
      <3>1. one \in Seq(Byte) /\ Len(one) = 1 /\ one[1] = 170 /\ 170 \in Byte
        BY KnownPowers DEF Byte
      <3> HIDE DEF one
      <3>2. /\ b \in Seq(Bit) /\ Len(b) = 8 * Len(one)
            /\ \A i \in 1..Len(one) : Part(b, 8 * (i - 1), 8 * i) = FromInt(one[i], 8)[1]
        BY <3>1, BitsOfBytes, Zenon
      <3> HIDE DEF b
      <3>3. Len(b) = 8 /\ Part(b, 0, 8) = FromInt(170, 8)[1]
        <4>1. Part(b, 8 * (1 - 1), 8 * 1) = FromInt(one[1], 8)[1]
          BY <3>1, <3>2
        <4> QED
          BY <3>1, <3>2, <4>1
      <3>4. Part(b, 0, 8) = b
        <4>1. Part(b, 0, Len(b)) = b
          BY <3>2, SubSeqFull DEF Part
        <4> QED
          BY <3>3, <4>1
      <3>5. ToInt(FromInt(170, 8)[1]) = 170
        BY <3>1, ByteBits, Zenon
      <3>6. tail = b
        BY <2>1, Zenon DEF b, one
      <3> HIDE DEF tail
      <3> QED
        BY <2>1, <3>2, <3>3, <3>4, <3>5, <3>6
    <2>2. CASE flags # 1
      BY <2>2
    <2> QED
      BY <2>1, <2>2, Zenon
  <1>4. Wrapped(bits, flags) = w
    BY Zenon DEF Wrapped
  <1> HIDE DEF head, tail
  <1>5. /\ x \in Seq(Bit) /\ Len(x) = 32 + Len(bits)
        /\ \A i, j \in Nat : i <= j /\ j <= Len(head) => Part(x, i, j) = Part(head, i, j)
        /\ \A i, j \in Nat : i <= j /\ j <= Len(bits) => Part(x, Len(head) + i, Len(head) + j) = Part(bits, i, j)
    <2>0. head \in Seq(Bit)
      BY <1>2, Zenon
    <2>1. x \in Seq(Bit) /\ Len(x) = Len(head) + Len(bits)
      BY <2>0, Joined, ZenonT(60)
    <2>2. \A i, j \in Nat : i <= j /\ j <= Len(head) => Part(x, i, j) = Part(head, i, j)
      BY <2>0, PartOfFirst, ZenonT(60)
    <2>3. \A i, j \in Nat : i <= j /\ j <= Len(bits) => Part(x, Len(head) + i, Len(head) + j) = Part(bits, i, j)
      BY <2>0, PartOfSecond, ZenonT(60)
    <2> HIDE DEF x
    <2> QED
      BY <1>2, <2>1, <2>2, <2>3
  <1> HIDE DEF x
  <1>6. /\ w \in Seq(Bit) /\ Len(w) = Len(x) + Len(tail) /\ Part(w, Len(x), Len(x) + Len(tail)) = tail
        /\ \A i, j \in Nat : i <= j /\ j <= Len(x) => Part(w, i, j) = Part(x, i, j)
    <2>1. w \in Seq(Bit) /\ Len(w) = Len(x) + Len(tail) /\ Part(w, Len(x), Len(x) + Len(tail)) = tail
      <3>1. x \in Seq(Bit) /\ tail \in Seq(Bit)
        BY <1>3, <1>5, Zenon
      <3> QED
        BY <3>1, Joined, Zenon
    <2>2. \A i, j \in Nat : i <= j /\ j <= Len(x) => Part(w, i, j) = Part(x, i, j)
      BY <1>3, <1>5, PartOfFirst, Zenon
    <2> QED
      BY <2>1, <2>2, Zenon
  <1> HIDE DEF w
  <1>7. \A i, j \in Nat : i <= j /\ j <= 32 => Part(w, i, j) = Part(head, i, j)
    BY <1>2, <1>5, <1>6
  <1>8. /\ Part(w, 0, 8) = FromInt(255, 8)[1] /\ Part(w, 8, 16) = FromInt(1, 8)[1]
        /\ Part(w, 16, 24) = FromInt(flags, 8)[1] /\ Part(w, 24, 32) = FromInt(k - 4, 8)[1]
    BY <1>2, <1>7
  <1>9. \A i, j \in Nat : i <= j /\ j <= Len(bits) => Part(w, 32 + i, 32 + j) = Part(bits, i, j)
    <2> SUFFICES ASSUME NEW i \in Nat, NEW j \in Nat, i <= j, j <= Len(bits)
                 PROVE  Part(w, 32 + i, 32 + j) = Part(bits, i, j)
      OBVIOUS
    <2>1. Part(x, 32 + i, 32 + j) = Part(bits, i, j)
      BY <1>2, <1>5
    <2>2. 32 + i \in Nat /\ 32 + j \in Nat /\ 32 + i <= 32 + j /\ 32 + j <= Len(x)
      BY <1>5
    <2> QED
      BY <1>6, <2>1, <2>2
  <1> DEFINE end == 32 + Len(bits)
  <1>10. IF flags = 1 THEN Len(w) = end + 8 /\ ToInt(Part(w, end, end + 8)) = 170 ELSE Len(w) = end
    <2>1. Len(x) = end
      BY <1>5
    <2> HIDE DEF end
    <2>2. ASSUME flags = 1
          PROVE  Len(w) = end + 8 /\ ToInt(Part(w, end, end + 8)) = 170
      BY <1>3, <1>6, <2>1, <2>2
    <2>3. ASSUME flags # 1
          PROVE  Len(w) = end
      <3>1. Len(tail) = 0
        BY <1>3, <2>3
      <3>2. end \in Nat
        BY DEF end
      <3> QED
        BY <1>6, <2>1, <3>1, <3>2
    <2> QED
      BY <2>2, <2>3, Zenon
  <1> HIDE DEF end
  <1>11. IsWrapped(w, bits, flags)
    BY <1>1, <1>6, <1>8, <1>9, <1>10, Zenon DEF IsWrapped, end
  <1> QED
    BY <1>4, <1>11, Zenon

\* The functions of the dynamic fields of a frame.
LEMMA GaiaFields ==
  ASSUME NEW self, NEW n
  PROVE  /\ Discriminate("gaia_data", self, n) = <<BfBytes(self[4] + 4)>>
         /\ Discriminate("gaia_checksum", self, n) = <<IF self[3] % 2 = 1 THEN BfInt(8) ELSE BfNone>>
  BY Zenon DEF Discriminate, GaiaData

\* A frame is no message: it begins with a bit that no group of commands has.
LEMMA FramesAreNotMessages ==
  ASSUME Recursion, NEW w \in Seq(Bit), 16 <= Len(w), Part(w, 0, 8) = FromInt(255, 8)[1]
  PROVE  FromBits(Message, w) = Raises
  <1> SUFFICES ASSUME FromBits(Message, w) # Raises
               PROVE  FALSE
    OBVIOUS
  <1> DEFINE b == Part(w, 0, 16)
             x == ToInt(b)
  <1>1. x = BASIC \/ x = EXTENDED
    <2>1. PICK v : MessageFields(w, v)
      BY MessageIsRead, Zenon
    <2> QED
      BY <2>1, Zenon DEF MessageFields
  <1>2. b \in Seq(Bit) /\ Len(b) = 16 /\ Len(b) # 0
    <2>1. 0 \in Nat /\ 16 \in Nat /\ 0 <= 16
      OBVIOUS
    <2>2. b \in Seq(Bit) /\ Len(b) = 16 - 0
      BY <2>1, PartIsOfBits, Zenon
    <2> HIDE DEF b
    <2> QED
      BY <2>2
  <1>3. b[1] = Part(w, 0, 8)[1]
    BY DEF Part
  <1> HIDE DEF b
  <1>4. FromInt(x, 16)[1] = b
    <2>1. FromInt(x, Len(b)) = <<b>>
      BY <1>2, BitsComeBack, Zenon
    <2> HIDE DEF x
    <2> QED
      BY <1>2, <2>1
  <1> HIDE DEF x
  <1>5. FromInt(x, 16)[1][1] = 0
    <2>1. (x = 2 \/ x = 10) /\ x < 65536
      BY <1>1 DEF BASIC, EXTENDED
    <2>2. ~(x >= 2^16)
      BY <2>1, KnownPowers
    <2>3. FromInt(x, 16)[1] = [i \in 1..16 |-> (x \div 2^(16 - i)) % 2]
      BY <2>2 DEF FromInt
    <2>4. FromInt(x, 16)[1][1] = (x \div 2^15) % 2
      BY <2>3
    <2>5. (x \div 32768) % 2 = 0
      BY <2>1
    <2> QED
      BY <2>4, <2>5, KnownPowers
  <1>6. FromInt(255, 8)[1][1] = 1
    <2>1. ~(255 >= 2^8)
      BY KnownPowers
    <2>2. FromInt(255, 8)[1] = [i \in 1..8 |-> (255 \div 2^(8 - i)) % 2]
      BY <2>1 DEF FromInt
    <2>3. FromInt(255, 8)[1][1] = (255 \div 2^7) % 2
      BY <2>2
    <2>4. 2^7 = 128 /\ (255 \div 128) % 2 = 1
      OBVIOUS
    <2> QED
      BY <2>3, <2>4
  <1> QED
    BY <1>3, <1>4, <1>5, <1>6

\* The bytes of a message where it stands in a frame.
LEMMA PayloadBytes ==
  ASSUME NEW bits \in Seq(Bit), NEW k \in Nat, Len(bits) = 8 * k, NEW flags, NEW w,
         IsWrapped(w, bits, flags)
  PROVE  BytesFrom(w, 32, k) = BytesFrom(bits, 0, k)
  <1>1. \A i, j \in Nat : i <= j /\ j <= Len(bits) => Part(w, 32 + i, 32 + j) = Part(bits, i, j)
    BY Zenon DEF IsWrapped
  <1>2. ASSUME NEW n \in 1..k
        PROVE  Part(w, 32 + 8 * (n - 1), 32 + 8 * n) = Part(bits, 0 + 8 * (n - 1), 0 + 8 * n)
    <2>1. 8 * (n - 1) \in Nat /\ 8 * n \in Nat /\ 8 * (n - 1) <= 8 * n /\ 8 * n <= Len(bits)
      OBVIOUS
    <2>2. Part(w, 32 + 8 * (n - 1), 32 + 8 * n) = Part(bits, 8 * (n - 1), 8 * n)
      BY <1>1, <2>1, Zenon
    <2>3. 0 + 8 * (n - 1) = 8 * (n - 1) /\ 0 + 8 * n = 8 * n
      OBVIOUS
    <2> QED
      BY <2>2, <2>3
  <1> QED
    BY <1>2, Zenon DEF BytesFrom

\* GaiaFrame.from_bytes finds what was wrapped: with a length of one byte, a
\* message of up to 259 bytes.
LEMMA FrameIsRead ==
  ASSUME Recursion, NEW bits \in Seq(Bit), NEW k \in 4..259, Len(bits) = 8 * k, NEW flags \in {0, 1},
         NEW w, IsWrapped(w, bits, flags)
  PROVE  \E v : /\ FromBits(GaiaFrame, w) = <<Object(GaiaFrame, v)>>
                /\ v[5] = Bytes(BytesFrom(bits, 0, k))
  <1> DEFINE first == BfLit(BfBytes(1), Bytes(<<255>>))
             second == BfLit(BfBytes(1), Bytes(<<1>>))
             third == BfIntEnum(0..255, 8)
             fourth == BfInt(8)
             fifth == BfDyn("gaia_data")
             sixth == BfDyn("gaia_checksum")
             data == Bytes(BytesFrom(bits, 0, k))
             last == IF flags = 1 THEN 170 ELSE None
             v == <<Bytes(<<255>>), Bytes(<<1>>), flags, k - 4, data, last>>
             end == 32 + 8 * k
             N == Len(w)
             t == [i \in 0..6 |-> At(w, IF i < 5 THEN 8 * i ELSE IF i = 5 THEN end ELSE N)]
  <1>1. Len(bits) \div 8 = k /\ 32 + Len(bits) = end /\ end \in Nat /\ 32 <= end
    OBVIOUS
  <1>2. /\ w \in Seq(Bit) /\ Part(w, 0, 8) = FromInt(255, 8)[1] /\ Part(w, 8, 16) = FromInt(1, 8)[1]
        /\ Part(w, 16, 24) = FromInt(flags, 8)[1] /\ Part(w, 24, 32) = FromInt(k - 4, 8)[1]
        /\ IF flags = 1 THEN N = end + 8 /\ ToInt(Part(w, end, end + 8)) = 170 ELSE N = end
    BY <1>1, Zenon DEF IsWrapped
  <1>0. w \in Seq(Bit)
    BY <1>2, Zenon
  <1>3. N \in Nat /\ end <= N
    <2>1. N \in Nat
      BY <1>2
    <2> HIDE DEF N, end
    <2> QED
      BY <1>1, <1>2, <2>1
  <1>4. /\ ToInt(Part(w, 0, 0 + 8)) = 255 /\ ToInt(Part(w, 8, 8 + 8)) = 1
        /\ ToInt(Part(w, 16, 16 + 8)) = flags /\ ToInt(Part(w, 24, 24 + 8)) = k - 4
    <2>1. 255 \in Byte /\ 1 \in Byte /\ flags \in Byte /\ k - 4 \in Byte
      BY KnownPowers DEF Byte
    <2>2. /\ ToInt(FromInt(255, 8)[1]) = 255 /\ ToInt(FromInt(1, 8)[1]) = 1
          /\ ToInt(FromInt(flags, 8)[1]) = flags /\ ToInt(FromInt(k - 4, 8)[1]) = k - 4
      BY <2>1, ByteBits
    <2>3. 0 + 8 = 8 /\ 8 + 8 = 16 /\ 16 + 8 = 24 /\ 24 + 8 = 32
      OBVIOUS
    <2> QED
      BY <1>2, <2>2, <2>3
  <1>5. /\ Len(GaiaFrame) = 6
        /\ GaiaFrame[1] = first /\ GaiaFrame[2] = second /\ GaiaFrame[3] = third
        /\ GaiaFrame[4] = fourth /\ GaiaFrame[5] = fifth /\ GaiaFrame[6] = sixth
    <2>1. GaiaFrame = <<first, second, third, fourth, fifth, sixth>>
      BY Zenon DEF GaiaFrame
    <2> HIDE DEF first, second, third, fourth, fifth, sixth
    <2> QED
      BY <2>1
  <1>6. /\ v = [i \in 1..6 |-> v[i]]
        /\ v[1] = Bytes(<<255>>) /\ v[2] = Bytes(<<1>>) /\ v[3] = flags /\ v[4] = k - 4
        /\ v[5] = data /\ v[6] = last
    <2> HIDE DEF data, last
    <2> QED
      OBVIOUS
  <1>7. /\ t[0] = At(w, 0) /\ t[1] = At(w, 8) /\ t[2] = At(w, 16) /\ t[3] = At(w, 24) /\ t[4] = At(w, 32)
        /\ t[5] = At(w, end) /\ t[6] = At(w, N)
    <2> HIDE DEF end, N
    <2> QED
      OBVIOUS
  <1> DEFINE see(i) == Seen(v, i, <<>>, TRUE)
  <1>8. see(5)[4] = k - 4 /\ see(6)[3] = flags
    <2> HIDE DEF v
    <2> QED
      BY <1>6 DEF Seen
  <1> HIDE DEF v, t, see, N, data, last, end
  <1>9. \A seen : Read(first, At(w, 0), seen) = <<Bytes(<<255>>), At(w, 8)>>
    <2>1. 0 \in Nat /\ 0 + 8 <= Len(w) /\ 0 + 8 = 8
      BY <1>1, <1>3 DEF N
    <2>2. \A seen : Read(first, At(w, 0), seen) = <<Bytes(<<255>>), At(w, 0 + 8)>>
      BY <1>2, <1>4, <2>1, LitAt
    <2> QED
      BY <2>1, <2>2, Zenon
  <1>10. \A seen : Read(second, At(w, 8), seen) = <<Bytes(<<1>>), At(w, 16)>>
    <2>1. 8 \in Nat /\ 8 + 8 <= Len(w) /\ 8 + 8 = 16
      BY <1>1, <1>3 DEF N
    <2>2. \A seen : Read(second, At(w, 8), seen) = <<Bytes(<<1>>), At(w, 8 + 8)>>
      BY <1>2, <1>4, <2>1, LitAt
    <2> QED
      BY <2>1, <2>2, Zenon
  <1>11. \A seen : Read(third, At(w, 16), seen) = <<flags, At(w, 24)>>
    <2>1. 16 \in Nat /\ 8 \in Nat /\ 16 + 8 <= Len(w) /\ 16 + 8 = 24 /\ flags \in 0..255
      BY <1>1, <1>3 DEF N
    <2>2. ToInt(Part(w, 16, 16 + 8)) \in 0..255
      BY <1>4, <2>1, Zenon
    <2>3. \A seen : Read(third, At(w, 16), seen) = <<ToInt(Part(w, 16, 16 + 8)), At(w, 16 + 8)>>
      BY <1>0, <2>1, <2>2, EnumAt
    <2> QED
      BY <1>4, <2>1, <2>3, Zenon
  <1>12. \A seen : Read(fourth, At(w, 24), seen) = <<k - 4, At(w, 32)>>
    <2>1. 24 \in Nat /\ 8 \in Nat /\ 24 + 8 <= Len(w) /\ 24 + 8 = 32
      BY <1>1, <1>3 DEF N
    <2>2. \A seen : Read(fourth, At(w, 24), seen) = <<ToInt(Part(w, 24, 24 + 8)), At(w, 24 + 8)>>
      BY <1>0, <2>1, IntAt, Zenon
    <2> QED
      BY <1>4, <2>1, <2>2, Zenon
  <1>13. \A seen : seen[4] = k - 4 => Read(fifth, At(w, 32), seen) = <<data, At(w, end)>>
    <2> SUFFICES ASSUME NEW seen, seen[4] = k - 4
                 PROVE  Read(fifth, At(w, 32), seen) = <<data, At(w, end)>>
      OBVIOUS
    <2> DEFINE s == At(w, 32)
               type == BfBytes(k)
    <2>1. Discriminate("gaia_data", seen, Remaining(s)) = <<type>>
      <3>1. Discriminate("gaia_data", seen, Remaining(s)) = <<BfBytes(seen[4] + 4)>>
        BY GaiaFields, Zenon
      <3>2. seen[4] + 4 = k
        OBVIOUS
      <3> QED
        BY <3>1, <3>2
    <2>2. Read(fifth, s, seen) = Read(type, s, seen)
      <3> HIDE DEF type, s
      <3> QED
        BY <2>1, DynAt
    <2>3. Read(type, s, seen) = <<Bytes(BytesFrom(w, 32, k)), At(w, 32 + 8 * k)>>
      <3>1. 32 \in Nat /\ k \in Nat /\ 32 + 8 * k <= Len(w)
        BY <1>3 DEF N, end
      <3> QED
        BY <1>0, <3>1, BytesAt, ZenonT(60)
    <2>4. BytesFrom(w, 32, k) = BytesFrom(bits, 0, k)
      <3>1. k \in Nat
        OBVIOUS
      <3> QED
        BY <3>1, PayloadBytes, Zenon
    <2> QED
      BY <2>2, <2>3, <2>4, Zenon DEF data, end
  <1>14. \A seen : seen[3] = flags => Read(sixth, At(w, end), seen) = <<last, At(w, N)>>
    <2> SUFFICES ASSUME NEW seen, seen[3] = flags
                 PROVE  Read(sixth, At(w, end), seen) = <<last, At(w, N)>>
      OBVIOUS
    <2> DEFINE s == At(w, end)
    <2>1. Discriminate("gaia_checksum", seen, Remaining(s)) = <<IF seen[3] % 2 = 1 THEN BfInt(8) ELSE BfNone>>
      BY GaiaFields, Zenon
    <2>2. CASE flags = 1
      <3> DEFINE type == BfInt(8)
      <3>1. seen[3] % 2 = 1
        BY <2>2
      <3>2. Discriminate("gaia_checksum", seen, Remaining(s)) = <<type>>
        BY <2>1, <3>1, Zenon
      <3>3. Read(sixth, s, seen) = Read(type, s, seen)
        <4> HIDE DEF type, s
        <4> QED
          BY <3>2, DynAt
      <3>4. N = end + 8 /\ ToInt(Part(w, end, end + 8)) = 170 /\ last = 170
        BY <1>2, <2>2, Zenon DEF last
      <3>5. Read(type, s, seen) = <<ToInt(Part(w, end, end + 8)), At(w, end + 8)>>
        <4>1. end \in Nat /\ 8 \in Nat /\ end + 8 <= Len(w)
          BY <1>1, <1>3, <3>4 DEF N
        <4> QED
          BY <1>0, <4>1, IntAt, Zenon
      <3> QED
        BY <3>3, <3>4, <3>5, Zenon
    <2>3. CASE flags = 0
      <3> DEFINE type == BfNone
      <3>1. ~(seen[3] % 2 = 1)
        BY <2>3
      <3>2. Discriminate("gaia_checksum", seen, Remaining(s)) = <<type>>
        BY <2>1, <3>1, Zenon
      <3>3. Read(sixth, s, seen) = Read(type, s, seen)
        <4> HIDE DEF type, s
        <4> QED
          BY <3>2, DynAt
      <3>4. N = end /\ last = None
        <4>1. flags # 1
          BY <2>3
        <4> QED
          BY <1>2, <4>1, Zenon DEF last
      <3>5. Read(type, s, seen) = <<None, s>>
        BY NoneAt, Zenon
      <3> QED
        BY <3>3, <3>4, <3>5, Zenon
    <2> QED
      BY <2>2, <2>3
  <1> HIDE DEF first, second, third, fourth, fifth, sixth
  <1>15. Readable(GaiaFrame, v, t, <<>>, TRUE)
    <2>1. ASSUME NEW i \in 1..6
          PROVE  Read(GaiaFrame[i], t[i - 1], see(i)) = <<v[i], t[i]>>
      <3>1. \/ i = 1 /\ i - 1 = 0
            \/ i = 2 /\ i - 1 = 1
            \/ i = 3 /\ i - 1 = 2
            \/ i = 4 /\ i - 1 = 3
            \/ i = 5 /\ i - 1 = 4
            \/ i = 6 /\ i - 1 = 5
        OBVIOUS
      <3> QED
        BY <1>5, <1>6, <1>7, <1>8, <1>9, <1>10, <1>11, <1>12, <1>13, <1>14, <3>1
    <2> QED
      BY <1>5, <1>6, <2>1 DEF Readable, see
  <1>16. FromBits(GaiaFrame, w) = <<Object(GaiaFrame, v)>>
    <2>1. Len(GaiaFrame) \in Nat /\ t[0] = At(w, 0) /\ t[Len(GaiaFrame)] = At(w, Len(w))
      BY <1>5, <1>7 DEF N
    <2> QED
      BY <1>2, <1>15, <2>1, ObjectAt
  <1> QED
    BY <1>6, <1>16, Zenon DEF data

\* Radio._on_frame: of every message, with a checksum or not, the frame around it
\* is read as the message alone is.  A frame has whole bytes, and its length is a
\* byte that does not count the first four of the message.
THEOREM EveryWrappedFrameIsUnderstood ==
  ASSUME Recursion, frame \in Seq(Bit), NEW k \in Nat, Len(frame) = 8 * k, k <= 259
  PROVE  WrappedFramesAreUnderstood
  <1> DEFINE m == ParseMessage(frame)
  <1> SUFFICES ASSUME m # Raises, NEW flags \in {0, 1}
               PROVE  Understand(Wrapped(frame, flags)) = m
    BY Zenon DEF WrappedFramesAreUnderstood
  <1> DEFINE w == Wrapped(frame, flags)
             bytes == BytesFrom(frame, 0, k)
             gaia == ParseGaia(w)
  <1>1. k \in 4..259
    <2>1. PICK v : MessageFields(frame, v)
      BY MessageIsRead, Zenon DEF ParseMessage
    <2>2. 32 <= Len(frame)
      BY <2>1, Zenon DEF MessageFields
    <2> QED
      BY <2>2
  <1>2. IsWrapped(w, frame, flags)
    BY <1>1, WrappedIs, Zenon
  <1> HIDE DEF w, m
  <1>3. ParseMessage(w) = Raises
    <2>1. w \in Seq(Bit) /\ Part(w, 0, 8) = FromInt(255, 8)[1]
      BY <1>2, Zenon DEF IsWrapped
    <2>2. 16 <= Len(w)
      <3>1. Len(w) = 32 + Len(frame) + 8 \/ Len(w) = 32 + Len(frame)
        BY <1>2, Zenon DEF IsWrapped
      <3> QED
        BY <1>1, <3>1
    <2> QED
      BY <2>1, <2>2, FramesAreNotMessages, Zenon DEF ParseMessage
  <1>4. PICK v : gaia = <<Object(GaiaFrame, v)>> /\ v[5] = Bytes(bytes)
    BY <1>1, <1>2, FrameIsRead, Zenon DEF ParseGaia
  <1> HIDE DEF bytes, gaia
  <1>5. gaia # Raises /\ gaia[1].v[5].v = bytes
    BY <1>4 DEF Raises, Object, Bytes
  <1>6. BitsOf(bytes) = frame
    BY WholeBytes, Zenon DEF bytes
  <1>7. Understand(w) = ParseMessage(BitsOf(gaia[1].v[5].v))
    BY <1>3, <1>5, Zenon DEF Understand, gaia
  <1> QED
    BY <1>5, <1>6, <1>7 DEF m, w
=============================================================================
