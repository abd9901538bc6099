---------------------------- MODULE CommonLemmas ----------------------------
(***************************************************************************)
(* Facts that the proofs share.  First about %, for ring buffers: the code *)
(* keeps counters that wrap (uints, 16-bit ring indices, indices modulo    *)
(* the ring's size), and the proofs count in Nat and reduce.  Then about   *)
(* counting, for reference and link counts.                                *)
(***************************************************************************)
EXTENDS Integers, Sequences, SequenceTheorems, FiniteSetTheorems,
        WellFoundedInduction, TLAPS

\* Quotient and remainder.
LEMMA ModQuot ==
    ASSUME NEW U \in Nat \ {0}, NEW a \in Int
    PROVE  \E q \in Int, r \in 0 .. U - 1 : a = q * U + r /\ a % U = r
<1>. DEFINE q == a \div U
            r == a % U
<1>1. q \in Int /\ r \in 0 .. U - 1
  OBVIOUS
<1>2. r = a - q * U
  BY Z3T(30)
<1>3. q * U \in Int
  BY <1>1
<1>. HIDE DEF q, r
<1>4. a = q * U + r
  BY <1>1, <1>2, <1>3
<1>. QED
  BY <1>1, <1>4 DEF r

\* There is only one remainder.
LEMMA ModUnique ==
    ASSUME NEW U \in Nat \ {0}, NEW q \in Int, NEW r \in 0 .. U - 1
    PROVE  (q * U + r) % U = r
  OBVIOUS

\* A counter modulo U is within its range.
LEMMA ModType ==
    ASSUME NEW U \in Nat \ {0}, NEW a \in Int
    PROVE  a % U \in 0 .. U - 1
  OBVIOUS

\* A counter that has not reached U is itself.
LEMMA ModSmall ==
    ASSUME NEW U \in Nat \ {0}, NEW a \in 0 .. U - 1
    PROVE  a % U = a
  OBVIOUS

\* The one nonlinear fact that the others need.
LEMMA Distribute ==
    ASSUME NEW U \in Int, NEW q \in Int, NEW k \in Int
    PROVE  (q + k) * U = q * U + k * U
  OBVIOUS

\* Whole turns of the ring make no difference.
LEMMA ModShift ==
    ASSUME NEW U \in Nat \ {0}, NEW a \in Int, NEW k \in Int
    PROVE  (a + k * U) % U = a % U
<1>1. PICK q \in Int, r \in 0 .. U - 1 : a = q * U + r /\ a % U = r
  BY ModQuot
<1>2. q + k \in Int /\ q * U \in Int /\ k * U \in Int
  OBVIOUS
<1>3. a + k * U = (q + k) * U + r
  BY <1>1, <1>2, Distribute, Z3
<1>4. ((q + k) * U + r) % U = r
  BY <1>2, ModUnique
<1>. QED
  BY <1>1, <1>3, <1>4

\* Adding to a counter that has wrapped.
LEMMA ModAdd ==
    ASSUME NEW U \in Nat \ {0}, NEW a \in Int, NEW j \in Int
    PROVE  ((a % U) + j) % U = (a + j) % U
<1>1. PICK q \in Int, r \in 0 .. U - 1 : a = q * U + r /\ a % U = r
  BY ModQuot
<1>2. a + j = (r + j) + q * U
  BY <1>1, Z3
<1>. DEFINE c == r + j
<1>3. c \in Int
  OBVIOUS
<1>4. (c + q * U) % U = c % U
  <2>. HIDE DEF c
  <2>. QED  BY <1>3, ModShift
<1>. QED
  BY <1>1, <1>2, <1>4

\* The difference of two counters that have wrapped.
LEMMA ModSub ==
    ASSUME NEW U \in Nat \ {0}, NEW a \in Int, NEW b \in Int
    PROVE  ((b % U) - (a % U)) % U = (b - a) % U
<1>1. PICK q \in Int, r \in 0 .. U - 1 : a = q * U + r /\ a % U = r
  BY ModQuot
<1>. DEFINE m == - r
            k == - q
            c == b - r
<1>2. m \in Int /\ k \in Int /\ c \in Int
  OBVIOUS
<1>3. ((b % U) + m) % U = (b + m) % U
  <2>. HIDE DEF m
  <2>. QED  BY <1>2, ModAdd
<1>4. b - a = c + k * U
  BY <1>1, Z3
<1>5. (c + k * U) % U = c % U
  <2>. HIDE DEF c, k
  <2>. QED  BY <1>2, ModShift
<1>6. (b % U) + m = (b % U) - (a % U) /\ b + m = c
  BY <1>1
<1>. QED
  BY <1>3, <1>4, <1>5, <1>6

\* An index into a ring of P entries from a counter that wraps at a multiple
\* of P.
LEMMA ModMod ==
    ASSUME NEW U \in Nat \ {0}, NEW P \in Nat \ {0}, U % P = 0,
           NEW a \in Int, NEW j \in Int
    PROVE  ((a % U) + j) % P = (a + j) % P
<1>1. PICK q \in Int, r \in 0 .. U - 1 : a = q * U + r /\ a % U = r
  BY ModQuot
<1>2. PICK m \in Int, z \in 0 .. P - 1 : U = m * P + z /\ U % P = z
  BY ModQuot
<1>3. U = m * P
  BY <1>2
<1>4. q * m \in Int /\ q * (m * P) = (q * m) * P
  BY Z3
<1>5. a + j = (r + j) + (q * m) * P
  BY <1>1, <1>3, <1>4, Z3
<1>. DEFINE c == r + j
            k == q * m
<1>6. c \in Int
  OBVIOUS
<1>7. (c + k * P) % P = c % P
  <2>. HIDE DEF c, k
  <2>. QED  BY <1>4, <1>6, ModShift DEF k
<1>. QED
  BY <1>1, <1>5, <1>7

\* The same without an offset.
LEMMA ModModPlace ==
    ASSUME NEW U \in Nat \ {0}, NEW P \in Nat \ {0}, U % P = 0, NEW a \in Int
    PROVE  (a % U) % P = a % P
<1>1. ((a % U) + 0) % P = (a + 0) % P
  BY ModMod, 0 \in Int
<1>. DEFINE r == a % U
<1>2. r \in Int
  BY ModType
<1>3. r + 0 = r
  <2>. HIDE DEF r
  <2>. QED  BY <1>2
<1>4. a + 0 = a
  OBVIOUS
<1>. QED
  BY <1>1, <1>3, <1>4, Zenon

\* Two counts less than a turn apart have different places.
LEMMA ModInj ==
    ASSUME NEW U \in Nat \ {0}, NEW a \in Int, NEW b \in Int,
           a % U = b % U, a - U < b, b < a + U
    PROVE  a = b
<1>1. PICK q \in Int, r \in 0 .. U - 1 : a = q * U + r /\ a % U = r
  BY ModQuot
<1>2. PICK p \in Int, s \in 0 .. U - 1 : b = p * U + s /\ b % U = s
  BY ModQuot
<1>3. r = s
  BY <1>1, <1>2
<1>4. q * U < p * U + U /\ p * U < q * U + U
  BY <1>1, <1>2, <1>3
<1>5. q < p + 1 /\ p < q + 1
  BY <1>4, Z3
<1>. QED
  BY <1>1, <1>2, <1>3, <1>5

\* Every place of the ring has its number in a whole turn.
LEMMA RingCover ==
    ASSUME NEW U \in Nat \ {0}, NEW a \in Int, NEW i \in 0 .. U - 1
    PROVE  \E k \in a .. a + U - 1 : k % U = i
<1>. DEFINE j == i - a
            m == j % U
            k == m + a
<1>1. j \in Int /\ m \in 0 .. U - 1
  BY ModType
<1>2. (m + a) % U = (j + a) % U
  <2>. HIDE DEF j
  <2>. QED  BY <1>1, ModAdd
<1>3. j + a = i
  OBVIOUS
<1>4. i % U = i
  BY ModSmall
<1>5. k \in a .. a + U - 1
  <2>. HIDE DEF m
  <2>. QED  BY <1>1
<1>6. k % U = i
  BY <1>2, <1>3, <1>4
<1>. HIDE DEF k
<1>. QED
  BY <1>5, <1>6

\* Sequences whose elements are numbered: the first T of them, and then the rest.
LEMMA NumberedConcat ==
    ASSUME NEW a \in Seq(Nat), NEW f \in Seq(Nat), NEW s \in Seq(Nat),
           NEW T \in Nat, NEW S \in Nat,
           Len(a) = T, Len(s) = S, Len(f) = S - T, T <= S,
           \A k \in 1 .. T : a[k] = k,
           \A k \in 1 .. S - T : f[k] = T + k,
           \A k \in 1 .. S : s[k] = k
    PROVE  a \o f = s
<1>2. a \o f \in Seq(Nat) /\ Len(a \o f) = T + (S - T)
  BY ConcatProperties
<1>3. Len(a \o f) = S
  BY <1>2
<1>4. ASSUME NEW k \in 1 .. S PROVE (a \o f)[k] = s[k]
  <2>1. CASE k <= T
    <3>1. (a \o f)[k] = a[k]
      BY <1>3, <2>1, ConcatProperties
    <3>. QED
      BY <2>1, <3>1
  <2>2. CASE k > T
    <3>1. (a \o f)[k] = f[k - T]
      BY <1>3, <2>2, ConcatProperties
    <3>2. k - T \in 1 .. S - T /\ T + (k - T) = k
      BY <2>2
    <3>. QED
      BY <3>1, <3>2
  <2>3. k <= T \/ k > T
    OBVIOUS
  <2>. QED
    BY <2>1, <2>2, <2>3
<1>. QED
  BY <1>2, <1>3, <1>4, SeqEqual

-----------------------------------------------------------------------------
\* A set of natural numbers that is not empty has a least one.
LEMMA Least ==
    ASSUME NEW S \in SUBSET Nat, S # {}
    PROVE  \E i \in S : \A j \in S : i <= j
<1>. DEFINE R == OpToRel(<, Nat)
<1>1. IsWellFoundedOn(R, Nat)
  BY NatLessThanWellFounded
<1>2. \A x, y \in Nat : x < y => <<x, y>> \in R
  BY DEF OpToRel
<1>. HIDE DEF R
<1>3. PICK i \in S : \A j \in S : ~(<<j, i>> \in R)
  BY <1>1, WFMin
<1>4. \A j \in S : ~(j < i)
  BY <1>2, <1>3, Zenon
<1>5. \A j \in S : i <= j
  BY <1>4
<1>. QED
  BY <1>5

\* One that has an upper bound has a greatest one.
LEMMA Greatest ==
    ASSUME NEW n \in Nat, NEW S \in SUBSET (0 .. n), S # {}
    PROVE  \E i \in S : \A j \in S : i >= j
<1>. DEFINE T == {n - i : i \in S}
<1>1. T \in SUBSET Nat /\ T # {}
  <2>1. \A i \in S : i \in Int /\ 0 <= i /\ i <= n
    OBVIOUS
  <2>2. \A i \in S : n - i \in Nat
    BY <2>1
  <2>. QED
    BY <2>2
<1>2. PICK t \in T : \A u \in T : t <= u
  BY <1>1, Least
<1>3. PICK i \in S : t = n - i
  BY <1>2
<1>4. ASSUME NEW j \in S PROVE i >= j
  <2>1. n - j \in T /\ j \in Int /\ i \in Int
    OBVIOUS
  <2>2. n - i <= n - j
    BY <1>2, <1>3, <2>1
  <2>. QED
    BY <2>1, <2>2
<1>. QED
  BY <1>4

-----------------------------------------------------------------------------
(***************************************************************************)
(* A ring of P entries between two counters that wrap at U, a multiple of  *)
(* P: n entries from a on, up to b.                                        *)
(***************************************************************************)
\* The next entry goes into slot a + n, which is none of the n in use.
RingPushed(U, P, a, b, n) ==
    /\ (((b + 1) % U) - a) % U = n + 1
    /\ b % P = (a + n) % P
    /\ \A k \in 0 .. n - 1 : (a + k) % P # b % P

\* When the first entry is taken the others stay where they are.
Popped(U, P, a, b, n) ==
    /\ n > 0
    /\ (b - ((a + 1) % U)) % U = n - 1
    /\ \A k \in Nat : (((a + 1) % U) + k) % P = (a + (k + 1)) % P
    /\ \A k \in 1 .. n - 1 : (a + k) % P # a % P

\* An entry put into a ring that is not full.
LEMMA RingPush ==
    ASSUME NEW U \in Nat \ {0}, NEW P \in Nat \ {0}, U % P = 0,
           NEW a \in 0 .. U - 1, NEW b \in 0 .. U - 1, NEW n \in Nat,
           n = (b - a) % U, n + 1 < U, n < P
    PROVE  RingPushed(U, P, a, b, n)
<1>. DEFINE c == b - a
            d == b + 1
            m == - a
<1>0. a \in Int /\ b \in Int /\ c \in Int /\ d \in Int /\ m \in Int
  OBVIOUS
<1>1. ((d % U) + m) % U = (d + m) % U
  <2>. HIDE DEF d, m
  <2>. QED  BY <1>0, ModAdd
<1>2. ((c % U) + 1) % U = (c + 1) % U
  <2>1. \A x, j \in Int : ((x % U) + j) % U = (x + j) % U
    BY ModAdd
  <2>. HIDE DEF c
  <2>. QED  BY <1>0, <2>1, 1 \in Int, Zenon
<1>3. (n + 1) % U = n + 1
  BY ModSmall
<1>4. d + m = c + 1 /\ (d % U) + m = (d % U) - a
  <2>1. d % U \in Int
    <3>. HIDE DEF d
    <3>. QED  BY <1>0, ModType
  <2>2. \A z \in Int : z + m = z - a
    OBVIOUS
  <2>3. d + m = c + 1
    OBVIOUS
  <2>. HIDE DEF d, m
  <2>. QED  BY <2>1, <2>2, <2>3
<1>5. ((c % U) + a) % U = (c + a) % U
  <2>. HIDE DEF c
  <2>. QED  BY <1>0, ModAdd
<1>6. c + a = b /\ n + a = a + n /\ b % U = b
  BY ModSmall
<1>7. (n + a) % U = b
  BY <1>5, <1>6
<1>. DEFINE e == a + n
<1>8. (e % U) % P = e % P
  <2>1. e \in Int
    OBVIOUS
  <2>. HIDE DEF e
  <2>. QED  BY <2>1, ModModPlace
<1>9. b % P = e % P
  BY <1>6, <1>7, <1>8
<1>10. ASSUME NEW k \in 0 .. n - 1, (a + k) % P = b % P PROVE FALSE
  <2>. DEFINE f == a + k
  <2>1. e \in Int /\ f \in Int /\ f - P < e /\ e < f + P /\ f < e
    OBVIOUS
  <2>2. f % P = e % P
    BY <1>9, <1>10
  <2>. HIDE DEF e, f
  <2>3. f = e
    BY <2>1, <2>2, ModInj
  <2>. QED
    BY <2>1, <2>3
<1>. QED
  BY <1>1, <1>2, <1>3, <1>4, <1>9, <1>10 DEF RingPushed

\* An entry taken out of a ring that is not empty.
LEMMA RingPop ==
    ASSUME NEW U \in Nat \ {0}, NEW P \in Nat \ {0}, U % P = 0,
           NEW a \in 0 .. U - 1, NEW b \in 0 .. U - 1, NEW n \in Nat,
           n = (b - a) % U, a # b, n <= P
    PROVE  Popped(U, P, a, b, n)
<1>. DEFINE c == b - a
            d == a + 1
            m == -1
<1>0. a \in Int /\ b \in Int /\ c \in Int /\ d \in Int /\ m \in Int /\ n < U
  BY ModType
<1>1. ASSUME n = 0 PROVE FALSE
  <2>1. 0 % U = 0 /\ 0 - U < c /\ c < 0 + U /\ c # 0 /\ c % U = 0
    BY <1>1, ModSmall
  <2>. HIDE DEF c
  <2>2. c = 0
    BY <1>0, <2>1, ModInj, 0 \in Int
  <2>. QED
    BY <2>1, <2>2
<1>2. ((b % U) - (d % U)) % U = (b - d) % U
  <2>. HIDE DEF d
  <2>. QED  BY <1>0, ModSub
<1>3. ((c % U) + m) % U = (c + m) % U
  <2>. HIDE DEF c, m
  <2>. QED  BY <1>0, ModAdd
<1>4. n - 1 \in 0 .. U - 1
  BY <1>0, <1>1
<1>5. (n - 1) % U = n - 1 /\ b % U = b
  BY <1>4, ModSmall
<1>6. b - d = c + m /\ n + m = n - 1
  OBVIOUS
<1>7. ASSUME NEW k \in Nat PROVE ((d % U) + k) % P = (a + (k + 1)) % P
  <2>1. ((d % U) + k) % P = (d + k) % P
    <3>1. \A x, j \in Int : ((x % U) + j) % P = (x + j) % P
      BY ModMod
    <3>. HIDE DEF d
    <3>. QED  BY <1>0, <3>1, k \in Int, Zenon
  <2>2. d + k = a + (k + 1)
    OBVIOUS
  <2>. QED
    BY <2>1, <2>2
<1>8. ASSUME NEW k \in 1 .. n - 1, (a + k) % P = a % P PROVE FALSE
  <2>. DEFINE f == a + k
  <2>1. f \in Int /\ f - P < a /\ a < f + P /\ a < f
    OBVIOUS
  <2>2. f % P = a % P
    BY <1>8
  <2>. HIDE DEF f
  <2>3. f = a
    BY <1>0, <2>1, <2>2, ModInj
  <2>. QED
    BY <1>0, <2>1, <2>3
<1>. QED
  BY <1>1, <1>2, <1>3, <1>5, <1>6, <1>7, <1>8 DEF Popped

-----------------------------------------------------------------------------
(***************************************************************************)
(* Counting.                                                               *)
(***************************************************************************)
\* How often a function has a value, and what one argument contributes.
Is(x, i) == IF x = i THEN 1 ELSE 0
NumOf(f, i) == Cardinality({x \in DOMAIN f : f[x] = i})

\* Two sets that differ in one element at most.
LEMMA CardMove ==
    ASSUME NEW S, IsFiniteSet(S), NEW A \in SUBSET S, NEW B \in SUBSET S, NEW p \in S,
           \A x \in S : x # p => (x \in A <=> x \in B)
    PROVE  /\ Cardinality(A) \in Nat /\ Cardinality(B) \in Nat
           /\ Cardinality(B) = Cardinality(A) - (IF p \in A THEN 1 ELSE 0)
                                              + (IF p \in B THEN 1 ELSE 0)
<1>1. IsFiniteSet(A) /\ IsFiniteSet(B)
  BY FS_Subset
<1>2. Cardinality(A) \in Nat /\ Cardinality(B) \in Nat
  BY <1>1, FS_CardinalityType
<1>3. CASE p \in A <=> p \in B
  <2>1. A = B
    BY <1>3
  <2>. QED
    BY <1>2, <2>1
<1>4. CASE p \in A /\ p \notin B
  <2>1. B = A \ {p}
    BY <1>4
  <2>2. Cardinality(A \ {p}) = Cardinality(A) - 1
    BY <1>1, <1>4, FS_RemoveElement
  <2>. QED
    BY <1>2, <1>4, <2>1, <2>2
<1>5. CASE p \notin A /\ p \in B
  <2>1. B = A \cup {p}
    BY <1>5
  <2>2. Cardinality(A \cup {p}) = Cardinality(A) + 1
    BY <1>1, <1>5, FS_AddElement
  <2>. QED
    BY <1>2, <1>5, <2>1, <2>2
<1>. QED
  BY <1>3, <1>4, <1>5

\* g is f but for the value at p.
OneMove(S, f, g, p) ==
    /\ IsFiniteSet(S) /\ DOMAIN f = S /\ DOMAIN g = S /\ p \in S
    /\ \A x \in S : x # p => g[x] = f[x]

\* A function that changes at one argument.
LEMMA CountMove ==
    ASSUME NEW S, NEW f, NEW g, NEW p, OneMove(S, f, g, p), NEW i
    PROVE  /\ NumOf(f, i) \in Nat /\ NumOf(g, i) \in Nat
           /\ NumOf(g, i) = NumOf(f, i) - Is(f[p], i) + Is(g[p], i)
<1>. DEFINE A == {x \in S : f[x] = i}
            B == {x \in S : g[x] = i}
<1>1. A \in SUBSET S /\ B \in SUBSET S /\ \A x \in S : x # p => (x \in A <=> x \in B)
  BY DEF OneMove
<1>2. (p \in A <=> f[p] = i) /\ (p \in B <=> g[p] = i) /\ p \in S /\ IsFiniteSet(S)
  BY DEF OneMove
<1>3. NumOf(f, i) = Cardinality(A) /\ NumOf(g, i) = Cardinality(B)
  BY DEF NumOf, OneMove
<1>. HIDE DEF A, B
<1>4. /\ Cardinality(A) \in Nat /\ Cardinality(B) \in Nat
      /\ Cardinality(B) = Cardinality(A) - (IF p \in A THEN 1 ELSE 0)
                                         + (IF p \in B THEN 1 ELSE 0)
  BY <1>1, <1>2, CardMove
<1>. QED
  BY <1>2, <1>3, <1>4 DEF Is

\* A count is a number, and the arguments contribute to it.
LEMMA CountAtLeast ==
    ASSUME NEW S, IsFiniteSet(S), NEW f, DOMAIN f = S, NEW i
    PROVE  /\ NumOf(f, i) \in Nat
           /\ \A p \in S : NumOf(f, i) >= Is(f[p], i)
           /\ \A p, q \in S : p # q => NumOf(f, i) >= Is(f[p], i) + Is(f[q], i)
<1>. DEFINE A == {x \in S : f[x] = i}
<1>1. A \in SUBSET S
  OBVIOUS
<1>2. IsFiniteSet(A) /\ Cardinality(A) \in Nat
  BY <1>1, FS_Subset, FS_CardinalityType
<1>3. NumOf(f, i) = Cardinality(A)
  BY DEF NumOf
<1>4. ASSUME NEW p \in S, f[p] = i
      PROVE  Cardinality(A) >= 1
  <2>1. {p} \in SUBSET A
    BY <1>4
  <2>2. Cardinality({p}) = 1 /\ Cardinality({p}) <= Cardinality(A)
    BY <1>2, <2>1, FS_Singleton, FS_Subset
  <2>. QED
    BY <1>2, <2>2
<1>5. ASSUME NEW p \in S, NEW q \in S, p # q, f[p] = i, f[q] = i
      PROVE  Cardinality(A) >= 2
  <2>1. {p} \cup {q} \in SUBSET A /\ q \notin {p}
    BY <1>5
  <2>2. IsFiniteSet({p}) /\ Cardinality({p}) = 1
    BY FS_Singleton
  <2>. DEFINE P == {p}
  <2>3. Cardinality(P \cup {q}) = Cardinality(P) + 1
    <3>1. IsFiniteSet(P) /\ q \notin P
      BY <2>1, <2>2
    <3>. HIDE DEF P
    <3>. QED  BY <3>1, FS_AddElement
  <2>4. Cardinality({p} \cup {q}) <= Cardinality(A)
    BY <1>2, <2>1, FS_Subset
  <2>. QED
    BY <1>2, <2>2, <2>3, <2>4
<1>. HIDE DEF A
<1>6. ASSUME NEW p \in S
      PROVE  Cardinality(A) >= Is(f[p], i)
  BY <1>2, <1>4 DEF Is
<1>7. ASSUME NEW p \in S, NEW q \in S, p # q
      PROVE  Cardinality(A) >= Is(f[p], i) + Is(f[q], i)
  BY <1>2, <1>4, <1>5, <1>7 DEF Is
<1>. QED
  BY <1>2, <1>3, <1>6, <1>7

\* Pairs with a first element of one set and the second element k are as many
\* as the set.
LEMMA CardTag ==
    ASSUME NEW A, IsFiniteSet(A), NEW k
    PROVE  IsFiniteSet({<<x, k>> : x \in A}) /\ Cardinality({<<x, k>> : x \in A}) = Cardinality(A)
<1>. DEFINE T == {<<x, k>> : x \in A}
            h == [x \in A |-> <<x, k>>]
<1>1. h \in Bijection(A, T)
  <2>1. h \in [A -> T]
    OBVIOUS
  <2>2. \A x, y \in A : h[x] = h[y] => x = y
    OBVIOUS
  <2>3. \A t \in T : \E x \in A : h[x] = t
    OBVIOUS
  <2>. HIDE DEF h, T
  <2>. QED
    BY <2>1, <2>2, <2>3 DEF Bijection, Injection, IsInjective, Surjection
<1>2. ExistsBijection(A, T)
  BY <1>1 DEF ExistsBijection
<1>. QED
  BY <1>2, FS_Bijection

\* Two disjoint sets.
LEMMA CardDisjoint ==
    ASSUME NEW A, IsFiniteSet(A), NEW B, IsFiniteSet(B), A \cap B = {}
    PROVE  IsFiniteSet(A \cup B) /\ Cardinality(A \cup B) = Cardinality(A) + Cardinality(B)
<1>1. /\ IsFiniteSet(A \cup B)
      /\ Cardinality(A \cup B) = Cardinality(A) + Cardinality(B) - Cardinality(A \cap B)
  BY FS_Union
<1>2. Cardinality(A \cap B) = 0
  BY FS_EmptySet
<1>3. Cardinality(A) \in Nat /\ Cardinality(B) \in Nat
  BY FS_CardinalityType
<1>. QED
  BY <1>1, <1>2, <1>3

\* Pairs with a given first element.
LEMMA CardRow ==
    ASSUME NEW A, IsFiniteSet(A), NEW q
    PROVE  IsFiniteSet({<<q, x>> : x \in A}) /\ Cardinality({<<q, x>> : x \in A}) = Cardinality(A)
<1>. DEFINE T == {<<q, x>> : x \in A}
            h == [x \in A |-> <<q, x>>]
<1>1. h \in Bijection(A, T)
  <2>1. h \in [A -> T]
    OBVIOUS
  <2>2. \A x, y \in A : h[x] = h[y] => x = y
    OBVIOUS
  <2>3. \A t \in T : \E x \in A : h[x] = t
    OBVIOUS
  <2>. HIDE DEF h, T
  <2>. QED
    BY <2>1, <2>2, <2>3 DEF Bijection, Injection, IsInjective, Surjection
<1>2. ExistsBijection(A, T)
  BY <1>1 DEF ExistsBijection
<1>. QED
  BY <1>2, FS_Bijection

\* A value that a function does not take is counted zero times.
LEMMA NumZero ==
    ASSUME NEW f, NEW i, \A x \in DOMAIN f : f[x] # i
    PROVE  NumOf(f, i) = 0
<1>1. {x \in DOMAIN f : f[x] = i} = {}
  OBVIOUS
<1>. QED
  BY <1>1, FS_EmptySet DEF NumOf

\* A value taken at one argument is counted once.
LEMMA NumOne ==
    ASSUME NEW f, NEW i, NEW x \in DOMAIN f, f[x] = i, \A y \in DOMAIN f : f[y] = i => y = x
    PROVE  NumOf(f, i) = 1
<1>1. {y \in DOMAIN f : f[y] = i} = {x}
  OBVIOUS
<1>. QED
  BY <1>1, FS_Singleton DEF NumOf

\* The same for two arguments.
LEMMA NumTwo ==
    ASSUME NEW f, NEW i, NEW x \in DOMAIN f, NEW z \in DOMAIN f, x # z, f[x] = i, f[z] = i,
           \A y \in DOMAIN f : f[y] = i => y = x \/ y = z
    PROVE  NumOf(f, i) = 2
<1>1. {y \in DOMAIN f : f[y] = i} = {x} \cup {z}
  OBVIOUS
<1>2. IsFiniteSet({x}) /\ Cardinality({x}) = 1 /\ z \notin {x}
  BY FS_Singleton
<1>3. Cardinality({x} \cup {z}) = Cardinality({x}) + 1
  BY <1>2, FS_AddElement
<1>. QED
  BY <1>1, <1>2, <1>3 DEF NumOf
=============================================================================
