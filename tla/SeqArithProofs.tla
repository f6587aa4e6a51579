---------------------------- MODULE SeqArithProofs ----------------------------
(***************************************************************************)
(* Facts about wrapping sequence numbers, for every width: the wrapped       *)
(* arithmetic of the code agrees with arithmetic on the unbounded stream     *)
(* index as long as the operands are close enough.  And facts about loops    *)
(* written as recursive functions, from the least number that fails them.    *)
(***************************************************************************)
EXTENDS SeqArith, TLAPS, WellFoundedInduction

-----------------------------------------------------------------------------
(* The remainder *)

\* Division with remainder.
LEMMA ModRange ==
  ASSUME NEW m \in Nat \ {0}, NEW x \in Nat
  PROVE  /\ x % m \in 0 .. (m - 1)
         /\ x \div m \in Nat
         /\ x = m * (x \div m) + (x % m)
OBVIOUS

\* Quotient and remainder are unique.
LEMMA DivisionUnique ==
  ASSUME NEW m \in Nat \ {0}, NEW q \in Nat, NEW p \in Nat,
         NEW r \in 0 .. (m - 1), NEW s \in 0 .. (m - 1),
         m * q + r = m * p + s
  PROVE  q = p /\ r = s
<1>1. CASE q > p
  <2>1. m * (q - p) >= m
    BY <1>1
  <2>2. m * (q - p) = m * q - m * p
    OBVIOUS
  <2> QED
    BY <2>1, <2>2
<1>2. CASE q < p
  <2>1. m * (p - q) >= m
    BY <1>2
  <2>2. m * (p - q) = m * p - m * q
    OBVIOUS
  <2> QED
    BY <2>1, <2>2
<1>3. CASE q = p
  BY <1>3
<1> QED
  BY <1>1, <1>2, <1>3

\* The remainder of a number given by quotient and remainder.
LEMMA ModUnique ==
  ASSUME NEW m \in Nat \ {0}, NEW q \in Nat, NEW r \in 0 .. (m - 1),
         NEW x \in Nat, x = m * q + r
  PROVE  x % m = r
<1>1. PICK p \in Nat, s \in 0 .. (m - 1) : x = m * p + s /\ s = x % m
  BY ModRange, Zenon
<1>2. m * q + r = m * p + s
  BY <1>1
<1>3. r = s
  BY <1>2, DivisionUnique
<1> QED
  BY <1>1, <1>3, Zenon

\* The remainder of a sum, when one term is no more than the modulus.
LEMMA ModAdd ==
  ASSUME NEW m \in Nat \ {0}, NEW x \in Nat, NEW k \in 0 .. m
  PROVE  (x + k) % m = IF (x % m) + k < m THEN (x % m) + k ELSE (x % m) + k - m
<1> DEFINE q == x \div m
           r == x % m
<1>1. r \in 0 .. (m - 1) /\ q \in Nat /\ x = m * q + r
  BY ModRange, Zenon
<1> HIDE DEF q, r
<1>2. CASE r + k < m
  <2>1. x + k = m * q + (r + k)
    BY <1>1
  <2>2. (x + k) % m = r + k
    BY <1>1, <1>2, <2>1, ModUnique
  <2> QED
    BY <1>2, <2>2 DEF r
<1>3. CASE ~(r + k < m)
  <2>1. m * (q + 1) = m * q + m
    BY <1>1
  <2>2. x + k = m * (q + 1) + (r + k - m)
    BY <1>1, <2>1
  <2>3. r + k - m \in 0 .. (m - 1) /\ q + 1 \in Nat /\ x + k \in Nat
    BY <1>1, <1>3
  <2>4. (x + k) % m = r + k - m
    <3>1. PICK y \in Nat, p \in Nat, i \in 0 .. (m - 1) :
            y = x + k /\ p = q + 1 /\ i = r + k - m
      BY <2>3
    <3>2. y = m * p + i
      BY <2>2, <3>1
    <3>3. y % m = i
      BY <3>2, ModUnique
    <3> QED
      BY <3>1, <3>3
  <2> QED
    BY <1>3, <2>4 DEF r
<1> QED
  BY <1>2, <1>3

\* Taking the remainder by a multiple first changes nothing: the ring index of
\* a sequence number survives the wrap.
LEMMA ModMod ==
  ASSUME NEW c \in Nat \ {0}, NEW k \in Nat \ {0}, NEW m \in Nat \ {0}, m = k * c,
         NEW x \in Nat
  PROVE  (x % m) % c = x % c
<1>1. PICK q \in Nat, w \in 0 .. (m - 1) : x = m * q + w /\ w = x % m
  BY ModRange, Zenon
<1>2. w \in Nat
  OBVIOUS
<1>3. PICK p \in Nat, i \in 0 .. (c - 1) : w = c * p + i /\ i = w % c
  BY <1>2, ModRange, Zenon
<1>4. PICK n \in Nat : n = k * q + p
  OBVIOUS
<1>5. c * n = m * q + c * p
  BY <1>4
<1>6. x = c * n + i
  <2>1. x = m * q + w /\ w = c * p + i
    BY <1>1, <1>3, Zenon
  <2>2. m * q \in Nat /\ c * p \in Nat /\ c * n \in Nat
    OBVIOUS
  <2> QED
    BY <2>1, <2>2, <1>5
<1>7. x % c = i
  BY <1>6, ModUnique
<1> QED
  BY <1>1, <1>3, <1>7, Zenon

-----------------------------------------------------------------------------
(* Sequence numbers *)

\* A wire number is a sequence number.
LEMMA WireType ==
  ASSUME NEW x \in Nat
  PROVE  Wire(x) \in SeqNos
BY HalfAssumption, ModRange DEF Wire, SeqNos, M

\* wrapping_add is addition on the stream index.
LEMMA WireAdd ==
  ASSUME NEW x \in Nat, NEW k \in 0 .. (M - 1)
  PROVE  Wire(x + k) = wrapping_add(Wire(x), k)
<1>1. M \in Nat \ {0} /\ k \in 0 .. M
  BY HalfAssumption DEF M
<1>2. (x + k) % M = IF (x % M) + k < M THEN (x % M) + k ELSE (x % M) + k - M
  BY <1>1, ModAdd, Zenon
<1> QED
  BY <1>2 DEF Wire, wrapping_add

\* wrapping_sub is the distance, when x is ahead of y by less than the space.
LEMMA WireSubAhead ==
  ASSUME NEW x \in Nat, NEW y \in Nat, y <= x, x < y + M
  PROVE  wrapping_sub(Wire(x), Wire(y)) = x - y
<1>1. M \in Nat \ {0} /\ x - y \in 0 .. (M - 1) /\ y + (x - y) = x
  BY HalfAssumption DEF M
<1>2. Wire(x) = wrapping_add(Wire(y), x - y)
  BY <1>1, WireAdd
<1>3. Wire(x) \in 0 .. (M - 1) /\ Wire(y) \in 0 .. (M - 1)
  BY WireType DEF SeqNos
<1> QED
  BY <1>1, <1>2, <1>3 DEF wrapping_add, wrapping_sub

\* ... and wraps when x is behind y.
LEMMA WireSubBehind ==
  ASSUME NEW x \in Nat, NEW y \in Nat, x < y, y <= x + M
  PROVE  wrapping_sub(Wire(x), Wire(y)) = IF y = x + M THEN 0 ELSE x - y + M
<1>1. M \in Nat \ {0} /\ y - x \in 0 .. M /\ x + (y - x) = y
  BY HalfAssumption DEF M
<1>2. y % M = IF (x % M) + (y - x) < M THEN (x % M) + (y - x) ELSE (x % M) + (y - x) - M
  BY <1>1, ModAdd, ZenonT(30), Zenon
<1>3. Wire(x) \in 0 .. (M - 1) /\ Wire(y) \in 0 .. (M - 1)
  BY WireType DEF SeqNos
<1> QED
  BY <1>1, <1>2, <1>3 DEF Wire, wrapping_sub

\* The signed comparison is the distance, within half the space.
LEMMA DiffIsDistance ==
  ASSUME NEW x \in Nat, NEW y \in Nat, y - Half <= x, x < y + Half
  PROVE  diff(Wire(y), Wire(x)) = x - y
<1>1. CASE y <= x
  <2>1. wrapping_sub(Wire(x), Wire(y)) = x - y
    BY <1>1, HalfAssumption, WireSubAhead DEF M
  <2> QED
    BY <1>1, <2>1, HalfAssumption DEF diff, as_i16
<1>2. CASE x < y
  <2>1. wrapping_sub(Wire(x), Wire(y)) = x - y + M
    BY <1>2, HalfAssumption, WireSubBehind DEF M
  <2> QED
    BY <1>2, <2>1, HalfAssumption DEF diff, as_i16, M
<1> QED
  BY <1>1, <1>2

-----------------------------------------------------------------------------
(* Loops: induction over the turns, through sets of numbers *)

\* A non-empty set of naturals has a least element.
LEMMA LeastNumber ==
  ASSUME NEW T \in SUBSET Nat, T # {}
  PROVE  \E m \in T : \A k \in T : m <= k
<1> DEFINE R == OpToRel(<, Nat)
<1>1. \A k, m \in Nat : <<k, m>> \in R <=> k < m
  BY DEF OpToRel
<1>2. IsWellFoundedOn(R, Nat)
  BY NatLessThanWellFounded, Zenon
<1> HIDE DEF R
<1>3. PICK m \in T : \A k \in T : <<k, m>> \notin R
  BY <1>2, WFMin, Zenon
<1>4. ASSUME NEW k \in T
      PROVE  m <= k
  <2>1. k \in Nat /\ m \in Nat /\ ~(k < m)
    BY <1>1, <1>3, Zenon
  <2> QED
    BY <2>1
<1> QED
  BY <1>4

\* What holds before the first turn, and after a turn when before it, holds
\* after each of the N turns; S is the set of the turns it holds after.
LEMMA UpTo ==
  ASSUME NEW N \in Nat, NEW S, 0 \in S, \A n \in 0 .. (N - 1) : n \in S => n + 1 \in S
  PROVE  0 .. N \subseteq S
<1> SUFFICES ASSUME ~(0 .. N \subseteq S)
             PROVE  FALSE
  OBVIOUS
<1> DEFINE T == {n \in 0 .. N : n \notin S}
<1>1. T \in SUBSET Nat /\ T # {}
  OBVIOUS
<1>2. PICK m \in T : \A k \in T : m <= k
  BY <1>1, LeastNumber, Zenon
<1>3. m \in 1 .. N /\ m - 1 \in 0 .. (N - 1) /\ m - 1 \in 0 .. N /\ m = (m - 1) + 1
  OBVIOUS
<1>4. m - 1 \notin T
  BY <1>2, <1>3
<1> QED
  BY <1>3, <1>4


\* f is what a loop of N turns from x has come to after each, the k-th applying
\* F[k] to a value of V.
LoopRuns(f, N, V, x, F) ==
  /\ f \in [0 .. N -> V]
  /\ f[0] = x
  /\ \A k \in 1 .. N : f[k] = F[k][f[k - 1]]

\* A loop comes to something after each of its turns.
LEMMA LoopExists ==
  ASSUME NEW N \in Nat, NEW V, NEW x \in V, NEW F \in [1 .. N -> [V -> V]]
  PROVE  \E f : LoopRuns(f, N, V, x, F)
<1> DEFINE Runs(f, n) == LoopRuns(f, n, V, x, F)
           S == {n \in 0 .. N : \E f : Runs(f, n)}
<1>1. 0 \in S
  <2>1. Runs([k \in 0 .. 0 |-> x], 0)
    BY DEF LoopRuns
  <2> HIDE DEF Runs
  <2> QED
    BY <2>1
<1>2. ASSUME NEW n \in 0 .. (N - 1), n \in S
      PROVE  n + 1 \in S
  <2>1. PICK f : Runs(f, n)
    BY <1>2
  <2> DEFINE g == [k \in 0 .. (n + 1) |-> IF k = n + 1 THEN F[n + 1][f[n]] ELSE f[k]]
  <2>2. n + 1 \in 1 .. N /\ n + 1 \in 0 .. N /\ n \in 0 .. n
    OBVIOUS
  <2>3. F[n + 1][f[n]] \in V
    BY <2>1, <2>2 DEF LoopRuns
  <2>4. \A k \in 0 .. n : k \in 0 .. (n + 1) /\ k # n + 1
    BY <2>2
  <2>5. g \in [0 .. (n + 1) -> V] /\ g[0] = x
    BY <2>1, <2>2, <2>3, <2>4 DEF LoopRuns
  <2>6. ASSUME NEW k \in 1 .. (n + 1)
        PROVE  g[k] = F[k][g[k - 1]]
    <3>1. k - 1 \in 0 .. n /\ k \in 0 .. (n + 1)
      BY <2>2
    <3>2. g[k - 1] = f[k - 1]
      BY <2>4, <3>1
    <3>3. CASE k = n + 1
      BY <2>2, <3>1, <3>2, <3>3
    <3>4. CASE k # n + 1
      <4>1. k \in 1 .. n
        BY <2>2, <3>4
      <4> QED
        BY <2>1, <3>1, <3>2, <3>4, <4>1 DEF LoopRuns
    <3> QED
      BY <3>3, <3>4
  <2>7. Runs(g, n + 1)
    BY <2>5, <2>6, Zenon DEF LoopRuns
  <2> HIDE DEF Runs, g
  <2> QED
    BY <2>2, <2>7
<1> HIDE DEF S
<1>3. N \in S
  <2>1. 0 .. N \subseteq S
    BY <1>1, <1>2, UpTo, Zenon
  <2>2. N \in 0 .. N
    OBVIOUS
  <2> QED
    BY <2>1, <2>2
<1> QED
  BY <1>3 DEF S

=============================================================================
