---------------------------- MODULE WordsProofs -----------------------------
(***************************************************************************)
(* The digit loops of src/evm.rs compute what they should, for words of    *)
(* any length in any base: u256_add and u256_mul_u64 are arithmetic modulo *)
(* Base^Width, and the lexicographic comparison is the numeric one.        *)
(*                                                                         *)
(* The induction goes by least counterexample: a set of naturals that is   *)
(* not empty has a least element (WFMin).                                  *)
(***************************************************************************)
EXTENDS Words, WellFoundedInduction, TLAPS

-----------------------------------------------------------------------------
(* Induction and recursion                                                 *)

\* A set of naturals that is not empty has a least element.
LEMMA Least ==
  ASSUME NEW T \in SUBSET Nat, T # {}
  PROVE  \E n \in T : \A m \in T : n <= m
<1>1. PICK R : R = OpToRel(<, Nat)
  OBVIOUS
<1>2. IsWellFoundedOn(R, Nat)
  BY <1>1, NatLessThanWellFounded
<1>3. PICK x \in T : \A y \in T : ~(<<y, x>> \in R)
  BY <1>2, WFMin
<1>4. \A a, b \in Nat : b < a => <<b, a>> \in R
  BY <1>1 DEF OpToRel
<1>5. ASSUME NEW m \in T PROVE x <= m
  <2>1. x \in Nat /\ m \in Nat
    OBVIOUS
  <2>2. ~(m < x)
    BY <1>3, <1>4, <2>1
  <2> QED
    BY <2>1, <2>2
<1> QED
  BY <1>5

\* What holds of 0 and passes from each number below N to the next holds up
\* to N.
LEMMA UpTo ==
  ASSUME NEW N \in Nat, NEW T, 0 \in T, \A n \in Nat : n < N /\ n \in T => n + 1 \in T
  PROVE  \A n \in 0..N : n \in T
<1> SUFFICES ASSUME NEW k \in 0..N, k \notin T PROVE FALSE
  OBVIOUS
<1>1. PICK S : S = {n \in Nat : n <= N /\ n \notin T}
  OBVIOUS
<1>2. PICK n \in S : \A m \in S : n <= m
  <2>1. S \in SUBSET Nat /\ k \in S
    BY <1>1
  <2> QED
    BY <2>1, Least
<1>3. n \in 0..N /\ n \notin T /\ n # 0
  BY <1>1, <1>2
<1>4. n - 1 \in Nat /\ n - 1 < N /\ (n - 1) + 1 = n /\ n - 1 \in 0..N /\ ~(n <= n - 1)
  BY <1>3
<1>5. n - 1 \in T
  BY <1>1, <1>2, <1>4
<1> QED
  BY <1>3, <1>4, <1>5

\* A value that stays in S from each step to the next is always in S.
LEMMA Stays ==
  ASSUME NEW S, NEW N \in Nat, NEW v, v[0] \in S,
         \A n \in Nat : n < N /\ v[n] \in S => v[n + 1] \in S
  PROVE  \A n \in 0..N : v[n] \in S
<1>1. PICK T : T = {n \in Nat : v[n] \in S}
  OBVIOUS
<1>2. 0 \in T /\ \A n \in Nat : n < N /\ n \in T => n + 1 \in T
  BY <1>1
<1>3. \A n \in 0..N : n \in T
  BY <1>2, UpTo
<1> QED
  BY <1>1, <1>3

\* f starts at s0 and follows G.
Follows(f, S, s0, N, G) ==
  f \in [0..N -> S] /\ f[0] = s0 /\ \A i \in 1..N : f[i] = G[i][f[i - 1]]

\* A function given by its first value and its steps exists.
LEMMA Recursion ==
  ASSUME NEW S, NEW s0 \in S, NEW N \in Nat, NEW G \in [Nat -> [S -> S]]
  PROVE  \E f : Follows(f, S, s0, N, G)
<1>1. PICK T : T = {n \in Nat : \E f : Follows(f, S, s0, n, G)}
  OBVIOUS
<1>2. 0 \in T
  <2>1. PICK f : f = [i \in 0..0 |-> s0]
    OBVIOUS
  <2>2. Follows(f, S, s0, 0, G)
    BY <2>1 DEF Follows
  <2> QED
    BY <1>1, <2>2
<1>3. ASSUME NEW n \in Nat, n \in T PROVE n + 1 \in T
  <2>1. PICK f : Follows(f, S, s0, n, G)
    BY <1>1, <1>3
  <2>2. f \in [0..n -> S] /\ f[0] = s0 /\ \A i \in 1..n : f[i] = G[i][f[i - 1]]
    BY <2>1 DEF Follows
  <2>3. PICK x \in S : x = G[n + 1][f[n]]
    BY <2>2
  <2>4. PICK h : h = [i \in 0..(n + 1) |-> IF i = n + 1 THEN x ELSE f[i]]
    OBVIOUS
  <2>5. h \in [0..(n + 1) -> S]
    BY <2>2, <2>4
  <2>6. h[0] = s0 /\ h[n + 1] = x /\ \A i \in 0..n : h[i] = f[i]
    BY <2>2, <2>4
  <2>7. ASSUME NEW i \in 1..(n + 1) PROVE h[i] = G[i][h[i - 1]]
    <3>1. CASE i = n + 1
      <4>1. i - 1 = n /\ n \in 0..n
        BY <3>1
      <4> QED
        BY <2>3, <2>6, <3>1, <4>1
    <3>2. CASE i # n + 1
      <4>1. i \in 1..n /\ i - 1 \in 0..n /\ i \in 0..n
        BY <3>2
      <4> QED
        BY <2>2, <2>6, <4>1
    <3> QED
      BY <3>1, <3>2
  <2>8. Follows(h, S, s0, n + 1, G)
    BY <2>5, <2>6, <2>7 DEF Follows
  <2> QED
    BY <1>1, <2>8
<1>4. N \in T
  <2>1. \A n \in 0..N : n \in T
    BY <1>2, <1>3, UpTo
  <2> QED
    BY <2>1
<1> QED
  BY <1>1, <1>4

-----------------------------------------------------------------------------
(* What the recursive definitions define                                   *)

Columns == [1..Width -> Nat]

\* A word is a row of columns.
LEMMA WordFacts ==
  ASSUME NEW a \in Word
  PROVE  a \in Columns /\ \A i \in 1..Width : a[i] \in Nat /\ a[i] < Base
BY RadixAssumption DEF Word, Digit, Columns

\* The weights of the digits.
LEMMA PlaceFacts ==
  /\ Place \in [0..Width -> Nat] /\ Place[0] = 1
  /\ \A i \in Nat : i < Width => Place[i + 1] = Place[i] * Base
<1>0. Base \in Nat /\ Width \in Nat
  BY RadixAssumption
<1>1. PICK G : G = [i \in Nat |-> [x \in Nat |-> x * Base]]
  OBVIOUS
<1>2. G \in [Nat -> [Nat -> Nat]] /\ \A i, x \in Nat : G[i][x] = x * Base
  BY <1>0, <1>1
<1>3. PICK f : Follows(f, Nat, 1, Width, G)
  <2>1. PICK one \in Nat : one = 1
    OBVIOUS
  <2> QED
    BY <1>0, <1>2, <2>1, Recursion
<1>4. f \in [0..Width -> Nat] /\ f[0] = 1 /\ \A i \in 1..Width : f[i] = f[i - 1] * Base
  <2>1. f \in [0..Width -> Nat] /\ f[0] = 1 /\ \A i \in 1..Width : f[i] = G[i][f[i - 1]]
    BY <1>3 DEF Follows
  <2> SUFFICES ASSUME NEW i \in 1..Width PROVE f[i] = f[i - 1] * Base
    BY <2>1
  <2>2. i \in Nat /\ i - 1 \in 0..Width
    BY <1>0
  <2>3. f[i - 1] \in Nat
    BY <2>1, <2>2
  <2> QED
    BY <1>2, <2>1, <2>2, <2>3
<1>5. f = [k \in 0..Width |-> IF k = 0 THEN 1 ELSE f[k - 1] * Base]
  BY <1>0, <1>4
<1>6. Place = [k \in 0..Width |-> IF k = 0 THEN 1 ELSE Place[k - 1] * Base]
  <2>1. Place = CHOOSE p : p = [k \in 0..Width |-> IF k = 0 THEN 1 ELSE p[k - 1] * Base]
    BY DEF Place
  <2> QED
    BY <1>5, <2>1
<1>7. Place[0] = 1 /\ \A i \in 1..Width : Place[i] = Place[i - 1] * Base
  <2>1. PICK p, q : p = Place /\ q = Place
    OBVIOUS
  <2>2. p = [k \in 0..Width |-> IF k = 0 THEN 1 ELSE q[k - 1] * Base]
    BY <1>6, <2>1
  <2>3. p[0] = 1 /\ \A i \in 1..Width : p[i] = q[i - 1] * Base
    BY <1>0, <2>2
  <2> QED
    BY <2>1, <2>3
<1>8. ASSUME NEW i \in Nat, i < Width PROVE Place[i + 1] = Place[i] * Base
  <2>1. i + 1 \in 1..Width /\ (i + 1) - 1 = i
    BY <1>0, <1>8
  <2> QED
    BY <1>7, <2>1
<1>9. \A n \in 0..Width : Place[n] \in Nat
  <2>1. ASSUME NEW n \in Nat, n < Width, Place[n] \in Nat PROVE Place[n + 1] \in Nat
    BY <1>0, <1>8, <2>1
  <2>2. Place[0] \in Nat
    BY <1>7
  <2> QED
    BY <1>0, <2>1, <2>2, Stays
<1> QED
  BY <1>6, <1>7, <1>8, <1>9

\* One more column.
Shift(x, c, i) == x * Base + c[i]

\* The number that the first columns stand for.
LEMMA PrefixFacts ==
  ASSUME NEW c \in Columns
  PROVE  /\ Prefix(c) \in [0..Width -> Nat] /\ Prefix(c)[0] = 0
         /\ \A i \in Nat : i < Width => Prefix(c)[i + 1] = Prefix(c)[i] * Base + c[i + 1]
<1>0. Base \in Nat /\ Width \in Nat /\ \A i \in 1..Width : c[i] \in Nat
  BY RadixAssumption DEF Columns
<1>1. PICK G : G = [i \in Nat |-> [x \in Nat |-> IF i \in 1..Width THEN Shift(x, c, i) ELSE 0]]
  OBVIOUS
<1>2. /\ G \in [Nat -> [Nat -> Nat]]
      /\ \A i \in 1..Width : \A x \in Nat : G[i][x] = Shift(x, c, i)
  <2>1. \A i \in 1..Width : \A x \in Nat : Shift(x, c, i) \in Nat
    BY <1>0 DEF Shift
  <2> QED
    BY <1>0, <1>1, <2>1
<1>3. PICK f : Follows(f, Nat, 0, Width, G)
  <2>1. PICK z \in Nat : z = 0
    OBVIOUS
  <2> QED
    BY <1>0, <1>2, <2>1, Recursion
<1>4. f \in [0..Width -> Nat] /\ f[0] = 0 /\ \A i \in 1..Width : f[i] = Shift(f[i - 1], c, i)
  <2>1. f \in [0..Width -> Nat] /\ f[0] = 0 /\ \A i \in 1..Width : f[i] = G[i][f[i - 1]]
    BY <1>3 DEF Follows
  <2> SUFFICES ASSUME NEW i \in 1..Width PROVE f[i] = Shift(f[i - 1], c, i)
    BY <2>1
  <2>2. i - 1 \in 0..Width
    BY <1>0
  <2>3. f[i - 1] \in Nat
    BY <2>1, <2>2
  <2> QED
    BY <1>2, <2>1, <2>2, <2>3
<1>5. f = [k \in 0..Width |-> IF k = 0 THEN 0 ELSE Shift(f[k - 1], c, k)]
  BY <1>0, <1>4
<1>6. PICK p : p = Prefix(c)
  OBVIOUS
<1>7. p = [k \in 0..Width |-> IF k = 0 THEN 0 ELSE Shift(p[k - 1], c, k)]
  <2>1. p = CHOOSE v : v = [k \in 0..Width |-> IF k = 0 THEN 0 ELSE Shift(v[k - 1], c, k)]
    BY <1>6 DEF Prefix, Shift
  <2> QED
    BY <1>5, <2>1
<1>8. p[0] = 0 /\ \A i \in 1..Width : p[i] = Shift(p[i - 1], c, i)
  <2>1. PICK q : q = p
    OBVIOUS
  <2>2. p = [k \in 0..Width |-> IF k = 0 THEN 0 ELSE Shift(q[k - 1], c, k)]
    BY <1>7, <2>1
  <2>3. p[0] = 0 /\ \A i \in 1..Width : p[i] = Shift(q[i - 1], c, i)
    BY <1>0, <2>2
  <2> QED
    BY <2>1, <2>3
<1>9. ASSUME NEW i \in Nat, i < Width PROVE p[i + 1] = p[i] * Base + c[i + 1]
  <2>1. i + 1 \in 1..Width /\ (i + 1) - 1 = i
    BY <1>0, <1>9
  <2> QED
    BY <1>8, <2>1 DEF Shift
<1>10. \A n \in 0..Width : p[n] \in Nat
  <2>1. ASSUME NEW n \in Nat, n < Width, p[n] \in Nat PROVE p[n + 1] \in Nat
    <3>1. c[n + 1] \in Nat
      BY <1>0, <2>1
    <3>2. p[n + 1] = p[n] * Base + c[n + 1]
      BY <1>9, <2>1
    <3>3. PICK x \in Nat, y \in Nat : x = p[n] /\ y = c[n + 1]
      BY <2>1, <3>1
    <3>4. x * Base + y \in Nat
      BY <1>0
    <3> QED
      BY <3>2, <3>3, <3>4
  <2>2. p[0] \in Nat
    BY <1>8
  <2> QED
    BY <1>0, <2>1, <2>2, Stays
<1> QED
  BY <1>6, <1>7, <1>8, <1>9, <1>10

\* Division with a remainder.
LEMMA Division ==
  ASSUME NEW x \in Nat
  PROVE  /\ x \div Base \in Nat /\ (x % Base) \in Digit
         /\ x = (x \div Base) * Base + (x % Base)
<1>1. Base \in Nat /\ Base > 0
  BY RadixAssumption
<1>2. x \div Base \in Nat
  BY <1>1
<1>3. (x % Base) \in Digit
  BY <1>1 DEF Digit
<1>4. x = (x \div Base) * Base + (x % Base)
  BY <1>1
<1> QED
  BY <1>2, <1>3, <1>4

\* What a column with carry x passes on.
Over(x, c, i) == (c[i] + x) \div Base

\* The carries of the loop, from the last column to the first.
LEMMA CarryFacts ==
  ASSUME NEW c \in Columns
  PROVE  /\ Carry(c) \in [0..Width -> Nat] /\ Carry(c)[Width] = 0
         /\ \A i \in Nat : i < Width => Carry(c)[i] = (c[i + 1] + Carry(c)[i + 1]) \div Base
<1>0. Base \in Nat /\ Width \in Nat /\ \A i \in 1..Width : c[i] \in Nat
  BY RadixAssumption DEF Columns
<1>1. PICK G : G = [j \in Nat |-> [x \in Nat |->
                      IF j \in 1..Width THEN Over(x, c, Width - j + 1) ELSE 0]]
  OBVIOUS
<1>2. ASSUME NEW i \in 1..Width, NEW x \in Nat
      PROVE  Over(x, c, i) \in Nat
  <2>1. c[i] + x \in Nat
    BY <1>0
  <2> QED
    BY <2>1, Division DEF Over
<1>3. /\ G \in [Nat -> [Nat -> Nat]]
      /\ \A j \in 1..Width : \A x \in Nat : G[j][x] = Over(x, c, Width - j + 1)
  <2>1. \A j \in 1..Width : \A x \in Nat : Over(x, c, Width - j + 1) \in Nat
    <3>1. \A j \in 1..Width : Width - j + 1 \in 1..Width
      BY <1>0
    <3> QED
      BY <1>2, <3>1
  <2> QED
    BY <1>0, <1>1, <2>1
<1>4. PICK f : Follows(f, Nat, 0, Width, G)
  <2>1. PICK z \in Nat : z = 0
    OBVIOUS
  <2> QED
    BY <1>0, <1>3, <2>1, Recursion
<1>5. f \in [0..Width -> Nat] /\ f[0] = 0 /\ \A i \in 1..Width : f[i] = G[i][f[i - 1]]
  BY <1>4 DEF Follows
<1>6. PICK h : h = [i \in 0..Width |-> f[Width - i]]
  OBVIOUS
<1>7. h = [i \in 0..Width |-> IF i = Width THEN 0 ELSE Over(h[i + 1], c, i + 1)]
  <2>1. h[Width] = 0
    BY <1>0, <1>5, <1>6
  <2>2. ASSUME NEW i \in 0..Width, i # Width
        PROVE  h[i] = Over(h[i + 1], c, i + 1)
    <3>1. PICK j \in 1..Width : j = Width - i
      BY <1>0, <2>2
    <3>2. j - 1 \in 0..Width /\ j - 1 = Width - (i + 1) /\ i + 1 \in 0..Width
          /\ Width - j + 1 = i + 1
      BY <1>0, <2>2, <3>1
    <3>3. h[i] = f[j] /\ h[i + 1] = f[j - 1]
      BY <1>6, <3>1, <3>2
    <3>4. f[j - 1] \in Nat
      BY <1>5, <3>2
    <3> QED
      BY <1>3, <1>5, <3>2, <3>3, <3>4
  <2>3. PICK q : q = h
    OBVIOUS
  <2>4. h = [i \in 0..Width |-> IF i = Width THEN 0 ELSE Over(q[i + 1], c, i + 1)]
    BY <1>0, <1>6, <2>1, <2>2, <2>3
  <2> QED
    BY <2>3, <2>4
<1>8. PICK p : p = Carry(c)
  OBVIOUS
<1>9. p = [i \in 0..Width |-> IF i = Width THEN 0 ELSE Over(p[i + 1], c, i + 1)]
  <2>1. p = CHOOSE v : v = [i \in 0..Width |->
                              IF i = Width THEN 0 ELSE Over(v[i + 1], c, i + 1)]
    BY <1>8 DEF Carry, Over
  <2> QED
    BY <1>7, <2>1
<1>10. /\ p[Width] = 0
       /\ \A i \in 0..Width : i # Width => p[i] = Over(p[i + 1], c, i + 1)
  <2>1. PICK q : q = p
    OBVIOUS
  <2>2. p = [i \in 0..Width |-> IF i = Width THEN 0 ELSE Over(q[i + 1], c, i + 1)]
    BY <1>9, <2>1
  <2>3. /\ p[Width] = 0
        /\ \A i \in 0..Width : i # Width => p[i] = Over(q[i + 1], c, i + 1)
    BY <1>0, <2>2
  <2> QED
    BY <2>1, <2>3
<1>11. ASSUME NEW i \in Nat, i < Width PROVE p[i] = (c[i + 1] + p[i + 1]) \div Base
  BY <1>0, <1>10, <1>11 DEF Over
<1>12. \A n \in 0..Width : p[n] \in Nat
  <2>1. PICK u : u = [n \in 0..Width |-> p[Width - n]]
    OBVIOUS
  <2>2. u[0] \in Nat
    BY <1>0, <1>10, <2>1
  <2>3. ASSUME NEW n \in Nat, n < Width, u[n] \in Nat PROVE u[n + 1] \in Nat
    <3>1. PICK i \in Nat : i = Width - (n + 1) /\ i + 1 = Width - n /\ i < Width
      BY <1>0, <2>3
    <3>2. u[n] = p[i + 1] /\ u[n + 1] = p[i]
      BY <1>0, <2>1, <2>3, <3>1
    <3>3. c[i + 1] + p[i + 1] \in Nat
      <4>1. c[i + 1] \in Nat
        BY <1>0, <3>1
      <4> QED
        BY <2>3, <3>2, <4>1
    <3> QED
      BY <1>11, <3>1, <3>2, <3>3, Division
  <2>4. \A n \in 0..Width : u[n] \in Nat
    BY <1>0, <2>2, <2>3, Stays
  <2> SUFFICES ASSUME NEW n \in 0..Width PROVE p[n] \in Nat
    OBVIOUS
  <2>5. Width - n \in 0..Width /\ Width - (Width - n) = n
    BY <1>0
  <2> QED
    BY <2>1, <2>4, <2>5
<1> QED
  BY <1>8, <1>9, <1>10, <1>11, <1>12

-----------------------------------------------------------------------------
(* Arithmetic modulo Base^Width                                            *)

\* The base has a predecessor.
LEMMA BaseFacts == \E b \in Nat : Base = b + 1
<1>1. Base - 1 \in Nat /\ Base = (Base - 1) + 1
  BY RadixAssumption
<1> QED
  BY <1>1

\* Facts about products that the steps below need.
LEMMA Distributes ==
  ASSUME NEW x \in Nat, NEW y \in Nat, NEW z \in Nat
  PROVE  (x + y) * z = x * z + y * z /\ x * z \in Nat /\ (x * y) * z = (x * z) * y
OBVIOUS

\* The remainder is the only number below the modulus that differs from x by a
\* multiple of it.
LEMMA Remainder ==
  ASSUME NEW M \in Nat, NEW r \in Nat, NEW k \in Nat, NEW x \in Nat, r < M, x = r + M * k
  PROVE  x % M = r /\ x \div M = k
<1>1. PICK q \in Nat, t \in Nat : q = x \div M /\ t = x % M /\ x = q * M + t /\ t < M
  OBVIOUS
<1>2. q * M + t = r + M * k
  BY <1>1
<1>3. q = k
  <2>1. CASE q < k
    <3>1. PICK d \in Nat : k = q + d /\ d >= 1
      BY <2>1
    <3>2. M * k = M * q + M * d /\ M * d >= M /\ q * M = M * q
      BY <3>1
    <3> QED
      BY <1>1, <1>2, <3>2
  <2>2. CASE q > k
    <3>1. PICK d \in Nat : q = k + d /\ d >= 1
      BY <2>2
    <3>2. q * M = k * M + d * M /\ d * M >= M /\ M * k = k * M
      BY <3>1
    <3> QED
      BY <1>1, <1>2, <3>2
  <2> QED
    BY <2>1, <2>2
<1> QED
  BY <1>1, <1>2, <1>3

\* The digits of a word stay below their place.
LEMMA PrefixBound ==
  ASSUME NEW a \in Word
  PROVE  \A i \in 0..Width : Prefix(a)[i] < Place[i]
<1>0. Width \in Nat /\ Base \in Nat /\ a \in Columns
      /\ \A i \in 1..Width : a[i] \in Nat /\ a[i] < Base
  BY RadixAssumption, WordFacts
<1>1. PICK T : T = {i \in 0..Width : Prefix(a)[i] < Place[i]}
  OBVIOUS
<1>2. 0 \in T
  BY <1>0, <1>1, PrefixFacts, PlaceFacts
<1>3. ASSUME NEW i \in Nat, i < Width, i \in T PROVE i + 1 \in T
  <2>1. i + 1 \in 1..Width /\ i \in 0..Width
    BY <1>0, <1>3
  <2>2. PICK x \in Nat, y \in Nat, d \in Nat : x = Prefix(a)[i] /\ y = Place[i] /\ d = a[i + 1]
    BY <1>0, <2>1, PrefixFacts, PlaceFacts
  <2>3. Prefix(a)[i + 1] = x * Base + d /\ Place[i + 1] = y * Base
    BY <1>0, <1>3, <2>2, PrefixFacts, PlaceFacts
  <2>4. x < y /\ d < Base
    BY <1>0, <1>1, <1>3, <2>1, <2>2
  <2>5. x * Base + d < y * Base
    <3>1. PICK e \in Nat : y = x + 1 + e
      BY <2>4
    <3>2. y * Base = x * Base + Base + e * Base /\ e * Base \in Nat
      BY <1>0, <3>1
    <3> QED
      BY <1>0, <2>4, <3>2
  <2> QED
    BY <1>1, <2>1, <2>3, <2>5
<1>4. \A i \in 0..Width : i \in T
  BY <1>0, <1>2, <1>3, UpTo
<1> QED
  BY <1>1, <1>4

\* A word stands for a number below the modulus.
LEMMA ValueFacts ==
  ASSUME NEW a \in Word
  PROVE  Value(a) \in Nat /\ Modulus \in Nat /\ Value(a) < Modulus
<1>1. Width \in 0..Width /\ a \in Columns
  BY RadixAssumption, WordFacts
<1>2. Prefix(a)[Width] \in Nat /\ Place[Width] \in Nat
  BY <1>1, PrefixFacts, PlaceFacts
<1> QED
  BY <1>1, <1>2, PrefixBound DEF Value, Modulus

\* The loop keeps the number, but for what it carries out of the first column.
LEMMA CarriedFacts ==
  ASSUME NEW c \in Columns
  PROVE  /\ Carried(c) \in Word /\ Value(c) \in Nat /\ Carry(c)[0] \in Nat
         /\ Value(c) = Value(Carried(c)) + Modulus * Carry(c)[0]
<1>0. Width \in Nat /\ Base \in Nat /\ \A i \in 1..Width : c[i] \in Nat
  BY RadixAssumption DEF Columns
<1>1. PICK k : k = Carry(c)
  OBVIOUS
<1>2. /\ k \in [0..Width -> Nat] /\ k[Width] = 0
      /\ \A i \in Nat : i < Width => k[i] = (c[i + 1] + k[i + 1]) \div Base
  BY <1>1, CarryFacts
<1>3. PICK r : r = Carried(c)
  OBVIOUS
<1>4. r = [i \in 1..Width |-> (c[i] + k[i]) % Base]
  BY <1>1, <1>3 DEF Carried
<1>5. \A i \in 1..Width : (c[i] + k[i]) % Base \in Digit
  <2> SUFFICES ASSUME NEW i \in 1..Width PROVE (c[i] + k[i]) % Base \in Digit
    OBVIOUS
  <2>1. c[i] + k[i] \in Nat
    BY <1>0, <1>2
  <2> QED
    BY <2>1, Division
<1>6. r \in Word /\ \A i \in 1..Width : r[i] = (c[i] + k[i]) % Base
  BY <1>4, <1>5 DEF Word
<1>7. r \in Columns /\ \A i \in 1..Width : r[i] \in Nat
  BY <1>6, WordFacts
<1>8. PICK v, w : v = Prefix(c) /\ w = Prefix(r)
  OBVIOUS
<1>9. /\ v \in [0..Width -> Nat] /\ v[0] = 0
      /\ \A i \in Nat : i < Width => v[i + 1] = v[i] * Base + c[i + 1]
  BY <1>8, PrefixFacts
<1>10. /\ w \in [0..Width -> Nat] /\ w[0] = 0
       /\ \A i \in Nat : i < Width => w[i + 1] = w[i] * Base + r[i + 1]
  BY <1>7, <1>8, PrefixFacts
<1>11. PICK T : T = {i \in 0..Width : v[i] + k[i] = w[i] + Place[i] * k[0]}
  OBVIOUS
<1>12. 0 \in T
  <2>1. k[0] \in Nat
    BY <1>0, <1>2
  <2>2. Place[0] = 1
    BY PlaceFacts
  <2> QED
    BY <1>0, <1>9, <1>10, <1>11, <2>1, <2>2
<1>13. ASSUME NEW i \in Nat, i < Width, i \in T PROVE i + 1 \in T
  <2>1. i + 1 \in 1..Width /\ i + 1 \in 0..Width /\ i \in 0..Width /\ 0 \in 0..Width
    BY <1>0, <1>13
  <2>2. PICK vi \in Nat, wi \in Nat, ki \in Nat, kj \in Nat, o \in Nat, d \in Nat, e \in Nat, P \in Nat :
          /\ vi = v[i] /\ wi = w[i] /\ ki = k[i] /\ kj = k[i + 1] /\ o = k[0]
          /\ d = c[i + 1] /\ e = r[i + 1] /\ P = Place[i]
    BY <1>0, <1>2, <1>7, <1>9, <1>10, <2>1, PlaceFacts
  <2>3. vi + ki = wi + P * o
    BY <1>11, <1>13, <2>2
  <2>4. v[i + 1] = vi * Base + d /\ w[i + 1] = wi * Base + e /\ Place[i + 1] = P * Base
    BY <1>9, <1>10, <1>13, <2>2, PlaceFacts
  <2>5. d + kj = ki * Base + e
    <3>1. PICK x \in Nat : x = d + kj
      OBVIOUS
    <3>2. ki = x \div Base /\ e = x % Base
      BY <1>2, <1>6, <1>13, <2>1, <2>2, <3>1
    <3>3. x = (x \div Base) * Base + (x % Base)
      BY Division
    <3> QED
      BY <3>1, <3>2, <3>3
  <2>6. (vi * Base + d) + kj = (wi * Base + e) + (P * Base) * o
    <3>1. (vi + ki) * Base = vi * Base + ki * Base
      BY <1>0, Distributes
    <3>2. PICK Po \in Nat : Po = P * o
      BY <1>0
    <3>3. (wi + Po) * Base = wi * Base + Po * Base
      BY <1>0, Distributes
    <3>4. (P * Base) * o = Po * Base
      BY <1>0, <3>2, Distributes
    <3>5. PICK A \in Nat, B \in Nat, C \in Nat, D \in Nat :
            A = vi * Base /\ B = ki * Base /\ C = wi * Base /\ D = Po * Base
      BY <1>0
    <3>6. A + B = C + D
      BY <2>3, <3>1, <3>2, <3>3, <3>5
    <3>7. (A + d) + kj = (C + e) + D
      BY <2>5, <3>5, <3>6
    <3> QED
      BY <3>4, <3>5, <3>7
  <2> QED
    BY <1>11, <2>1, <2>2, <2>4, <2>6
<1>14. Width \in T
  <2>1. \A i \in 0..Width : i \in T
    BY <1>0, <1>12, <1>13, UpTo
  <2> QED
    BY <1>0, <2>1
<1>15. v[Width] \in Nat /\ k[0] \in Nat
  BY <1>0, <1>2, <1>9
<1> QED
  BY <1>1, <1>2, <1>3, <1>6, <1>8, <1>11, <1>14, <1>15 DEF Value, Modulus

\* The column sums stand for the sum.
LEMMA SumsFacts ==
  ASSUME NEW a \in Word, NEW b \in Word
  PROVE  Sums(a, b) \in Columns /\ Value(Sums(a, b)) = Value(a) + Value(b)
<1>0. /\ Width \in Nat /\ Base \in Nat /\ a \in Columns /\ b \in Columns
      /\ \A i \in 1..Width : a[i] \in Nat /\ b[i] \in Nat
  BY RadixAssumption, WordFacts
<1>1. PICK c : c = Sums(a, b)
  OBVIOUS
<1>2. c \in Columns /\ \A i \in 1..Width : c[i] = a[i] + b[i]
  BY <1>0, <1>1 DEF Sums, Columns
<1>3. PICK x, y, z : x = Prefix(a) /\ y = Prefix(b) /\ z = Prefix(c)
  OBVIOUS
<1>4. /\ x \in [0..Width -> Nat] /\ x[0] = 0
      /\ \A i \in Nat : i < Width => x[i + 1] = x[i] * Base + a[i + 1]
  BY <1>0, <1>3, PrefixFacts
<1>5. /\ y \in [0..Width -> Nat] /\ y[0] = 0
      /\ \A i \in Nat : i < Width => y[i + 1] = y[i] * Base + b[i + 1]
  BY <1>0, <1>3, PrefixFacts
<1>6. /\ z \in [0..Width -> Nat] /\ z[0] = 0
      /\ \A i \in Nat : i < Width => z[i + 1] = z[i] * Base + c[i + 1]
  BY <1>2, <1>3, PrefixFacts
<1>7. PICK T : T = {i \in 0..Width : z[i] = x[i] + y[i]}
  OBVIOUS
<1>8. 0 \in T
  BY <1>0, <1>4, <1>5, <1>6, <1>7
<1>9. ASSUME NEW i \in Nat, i < Width, i \in T PROVE i + 1 \in T
  <2>1. i + 1 \in 1..Width /\ i + 1 \in 0..Width /\ i \in 0..Width
    BY <1>0, <1>9
  <2>2. PICK xi \in Nat, yi \in Nat, d \in Nat, e \in Nat :
          xi = x[i] /\ yi = y[i] /\ d = a[i + 1] /\ e = b[i + 1]
    BY <1>0, <1>4, <1>5, <2>1
  <2>3. z[i] = xi + yi /\ c[i + 1] = d + e
    BY <1>2, <1>7, <1>9, <2>1, <2>2
  <2>4. x[i + 1] = xi * Base + d /\ y[i + 1] = yi * Base + e
        /\ z[i + 1] = (xi + yi) * Base + (d + e)
    BY <1>4, <1>5, <1>6, <1>9, <2>2, <2>3
  <2>5. (xi + yi) * Base + (d + e) = (xi * Base + d) + (yi * Base + e)
    <3>1. (xi + yi) * Base = xi * Base + yi * Base
      BY <1>0, Distributes
    <3>2. PICK A \in Nat, B \in Nat : A = xi * Base /\ B = yi * Base
      BY <1>0
    <3> QED
      BY <3>1, <3>2
  <2> QED
    BY <1>7, <2>1, <2>4, <2>5
<1>10. Width \in T
  <2>1. \A i \in 0..Width : i \in T
    BY <1>0, <1>8, <1>9, UpTo
  <2> QED
    BY <1>0, <2>1
<1> QED
  BY <1>1, <1>2, <1>3, <1>7, <1>10 DEF Value

\* The column products stand for the product.
LEMMA ProductsFacts ==
  ASSUME NEW a \in Word, NEW m \in Nat
  PROVE  Products(a, m) \in Columns /\ Value(Products(a, m)) = Value(a) * m
<1>0. /\ Width \in Nat /\ Base \in Nat /\ a \in Columns
      /\ \A i \in 1..Width : a[i] \in Nat
  BY RadixAssumption, WordFacts
<1>1. PICK c : c = Products(a, m)
  OBVIOUS
<1>2. c \in Columns /\ \A i \in 1..Width : c[i] = a[i] * m
  <2>1. \A i \in 1..Width : a[i] * m \in Nat
    BY <1>0
  <2> QED
    BY <1>1, <2>1 DEF Products, Columns
<1>3. PICK x, z : x = Prefix(a) /\ z = Prefix(c)
  OBVIOUS
<1>4. /\ x \in [0..Width -> Nat] /\ x[0] = 0
      /\ \A i \in Nat : i < Width => x[i + 1] = x[i] * Base + a[i + 1]
  BY <1>0, <1>3, PrefixFacts
<1>5. /\ z \in [0..Width -> Nat] /\ z[0] = 0
      /\ \A i \in Nat : i < Width => z[i + 1] = z[i] * Base + c[i + 1]
  BY <1>2, <1>3, PrefixFacts
<1>6. PICK T : T = {i \in 0..Width : z[i] = x[i] * m}
  OBVIOUS
<1>7. 0 \in T
  BY <1>0, <1>4, <1>5, <1>6
<1>8. ASSUME NEW i \in Nat, i < Width, i \in T PROVE i + 1 \in T
  <2>1. i + 1 \in 1..Width /\ i + 1 \in 0..Width /\ i \in 0..Width
    BY <1>0, <1>8
  <2>2. PICK xi \in Nat, d \in Nat : xi = x[i] /\ d = a[i + 1]
    BY <1>0, <1>4, <2>1
  <2>3. z[i] = xi * m /\ c[i + 1] = d * m
    BY <1>2, <1>6, <1>8, <2>1, <2>2
  <2>4. x[i + 1] = xi * Base + d /\ z[i + 1] = (xi * m) * Base + d * m
    BY <1>4, <1>5, <1>8, <2>2, <2>3
  <2>5. (xi * m) * Base + d * m = (xi * Base + d) * m
    <3>1. PICK A \in Nat : A = xi * Base
      BY <1>0
    <3>2. (A + d) * m = A * m + d * m
      BY Distributes
    <3>3. (xi * m) * Base = A * m
      BY <1>0, <3>1, Distributes
    <3> QED
      BY <3>1, <3>2, <3>3
  <2> QED
    BY <1>6, <2>1, <2>4, <2>5
<1>9. Width \in T
  <2>1. \A i \in 0..Width : i \in T
    BY <1>0, <1>7, <1>8, UpTo
  <2> QED
    BY <1>0, <2>1
<1> QED
  BY <1>1, <1>2, <1>3, <1>6, <1>9 DEF Value

\* u256_add (src/evm.rs) is addition modulo 2^256, for words of any width and
\* base.
THEOREM AddTheorem ==
  ASSUME NEW a \in Word, NEW b \in Word
  PROVE  /\ U256Add(a, b) \in Word
         /\ Value(U256Add(a, b)) = (Value(a) + Value(b)) % Modulus
<1>1. PICK c \in Columns : c = Sums(a, b) /\ Value(c) = Value(a) + Value(b)
  BY SumsFacts
<1>2. PICK r \in Word : r = Carried(c)
  BY CarriedFacts
<1>3. Carry(c)[0] \in Nat /\ Value(c) \in Nat /\ Value(c) = Value(r) + Modulus * Carry(c)[0]
  BY <1>2, CarriedFacts
<1>4. Value(r) \in Nat /\ Modulus \in Nat /\ Value(r) < Modulus
  BY ValueFacts
<1>5. Value(c) % Modulus = Value(r)
  BY <1>3, <1>4, Remainder
<1> QED
  BY <1>1, <1>2, <1>5 DEF U256Add

\* u256_mul_u64 (src/evm.rs) is multiplication modulo 2^256, for words of any
\* width and base and any multiplier.
THEOREM MulTheorem ==
  ASSUME NEW a \in Word, NEW m \in Nat
  PROVE  /\ U256Mul(a, m) \in Word
         /\ Value(U256Mul(a, m)) = (Value(a) * m) % Modulus
<1>1. PICK c \in Columns : c = Products(a, m) /\ Value(c) = Value(a) * m
  BY ProductsFacts
<1>2. PICK r \in Word : r = Carried(c)
  BY CarriedFacts
<1>3. Carry(c)[0] \in Nat /\ Value(c) \in Nat /\ Value(c) = Value(r) + Modulus * Carry(c)[0]
  BY <1>2, CarriedFacts
<1>4. Value(r) \in Nat /\ Modulus \in Nat /\ Value(r) < Modulus
  BY ValueFacts
<1>5. Value(c) % Modulus = Value(r)
  BY <1>3, <1>4, Remainder
<1> QED
  BY <1>1, <1>2, <1>5 DEF U256Mul

\* Columns that m numbers of one digit may add up to pass on less than m.
LEMMA CarryBound ==
  ASSUME NEW m \in Nat \ {0}, NEW c \in Columns, \A i \in 1..Width : c[i] <= (Base - 1) * m
  PROVE  \A i \in 0..Width : Carry(c)[i] < m
<1>0. Width \in Nat /\ Base \in Nat \ {0} /\ \A i \in 1..Width : c[i] \in Nat
  BY RadixAssumption DEF Columns
<1>1. PICK k : k = Carry(c)
  OBVIOUS
<1>2. /\ k \in [0..Width -> Nat] /\ k[Width] = 0
      /\ \A i \in Nat : i < Width => k[i] = (c[i + 1] + k[i + 1]) \div Base
  BY <1>1, CarryFacts
<1>3. PICK T : T = {n \in 0..Width : k[Width - n] < m}
  OBVIOUS
<1>4. 0 \in T
  BY <1>0, <1>2, <1>3
<1>5. ASSUME NEW n \in Nat, n < Width, n \in T PROVE n + 1 \in T
  <2>1. PICK i \in Nat : i = Width - (n + 1) /\ i + 1 = Width - n /\ i < Width
    BY <1>0, <1>5
  <2>2. i + 1 \in 1..Width /\ i + 1 \in 0..Width /\ i \in 0..Width
    BY <1>0, <2>1
  <2>3. PICK d \in Nat, e \in Nat, q \in Nat : d = c[i + 1] /\ e = k[i + 1] /\ q = k[i]
    BY <1>0, <1>2, <2>2
  <2>4. PICK x \in Nat : x = d + e
    OBVIOUS
  <2>5. q = x \div Base /\ d <= (Base - 1) * m /\ e < m
    BY <1>2, <1>3, <1>5, <2>1, <2>2, <2>3, <2>4
  <2>6. PICK r \in Nat : x = q * Base + r
    <3>1. x % Base \in Nat /\ x = (x \div Base) * Base + (x % Base)
      BY <1>0, Division DEF Digit
    <3> QED
      BY <2>5, <3>1
  <2>7. x < Base * m
    <3>1. PICK b \in Nat : Base = b + 1
      BY BaseFacts
    <3>2. Base * m = b * m + m /\ (Base - 1) * m = b * m /\ b * m \in Nat
      BY <3>1
    <3> QED
      BY <2>4, <2>5, <3>2
  <2>8. q < m
    <3> SUFFICES ASSUME m <= q PROVE FALSE
      OBVIOUS
    <3>1. PICK f \in Nat : q = m + f
      OBVIOUS
    <3>2. q * Base = Base * m + f * Base /\ f * Base \in Nat
      BY <1>0, <3>1
    <3>3. PICK A \in Nat, B \in Nat : A = Base * m /\ B = f * Base
      BY <1>0, <3>2
    <3> QED
      BY <2>6, <2>7, <3>2, <3>3
  <2> QED
    BY <1>0, <1>3, <1>5, <2>1, <2>3, <2>8
<1>6. \A n \in 0..Width : n \in T
  BY <1>0, <1>4, <1>5, UpTo
<1> SUFFICES ASSUME NEW i \in 0..Width PROVE k[i] < m
  BY <1>1
<1>7. Width - i \in 0..Width /\ Width - (Width - i) = i
  BY <1>0
<1> QED
  BY <1>3, <1>6, <1>7

\* The machine integers of the loops never overflow: what u256_add adds up in a
\* column is below twice the base (512, in a u16), and what u256_mul_u64 does is
\* below the base times the multiplier (2^72, in a u128).
THEOREM FitsTheorem ==
  /\ \A a, b \in Word : \A i \in 1..Width :
       Sums(a, b)[i] + Carry(Sums(a, b))[i] < 2 * Base
  /\ \A a \in Word : \A m \in Nat \ {0} : \A i \in 1..Width :
       Products(a, m)[i] + Carry(Products(a, m))[i] < Base * m
<1>0. Width \in Nat /\ Base \in Nat \ {0}
  BY RadixAssumption
<1>1. ASSUME NEW m \in Nat \ {0}, NEW c \in Columns, NEW i \in 1..Width,
             \A j \in 1..Width : c[j] <= (Base - 1) * m
      PROVE  c[i] + Carry(c)[i] < Base * m
  <2>1. PICK d \in Nat, e \in Nat : d = c[i] /\ e = Carry(c)[i]
    BY <1>0, CarryFacts DEF Columns
  <2>2. d <= (Base - 1) * m /\ e < m
    <3>1. i \in 0..Width
      BY <1>0
    <3> QED
      BY <1>1, <2>1, <3>1, CarryBound
  <2>3. PICK b \in Nat : Base = b + 1
    BY BaseFacts
  <2>4. Base * m = b * m + m /\ (Base - 1) * m = b * m /\ b * m \in Nat
    BY <2>3
  <2> QED
    BY <2>1, <2>2, <2>4
<1>2. ASSUME NEW a \in Word, NEW b \in Word, NEW i \in 1..Width
      PROVE  Sums(a, b)[i] + Carry(Sums(a, b))[i] < 2 * Base
  <2>1. PICK c \in Columns : c = Sums(a, b)
    BY SumsFacts
  <2>2. \A j \in 1..Width : c[j] <= (Base - 1) * 2
    <3> SUFFICES ASSUME NEW j \in 1..Width PROVE c[j] <= (Base - 1) * 2
      OBVIOUS
    <3>1. a[j] \in Nat /\ a[j] < Base /\ b[j] \in Nat /\ b[j] < Base
      BY WordFacts
    <3>2. c[j] = a[j] + b[j]
      BY <2>1 DEF Sums
    <3> QED
      BY <1>0, <3>1, <3>2
  <2>3. c[i] + Carry(c)[i] < Base * 2
    BY <1>1, <2>2
  <2>4. Base * 2 = 2 * Base
    BY <1>0
  <2> QED
    BY <2>1, <2>3, <2>4
<1>3. ASSUME NEW a \in Word, NEW m \in Nat \ {0}, NEW i \in 1..Width
      PROVE  Products(a, m)[i] + Carry(Products(a, m))[i] < Base * m
  <2>1. PICK c \in Columns : c = Products(a, m)
    BY ProductsFacts
  <2>2. \A j \in 1..Width : c[j] <= (Base - 1) * m
    <3> SUFFICES ASSUME NEW j \in 1..Width PROVE c[j] <= (Base - 1) * m
      OBVIOUS
    <3>1. PICK d \in Nat, e \in Nat : d = a[j] /\ Base = d + 1 + e
      <4>1. a[j] \in Nat /\ a[j] < Base
        BY WordFacts
      <4>2. Base - a[j] - 1 \in Nat /\ Base = a[j] + 1 + (Base - a[j] - 1)
        BY <1>0, <4>1
      <4> QED
        BY <4>1, <4>2
    <3>2. c[j] = d * m
      BY <2>1, <3>1 DEF Products
    <3>3. (Base - 1) * m = d * m + e * m /\ d * m \in Nat /\ e * m \in Nat
      <4>1. Base - 1 = d + e
        BY <3>1
      <4>2. (d + e) * m = d * m + e * m
        BY Distributes
      <4> QED
        BY <4>1, <4>2, Distributes
    <3> QED
      BY <3>2, <3>3
  <2> QED
    BY <1>1, <2>1, <2>2
<1> QED
  BY <1>2, <1>3

-----------------------------------------------------------------------------
(* Order and representation                                                *)

\* Of two different words one is less.
LEMMA Trichotomy ==
  ASSUME NEW a \in Word, NEW b \in Word, a # b
  PROVE  U256Less(a, b) \/ U256Less(b, a)
<1>0. Width \in Nat /\ \A i \in 1..Width : a[i] \in Nat /\ b[i] \in Nat
  BY RadixAssumption, WordFacts
<1>1. PICK S : S = {i \in Nat : i \in 1..Width /\ a[i] # b[i]}
  OBVIOUS
<1>2. S \in SUBSET Nat /\ S # {}
  <2>1. \E i \in 1..Width : a[i] # b[i]
    <3> SUFFICES ASSUME \A i \in 1..Width : a[i] = b[i] PROVE a = b
      OBVIOUS
    <3>1. a = [i \in 1..Width |-> a[i]] /\ b = [i \in 1..Width |-> b[i]]
      BY DEF Word
    <3> QED
      BY <3>1
  <2>2. \A i \in 1..Width : i \in Nat
    BY <1>0
  <2> QED
    BY <1>1, <2>1, <2>2
<1>3. PICK i \in S : \A j \in S : i <= j
  BY <1>2, Least
<1>4. i \in 1..Width /\ a[i] # b[i]
  BY <1>1
<1>5. ASSUME NEW j \in 1..(i - 1) PROVE a[j] = b[j]
  <2>1. j \in 1..Width /\ j \in Nat /\ ~(i <= j)
    BY <1>0, <1>4
  <2> QED
    BY <1>1, <1>3, <2>1
<1>6. a[i] < b[i] \/ b[i] < a[i]
  BY <1>0, <1>4
<1> QED
  BY <1>4, <1>5, <1>6 DEF U256Less

\* A word that is less stands for a smaller number.
LEMMA LessIsSmaller ==
  ASSUME NEW a \in Word, NEW b \in Word, U256Less(a, b)
  PROVE  Value(a) < Value(b)
<1>0. /\ Width \in Nat /\ Base \in Nat /\ a \in Columns /\ b \in Columns
      /\ \A i \in 1..Width : a[i] \in Nat /\ b[i] \in Nat /\ a[i] < Base
  BY RadixAssumption, WordFacts
<1>1. PICK n \in 1..Width : a[n] < b[n] /\ \A j \in 1..(n - 1) : a[j] = b[j]
  BY DEF U256Less
<1>2. PICK x, y : x = Prefix(a) /\ y = Prefix(b)
  OBVIOUS
<1>3. /\ x \in [0..Width -> Nat] /\ x[0] = 0
      /\ \A i \in Nat : i < Width => x[i + 1] = x[i] * Base + a[i + 1]
  BY <1>0, <1>2, PrefixFacts
<1>4. /\ y \in [0..Width -> Nat] /\ y[0] = 0
      /\ \A i \in Nat : i < Width => y[i + 1] = y[i] * Base + b[i + 1]
  BY <1>0, <1>2, PrefixFacts
<1>5. PICK T : T = {i \in 0..Width : /\ i < n => x[i] = y[i]
                                     /\ i >= n => x[i] < y[i]}
  OBVIOUS
<1>6. 0 \in T
  BY <1>0, <1>1, <1>3, <1>4, <1>5
<1>7. ASSUME NEW i \in Nat, i < Width, i \in T PROVE i + 1 \in T
  <2>1. i + 1 \in 1..Width /\ i + 1 \in 0..Width /\ i \in 0..Width
    BY <1>0, <1>7
  <2>2. PICK xi \in Nat, yi \in Nat, d \in Nat, e \in Nat :
          xi = x[i] /\ yi = y[i] /\ d = a[i + 1] /\ e = b[i + 1]
    BY <1>0, <1>3, <1>4, <2>1
  <2>3. x[i + 1] = xi * Base + d /\ y[i + 1] = yi * Base + e /\ d < Base
    BY <1>0, <1>3, <1>4, <1>7, <2>1, <2>2
  <2>4. CASE i + 1 < n
    <3>1. i < n /\ i + 1 \in 1..(n - 1) /\ ~(i + 1 >= n)
      BY <2>4
    <3>2. xi = yi /\ d = e
      BY <1>1, <1>5, <1>7, <2>2, <3>1
    <3> QED
      BY <1>5, <2>1, <2>3, <3>1, <3>2
  <2>5. CASE i + 1 = n
    <3>1. i < n
      BY <2>5
    <3>2. xi = yi /\ d < e
      BY <1>1, <1>5, <1>7, <2>2, <2>5, <3>1
    <3>3. PICK A \in Nat : A = xi * Base
      BY <1>0
    <3>4. x[i + 1] < y[i + 1]
      BY <2>3, <3>2, <3>3
    <3> QED
      BY <1>5, <2>1, <2>5, <3>4
  <2>6. CASE i >= n
    <3>1. xi < yi
      BY <1>5, <1>7, <2>2, <2>6
    <3>2. PICK f \in Nat : yi = xi + 1 + f
      BY <3>1
    <3>3. yi * Base = xi * Base + Base + f * Base
      BY <1>0, <3>2
    <3>4. PICK A \in Nat, B \in Nat : A = xi * Base /\ B = f * Base
      BY <1>0
    <3>5. xi * Base + d < yi * Base + e
      BY <1>0, <2>3, <3>3, <3>4
    <3>6. ~(i + 1 < n) /\ i + 1 >= n
      BY <2>6
    <3> QED
      BY <1>5, <2>1, <2>3, <3>5, <3>6
  <2> QED
    BY <2>4, <2>5, <2>6
<1>8. Width \in T
  <2>1. \A i \in 0..Width : i \in T
    BY <1>0, <1>6, <1>7, UpTo
  <2> QED
    BY <1>0, <2>1
<1>9. Width >= n
  BY <1>0
<1> QED
  BY <1>2, <1>5, <1>8, <1>9 DEF Value

\* u256_cmp (src/evm.rs) compares numbers: the lexicographic order of the bytes
\* is the order of the values, and words of equal value are equal.
THEOREM CompareTheorem ==
  ASSUME NEW a \in Word, NEW b \in Word
  PROVE  /\ U256Less(a, b) <=> Value(a) < Value(b)
         /\ a = b <=> Value(a) = Value(b)
<1>1. Value(a) \in Nat /\ Value(b) \in Nat
  BY ValueFacts
<1>2. U256Less(a, b) => Value(a) < Value(b)
  BY LessIsSmaller
<1>3. U256Less(b, a) => Value(b) < Value(a)
  BY LessIsSmaller
<1>4. a = b \/ U256Less(a, b) \/ U256Less(b, a)
  BY Trichotomy
<1> QED
  BY <1>1, <1>2, <1>3, <1>4

\* A second division divides by the product.
LEMMA DivideTwice ==
  ASSUME NEW n \in Nat, NEW P \in Nat \ {0}
  PROVE  n \div (P * Base) = (n \div P) \div Base
<1>0. Base \in Nat \ {0}
  BY RadixAssumption
<1>1. PICK x \in Nat, r \in Nat : x = n \div P /\ n = x * P + r /\ r < P
  <2>1. n \div P \in Nat /\ n % P \in Nat /\ n % P < P
    OBVIOUS
  <2>2. n = (n \div P) * P + (n % P)
    OBVIOUS
  <2> QED
    BY <2>1, <2>2
<1>2. PICK y \in Nat, t \in Nat : y = x \div Base /\ x = y * Base + t /\ t < Base
  <2>1. x \div Base \in Nat /\ x % Base \in Nat /\ x % Base < Base
    BY <1>0
  <2>2. x = (x \div Base) * Base + (x % Base)
    BY Division
  <2> QED
    BY <2>1, <2>2
<1>3. PICK M \in Nat : M = P * Base
  BY <1>0
<1>4. PICK u \in Nat : u = t * P + r
  OBVIOUS
<1>5. n = u + M * y
  <2>1. PICK A \in Nat : A = y * Base
    BY <1>0
  <2>2. (A + t) * P = A * P + t * P
    BY Distributes
  <2>3. A * P = M * y
    BY <1>0, <1>3, <2>1
  <2>4. PICK B \in Nat, C \in Nat : B = M * y /\ C = t * P
    OBVIOUS
  <2>5. n = (A + t) * P + r
    BY <1>1, <1>2, <2>1
  <2>6. n = (B + C) + r /\ u = C + r
    BY <1>4, <2>2, <2>3, <2>4, <2>5
  <2> QED
    BY <2>4, <2>6
<1>6. u < M
  <2>1. PICK e \in Nat : Base = t + 1 + e
    <3>1. Base - t - 1 \in Nat /\ Base = t + 1 + (Base - t - 1)
      BY <1>0, <1>2
    <3> QED
      BY <3>1
  <2>2. M = t * P + P + e * P /\ e * P \in Nat /\ t * P \in Nat
    BY <1>3, <2>1
  <2> QED
    BY <1>1, <1>4, <2>2
<1>7. n \div M = y
  BY <1>5, <1>6, Remainder
<1> QED
  BY <1>1, <1>2, <1>3, <1>7

\* The weights are not zero.
LEMMA PlacePositive == \A i \in 0..Width : Place[i] \in Nat \ {0}
<1>0. Width \in Nat /\ Base \in Nat \ {0}
  BY RadixAssumption
<1>1. \A n \in Nat : n < Width /\ Place[n] \in Nat \ {0} => Place[n + 1] \in Nat \ {0}
  <2> SUFFICES ASSUME NEW n \in Nat, n < Width, Place[n] \in Nat \ {0}
               PROVE  Place[n + 1] \in Nat \ {0}
    OBVIOUS
  <2>1. PICK x \in Nat \ {0} : x = Place[n]
    OBVIOUS
  <2>2. Place[n + 1] = x * Base
    BY <2>1, PlaceFacts
  <2>3. x * Base \in Nat \ {0}
    BY <1>0
  <2> QED
    BY <2>2, <2>3
<1>2. Place[0] \in Nat \ {0}
  BY PlaceFacts
<1> QED
  BY <1>0, <1>1, <1>2, Stays

\* The word of a number stands for the number.
LEMMA NumberFacts ==
  ASSUME NEW n \in Nat, n < Modulus
  PROVE  Number(n) \in Word /\ Value(Number(n)) = n
<1>0. Width \in Nat /\ Base \in Nat
  BY RadixAssumption
<1>1. PICK w : w = Number(n)
  OBVIOUS
<1>2. \A i \in 1..Width : (n \div Place[Width - i]) % Base \in Digit
  <2> SUFFICES ASSUME NEW i \in 1..Width PROVE (n \div Place[Width - i]) % Base \in Digit
    OBVIOUS
  <2>1. Width - i \in 0..Width
    BY <1>0
  <2>2. PICK P \in Nat \ {0} : P = Place[Width - i]
    BY <2>1, PlacePositive
  <2>3. n \div P \in Nat
    OBVIOUS
  <2> QED
    BY <2>2, <2>3, Division
<1>3. w \in Word /\ \A i \in 1..Width : w[i] = (n \div Place[Width - i]) % Base
  BY <1>1, <1>2 DEF Number, Word
<1>4. w \in Columns
  BY <1>3, WordFacts
<1>5. PICK v : v = Prefix(w)
  OBVIOUS
<1>6. /\ v \in [0..Width -> Nat] /\ v[0] = 0
      /\ \A i \in Nat : i < Width => v[i + 1] = v[i] * Base + w[i + 1]
  BY <1>4, <1>5, PrefixFacts
<1>7. PICK T : T = {i \in 0..Width : v[i] = n \div Place[Width - i]}
  OBVIOUS
<1>8. 0 \in T
  <2>1. PICK M \in Nat \ {0} : M = Place[Width] /\ n < M
    <3>1. Width \in 0..Width
      BY <1>0
    <3> QED
      BY <3>1, PlacePositive DEF Modulus
  <2>2. n = n + M * 0
    BY <2>1
  <2>3. n \div M = 0
    BY <2>1, <2>2, Remainder
  <2>4. Width - 0 = Width
    BY <1>0
  <2> QED
    BY <1>0, <1>6, <1>7, <2>1, <2>3, <2>4
<1>9. ASSUME NEW i \in Nat, i < Width, i \in T PROVE i + 1 \in T
  <2>1. i + 1 \in 1..Width /\ i + 1 \in 0..Width /\ i \in 0..Width
    BY <1>0, <1>9
  <2>2. PICK j \in Nat : j = Width - (i + 1) /\ j + 1 = Width - i /\ j < Width /\ j \in 0..Width
    BY <1>0, <1>9
  <2>3. PICK P \in Nat \ {0} : P = Place[j]
    BY <2>2, PlacePositive
  <2>4. Place[j + 1] = P * Base
    BY <2>2, <2>3, PlaceFacts
  <2>5. PICK x \in Nat : x = n \div P
    OBVIOUS
  <2>6. v[i] = x \div Base
    <3>1. v[i] = n \div (P * Base)
      BY <1>7, <1>9, <2>2, <2>4
    <3> QED
      BY <2>5, <3>1, DivideTwice
  <2>7. w[i + 1] = x % Base
    BY <1>3, <2>1, <2>2, <2>3, <2>5
  <2>8. v[i + 1] = (x \div Base) * Base + (x % Base)
    BY <1>6, <1>9, <2>6, <2>7
  <2>9. v[i + 1] = x
    BY <2>8, Division
  <2> QED
    BY <1>7, <2>1, <2>2, <2>3, <2>5, <2>9
<1>10. Width \in T
  <2>1. \A i \in 0..Width : i \in T
    BY <1>0, <1>8, <1>9, UpTo
  <2> QED
    BY <1>0, <2>1
<1>11. v[Width] = n
  <2>1. Width - Width = 0 /\ Place[0] = 1
    BY <1>0, PlaceFacts
  <2>2. v[Width] = n \div 1
    BY <1>7, <1>10, <2>1
  <2> QED
    BY <2>2
<1> QED
  BY <1>1, <1>3, <1>5, <1>11 DEF Value

\* Zero stands for 0 and is neutral for u256_add.
LEMMA ZeroFacts ==
  /\ Zero \in Word /\ Value(Zero) = 0
  /\ \A a \in Word : U256Add(a, Zero) = a /\ U256Add(Zero, a) = a
<1>0. Width \in Nat /\ Base \in Nat \ {0}
  BY RadixAssumption
<1>1. Zero \in Word
  BY <1>0 DEF Zero, Word, Digit
<1>2. Value(Zero) = 0
  <2>1. PICK z : z = Zero
    OBVIOUS
  <2>2. z \in Columns /\ \A i \in 1..Width : z[i] = 0
    BY <1>1, <2>1, WordFacts DEF Zero
  <2>3. PICK v : v = Prefix(z)
    OBVIOUS
  <2>4. v[0] = 0 /\ \A i \in Nat : i < Width => v[i + 1] = v[i] * Base + z[i + 1]
    BY <2>2, <2>3, PrefixFacts
  <2>5. ASSUME NEW i \in Nat, i < Width, v[i] \in {0} PROVE v[i + 1] \in {0}
    <3>1. z[i + 1] = 0
      BY <1>0, <2>2, <2>5
    <3>2. v[i + 1] = 0 * Base + 0
      BY <2>4, <2>5, <3>1
    <3> QED
      BY <1>0, <3>2
  <2>6. v[0] \in {0}
    BY <2>4
  <2>7. \A i \in 0..Width : v[i] \in {0}
    <3>1. PICK S : S = {0}
      OBVIOUS
    <3>2. v[0] \in S /\ \A i \in Nat : i < Width /\ v[i] \in S => v[i + 1] \in S
      BY <2>5, <2>6, <3>1
    <3>3. \A i \in 0..Width : v[i] \in S
      BY <1>0, <3>2, Stays
    <3> QED
      BY <3>1, <3>3
  <2> QED
    BY <1>0, <2>1, <2>3, <2>7 DEF Value
<1>3. ASSUME NEW a \in Word PROVE U256Add(a, Zero) = a /\ U256Add(Zero, a) = a
  <2>1. Value(a) \in Nat /\ Modulus \in Nat /\ Value(a) < Modulus
    BY ValueFacts
  <2>2. Value(a) % Modulus = Value(a)
    <3>1. Value(a) = Value(a) + Modulus * 0
      BY <2>1
    <3>2. PICK z \in Nat : z = 0
      OBVIOUS
    <3> QED
      BY <2>1, <3>1, <3>2, Remainder
  <2>3. /\ U256Add(a, Zero) \in Word
        /\ Value(U256Add(a, Zero)) = (Value(a) + Value(Zero)) % Modulus
    BY <1>1, AddTheorem
  <2>4. /\ U256Add(Zero, a) \in Word
        /\ Value(U256Add(Zero, a)) = (Value(Zero) + Value(a)) % Modulus
    BY <1>1, AddTheorem
  <2>5. Value(a) + Value(Zero) = Value(a) /\ Value(Zero) + Value(a) = Value(a)
    BY <1>2, <2>1
  <2>6. Value(U256Add(a, Zero)) = Value(a) /\ Value(U256Add(Zero, a)) = Value(a)
    BY <2>2, <2>3, <2>4, <2>5
  <2> QED
    BY <2>3, <2>4, <2>6, CompareTheorem
<1> QED
  BY <1>1, <1>2, <1>3
=============================================================================
