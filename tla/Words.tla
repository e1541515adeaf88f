------------------------------- MODULE Words -------------------------------
(***************************************************************************)
(* The big-endian 256-bit arithmetic of src/evm.rs.  A word is a sequence  *)
(* of Width digits in base Base, most significant first (32 digits in base *)
(* 256 in the code).                                                       *)
(***************************************************************************)
EXTENDS Naturals

CONSTANTS Base, Width

ASSUME RadixAssumption == Base \in Nat \ {0, 1} /\ Width \in Nat \ {0}

Digit == 0..(Base - 1)
Word == [1..Width -> Digit]
Zero == [i \in 1..Width |-> 0]

\* The weight of the digit k places from the right, and what the words count
\* modulo.
Place[k \in 0..Width] == IF k = 0 THEN 1 ELSE Place[k - 1] * Base
Modulus == Place[Width]

\* The number that the first i digits (or columns) stand for, and the word of
\* a number.
Prefix(w) == LET v[i \in 0..Width] == IF i = 0 THEN 0 ELSE v[i - 1] * Base + w[i] IN v
Value(w) == Prefix(w)[Width]
Number(n) == [i \in 1..Width |-> (n \div Place[Width - i]) % Base]

\* The loop both operations run over their columns, from the least significant
\* end: carry[i] goes into column i, and carry[0] is what the loop drops.
Carry(columns) ==
  LET carry[i \in 0..Width] ==
        IF i = Width THEN 0 ELSE (columns[i + 1] + carry[i + 1]) \div Base
  IN carry
Carried(columns) ==
  LET carry == Carry(columns)
  IN [i \in 1..Width |-> (columns[i] + carry[i]) % Base]

Sums(a, b) == [i \in 1..Width |-> a[i] + b[i]]
U256AddNoCarry(a, b) == [i \in 1..Width |-> (a[i] + b[i]) % Base]
U256Add(a, b) == Carried(Sums(a, b))

Products(a, m) == [i \in 1..Width |-> a[i] * m]
U256MulUnitCarry(a, m) ==
  LET carry[i \in 1..Width] ==
        IF i = Width \/ a[i + 1] * m + carry[i + 1] < Base THEN 0 ELSE 1
  IN [i \in 1..Width |-> (a[i] * m + carry[i]) % Base]
U256Mul(a, m) == Carried(Products(a, m))

\* Lexicographic order of the digits.
U256Less(a, b) ==
  \E i \in 1..Width : a[i] < b[i] /\ \A j \in 1..(i - 1) : a[j] = b[j]
=============================================================================
