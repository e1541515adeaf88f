--------------------------- MODULE PaymentProofs ----------------------------
(***************************************************************************)
(* Safety of PaymentSplit for every group size, word size, set of replies  *)
(* and of foreign keys, and change to a quote on its way.                  *)
(***************************************************************************)
EXTENDS PaymentSplit, WordsProofs, FiniteSetTheorems, SequenceTheorems

-----------------------------------------------------------------------------
(* The signed bytes                                                        *)

\* Two concatenations that are equal, with first parts of equal length, have
\* equal parts.
LEMMA ConcatInjective ==
  ASSUME NEW S, NEW s \in Seq(S), NEW t \in Seq(S), NEW u \in Seq(S), NEW v \in Seq(S),
         Len(s) = Len(t), s \o u = t \o v
  PROVE  s = t /\ u = v
<1>1. PICK n \in Nat : n = Len(s) /\ n = Len(t)
  OBVIOUS
<1>2. PICK k \in Nat, m \in Nat : k = Len(u) /\ m = Len(v)
  OBVIOUS
<1>3. Len(s \o u) = n + k /\ Len(t \o v) = n + m
  BY <1>1, <1>2
<1>4. k = m
  BY <1>3
<1>5. ASSUME NEW i \in 1..n PROVE s[i] = t[i]
  <2>1. (s \o u)[i] = s[i] /\ (t \o v)[i] = t[i]
    BY <1>1, <1>2
  <2> QED
    BY <2>1
<1>6. ASSUME NEW i \in 1..k PROVE u[i] = v[i]
  <2>1. n + i \in 1..(n + k) /\ n + i > n /\ (n + i) - n = i
    OBVIOUS
  <2>2. (s \o u)[n + i] = u[(n + i) - n]
    BY <1>1, <1>2, <2>1
  <2>3. (t \o v)[n + i] = v[(n + i) - n]
    BY <1>1, <1>2, <1>4, <2>1
  <2> QED
    BY <2>1, <2>2, <2>3
<1>7. s = t
  BY <1>1, <1>5, SeqEqual
<1>8. u = v
  BY <1>2, <1>4, <1>6, SeqEqual
<1> QED
  BY <1>7, <1>8

\* The length of a concatenation.
LEMMA LenConcat ==
  ASSUME NEW S, NEW s \in Seq(S), NEW t \in Seq(S)
  PROVE  Len(s \o t) = Len(s) + Len(t)
OBVIOUS

\* The elements of a concatenation: its first part.
LEMMA ConcatFirst ==
  ASSUME NEW S, NEW s \in Seq(S), NEW t \in Seq(S)
  PROVE  \A i \in 1..Len(s) : (s \o t)[i] = s[i]
<1>1. PICK n \in Nat, k \in Nat : n = Len(s) /\ k = Len(t)
  OBVIOUS
<1>2. ASSUME NEW i \in 1..n PROVE (s \o t)[i] = s[i]
  BY <1>1
<1> QED
  BY <1>1, <1>2

\* The same for its second part.
LEMMA ConcatSecond ==
  ASSUME NEW S, NEW s \in Seq(S), NEW t \in Seq(S)
  PROVE  \A i \in 1..Len(t) : (s \o t)[Len(s) + i] = t[i]
<1>1. PICK n \in Nat, k \in Nat : n = Len(s) /\ k = Len(t)
  OBVIOUS
<1>2. ASSUME NEW i \in 1..k PROVE (s \o t)[n + i] = t[i]
  <2>1. n + i \in 1..(n + k) /\ n + i > n /\ (n + i) - n = i
    OBVIOUS
  <2>2. (s \o t)[n + i] = t[(n + i) - n]
    BY <1>1, <2>1
  <2> QED
    BY <2>1, <2>2
<1> QED
  BY <1>1, <1>2

\* Words, contents and addresses are strings of numbers of fixed length.
LEMMA StringFacts ==
  /\ \A a \in Content : a \in Seq(Nat) /\ Len(a) = HashLen
  /\ \A a \in EvmAddress : a \in Seq(Nat) /\ Len(a) = AddressLen
  /\ \A a \in Word : a \in Seq(Nat) /\ Len(a) = Width
<1>0. HashLen \in Nat /\ AddressLen \in Nat /\ Width \in Nat /\ Base \in Nat
  BY LengthsAssumption, RadixAssumption
<1>1. Digit \subseteq Nat
  BY <1>0 DEF Digit
<1>2. ASSUME NEW n \in Nat, NEW a \in [1..n -> Digit] PROVE a \in Seq(Nat) /\ Len(a) = n
  <2>1. a \in [1..n -> Nat]
    BY <1>1
  <2> QED
    BY <2>1
<1> QED
  BY <1>0, <1>2 DEF Content, EvmAddress, Word

\* The price with its least significant digit first.
LEMMA ReverseFacts ==
  ASSUME NEW a \in Word, NEW b \in Word
  PROVE  /\ Reverse(a) \in Seq(Nat) /\ Len(Reverse(a)) = Width
         /\ Reverse(a) = Reverse(b) => a = b
<1>0. Width \in Nat
  BY RadixAssumption
<1>1. a \in Seq(Nat) /\ Len(a) = Width /\ b \in Seq(Nat) /\ Len(b) = Width
  BY StringFacts
<1>2. /\ Reverse(a) = [i \in 1..Width |-> a[(Width - i) + 1]]
      /\ Reverse(b) = [i \in 1..Width |-> b[(Width - i) + 1]]
  BY <1>1 DEF Reverse
<1>3. \A i \in 1..Width : (Width - i) + 1 \in 1..Width /\ a[(Width - i) + 1] \in Nat
  BY <1>0, <1>1
<1>4. Reverse(a) \in Seq(Nat) /\ Len(Reverse(a)) = Width
  BY <1>0, <1>2, <1>3
<1>5. ASSUME Reverse(a) = Reverse(b), NEW i \in 1..Width PROVE a[i] = b[i]
  <2>1. PICK j \in 1..Width : j = (Width - i) + 1 /\ (Width - j) + 1 = i
    <3>1. (Width - i) + 1 \in 1..Width /\ (Width - ((Width - i) + 1)) + 1 = i
      BY <1>0
    <3> QED
      BY <3>1
  <2>2. Reverse(a)[j] = a[(Width - j) + 1] /\ Reverse(b)[j] = b[(Width - j) + 1]
    BY <1>2
  <2> QED
    BY <1>5, <2>1, <2>2
<1>6. Reverse(a) = Reverse(b) => a = b
  BY <1>1, <1>5, SeqEqual
<1> QED
  BY <1>4, <1>6

\* A single number.
LEMMA OneFacts ==
  ASSUME NEW x \in Nat, NEW y \in Nat
  PROVE  <<x>> \in Seq(Nat) /\ Len(<<x>>) = 1 /\ (<<x>> = <<y>> => x = y)
OBVIOUS

\* The pin behind its tag.
PinBytes(p) == IF p = NoPin THEN <<0>> ELSE <<1>> \o p

\* The tag tells a pin from none.
LEMMA PinFacts ==
  ASSUME NEW p \in Content \cup {NoPin}, NEW o \in Content \cup {NoPin}
  PROVE  /\ PinBytes(p) \in Seq(Nat)
         /\ PinBytes(p) = PinBytes(o) => p = o
<1>0. HashLen \in Nat \ {0}
  BY LengthsAssumption
<1>1. NoPin \notin Content /\ Content \subseteq Seq(Nat)
  <2>1. Len(NoPin) = 0
    BY DEF NoPin
  <2> QED
    BY <1>0, <2>1, StringFacts
<1>2. <<0>> \in Seq(Nat) /\ <<1>> \in Seq(Nat) /\ Len(<<0>>) = 1 /\ Len(<<1>>) = 1
      /\ <<0>>[1] = 0 /\ <<1>>[1] = 1
  OBVIOUS
<1>3. ASSUME NEW x \in Content
      PROVE  /\ PinBytes(x) = <<1>> \o x /\ PinBytes(x) \in Seq(Nat)
             /\ PinBytes(x) # <<0>>
  <2>1. PinBytes(x) = <<1>> \o x /\ x \in Seq(Nat)
    BY <1>1 DEF PinBytes
  <2>2. (<<1>> \o x) \in Seq(Nat) /\ (<<1>> \o x)[1] = 1
    BY <1>2, <2>1
  <2>3. (<<1>> \o x) # <<0>>
    <3>1. PICK y, z : y = <<1>> \o x /\ z = <<0>>
      OBVIOUS
    <3>2. y[1] = 1
      BY <2>2, <3>1
    <3>3. z[1] = 0
      BY <1>2, <3>1
    <3>4. y # z
      BY <3>2, <3>3
    <3> QED
      BY <3>1, <3>4
  <2> QED
    BY <2>1, <2>2, <2>3
<1>4. PinBytes(NoPin) = <<0>>
  BY DEF PinBytes
<1>5. CASE p = NoPin /\ o = NoPin
  BY <1>2, <1>4, <1>5
<1>6. CASE p = NoPin /\ o \in Content
  BY <1>2, <1>3, <1>4, <1>6
<1>7. CASE p \in Content /\ o = NoPin
  BY <1>2, <1>3, <1>4, <1>7
<1>8. CASE p \in Content /\ o \in Content
  <2>1. p \in Seq(Nat) /\ o \in Seq(Nat)
    BY <1>1, <1>8
  <2>2. <<1>> \o p = <<1>> \o o => p = o
    BY <1>2, <2>1, ConcatInjective
  <2> QED
    BY <1>3, <1>8, <2>2
<1> QED
  BY <1>5, <1>6, <1>7, <1>8

\* Strings of numbers, of the same length, one after the other.
Strings == Seq(Nat)
Same(a, b) == Len(a) = Len(b)
Cat(a, b) == a \o b

\* Equal concatenations have equal parts.
LEMMA Peel ==
  ASSUME NEW a \in Strings, NEW b \in Strings, NEW c \in Strings, NEW d \in Strings, Same(a, b)
  PROVE  /\ Cat(a, c) \in Strings /\ Cat(b, d) \in Strings
         /\ Same(c, d) => Same(Cat(a, c), Cat(b, d))
         /\ Cat(a, c) = Cat(b, d) => a = b /\ c = d
<1>1. Len(a) = Len(b) /\ a \in Seq(Nat) /\ b \in Seq(Nat) /\ c \in Seq(Nat) /\ d \in Seq(Nat)
  BY DEF Same, Strings
<1>2. a \o c \in Seq(Nat) /\ b \o d \in Seq(Nat)
  BY <1>1
<1>3. Len(c) = Len(d) => Len(a \o c) = Len(b \o d)
  <2>1. Len(a \o c) = Len(a) + Len(c) /\ Len(b \o d) = Len(b) + Len(d)
    BY <1>1, LenConcat
  <2> QED
    BY <1>1, <2>1
<1>4. a \o c = b \o d => a = b /\ c = d
  BY <1>1, ConcatInjective
<1> QED
  BY <1>2, <1>3, <1>4 DEF Same, Strings, Cat

\* What both a term and a quote say.
Says(q, t) ==
  /\ q.content = t.content /\ q.secs = t.secs /\ q.price = t.price
  /\ q.rewards_address = t.rewards_address
  /\ q.committed_key_count = t.committed_key_count /\ q.commitment_pin = t.commitment_pin

\* The signed bytes determine what is signed: every field has a fixed length,
\* but for the pin at the end, which is behind its tag.
LEMMA SignedBytes ==
  ASSUME NEW s \in Term, NEW t \in Term
  PROVE  /\ BytesForSig(s) \in Seq(Nat)
         /\ BytesForSig(s) = BytesForSig(t) => Says(s, t)
<1>1. /\ s.content \in Seq(Nat) /\ Len(s.content) = HashLen
      /\ t.content \in Seq(Nat) /\ Len(t.content) = HashLen
      /\ s.rewards_address \in Seq(Nat) /\ Len(s.rewards_address) = AddressLen
      /\ t.rewards_address \in Seq(Nat) /\ Len(t.rewards_address) = AddressLen
      /\ s.price \in Word /\ t.price \in Word
      /\ s.secs \in Nat /\ t.secs \in Nat
      /\ s.committed_key_count \in Nat /\ t.committed_key_count \in Nat
      /\ s.commitment_pin \in Content \cup {NoPin} /\ t.commitment_pin \in Content \cup {NoPin}
  BY StringFacts DEF Term
<1>2. PICK a1, b1 : a1 \in Strings /\ b1 \in Strings
          /\ a1 = s.content /\ b1 = t.content /\ Same(a1, b1)
  BY <1>1 DEF Strings, Same
<1>3. PICK a2, b2 : a2 \in Strings /\ b2 \in Strings
          /\ a2 = <<s.secs>> /\ b2 = <<t.secs>> /\ Same(a2, b2)
  BY <1>1, OneFacts DEF Strings, Same
<1>4. PICK a3, b3 : a3 \in Strings /\ b3 \in Strings
          /\ a3 = Reverse(s.price) /\ b3 = Reverse(t.price) /\ Same(a3, b3)
  BY <1>1, ReverseFacts DEF Strings, Same
<1>5. PICK a4, b4 : a4 \in Strings /\ b4 \in Strings
          /\ a4 = s.rewards_address /\ b4 = t.rewards_address /\ Same(a4, b4)
  BY <1>1 DEF Strings, Same
<1>6. PICK a5, b5 : a5 \in Strings /\ b5 \in Strings
          /\ a5 = <<s.committed_key_count>> /\ b5 = <<t.committed_key_count>> /\ Same(a5, b5)
  BY <1>1, OneFacts DEF Strings, Same
<1>7. PICK a6, b6 : a6 \in Strings /\ b6 \in Strings
          /\ a6 = PinBytes(s.commitment_pin) /\ b6 = PinBytes(t.commitment_pin)
  BY <1>1, PinFacts DEF Strings
<1>8. /\ BytesForSig(s) = Cat(Cat(Cat(Cat(Cat(a1, a2), a3), a4), a5), a6)
      /\ BytesForSig(t) = Cat(Cat(Cat(Cat(Cat(b1, b2), b3), b4), b5), b6)
  <2>1. /\ BytesForSig(s) = s.content \o <<s.secs>> \o Reverse(s.price) \o s.rewards_address
                              \o <<s.committed_key_count>> \o PinBytes(s.commitment_pin)
        /\ BytesForSig(t) = t.content \o <<t.secs>> \o Reverse(t.price) \o t.rewards_address
                              \o <<t.committed_key_count>> \o PinBytes(t.commitment_pin)
    BY DEF BytesForSig, PinBytes
  <2> QED
    BY <1>2, <1>3, <1>4, <1>5, <1>6, <1>7, <2>1, Zenon DEF Cat
<1>9. PICK c2, d2 : c2 \in Strings /\ d2 \in Strings
          /\ c2 = Cat(a1, a2) /\ d2 = Cat(b1, b2) /\ Same(c2, d2)
  BY <1>2, <1>3, Peel
<1>10. PICK c3, d3 : c3 \in Strings /\ d3 \in Strings
          /\ c3 = Cat(c2, a3) /\ d3 = Cat(d2, b3) /\ Same(c3, d3)
  BY <1>4, <1>9, Peel
<1>11. PICK c4, d4 : c4 \in Strings /\ d4 \in Strings
          /\ c4 = Cat(c3, a4) /\ d4 = Cat(d3, b4) /\ Same(c4, d4)
  BY <1>5, <1>10, Peel
<1>12. PICK c5, d5 : c5 \in Strings /\ d5 \in Strings
          /\ c5 = Cat(c4, a5) /\ d5 = Cat(d4, b5) /\ Same(c5, d5)
  BY <1>6, <1>11, Peel
<1>13. BytesForSig(s) = Cat(c5, a6) /\ BytesForSig(t) = Cat(d5, b6)
  BY <1>8, <1>9, <1>10, <1>11, <1>12
<1>14. BytesForSig(s) \in Seq(Nat)
  BY <1>7, <1>12, <1>13, Peel DEF Strings
<1>15. ASSUME BytesForSig(s) = BytesForSig(t) PROVE Says(s, t)
  <2>0. ASSUME NEW a \in Strings, NEW b \in Strings, NEW c \in Strings, NEW d \in Strings,
               Same(a, b), Cat(a, c) = Cat(b, d)
        PROVE  a = b /\ c = d
    BY <2>0, Peel
  <2>1. c5 = d5 /\ a6 = b6
    BY <1>7, <1>12, <1>13, <1>15, <2>0
  <2>2. c4 = d4 /\ a5 = b5
    <3>1. Cat(c4, a5) = Cat(d4, b5)
      BY <1>12, <2>1
    <3> QED
      BY <1>6, <1>11, <2>0, <3>1
  <2>3. c3 = d3 /\ a4 = b4
    <3>1. Cat(c3, a4) = Cat(d3, b4)
      BY <1>11, <2>2
    <3> QED
      BY <1>5, <1>10, <2>0, <3>1
  <2>4. c2 = d2 /\ a3 = b3
    <3>1. Cat(c2, a3) = Cat(d2, b3)
      BY <1>10, <2>3
    <3> QED
      BY <1>4, <1>9, <2>0, <3>1
  <2>5. a1 = b1 /\ a2 = b2
    <3>1. Cat(a1, a2) = Cat(b1, b2)
      BY <1>9, <2>4
    <3> QED
      BY <1>2, <1>3, <2>0, <3>1
  <2>6. s.secs = t.secs /\ s.committed_key_count = t.committed_key_count
    BY <1>1, <1>3, <1>6, <2>2, <2>5, OneFacts
  <2>7. s.price = t.price
    BY <1>1, <1>4, <2>4, ReverseFacts
  <2>8. s.commitment_pin = t.commitment_pin
    BY <1>1, <1>7, <2>1, PinFacts
  <2> QED
    BY <1>2, <1>5, <2>3, <2>5, <2>6, <2>7, <2>8 DEF Says
<1> QED
  BY <1>14, <1>15

-----------------------------------------------------------------------------
(* Answers                                                                 *)

\* What parse_quote makes of an answer.
LEMMA ParseFacts ==
  ASSUME NEW s, NEW t, NEW p, NEW k
  PROVE  ParseQuote(Answer(p, k, s, t)) =
           [content |-> t.content, secs |-> t.secs, price |-> t.price,
            rewards_address |-> t.rewards_address, pub_key |-> p,
            signature |-> [key |-> k, message |-> BytesForSig(s)],
            committed_key_count |-> t.committed_key_count,
            commitment_pin |-> t.commitment_pin]
<1>1. PICK sig : sig = [key |-> k, message |-> BytesForSig(s)]
  OBVIOUS
<1>2. PICK h : h = <<t.content, t.secs, t.price, t.rewards_address, p, sig>>
  OBVIOUS
<1>3. PICK r : r = <<t.committed_key_count, t.commitment_pin>>
  OBVIOUS
<1>4. Answer(p, k, s, t) = IF r = <<0, NoPin>> THEN h ELSE h \o r
  BY <1>1, <1>2, <1>3 DEF Answer, Sign
<1>5. /\ Len(h) = 6 /\ h[1] = t.content /\ h[2] = t.secs /\ h[3] = t.price
      /\ h[4] = t.rewards_address /\ h[5] = p /\ h[6] = sig
  BY <1>2
<1>6. /\ Len(r) = 2 /\ r[1] = t.committed_key_count /\ r[2] = t.commitment_pin
  BY <1>3
<1>7. CASE r = <<0, NoPin>>
  <2>1. t.committed_key_count = 0 /\ t.commitment_pin = NoPin
    BY <1>3, <1>7
  <2>2. Answer(p, k, s, t) = h
    BY <1>4, <1>7
  <2>3. ~(Len(h) >= 7) /\ ~(Len(h) >= 8)
    BY <1>5
  <2> QED
    BY <1>1, <1>5, <2>1, <2>2, <2>3, Zenon DEF ParseQuote
<1>8. CASE r # <<0, NoPin>>
  <2>1. PICK w : w = h \o r
    OBVIOUS
  <2>2. PICK U : h \in Seq(U) /\ r \in Seq(U)
    <3>1. PICK U : U = {t.content, t.secs, t.price, t.rewards_address, p, sig,
                        t.committed_key_count, t.commitment_pin}
      OBVIOUS
    <3>2. h \in Seq(U)
      BY <1>2, <3>1
    <3>3. r \in Seq(U)
      BY <1>3, <3>1
    <3> QED
      BY <3>2, <3>3
  <2>3. /\ Len(w) = 8 /\ w[1] = h[1] /\ w[2] = h[2] /\ w[3] = h[3] /\ w[4] = h[4]
        /\ w[5] = h[5] /\ w[6] = h[6] /\ w[7] = r[1] /\ w[8] = r[2]
    <3>1. \A j \in 1..Len(h) : w[j] = h[j]
      BY <2>1, <2>2, ConcatFirst
    <3>2. \A j \in 1..Len(r) : w[Len(h) + j] = r[j]
      BY <2>1, <2>2, ConcatSecond
    <3>3. Len(w) = Len(h) + Len(r)
      BY <2>1, <2>2, LenConcat
    <3>4. 1 \in 1..2 /\ 2 \in 1..2 /\ 6 + 1 = 7 /\ 6 + 2 = 8
      OBVIOUS
    <3>5. w[7] = r[1] /\ w[8] = r[2]
      BY <1>5, <1>6, <3>2, <3>4
    <3> QED
      BY <1>5, <1>6, <3>1, <3>3, <3>5
  <2>4. Answer(p, k, s, t) = w
    BY <1>4, <1>8, <2>1
  <2>5. Len(w) >= 7 /\ Len(w) >= 8
    BY <2>3
  <2> QED
    BY <1>1, <1>5, <1>6, <2>3, <2>4, <2>5, Zenon DEF ParseQuote
<1> QED
  BY <1>7, <1>8

\* A changed quote says something of the right form.
LEMMA VariantsFacts ==
  ASSUME NEW s \in Term
  PROVE  Variants(s) \subseteq Term
<1>1. ASSUME NEW f \in DOMAIN Other PROVE [s EXCEPT ![f] = Other[f]] \in Term
  BY TermsAssumption DEF Term
<1>2. [s EXCEPT !.content = Address] \in Term
  BY TermsAssumption DEF Term
<1> QED
  BY <1>1, <1>2 DEF Variants

-----------------------------------------------------------------------------
(* The median                                                              *)

\* The positions that a stable sort of the numbers v puts before i.
Before(v, n, i) == {j \in 1..n : v[j] < v[i] \/ (v[j] = v[i] /\ j < i)}

\* A position has less than n others before it.
LEMMA BeforeFacts ==
  ASSUME NEW n \in Nat, NEW v \in [1..n -> Nat], NEW i \in 1..n
  PROVE  /\ IsFiniteSet(Before(v, n, i)) /\ Cardinality(Before(v, n, i)) \in Nat
         /\ Cardinality(Before(v, n, i)) \in 0..(n - 1)
         /\ Cardinality(Before(v, n, i) \cup {i}) = Cardinality(Before(v, n, i)) + 1
<1>1. IsFiniteSet(1..n) /\ Cardinality(1..n) = n
  BY FS_Interval
<1>2. PICK B : B = Before(v, n, i)
  OBVIOUS
<1>3. B \in SUBSET (1..n) /\ i \notin B /\ B \cup {i} \in SUBSET (1..n)
  BY <1>2 DEF Before
<1>4. IsFiniteSet(B) /\ Cardinality(B) \in Nat
  BY <1>1, <1>3, FS_Subset, FS_CardinalityType
<1>5. Cardinality(B \cup {i}) = Cardinality(B) + 1
  BY <1>3, <1>4, FS_AddElement
<1>6. Cardinality(B \cup {i}) <= n
  <2>1. PICK D, C : D = 1..n /\ C = B \cup {i}
    OBVIOUS
  <2>2. IsFiniteSet(D) /\ C \in SUBSET D /\ Cardinality(D) = n
    BY <1>1, <1>3, <2>1
  <2>3. Cardinality(C) <= Cardinality(D)
    BY <2>2, FS_Subset
  <2> QED
    BY <2>1, <2>2, <2>3
<1> QED
  BY <1>2, <1>4, <1>5, <1>6

\* Different positions have a different number of others before them.
LEMMA BeforeInjective ==
  ASSUME NEW n \in Nat, NEW v \in [1..n -> Nat], NEW i \in 1..n, NEW j \in 1..n, i # j
  PROVE  Cardinality(Before(v, n, i)) # Cardinality(Before(v, n, j))
<1>1. ASSUME NEW a \in 1..n, NEW b \in 1..n, v[a] < v[b] \/ (v[a] = v[b] /\ a < b)
      PROVE  Cardinality(Before(v, n, a)) < Cardinality(Before(v, n, b))
  <2>1. Before(v, n, a) \cup {a} \in SUBSET Before(v, n, b)
    BY <1>1 DEF Before
  <2>2. Cardinality(Before(v, n, a) \cup {a}) <= Cardinality(Before(v, n, b))
    BY <2>1, BeforeFacts, FS_Subset
  <2>3. PICK x \in Nat, y \in Nat : x = Cardinality(Before(v, n, a)) /\ y = Cardinality(Before(v, n, b))
    <3>1. Cardinality(Before(v, n, a)) \in Nat /\ Cardinality(Before(v, n, b)) \in Nat
      BY BeforeFacts
    <3> QED
      BY <3>1
  <2>4. x + 1 <= y
    BY <2>2, <2>3, BeforeFacts
  <2> QED
    BY <2>3, <2>4
<1>2. PICK x \in Nat, y \in Nat : x = Cardinality(Before(v, n, i)) /\ y = Cardinality(Before(v, n, j))
  <2>1. Cardinality(Before(v, n, i)) \in Nat /\ Cardinality(Before(v, n, j)) \in Nat
    BY BeforeFacts
  <2> QED
    BY <2>1
<1>3. x < y \/ y < x
  BY <1>1, <1>2
<1> QED
  BY <1>2, <1>3

\* Every rank below n is some position's.
LEMMA RankExists ==
  ASSUME NEW n \in Nat, NEW v \in [1..n -> Nat], NEW r \in 0..(n - 1)
  PROVE  \E i \in 1..n : Cardinality(Before(v, n, i)) = r
<1>1. PICK T : T = 0..(n - 1)
  OBVIOUS
<1>2. IsFiniteSet(1..n) /\ Cardinality(1..n) = n
  BY FS_Interval
<1>3. IsFiniteSet(T) /\ Cardinality(T) = n
  <2>1. n - 1 \in Int /\ 0 \in Int
    OBVIOUS
  <2>2. IsFiniteSet(T) /\ Cardinality(T) = IF 0 > n - 1 THEN 0 ELSE (n - 1) - 0 + 1
    BY <1>1, <2>1, FS_Interval
  <2> QED
    BY <2>2
<1>4. PICK f : f = [i \in 1..n |-> Cardinality(Before(v, n, i))]
  OBVIOUS
<1>5. f \in [1..n -> T]
  BY <1>1, <1>4, BeforeFacts
<1>6. \A i, j \in 1..n : f[i] = f[j] => i = j
  BY <1>4, BeforeInjective
<1>7. f \in Injection(1..n, T)
  BY <1>5, <1>6 DEF Injection, IsInjective
<1>8. f \in Surjection(1..n, T)
  BY <1>2, <1>3, <1>7, FS_Injection
<1>9. PICK i \in 1..n : f[i] = r
  BY <1>1, <1>8 DEF Surjection
<1> QED
  BY <1>4, <1>9

\* No more than half are smaller than the median, and no more than half larger.
LEMMA MedianBounds ==
  ASSUME NEW n \in Nat, NEW v \in [1..n -> Nat], NEW m \in 1..n,
         Cardinality(Before(v, n, m)) = n \div 2
  PROVE  /\ Cardinality({i \in 1..n : v[i] < v[m]}) <= n \div 2
         /\ Cardinality({i \in 1..n : v[i] > v[m]}) <= n \div 2
<1>0. PICK h \in Nat : h = n \div 2 /\ n <= 2 * h + 1
  <2>1. n \div 2 \in Nat /\ n <= 2 * (n \div 2) + 1
    OBVIOUS
  <2> QED
    BY <2>1
<1>1. PICK D : D = 1..n
  OBVIOUS
<1>2. IsFiniteSet(D) /\ Cardinality(D) = n
  BY <1>1, FS_Interval
<1>3. PICK B, L, U, C : /\ B = Before(v, n, m) /\ L = {i \in 1..n : v[i] < v[m]}
                        /\ U = {i \in 1..n : v[i] > v[m]} /\ C = B \cup {m}
  OBVIOUS
<1>4. IsFiniteSet(B) /\ Cardinality(B) = h /\ Cardinality(C) = h + 1
  BY <1>0, <1>3, BeforeFacts
<1>5. L \in SUBSET B
  BY <1>3 DEF Before
<1>6. Cardinality(L) <= h
  BY <1>4, <1>5, FS_Subset
<1>7. U \in SUBSET (D \ C) /\ C \in SUBSET D /\ D \cap C = C
  BY <1>1, <1>3 DEF Before
<1>8. IsFiniteSet(D \ C) /\ Cardinality(D \ C) = Cardinality(D) - Cardinality(D \cap C)
  BY <1>2, FS_Difference
<1>9. PICK E : E = D \ C
  OBVIOUS
<1>10. IsFiniteSet(E) /\ U \in SUBSET E /\ Cardinality(E) = n - (h + 1)
  BY <1>2, <1>4, <1>7, <1>8, <1>9
<1>11. Cardinality(U) <= Cardinality(E) /\ Cardinality(U) \in Nat
  BY <1>10, FS_Subset, FS_CardinalityType
<1>12. Cardinality(U) <= h
  BY <1>0, <1>10, <1>11
<1> QED
  BY <1>0, <1>3, <1>6, <1>12

\* A price is a word.
LEMMA PriceFacts ==
  ASSUME NEW q \in Seq(Quote), NEW i \in DOMAIN q
  PROVE  q[i].price \in Word
<1>1. q[i] \in Quote
  OBVIOUS
<1> QED
  BY <1>1 DEF Quote

\* The prices of a group of quotes, as numbers.
Prices(q) == [i \in 1..GroupSize |-> Value(q[i].price)]

\* A group of quotes has a median by price.
LEMMA MedianFacts ==
  ASSUME NEW q \in Seq(Quote), Len(q) = GroupSize
  PROVE  /\ DOMAIN q = 1..GroupSize /\ Prices(q) \in [1..GroupSize -> Nat]
         /\ MedianIndex(q) \in 1..GroupSize
         /\ Cardinality(Before(Prices(q), GroupSize, MedianIndex(q))) = GroupSize \div 2
<1>0. GroupSize \in Nat /\ GroupSize > 0
  BY GroupSizeAssumption
<1>1. DOMAIN q = 1..GroupSize /\ \A i \in 1..GroupSize : q[i] \in Quote
  OBVIOUS
<1>2. \A i \in 1..GroupSize : q[i].price \in Word /\ Value(q[i].price) \in Nat
  BY <1>1, ValueFacts DEF Quote
<1>3. PICK v : v = Prices(q)
  OBVIOUS
<1>4. v \in [1..GroupSize -> Nat] /\ \A i \in 1..GroupSize : v[i] = Value(q[i].price)
  BY <1>2, <1>3 DEF Prices
<1>5. ASSUME NEW i \in 1..GroupSize
      PROVE  Rank(q, i) = Cardinality(Before(v, GroupSize, i))
  <2>1. ASSUME NEW j \in 1..GroupSize
        PROVE  /\ U256Less(q[j].price, q[i].price) <=> v[j] < v[i]
               /\ q[j].price = q[i].price <=> v[j] = v[i]
    BY <1>2, <1>4, CompareTheorem
  <2>2. {j \in DOMAIN q : \/ U256Less(q[j].price, q[i].price)
                          \/ q[j].price = q[i].price /\ j < i} = Before(v, GroupSize, i)
    BY <1>1, <2>1 DEF Before
  <2> QED
    BY <2>2 DEF Rank
<1>6. GroupSize \div 2 \in 0..(GroupSize - 1)
  BY <1>0
<1>7. \E i \in 1..GroupSize : Cardinality(Before(v, GroupSize, i)) = GroupSize \div 2
  <2>1. PICK r \in 0..(GroupSize - 1) : r = GroupSize \div 2
    BY <1>6
  <2> QED
    BY <1>0, <1>4, <2>1, RankExists
<1>8. \E i \in DOMAIN q : Rank(q, i) = GroupSize \div 2
  BY <1>1, <1>5, <1>7
<1>9. MedianIndex(q) \in DOMAIN q /\ Rank(q, MedianIndex(q)) = GroupSize \div 2
  BY <1>8 DEF MedianIndex
<1> QED
  BY <1>1, <1>3, <1>4, <1>5, <1>9

-----------------------------------------------------------------------------
(* The sums                                                                *)

\* Of all payments only the m-th is not zero.
OnlyPaid(ps, m) == m \in 1..Len(ps) /\ \A i \in 1..Len(ps) : i # m => ps[i].amount = Zero

\* If only one payment is not zero the fold of u256_add is its amount.
LEMMA TotalFacts ==
  ASSUME NEW ps \in Seq(DataPayment), NEW m, OnlyPaid(ps, m)
  PROVE  TotalAmount(ps) = ps[m].amount
<1>1. PICK N \in Nat : N = Len(ps)
  OBVIOUS
<1>2. m \in 1..N /\ \A i \in 1..N : i # m => ps[i].amount = Zero
  BY <1>1 DEF OnlyPaid
<1>3. \A i \in 1..N : ps[i].amount \in Word
  <2>1. \A i \in 1..N : ps[i] \in DataPayment
    BY <1>1
  <2>2. \A x \in DataPayment : x.amount \in Word
    BY DEF DataPayment
  <2> QED
    BY <2>1, <2>2
<1>4. PICK G : G = [i \in Nat |-> [x \in Word |->
                      IF i \in 1..N THEN U256Add(x, ps[i].amount) ELSE x]]
  OBVIOUS
<1>5. /\ G \in [Nat -> [Word -> Word]]
      /\ \A i \in 1..N : \A x \in Word : G[i][x] = U256Add(x, ps[i].amount)
  <2>1. \A i \in 1..N : \A x \in Word : U256Add(x, ps[i].amount) \in Word
    BY <1>3, AddTheorem
  <2> QED
    BY <1>4, <2>1
<1>6. PICK f : Follows(f, Word, Zero, N, G)
  BY <1>5, ZeroFacts, Recursion
<1>7. f \in [0..N -> Word] /\ f[0] = Zero /\ \A i \in 1..N : f[i] = U256Add(f[i - 1], ps[i].amount)
  <2>1. f \in [0..N -> Word] /\ f[0] = Zero /\ \A i \in 1..N : f[i] = G[i][f[i - 1]]
    BY <1>6 DEF Follows
  <2> SUFFICES ASSUME NEW i \in 1..N PROVE f[i] = U256Add(f[i - 1], ps[i].amount)
    BY <2>1
  <2>2. i - 1 \in 0..N
    OBVIOUS
  <2> QED
    BY <1>5, <2>1, <2>2
<1>8. f = [n \in 0..N |-> IF n = 0 THEN Zero ELSE U256Add(f[n - 1], ps[n].amount)]
  BY <1>7
<1>9. PICK p : p = [n \in 0..N |-> IF n = 0 THEN Zero ELSE U256Add(p[n - 1], ps[n].amount)]
               /\ TotalAmount(ps) = p[N]
  <2>1. PICK p : p = CHOOSE t : t = [n \in 0..N |-> IF n = 0 THEN Zero ELSE U256Add(t[n - 1], ps[n].amount)]
    OBVIOUS
  <2>2. p = [n \in 0..N |-> IF n = 0 THEN Zero ELSE U256Add(p[n - 1], ps[n].amount)]
    BY <1>8, <2>1
  <2>3. TotalAmount(ps) = p[N]
    BY <1>1, <2>1 DEF TotalAmount
  <2> QED
    BY <2>2, <2>3
<1>10. p[0] = Zero /\ \A i \in 1..N : p[i] = U256Add(p[i - 1], ps[i].amount)
  <2>1. PICK q : q = p
    OBVIOUS
  <2>2. p = [n \in 0..N |-> IF n = 0 THEN Zero ELSE U256Add(q[n - 1], ps[n].amount)]
    BY <1>9, <2>1
  <2>3. p[0] = Zero /\ \A i \in 1..N : p[i] = U256Add(q[i - 1], ps[i].amount)
    BY <2>2
  <2> QED
    BY <2>1, <2>3
<1>11. PICK T : T = {n \in Nat : (n < m => p[n] = Zero) /\ (n >= m => p[n] = ps[m].amount)}
  OBVIOUS
<1>12. 0 \in T
  BY <1>2, <1>10, <1>11
<1>13. ASSUME NEW n \in Nat, n < N, n \in T PROVE n + 1 \in T
  <2>1. n + 1 \in 1..N /\ (n + 1) - 1 = n
    BY <1>13
  <2>2. p[n + 1] = U256Add(p[n], ps[n + 1].amount)
    BY <1>10, <2>1
  <2>3. CASE n + 1 < m
    <3>1. p[n] = Zero /\ ps[n + 1].amount = Zero
      BY <1>2, <1>11, <1>13, <2>1, <2>3
    <3> QED
      BY <1>2, <1>11, <2>2, <2>3, <3>1, ZeroFacts
  <2>4. CASE n + 1 = m
    <3>1. p[n] = Zero /\ ps[n + 1].amount \in Word
      BY <1>2, <1>3, <1>11, <1>13, <2>1, <2>4
    <3>2. p[n + 1] = ps[m].amount
      BY <2>2, <2>4, <3>1, ZeroFacts
    <3> QED
      BY <1>2, <1>11, <2>4, <3>2
  <2>5. CASE n + 1 > m
    <3>1. p[n] = ps[m].amount /\ ps[n + 1].amount = Zero
      BY <1>2, <1>11, <1>13, <2>1, <2>5
    <3>2. p[n + 1] = ps[m].amount
      BY <1>2, <1>3, <2>2, <3>1, ZeroFacts
    <3> QED
      BY <1>2, <1>11, <2>5, <3>2
  <2> QED
    BY <1>2, <2>3, <2>4, <2>5
<1>14. N \in T
  <2>1. \A n \in 0..N : n \in T
    BY <1>12, <1>13, UpTo
  <2> QED
    BY <2>1
<1> QED
  BY <1>2, <1>9, <1>11, <1>14

\* One more payment pulled.
Pull(x, ps, n) == x + Value(ps[n].amount)

\* If only one payment is not zero the vault pulls its value.
LEMMA PulledFacts ==
  ASSUME NEW ps \in Seq(DataPayment), NEW m, OnlyPaid(ps, m)
  PROVE  Pulled(ps) = Value(ps[m].amount)
<1>1. PICK N \in Nat : N = Len(ps)
  OBVIOUS
<1>2. m \in 1..N /\ \A i \in 1..N : i # m => ps[i].amount = Zero
  BY <1>1 DEF OnlyPaid
<1>3. \A i \in 1..N : ps[i].amount \in Word
  <2>1. \A i \in 1..N : ps[i] \in DataPayment
    BY <1>1
  <2>2. \A x \in DataPayment : x.amount \in Word
    BY DEF DataPayment
  <2> QED
    BY <2>1, <2>2
<1>4. PICK G : G = [i \in Nat |-> [x \in Nat |->
                      IF i \in 1..N THEN Pull(x, ps, i) ELSE x]]
  OBVIOUS
<1>5. /\ G \in [Nat -> [Nat -> Nat]]
      /\ \A i \in 1..N : \A x \in Nat : G[i][x] = Pull(x, ps, i)
  <2>1. \A i \in 1..N : \A x \in Nat : Pull(x, ps, i) \in Nat
    BY <1>3, ValueFacts DEF Pull
  <2> QED
    BY <1>4, <2>1
<1>6. PICK f : Follows(f, Nat, 0, N, G)
  <2>1. PICK z \in Nat : z = 0
    OBVIOUS
  <2> QED
    BY <1>5, <2>1, Recursion
<1>7. f \in [0..N -> Nat] /\ f[0] = 0 /\ \A i \in 1..N : f[i] = Pull(f[i - 1], ps, i)
  <2>1. f \in [0..N -> Nat] /\ f[0] = 0 /\ \A i \in 1..N : f[i] = G[i][f[i - 1]]
    BY <1>6 DEF Follows
  <2> SUFFICES ASSUME NEW i \in 1..N PROVE f[i] = Pull(f[i - 1], ps, i)
    BY <2>1
  <2>2. i - 1 \in 0..N
    OBVIOUS
  <2> QED
    BY <1>5, <2>1, <2>2
<1>8. f = [n \in 0..N |-> IF n = 0 THEN 0 ELSE Pull(f[n - 1], ps, n)]
  BY <1>7
<1>9. PICK p : p = [n \in 0..N |-> IF n = 0 THEN 0 ELSE Pull(p[n - 1], ps, n)]
               /\ Pulled(ps) = p[N]
  <2>1. PICK p : p = CHOOSE t : t = [n \in 0..N |-> IF n = 0 THEN 0 ELSE Pull(t[n - 1], ps, n)]
    OBVIOUS
  <2>2. p = [n \in 0..N |-> IF n = 0 THEN 0 ELSE Pull(p[n - 1], ps, n)]
    BY <1>8, <2>1
  <2>3. Pulled(ps) = p[N]
    BY <1>1, <2>1 DEF Pulled, Pull
  <2> QED
    BY <2>2, <2>3
<1>10. p[0] = 0 /\ \A i \in 1..N : p[i] = Pull(p[i - 1], ps, i)
  <2>1. PICK q : q = p
    OBVIOUS
  <2>2. p = [n \in 0..N |-> IF n = 0 THEN 0 ELSE Pull(q[n - 1], ps, n)]
    BY <1>9, <2>1
  <2>3. p[0] = 0 /\ \A i \in 1..N : p[i] = Pull(q[i - 1], ps, i)
    BY <2>2
  <2> QED
    BY <2>1, <2>3
<1>11. PICK T : T = {n \in Nat : (n < m => p[n] = 0) /\ (n >= m => p[n] = Value(ps[m].amount))}
  OBVIOUS
<1>12. 0 \in T
  BY <1>2, <1>10, <1>11
<1>13. ASSUME NEW n \in Nat, n < N, n \in T PROVE n + 1 \in T
  <2>1. n + 1 \in 1..N /\ (n + 1) - 1 = n
    BY <1>13
  <2>2. p[n + 1] = Pull(p[n], ps, n + 1)
    BY <1>10, <2>1
  <2>3. CASE n + 1 < m
    <3>1. p[n] = 0 /\ ps[n + 1].amount = Zero
      BY <1>2, <1>11, <1>13, <2>1, <2>3
    <3> QED
      BY <1>2, <1>11, <2>2, <2>3, <3>1, ZeroFacts, ValueFacts DEF Pull
  <2>4. CASE n + 1 = m
    <3>1. p[n] = 0 /\ ps[n + 1].amount \in Word
      BY <1>2, <1>3, <1>11, <1>13, <2>1, <2>4
    <3>2. p[n + 1] = Value(ps[m].amount)
      BY <2>2, <2>4, <3>1, ZeroFacts, ValueFacts DEF Pull
    <3> QED
      BY <1>2, <1>11, <2>4, <3>2
  <2>5. CASE n + 1 > m
    <3>1. p[n] = Value(ps[m].amount) /\ ps[n + 1].amount = Zero
      BY <1>2, <1>11, <1>13, <2>1, <2>5
    <3>2. p[n + 1] = Value(ps[m].amount)
      BY <1>2, <1>3, <2>2, <3>1, ZeroFacts, ValueFacts DEF Pull
    <3> QED
      BY <1>2, <1>11, <2>5, <3>2
  <2> QED
    BY <1>2, <2>3, <2>4, <2>5
<1>14. N \in T
  <2>1. \A n \in 0..N : n \in T
    BY <1>12, <1>13, UpTo
  <2> QED
    BY <2>1
<1> QED
  BY <1>2, <1>9, <1>11, <1>14

-----------------------------------------------------------------------------
(* The split                                                               *)

\* What a quote says, without key and signature.
TermOf(q) ==
  [content |-> q.content, secs |-> q.secs, price |-> q.price,
   rewards_address |-> q.rewards_address,
   committed_key_count |-> q.committed_key_count, commitment_pin |-> q.commitment_pin]

\* The signature covers what the quote says.
LEMMA TermOfFacts ==
  ASSUME NEW q \in Quote
  PROVE  /\ TermOf(q) \in Term /\ Says(q, TermOf(q))
         /\ BytesForSig(q) = BytesForSig(TermOf(q)) /\ BytesForSig(q) \in Seq(Nat)
<1>1. TermOf(q) \in Term
  BY DEF TermOf, Term, Quote
<1>2. PICK t : t = TermOf(q)
  OBVIOUS
<1>3. Says(q, t)
  BY <1>2 DEF TermOf, Says
<1>4. BytesForSig(q) = BytesForSig(t)
  BY <1>3 DEF Says, BytesForSig
<1>5. BytesForSig(t) \in Seq(Nat)
  BY <1>1, <1>2, SignedBytes
<1> QED
  BY <1>1, <1>2, <1>3, <1>4, <1>5

\* Three times a price, modulo 2^256.
LEMMA TripleFacts ==
  ASSUME NEW a \in Word
  PROVE  Value(U256Mul(a, 3)) = (3 * Value(a)) % Modulus
<1>1. PICK three \in Nat : three = 3
  OBVIOUS
<1>2. PICK x \in Nat : x = Value(a)
  BY ValueFacts
<1>3. Value(U256Mul(a, three)) = (x * three) % Modulus
  BY <1>2, MulTheorem
<1>4. x * three = 3 * x
  BY <1>1
<1> QED
  BY <1>1, <1>2, <1>3, <1>4

\* The payment of quote i.
LEMMA SplitFacts ==
  ASSUME NEW q \in Seq(Quote), Len(q) = GroupSize
  PROVE  /\ Split(q) \in Seq(DataPayment) /\ Len(Split(q)) = GroupSize
         /\ \A i \in 1..GroupSize :
              Split(q)[i] = [rewards |-> q[i].rewards_address,
                             amount |-> IF i = MedianIndex(q) THEN U256Mul(q[i].price, 3) ELSE Zero,
                             hash |-> QuoteHash(q[i])]
<1>0. GroupSize \in Nat
  BY GroupSizeAssumption
<1>1. DOMAIN q = 1..GroupSize /\ \A i \in 1..GroupSize : q[i] \in Quote
  BY <1>0
<1>2. PICK ps : ps = Split(q)
  OBVIOUS
<1>3. ps = [i \in 1..GroupSize |->
             [rewards |-> q[i].rewards_address,
              amount |-> IF i = MedianIndex(q) THEN U256Mul(q[i].price, 3) ELSE Zero,
              hash |-> QuoteHash(q[i])]]
  BY <1>1, <1>2 DEF Split
<1>4. ASSUME NEW i \in 1..GroupSize PROVE ps[i] \in DataPayment
  <2>1. PICK x \in Quote : x = q[i]
    BY <1>1
  <2>2. x.rewards_address \in EvmAddress /\ x.price \in Word /\ x.pub_key \in Nat /\ x.signature \in Signature
    BY DEF Quote
  <2>3. U256Mul(x.price, 3) \in Word /\ Zero \in Word
    <3>1. PICK three \in Nat : three = 3
      OBVIOUS
    <3> QED
      BY <2>2, <3>1, MulTheorem, ZeroFacts
  <2>4. PICK a \in Word : a = IF i = MedianIndex(q) THEN U256Mul(x.price, 3) ELSE Zero
    BY <2>3
  <2>5. PICK b \in Seq(Nat) : b = BytesForSig(x)
    BY TermOfFacts
  <2>6. QuoteHash(x) \in Seq(Nat) \X Nat \X Signature
    BY <2>2, <2>5 DEF QuoteHash
  <2>7. ps[i] = [rewards |-> x.rewards_address, amount |-> a, hash |-> QuoteHash(x)]
    BY <1>3, <2>1, <2>4
  <2> QED
    BY <2>2, <2>6, <2>7 DEF DataPayment
<1>5. ps \in Seq(DataPayment) /\ Len(ps) = GroupSize
  BY <1>0, <1>3, <1>4
<1> QED
  BY <1>2, <1>3, <1>5

\* The amounts of the payments.
LEMMA SplitAmounts ==
  ASSUME NEW q \in Seq(Quote), Len(q) = GroupSize
  PROVE  /\ Split(q)[MedianIndex(q)].amount = U256Mul(q[MedianIndex(q)].price, 3)
         /\ \A i \in 1..GroupSize : i # MedianIndex(q) => Split(q)[i].amount = Zero
<1>1. PICK ps, m : ps = Split(q) /\ m = MedianIndex(q)
  OBVIOUS
<1>2. m \in 1..GroupSize
  BY <1>1, MedianFacts
<1>3. \A i \in 1..GroupSize :
        ps[i] = [rewards |-> q[i].rewards_address,
                 amount |-> IF i = m THEN U256Mul(q[i].price, 3) ELSE Zero,
                 hash |-> QuoteHash(q[i])]
  BY <1>1, SplitFacts
<1>4. ASSUME NEW i \in 1..GroupSize
      PROVE  ps[i].amount = IF i = m THEN U256Mul(q[i].price, 3) ELSE Zero
  <2>1. PICK r, a, h : /\ r = q[i].rewards_address /\ h = QuoteHash(q[i])
                       /\ a = IF i = m THEN U256Mul(q[i].price, 3) ELSE Zero
    OBVIOUS
  <2>2. ps[i] = [rewards |-> r, amount |-> a, hash |-> h]
    BY <1>3, <2>1
  <2> QED
    BY <2>1, <2>2
<1> QED
  BY <1>1, <1>2, <1>4

\* Only the median is paid: three times its price is the sum the client
\* approves and the sum the vault pulls.
LEMMA SplitSums ==
  ASSUME NEW q \in Seq(Quote), Len(q) = GroupSize
  PROVE  /\ TotalAmount(Split(q)) = U256Mul(q[MedianIndex(q)].price, 3)
         /\ Pulled(Split(q)) = Value(TotalAmount(Split(q)))
         /\ TotalAmount(Split(q)) \in Word
<1>0. PICK m : m = MedianIndex(q)
  OBVIOUS
<1>1. PICK ps \in Seq(DataPayment) : ps = Split(q) /\ m = MedianIndex(q)
  BY <1>0, SplitFacts
<1>2. m \in 1..GroupSize /\ Len(ps) = GroupSize
  BY <1>1, MedianFacts, SplitFacts
<1>3. /\ ps[m].amount = U256Mul(q[m].price, 3)
      /\ \A i \in 1..GroupSize : i # m => ps[i].amount = Zero
  BY <1>1, SplitAmounts
<1>4. OnlyPaid(ps, m)
  BY <1>2, <1>3 DEF OnlyPaid
<1>5. TotalAmount(ps) = ps[m].amount /\ Pulled(ps) = Value(ps[m].amount)
  BY <1>4, TotalFacts, PulledFacts
<1>6. ps[m].amount \in Word
  <2>1. ps[m] \in DataPayment
    BY <1>2
  <2> QED
    BY <2>1 DEF DataPayment
<1> QED
  BY <1>1, <1>3, <1>5, <1>6

-----------------------------------------------------------------------------
(* The calldata                                                            *)

\* An address is read back from the word it is written to.
LEMMA AddressFacts ==
  ASSUME NEW a \in EvmAddress
  PROVE  AddressOfWord(WordFromAddress(a)) = a
<1>1. PICK L \in Nat, Z \in Nat : L = AddressLen /\ Z = Width - AddressLen /\ L > 0 /\ Z + L = Width
  <2>1. Width - AddressLen \in Nat /\ AddressLen \in Nat /\ AddressLen > 0 /\ (Width - AddressLen) + AddressLen = Width
    BY LengthsAssumption, RadixAssumption
  <2> QED
    BY <2>1
<1>2. a \in Seq(Nat) /\ Len(a) = L
  BY <1>1, StringFacts
<1>3. PICK z : z = [i \in 1..Z |-> 0]
  OBVIOUS
<1>4. z \in Seq(Nat) /\ Len(z) = Z
  BY <1>3
<1>5. AddressOfWord(WordFromAddress(a)) = SubSeq(z \o a, Z + 1, Z + L)
  BY <1>1, <1>3 DEF AddressOfWord, WordFromAddress
<1>6. PICK w : w = z \o a
  OBVIOUS
<1>7. w \in Seq(Nat) /\ Len(w) = Z + L
  <2>1. w \in Seq(Nat)
    BY <1>2, <1>4, <1>6
  <2>2. Len(w) = Len(z) + Len(a)
    BY <1>2, <1>4, <1>6, LenConcat
  <2> QED
    BY <1>2, <1>4, <2>1, <2>2
<1>8. \A i \in 1..L : w[Z + i] = a[i]
  <2>1. \A i \in 1..Len(a) : w[Len(z) + i] = a[i]
    BY <1>2, <1>4, <1>6, ConcatSecond
  <2> QED
    BY <1>2, <1>4, <2>1
<1>9. PICK u : u = SubSeq(w, Z + 1, Z + L)
  OBVIOUS
<1>10. u \in Seq(Nat) /\ Len(u) = L /\ \A i \in 1..L : u[i] = w[Z + i]
  <2>1. PICK b \in Nat, e \in Nat : b = Z + 1 /\ e = Z + L
    OBVIOUS
  <2>2. b <= e /\ (e - b) + 1 = L /\ b \in Int /\ e \in Int
    BY <1>1, <2>1
  <2>3. u = SubSeq(w, b, e)
    BY <1>9, <2>1
  <2>4. /\ u \in Seq(Nat) /\ Len(u) = IF b <= e THEN (e - b) + 1 ELSE 0
        /\ \A i \in 1..((e - b) + 1) : u[i] = w[(b + i) - 1]
    <3>1. \A i \in b..e : i \in 1..(Z + L)
      BY <2>1
    <3>0. \A i \in 1..Len(w) : w[i] \in Nat
      BY <1>7
    <3>2. \A i \in b..e : w[i] \in Nat
      BY <1>7, <3>0, <3>1, Zenon
    <3> QED
      BY <2>2, <2>3, <3>2, SubSeqProperties
  <2>5. \A i \in 1..L : (b + i) - 1 = Z + i
    BY <2>1
  <2> QED
    BY <2>2, <2>4, <2>5
<1>11. u = a
  BY <1>2, <1>8, <1>10, SeqEqual
<1> QED
  BY <1>5, <1>6, <1>9, <1>11

\* x is the first n of the triples s, one after the other.
Flat(x, s, n) ==
  /\ Len(x) = 3 * n
  /\ \A i \in 1..n : x[3 * i - 2] = s[i][1] /\ x[3 * i - 1] = s[i][2] /\ x[3 * i] = s[i][3]

Triple(y) == Len(y) = 3

\* One more triple.
LEMMA FlatStep ==
  ASSUME NEW U, NEW x \in Seq(U), NEW s, NEW n \in Nat, NEW y \in Seq(U),
         y = s[n + 1], Triple(y), Flat(x, s, n)
  PROVE  Flat(x \o y, s, n + 1)
<1>1. PICK w : w = x \o y
  OBVIOUS
<1>2. PICK l \in Nat : l = Len(x)
  OBVIOUS
<1>3. l = 3 * n /\ \A i \in 1..n : x[3 * i - 2] = s[i][1] /\ x[3 * i - 1] = s[i][2] /\ x[3 * i] = s[i][3]
  BY <1>2 DEF Flat
<1>4. Len(w) = 3 * (n + 1)
  <2>1. Len(w) = Len(x) + Len(y)
    BY <1>1, LenConcat
  <2>2. PICK k \in Nat : k = Len(y) /\ k = 3
    BY DEF Triple
  <2>3. Len(w) = l + k
    BY <1>2, <2>1, <2>2
  <2>4. l + k = 3 * (n + 1)
    BY <1>3, <2>2
  <2> QED
    BY <2>3, <2>4
<1>5. \A i \in 1..l : w[i] = x[i]
  BY <1>1, <1>2, ConcatFirst
<1>6. w[l + 1] = y[1] /\ w[l + 2] = y[2] /\ w[l + 3] = y[3]
  <2>1. \A i \in 1..Len(y) : w[Len(x) + i] = y[i]
    BY <1>1, ConcatSecond
  <2>2. Len(y) = 3
    BY DEF Triple
  <2> QED
    BY <1>2, <2>1, <2>2
<1>7. ASSUME NEW i \in 1..(n + 1)
      PROVE  w[3 * i - 2] = s[i][1] /\ w[3 * i - 1] = s[i][2] /\ w[3 * i] = s[i][3]
  <2>1. CASE i = n + 1
    <3>1. 3 * i - 2 = l + 1 /\ 3 * i - 1 = l + 2 /\ 3 * i = l + 3
      BY <1>3, <2>1
    <3> QED
      BY <1>6, <2>1, <3>1
  <2>2. CASE i # n + 1
    <3>1. i \in 1..n /\ 3 * i - 2 \in 1..l /\ 3 * i - 1 \in 1..l /\ 3 * i \in 1..l
      BY <1>3, <2>2
    <3> QED
      BY <1>3, <1>5, <3>1
  <2> QED
    BY <2>1, <2>2
<1> QED
  BY <1>1, <1>4, <1>7 DEF Flat

Join(x, s, i) == x \o s[i]

\* Triples one after the other.
LEMMA FlattenFacts ==
  ASSUME NEW U, NEW N \in Nat \ {0}, NEW s, Len(s) = N,
         \A i \in 1..N : s[i] \in Seq(U) /\ Triple(s[i])
  PROVE  FlattenSeq(s) \in Seq(U) /\ Flat(FlattenSeq(s), s, N)
<1>1. PICK S : S = Seq(U)
  OBVIOUS
<1>2. <<>> \in S
  BY <1>1
<1>3. \A i \in 1..N : s[i] \in S
  BY <1>1
<1>4. \A x \in S : \A i \in 1..N : Join(x, s, i) \in S
  BY <1>1, <1>3 DEF Join
<1>5. PICK G : G = [i \in Nat |-> [x \in S |-> IF i \in 1..N THEN Join(x, s, i) ELSE x]]
  OBVIOUS
<1>6. /\ G \in [Nat -> [S -> S]]
      /\ \A i \in 1..N : \A x \in S : G[i][x] = Join(x, s, i)
  BY <1>4, <1>5
<1>7. PICK f : Follows(f, S, <<>>, N, G)
  <2>1. PICK e \in S : e = <<>>
    BY <1>2
  <2> QED
    BY <1>6, <2>1, Recursion
<1>8. f \in [0..N -> S] /\ f[0] = <<>> /\ \A i \in 1..N : f[i] = Join(f[i - 1], s, i)
  <2>1. f \in [0..N -> S] /\ f[0] = <<>> /\ \A i \in 1..N : f[i] = G[i][f[i - 1]]
    BY <1>7 DEF Follows
  <2> SUFFICES ASSUME NEW i \in 1..N PROVE f[i] = Join(f[i - 1], s, i)
    BY <2>1
  <2>2. i - 1 \in 0..N
    OBVIOUS
  <2> QED
    BY <1>6, <2>1, <2>2
<1>9. f[1] = s[1]
  <2>1. f[1] = Join(<<>>, s, 1)
    BY <1>8
  <2>2. PICK y \in Seq(U) : y = s[1]
    OBVIOUS
  <2>3. <<>> \o y = y
    OBVIOUS
  <2> QED
    BY <2>1, <2>2, <2>3 DEF Join
<1>10. PICK g : g = [i \in 1..N |-> f[i]]
  OBVIOUS
<1>11. g = [i \in 1..N |-> IF i = 1 THEN s[i] ELSE Join(g[i - 1], s, i)]
  BY <1>8, <1>9, <1>10
<1>12. PICK p : p = CHOOSE t : t = [i \in 1..N |-> IF i = 1 THEN s[i] ELSE Join(t[i - 1], s, i)]
  OBVIOUS
<1>13. p = [i \in 1..N |-> IF i = 1 THEN s[i] ELSE Join(p[i - 1], s, i)]
  BY <1>11, <1>12
<1>14. FlattenSeq(s) = p[N]
  BY <1>12 DEF FlattenSeq, Join
<1>15. p[1] = s[1] /\ \A i \in 2..N : p[i] = Join(p[i - 1], s, i)
  <2>1. PICK q : q = p
    OBVIOUS
  <2>2. p = [i \in 1..N |-> IF i = 1 THEN s[i] ELSE Join(q[i - 1], s, i)]
    BY <1>13, <2>1
  <2>3. p[1] = s[1] /\ \A i \in 2..N : p[i] = Join(q[i - 1], s, i)
    BY <2>2
  <2> QED
    BY <2>1, <2>3
<1>16. PICK T : T = {n \in Nat : n >= 1 => p[n] \in S /\ Flat(p[n], s, n)}
  OBVIOUS
<1>17. 0 \in T
  BY <1>16
<1>18. ASSUME NEW n \in Nat, n < N, n \in T PROVE n + 1 \in T
  <2>1. CASE n = 0
    <3>1. PICK y : y = s[1]
      OBVIOUS
    <3>2. Len(y) = 3
      BY <3>1 DEF Triple
    <3>3. Flat(y, s, 1)
      BY <3>1, <3>2 DEF Flat
    <3> QED
      BY <1>3, <1>15, <1>16, <2>1, <3>1, <3>3
  <2>2. CASE n # 0
    <3>1. n + 1 \in 2..N /\ n >= 1 /\ (n + 1) - 1 = n /\ n + 1 \in 1..N
      BY <1>18, <2>2
    <3>2. PICK x \in Seq(U), y \in Seq(U) : x = p[n] /\ y = s[n + 1]
      BY <1>1, <1>16, <1>18, <3>1
    <3>3. p[n + 1] = x \o y
      BY <1>15, <3>1, <3>2 DEF Join
    <3>4. Flat(x, s, n) /\ Triple(y)
      BY <1>16, <1>18, <3>1, <3>2
    <3>5. Flat(x \o y, s, n + 1)
      BY <3>2, <3>4, FlatStep
    <3>6. x \o y \in S
      BY <1>1
    <3>7. p[n + 1] \in S /\ Flat(p[n + 1], s, n + 1)
      BY <3>3, <3>5, <3>6
    <3> QED
      BY <1>16, <3>7
  <2> QED
    BY <2>1, <2>2
<1>19. N \in T
  <2>1. \A n \in 0..N : n \in T
    BY <1>17, <1>18, UpTo
  <2> QED
    BY <2>1
<1> QED
  BY <1>1, <1>14, <1>16, <1>19

\* The vault decodes the payments that the calldata was made of.
LEMMA DecodeFacts ==
  ASSUME NEW ps \in Seq(DataPayment), Len(ps) = GroupSize
  PROVE  DecodedPayments(PayForQuotesCalldata(ps)) = ps
<1>0. PICK N \in Nat \ {0} : N = GroupSize /\ N < Modulus
  <2>1. Modulus \in Nat
    BY ZeroFacts, ValueFacts
  <2> QED
    BY <2>1, GroupSizeAssumption
<1>1. PICK s : s = [i \in 1..N |-> <<WordFromAddress(ps[i].rewards), ps[i].amount, ps[i].hash>>]
  OBVIOUS
<1>2. DOMAIN ps = 1..N /\ Len(ps) = N
  BY <1>0
<1>3. PICK one, num : one = Number(1) /\ num = Number(N)
  OBVIOUS
<1>4. Value(num) = N /\ Value(one) = 1
  <2>1. PICK u \in Nat : u = 1 /\ u < Modulus
    <3>1. Modulus \in Nat
      BY ZeroFacts, ValueFacts
    <3> QED
      BY <1>0, <3>1
  <2> QED
    BY <1>0, <1>3, <2>1, NumberFacts
<1>5. PICK h : h = <<"payForQuotes", one, num>>
  OBVIOUS
<1>6. Len(h) = 3 /\ h[2] = one /\ h[3] = num
  BY <1>5
<1>7. PICK U : /\ h \in Seq(U)
               /\ \A i \in 1..N : s[i] \in Seq(U) /\ Triple(s[i])
  <2>1. PICK U : U = {"payForQuotes", one, num} \cup
                     UNION {{WordFromAddress(ps[i].rewards), ps[i].amount, ps[i].hash} : i \in 1..N}
    OBVIOUS
  <2>2. h \in Seq(U)
    BY <1>5, <2>1
  <2>3. ASSUME NEW i \in 1..N PROVE s[i] \in Seq(U) /\ Triple(s[i])
    <3>1. PICK a, b, c : a = WordFromAddress(ps[i].rewards) /\ b = ps[i].amount /\ c = ps[i].hash
      OBVIOUS
    <3>2. s[i] = <<a, b, c>>
      BY <1>1, <3>1
    <3>3. a \in U /\ b \in U /\ c \in U
      BY <2>1, <3>1
    <3> QED
      BY <3>2, <3>3 DEF Triple
  <2> QED
    BY <2>2, <2>3
<1>8. PICK x : x = FlattenSeq(s)
  OBVIOUS
<1>9. x \in Seq(U) /\ Flat(x, s, N)
  <2>1. Len(s) = N
    BY <1>1
  <2> QED
    BY <1>7, <1>8, <2>1, FlattenFacts
<1>10. PICK d : d = PayForQuotesCalldata(ps)
  OBVIOUS
<1>11. d = h \o x
  BY <1>1, <1>2, <1>3, <1>5, <1>8, <1>10 DEF PayForQuotesCalldata
<1>12. d[2] = one /\ d[3] = num
  <2>1. \A i \in 1..Len(h) : d[i] = h[i]
    BY <1>7, <1>9, <1>11, ConcatFirst
  <2> QED
    BY <1>6, <2>1
<1>13. ASSUME NEW i \in 1..N
       PROVE  /\ d[3 + (3 * i - 2)] = s[i][1] /\ d[3 + (3 * i - 1)] = s[i][2]
              /\ d[3 + 3 * i] = s[i][3]
  <2>1. \A k \in 1..Len(x) : d[Len(h) + k] = x[k]
    BY <1>7, <1>9, <1>11, ConcatSecond
  <2>2. Len(x) = 3 * N /\ x[3 * i - 2] = s[i][1] /\ x[3 * i - 1] = s[i][2] /\ x[3 * i] = s[i][3]
    BY <1>9 DEF Flat
  <2>3. 3 * i - 2 \in 1..(3 * N) /\ 3 * i - 1 \in 1..(3 * N) /\ 3 * i \in 1..(3 * N)
    OBVIOUS
  <2> QED
    BY <1>6, <2>1, <2>2, <2>3
<1>14. PICK D : D = DecodedPayments(d)
  OBVIOUS
<1>15. D = [i \in 1..N |-> [rewards |-> AddressOfWord(d[3 + 3 * i - 2]),
                            amount |-> d[3 + 3 * i - 1], hash |-> d[3 + 3 * i]]]
  <2>1. 2 + Value(d[2]) = 3 /\ Value(d[3]) = N
    BY <1>4, <1>12
  <2> QED
    BY <1>14, <2>1 DEF DecodedPayments
<1>16. ASSUME NEW i \in 1..N PROVE D[i] = ps[i]
  <2>1. D[i] = [rewards |-> AddressOfWord(d[3 + 3 * i - 2]),
                amount |-> d[3 + 3 * i - 1], hash |-> d[3 + 3 * i]]
    BY <1>15
  <2>2. 3 + 3 * i - 2 = 3 + (3 * i - 2) /\ 3 + 3 * i - 1 = 3 + (3 * i - 1)
    OBVIOUS
  <2>3. PICK y \in DataPayment : y = ps[i]
    BY <1>2
  <2>4. s[i] = <<WordFromAddress(y.rewards), y.amount, y.hash>>
    BY <1>1, <2>3
  <2>5. D[i] = [rewards |-> AddressOfWord(WordFromAddress(y.rewards)), amount |-> y.amount, hash |-> y.hash]
    BY <1>13, <2>1, <2>2, <2>4
  <2>6. AddressOfWord(WordFromAddress(y.rewards)) = y.rewards
    BY AddressFacts DEF DataPayment
  <2>7. y = [rewards |-> y.rewards, amount |-> y.amount, hash |-> y.hash]
    BY DEF DataPayment
  <2> QED
    BY <2>3, <2>5, <2>6, <2>7
<1>17. D = ps
  <2>1. D = [i \in 1..N |-> D[i]]
    BY <1>15
  <2>2. ps = [i \in 1..N |-> ps[i]]
    BY <1>2
  <2> QED
    BY <1>16, <2>1, <2>2
<1> QED
  BY <1>10, <1>14, <1>17

-----------------------------------------------------------------------------
(* The proof of payment                                                    *)

\* The quotes of a proof, with their peers.
PeerQuotes(q) == [i \in DOMAIN q |-> [peer |-> Peer(i), quote |-> q[i]]]

\* A quote is parsed to what was encoded.
LEMMA QuoteRoundTrip ==
  ASSUME NEW q \in Quote
  PROVE  ParseQuote(EncodeQuote(q)) = q
<1>1. PICK w : w = EncodeQuote(q)
  OBVIOUS
<1>2. /\ Len(w) = 8 /\ w[1] = q.content /\ w[2] = q.secs /\ w[3] = q.price
      /\ w[4] = q.rewards_address /\ w[5] = q.pub_key /\ w[6] = q.signature
      /\ w[7] = q.committed_key_count /\ w[8] = q.commitment_pin
  BY <1>1 DEF EncodeQuote
<1>3. Len(w) >= 7 /\ Len(w) >= 8
  BY <1>2
<1>4. ParseQuote(w) = [content |-> q.content, secs |-> q.secs, price |-> q.price,
                       rewards_address |-> q.rewards_address, pub_key |-> q.pub_key,
                       signature |-> q.signature, committed_key_count |-> q.committed_key_count,
                       commitment_pin |-> q.commitment_pin]
  BY <1>2, <1>3, Zenon DEF ParseQuote
<1> QED
  BY <1>1, <1>4 DEF Quote

\* The proof carries its tag and is parsed to the quotes it was made of.
LEMMA ProofRoundTrip ==
  ASSUME NEW q \in Seq(Quote), NEW tx, NEW sc, NEW b,
         b = SerializeSingleNodeProof(PeerQuotes(q), tx, sc)
  PROVE  HasProofTag(b) /\ ParseSingleNodeProof(b).peer_quotes = PeerQuotes(q)
<1>1. PICK N \in Nat : DOMAIN q = 1..N
  OBVIOUS
<1>2. \A i \in 1..N : q[i] \in Quote
  BY <1>1
<1>3. PICK e : e = [i \in 1..N |-> <<i, EncodeQuote(q[i])>>]
  OBVIOUS
<1>4. PICK body : body = <<e, <<tx>>, sc>>
  OBVIOUS
<1>5. b = <<1, body>>
  BY <1>1, <1>3, <1>4 DEF SerializeSingleNodeProof, EncodeProof, PeerQuotes, Peer, PROOF_TAG_SINGLE_NODE
<1>6. HasProofTag(b)
  BY <1>5 DEF HasProofTag, PROOF_TAG_SINGLE_NODE
<1>7. b[2] = body /\ body[1] = e /\ DOMAIN e = 1..N
  <2>1. b[2] = body
    BY <1>5
  <2>2. body[1] = e
    BY <1>4
  <2>3. DOMAIN e = 1..N
    BY <1>3
  <2> QED
    BY <2>1, <2>2, <2>3
<1>8. ParseSingleNodeProof(b).peer_quotes =
        [i \in 1..N |-> [peer |-> e[i][1], quote |-> ParseQuote(e[i][2])]]
  BY <1>7 DEF ParseSingleNodeProof
<1>9. ASSUME NEW i \in 1..N PROVE e[i][1] = i /\ ParseQuote(e[i][2]) = q[i]
  <2>1. e[i] = <<i, EncodeQuote(q[i])>>
    BY <1>3
  <2>2. ParseQuote(EncodeQuote(q[i])) = q[i]
    BY <1>2, QuoteRoundTrip
  <2> QED
    BY <2>1, <2>2
<1>10. PeerQuotes(q) = [i \in 1..N |-> [peer |-> i, quote |-> q[i]]]
  BY <1>1 DEF PeerQuotes, Peer
<1> QED
  BY <1>6, <1>8, <1>9, <1>10

-----------------------------------------------------------------------------
(* The inductive invariant                                                 *)

\* What was signed for an accepted quote, and with which key.
Issued == [key : Nat, terms : Term]

\* Quote q, accepted from the i-th peer, says what that peer signed.
Good(q, m, i) == Acceptable(q, i) /\ m.key = Peer(i) /\ Says(q, m.terms)

\* So do all quotes.
GoodQuotes == \A i \in 1..Len(quotes) : Good(quotes[i], issued[i], i)

\* The split is made once, of all quotes.
SplitMade ==
  /\ pc = "quoted" => payments = <<>>
  /\ pc \in {"approve", "pay", "proved"} => payments # <<>>
  /\ payments # <<>> => Len(quotes) = GroupSize /\ payments = Split(quotes)

\* What the wallet was handed and the chain did.
Handed ==
  /\ pc = "approve" => calldata = ApproveCalldata(Vault, TotalAmount(payments))
  /\ pc = "pay" => /\ calldata = PayForQuotesCalldata(payments)
                   /\ allowance = TotalAmount(payments)
  /\ paid = <<>> \/ paid = payments
  /\ pc = "proved" =>
       /\ paid = payments
       /\ HasProofTag(proof)
       /\ ParseSingleNodeProof(proof).peer_quotes = PeerQuotes(quotes)

IInv == TypeOK /\ GoodQuotes /\ SplitMade /\ Handed

\* An answer that try_quote accepts says what its peer signed.
LEMMA AnswerFacts ==
  ASSUME NEW s \in Term, NEW t \in Variants(s), NEW p \in Nat, NEW k \in Nat, NEW i \in Nat,
         NEW q, q = ParseQuote(Answer(p, k, s, t)), Acceptable(q, i)
  PROVE  q \in Quote /\ k = Peer(i) /\ Says(q, s)
<1>1. s \in Term /\ t \in Term
  BY VariantsFacts
<1>2. PICK b \in Seq(Nat) : b = BytesForSig(s)
  BY <1>1, SignedBytes
<1>3. q = [content |-> t.content, secs |-> t.secs, price |-> t.price,
           rewards_address |-> t.rewards_address, pub_key |-> p,
           signature |-> [key |-> k, message |-> b],
           committed_key_count |-> t.committed_key_count,
           commitment_pin |-> t.commitment_pin]
  BY <1>2, ParseFacts
<1>4. q \in Quote
  BY <1>1, <1>3 DEF Quote, Term, Signature
<1>5. Says(q, t)
  BY <1>3 DEF Says
<1>6. BytesForSig(q) = BytesForSig(t)
  BY <1>5 DEF Says, BytesForSig
<1>7. q.signature.message = b /\ q.signature = [key |-> q.pub_key, message |-> BytesForSig(q)]
  <2>1. q.signature.message = b
    BY <1>3
  <2>2. q.signature = [key |-> q.pub_key, message |-> BytesForSig(q)]
    BY DEF Acceptable, VerifyQuote, Sign
  <2> QED
    BY <2>1, <2>2
<1>8. BytesForSig(s) = BytesForSig(t)
  <2>1. q.signature.message = BytesForSig(q)
    BY <1>7
  <2> QED
    BY <1>2, <1>6, <1>7, <2>1
<1>9. Says(s, t)
  BY <1>1, <1>8, SignedBytes
<1>10. k = Peer(i)
  <2>1. q.pub_key = p /\ q.signature.key = k
    BY <1>3
  <2>2. q.signature.key = q.pub_key
    BY <1>7
  <2>3. q.pub_key = Peer(i)
    BY DEF Acceptable
  <2> QED
    BY <2>1, <2>2, <2>3
<1> QED
  BY <1>4, <1>5, <1>9, <1>10 DEF Says

\* Initially nothing is quoted.
LEMMA InitOK == Init => IInv
<1> SUFFICES ASSUME Init PROVE IInv
  OBVIOUS
<1>1. /\ pc = "quoted" /\ quotes = <<>> /\ commitments = <<>> /\ issued = <<>>
      /\ payments = <<>> /\ allowance = Zero /\ paid = <<>>
  BY DEF Init
<1>2. GroupSize \in Nat /\ Zero \in Word
  BY GroupSizeAssumption, ZeroFacts
<1>3. Len(quotes) = 0 /\ Len(commitments) = 0 /\ Len(issued) = 0
  BY <1>1
<1>4. quotes \in Seq(Quote) /\ commitments \in Seq(Seq(Nat)) /\ issued \in Seq(Issued)
  BY <1>1, EmptySeq
<1>5. payments \in Seq(DataPayment) /\ paid \in Seq(DataPayment)
  BY <1>1, EmptySeq
<1>6. TypeOK
  BY <1>1, <1>2, <1>3, <1>4, <1>5 DEF TypeOK, Issued
<1>7. GoodQuotes
  BY <1>3 DEF GoodQuotes
<1> QED
  BY <1>1, <1>6, <1>7 DEF IInv, SplitMade, Handed

\* One more quote.
LEMMA TryQuoteOK ==
  ASSUME IInv, NEW p, NEW k, p \in Keys \cup {Peer(Len(quotes) + 1)},
         k \in Keys \cup {Peer(Len(quotes) + 1)},
         NEW r \in Replies, NEW t \in Variants(r.terms), TryQuote(p, k, r, t)
  PROVE  IInv'
<1>0. GroupSize \in Nat
  BY GroupSizeAssumption
<1>1. /\ pc = "quoted" /\ Len(quotes) < GroupSize
      /\ payments' = payments /\ calldata' = calldata /\ allowance' = allowance
      /\ paid' = paid /\ proof' = proof
  BY DEF TryQuote, AsksMore
<1>2. payments = <<>> /\ (paid = <<>> \/ paid = payments)
  BY <1>1 DEF IInv, SplitMade, Handed
<1>3. PICK n \in Nat : n = Len(quotes)
  BY DEF IInv, TypeOK
<1>4. PICK q, m : q = ParseQuote(Answer(p, k, r.terms, t)) /\ m = [key |-> k, terms |-> r.terms]
  OBVIOUS
<1>5. \/ /\ Acceptable(q, n + 1) /\ quotes' = Append(quotes, q) /\ issued' = Append(issued, m)
         /\ commitments' = Append(commitments, r.commitment) /\ pc' = pc
      \/ pc' = "failed" /\ quotes' = quotes /\ issued' = issued /\ commitments' = commitments
  BY <1>3, <1>4 DEF TryQuote
<1>6. CASE pc' = "failed" /\ quotes' = quotes /\ issued' = issued /\ commitments' = commitments
  BY <1>1, <1>2, <1>6 DEF IInv, TypeOK, GoodQuotes, SplitMade, Handed
<1>7. CASE /\ Acceptable(q, n + 1) /\ quotes' = Append(quotes, q) /\ issued' = Append(issued, m)
           /\ commitments' = Append(commitments, r.commitment) /\ pc' = pc
  <2>1. q \in Quote /\ m \in Issued /\ Good(q, m, n + 1) /\ r.commitment \in Seq(Nat)
    <3>1. PICK i \in Nat : i = n + 1
      OBVIOUS
    <3>2. p \in Nat /\ k \in Nat
      BY <1>3, <3>1, TermsAssumption DEF Peer
    <3>3. r.terms \in Term /\ r.commitment \in Seq(Nat)
      BY TermsAssumption DEF Reply
    <3>4. q \in Quote /\ k = Peer(i) /\ Says(q, r.terms)
      BY <1>4, <1>7, <3>1, <3>2, <3>3, AnswerFacts
    <3>5. m \in Issued /\ m.key = k /\ m.terms = r.terms
      BY <1>4, <3>2, <3>3 DEF Issued
    <3> QED
      BY <1>7, <3>1, <3>3, <3>4, <3>5 DEF Good
  <2>2. /\ quotes \in Seq(Quote) /\ issued \in Seq(Issued) /\ Len(issued) = n
        /\ commitments \in Seq(Seq(Nat)) /\ Len(commitments) = n
    BY <1>3 DEF IInv, TypeOK, Issued
  <2>3. /\ quotes' \in Seq(Quote) /\ Len(quotes') = n + 1 /\ quotes'[n + 1] = q
        /\ \A i \in 1..n : quotes'[i] = quotes[i]
    BY <1>3, <1>7, <2>1, <2>2, AppendProperties
  <2>4. /\ issued' \in Seq(Issued) /\ Len(issued') = n + 1 /\ issued'[n + 1] = m
        /\ \A i \in 1..n : issued'[i] = issued[i]
    BY <1>7, <2>1, <2>2, AppendProperties
  <2>9. commitments' \in Seq(Seq(Nat)) /\ Len(commitments') = n + 1
    BY <1>7, <2>1, <2>2, AppendProperties
  <2>5. n + 1 <= GroupSize
    BY <1>0, <1>1, <1>3
  <2>6. TypeOK'
    BY <1>1, <1>7, <2>3, <2>4, <2>5, <2>9 DEF IInv, TypeOK, Issued
  <2>7. ASSUME NEW i \in 1..(n + 1) PROVE Good(quotes'[i], issued'[i], i)
    <3>1. CASE i = n + 1
      BY <2>1, <2>3, <2>4, <3>1
    <3>2. CASE i # n + 1
      <4>1. i \in 1..n
        BY <3>2
      <4>2. Good(quotes[i], issued[i], i)
        BY <1>3, <4>1 DEF IInv, GoodQuotes
      <4> QED
        BY <2>3, <2>4, <4>1, <4>2
    <3> QED
      BY <3>1, <3>2
  <2>8. GoodQuotes'
    BY <2>3, <2>7 DEF GoodQuotes
  <2> QED
    BY <1>1, <1>2, <1>7, <2>6, <2>8 DEF IInv, SplitMade, Handed
<1> QED
  BY <1>5, <1>6, <1>7

\* The split of a whole group, the total and the approve calldata.
LEMMA AskApprovalOK ==
  ASSUME IInv, AskApproval
  PROVE  IInv'
<1>1. /\ pc = "quoted" /\ Len(quotes) = GroupSize /\ payments' = Split(quotes)
      /\ calldata' = ApproveCalldata(Vault, TotalAmount(payments')) /\ pc' = "approve"
      /\ quotes' = quotes /\ commitments' = commitments /\ issued' = issued
      /\ allowance' = allowance /\ paid' = paid /\ proof' = proof
  BY DEF AskApproval
<1>2. quotes \in Seq(Quote)
  BY DEF IInv, TypeOK
<1>3. payments' \in Seq(DataPayment) /\ Len(payments') = GroupSize
  BY <1>1, <1>2, SplitFacts
<1>4. payments' # <<>>
  <2>1. GroupSize # 0
    BY GroupSizeAssumption
  <2>2. Len(<<>>) = 0
    OBVIOUS
  <2> QED
    BY <1>3, <2>1, <2>2
<1>5. paid = <<>>
  BY <1>1 DEF IInv, SplitMade, Handed
<1>6. TypeOK'
  BY <1>1, <1>3 DEF IInv, TypeOK
<1>7. GoodQuotes'
  BY <1>1 DEF IInv, GoodQuotes
<1>8. SplitMade'
  BY <1>1, <1>4 DEF SplitMade
<1>9. Handed'
  BY <1>1, <1>5 DEF Handed
<1> QED
  BY <1>6, <1>7, <1>8, <1>9 DEF IInv

\* The approval is mined: the vault may pull the total.
LEMMA ApprovedOK ==
  ASSUME IInv, Approved
  PROVE  IInv'
<1>1. /\ pc = "approve" /\ pc' = "pay" /\ calldata' = PayForQuotesCalldata(payments)
      /\ allowance' = IF AddressOfWord(calldata[2]) = Vault THEN calldata[3] ELSE allowance
      /\ quotes' = quotes /\ commitments' = commitments /\ issued' = issued
      /\ payments' = payments /\ paid' = paid /\ proof' = proof
  BY DEF Approved
<1>2. PICK total : total = TotalAmount(payments)
  OBVIOUS
<1>3. calldata = <<"approve", WordFromAddress(Vault), total>>
  BY <1>1, <1>2 DEF IInv, Handed, ApproveCalldata
<1>4. calldata[2] = WordFromAddress(Vault) /\ calldata[3] = total
  BY <1>3
<1>5. AddressOfWord(WordFromAddress(Vault)) = Vault
  BY TermsAssumption, AddressFacts
<1>6. allowance' = total
  BY <1>1, <1>4, <1>5
<1>7. total \in Word
  <2>1. quotes \in Seq(Quote) /\ Len(quotes) = GroupSize /\ payments = Split(quotes)
    BY <1>1 DEF IInv, TypeOK, SplitMade
  <2> QED
    BY <1>2, <2>1, SplitSums
<1>8. TypeOK'
  BY <1>1, <1>6, <1>7 DEF IInv, TypeOK
<1>9. GoodQuotes'
  BY <1>1 DEF IInv, GoodQuotes
<1>10. SplitMade'
  BY <1>1 DEF IInv, SplitMade
<1>11. Handed'
  BY <1>1, <1>2, <1>6 DEF IInv, Handed
<1> QED
  BY <1>8, <1>9, <1>10, <1>11 DEF IInv

\* What the vault reads from the second calldata is the split.
LEMMA PayCalldata ==
  ASSUME IInv, pc = "pay"
  PROVE  /\ quotes \in Seq(Quote) /\ Len(quotes) = GroupSize /\ payments = Split(quotes)
         /\ payments \in Seq(DataPayment) /\ DecodedPayments(calldata) = payments
         /\ allowance = TotalAmount(payments)
<1>1. quotes \in Seq(Quote) /\ Len(quotes) = GroupSize /\ payments = Split(quotes)
  BY DEF IInv, TypeOK, SplitMade
<1>2. calldata = PayForQuotesCalldata(payments) /\ allowance = TotalAmount(payments)
  BY DEF IInv, Handed
<1>3. payments \in Seq(DataPayment) /\ Len(payments) = GroupSize
  BY <1>1, SplitFacts
<1>4. DecodedPayments(calldata) = payments
  BY <1>2, <1>3, DecodeFacts
<1> QED
  BY <1>1, <1>2, <1>3, <1>4

\* The payment is mined and the proof built.
LEMMA PaidOK ==
  ASSUME IInv, Paid
  PROVE  IInv'
<1>1. PICK sc :
        /\ pc = "pay" /\ pc' = "proved" /\ paid' = DecodedPayments(calldata)
        /\ proof' = SerializeSingleNodeProof(PeerQuotes(quotes), calldata, sc)
        /\ quotes' = quotes /\ commitments' = commitments /\ issued' = issued
      /\ payments' = payments
        /\ calldata' = calldata /\ allowance' = allowance
  BY DEF Paid, PeerQuotes
<1>2. paid' = payments /\ payments \in Seq(DataPayment) /\ quotes \in Seq(Quote)
  BY <1>1, PayCalldata
<1>3. PICK b : b = proof'
  OBVIOUS
<1>4. HasProofTag(b) /\ ParseSingleNodeProof(b).peer_quotes = PeerQuotes(quotes)
  BY <1>1, <1>2, <1>3, ProofRoundTrip
<1>5. TypeOK'
  BY <1>1, <1>2 DEF IInv, TypeOK
<1>6. GoodQuotes'
  BY <1>1 DEF IInv, GoodQuotes
<1>7. SplitMade'
  BY <1>1 DEF IInv, SplitMade
<1>8. Handed'
  BY <1>1, <1>2, <1>3, <1>4 DEF Handed
<1> QED
  BY <1>5, <1>6, <1>7, <1>8 DEF IInv

\* The wallet fails, before or after the payment is mined.
LEMMA WalletFailsOK ==
  ASSUME IInv, WalletFails
  PROVE  IInv'
<1>1. /\ pc \in {"approve", "pay"} /\ pc' = "failed"
      /\ paid' = paid \/ (pc = "pay" /\ paid' = DecodedPayments(calldata))
      /\ quotes' = quotes /\ commitments' = commitments /\ issued' = issued
      /\ payments' = payments
      /\ calldata' = calldata /\ allowance' = allowance /\ proof' = proof
  BY DEF WalletFails
<1>2. paid' = paid \/ paid' = payments
  BY <1>1, PayCalldata
<1>3. paid' \in Seq(DataPayment) /\ (paid' = <<>> \/ paid' = payments)
  BY <1>2 DEF IInv, TypeOK, Handed
<1>4. TypeOK'
  BY <1>1, <1>3 DEF IInv, TypeOK
<1>5. GoodQuotes'
  BY <1>1 DEF IInv, GoodQuotes
<1>6. SplitMade'
  BY <1>1 DEF IInv, SplitMade
<1>7. Handed'
  BY <1>1, <1>3 DEF Handed
<1> QED
  BY <1>4, <1>5, <1>6, <1>7 DEF IInv

\* The invariant is inductive, and so always holds.
THEOREM Invariance == Spec => []IInv
<1>1. Init => IInv
  BY InitOK
<1>2. IInv /\ [Next]_vars => IInv'
  <2> SUFFICES ASSUME IInv, [Next]_vars PROVE IInv'
    OBVIOUS
  <2>1. ASSUME NEW p, NEW k, p \in Keys \cup {Peer(Len(quotes) + 1)},
               k \in Keys \cup {Peer(Len(quotes) + 1)},
               NEW r \in Replies, NEW t \in Variants(r.terms), TryQuote(p, k, r, t)
        PROVE  IInv'
    BY <2>1, TryQuoteOK
  <2>2. CASE AskApproval
    BY <2>2, AskApprovalOK
  <2>3. CASE PaymentSplitRefuses
    BY <2>3 DEF PaymentSplitRefuses, IInv, TypeOK, GoodQuotes, SplitMade, Handed
  <2>4. CASE Approved
    BY <2>4, ApprovedOK
  <2>5. CASE Paid
    BY <2>5, PaidOK
  <2>6. CASE WalletFails
    BY <2>6, WalletFailsOK
  <2>7. CASE UNCHANGED vars
    BY <2>7 DEF vars, IInv, TypeOK, GoodQuotes, SplitMade, Handed
  <2> QED
    BY <2>1, <2>2, <2>3, <2>4, <2>5, <2>6, <2>7 DEF Next
<1> QED
  BY <1>1, <1>2, PTL DEF Spec

-----------------------------------------------------------------------------
(* Theorems                                                                *)

\* The state of a store that pays (store_one, src/lib.rs) is always well formed;
\* no more quotes than the group has members are ever collected.
THEOREM TypeCorrect == Spec => []TypeOK
<1>1. IInv => TypeOK
  BY DEF IInv
<1> QED
  BY <1>1, Invariance, PTL

\* A quote that try_quote (src/lib.rs) accepts was signed by the peer that was
\* asked, for this chunk, and says in every field what that peer signed, whatever
\* was changed on the way and whichever keys it names and was signed with:
\* bytes_for_sig (src/payment.rs) is injective.
THEOREM BindingTheorem == Spec => []QuotesAreBinding
<1>1. ASSUME IInv PROVE QuotesAreBinding
  <2>1. quotes \in Seq(Quote) /\ issued \in Seq(Issued) /\ Len(issued) = Len(quotes)
    BY <1>1 DEF IInv, TypeOK, Issued
  <2> SUFFICES ASSUME NEW i \in 1..Len(quotes)
               PROVE  /\ issued[i].key = Peer(i) /\ issued[i].terms.content = Address
                      /\ \A f \in DOMAIN issued[i].terms : quotes[i][f] = issued[i].terms[f]
    BY <2>1 DEF QuotesAreBinding
  <2>2. PICK q \in Quote, m \in Issued : q = quotes[i] /\ m = issued[i]
    BY <2>1
  <2>3. PICK t \in Term : t = m.terms
    BY DEF Issued
  <2>4. Acceptable(q, i) /\ Says(q, t) /\ m.key = Peer(i)
    BY <1>1, <2>2, <2>3 DEF IInv, GoodQuotes, Good
  <2>5. t.content = Address
    BY <2>4 DEF Acceptable, Says
  <2>6. \A f \in DOMAIN t : q[f] = t[f]
    BY <2>4 DEF Says, Term, Quote
  <2> QED
    BY <2>2, <2>3, <2>4, <2>5, <2>6
<1> QED
  BY <1>1, Invariance, PTL

\* u256_add (src/evm.rs) adds any two quoted prices modulo 2^256.
THEOREM AddIsModularTheorem == Spec => []AddIsModular
<1>1. ASSUME IInv PROVE AddIsModular
  <2>1. quotes \in Seq(Quote)
    BY <1>1 DEF IInv, TypeOK
  <2>2. \A i \in DOMAIN quotes : quotes[i].price \in Word
    BY <2>1, PriceFacts
  <2> QED
    BY <2>2, AddTheorem DEF AddIsModular
<1> QED
  BY <1>1, Invariance, PTL

\* u256_mul_u64 (src/evm.rs) triples any quoted price modulo 2^256.
THEOREM MulIsModularTheorem == Spec => []MulIsModular
<1>1. ASSUME IInv PROVE MulIsModular
  <2>1. quotes \in Seq(Quote)
    BY <1>1 DEF IInv, TypeOK
  <2> SUFFICES ASSUME NEW i \in DOMAIN quotes
               PROVE  Value(U256Mul(quotes[i].price, 3)) = (3 * Value(quotes[i].price)) % Modulus
    BY DEF MulIsModular
  <2>2. quotes[i].price \in Word
    BY <2>1, PriceFacts
  <2> QED
    BY <2>2, TripleFacts
<1> QED
  BY <1>1, Invariance, PTL

\* payment_split (src/evm.rs) pays exactly one quote, three times its price, and
\* that quote is a median of the group by numeric price.
THEOREM MedianTheorem == Spec => []MedianIsPaid
<1>1. ASSUME IInv, payments # <<>>
      PROVE  \E m \in DOMAIN quotes :
               LET price(i) == Value(quotes[i].price)
               IN /\ Cardinality({i \in DOMAIN quotes : price(i) < price(m)}) <= GroupSize \div 2
                  /\ Cardinality({i \in DOMAIN quotes : price(i) > price(m)}) <= GroupSize \div 2
                  /\ Value(payments[m].amount) = (3 * price(m)) % Modulus
                  /\ \A i \in DOMAIN quotes \ {m} : payments[i].amount = Zero
  <2>1. quotes \in Seq(Quote) /\ Len(quotes) = GroupSize /\ payments = Split(quotes)
    BY <1>1 DEF IInv, TypeOK, SplitMade
  <2>2. PICK m, v : m = MedianIndex(quotes) /\ v = Prices(quotes)
    OBVIOUS
  <2>3. /\ DOMAIN quotes = 1..GroupSize /\ v \in [1..GroupSize -> Nat] /\ m \in 1..GroupSize
        /\ Cardinality(Before(v, GroupSize, m)) = GroupSize \div 2
    BY <2>1, <2>2, MedianFacts
  <2>4. GroupSize \in Nat
    BY GroupSizeAssumption
  <2>5. /\ Cardinality({i \in 1..GroupSize : v[i] < v[m]}) <= GroupSize \div 2
        /\ Cardinality({i \in 1..GroupSize : v[i] > v[m]}) <= GroupSize \div 2
    BY <2>3, <2>4, MedianBounds
  <2>6. \A i \in 1..GroupSize : v[i] = Value(quotes[i].price)
    BY <2>2 DEF Prices
  <2>7. /\ {i \in DOMAIN quotes : Value(quotes[i].price) < Value(quotes[m].price)}
             = {i \in 1..GroupSize : v[i] < v[m]}
        /\ {i \in DOMAIN quotes : Value(quotes[i].price) > Value(quotes[m].price)}
             = {i \in 1..GroupSize : v[i] > v[m]}
    BY <2>3, <2>6
  <2>9. payments[m].amount = U256Mul(quotes[m].price, 3)
    BY <2>1, <2>2, SplitAmounts
  <2>10. \A i \in DOMAIN quotes \ {m} : payments[i].amount = Zero
    BY <2>1, <2>2, <2>3, SplitAmounts
  <2>11. quotes[m].price \in Word
    BY <2>1, <2>3, PriceFacts
  <2>12. Value(payments[m].amount) = (3 * Value(quotes[m].price)) % Modulus
    BY <2>9, <2>11, TripleFacts
  <2> QED
    BY <2>3, <2>5, <2>7, <2>10, <2>12
<1>2. IInv => MedianIsPaid
  BY <1>1 DEF MedianIsPaid
<1> QED
  BY <1>2, Invariance, PTL

\* The approve transaction (total_amount and approve_calldata, src/evm.rs)
\* allows the vault exactly what pay_for_quotes_calldata makes it pull.
THEOREM ApproveTheorem == Spec => []ApproveCoversPayments
<1>1. ASSUME IInv, pc = "pay" PROVE Pulled(DecodedPayments(calldata)) = Value(allowance)
  BY <1>1, PayCalldata, SplitSums
<1>2. IInv => ApproveCoversPayments
  BY <1>1 DEF ApproveCoversPayments
<1> QED
  BY <1>2, Invariance, PTL

\* A node that parses the proof (parse_single_node_proof, src/payment.rs) and
\* looks up the median's hash on chain finds three times its price paid to the
\* address that quote names.
THEOREM ProofTheorem == Spec => []ProofIsPaid
<1>1. ASSUME IInv, pc = "proved"
      PROVE  /\ HasProofTag(proof)
             /\ LET pq == ParseSingleNodeProof(proof).peer_quotes
                    qs == [i \in DOMAIN pq |-> pq[i].quote]
                    m == MedianIndex(qs)
                IN /\ \A i \in DOMAIN qs : Acceptable(qs[i], pq[i].peer)
                   /\ \E k \in DOMAIN paid :
                        paid[k] = [rewards |-> qs[m].rewards_address,
                                   amount |-> U256Mul(qs[m].price, 3), hash |-> QuoteHash(qs[m])]
  <2>1. /\ HasProofTag(proof) /\ ParseSingleNodeProof(proof).peer_quotes = PeerQuotes(quotes)
        /\ paid = payments
    BY <1>1 DEF IInv, Handed
  <2>2. quotes \in Seq(Quote) /\ Len(quotes) = GroupSize /\ payments = Split(quotes)
    BY <1>1 DEF IInv, TypeOK, SplitMade
  <2>3. PICK pq, qs : /\ pq = ParseSingleNodeProof(proof).peer_quotes
                      /\ qs = [i \in DOMAIN pq |-> pq[i].quote]
    OBVIOUS
  <2>4. DOMAIN quotes = 1..GroupSize /\ DOMAIN pq = 1..GroupSize
    BY <2>1, <2>2, <2>3, MedianFacts DEF PeerQuotes
  <2>5. \A i \in 1..GroupSize : pq[i] = [peer |-> i, quote |-> quotes[i]]
    BY <2>1, <2>3, <2>4 DEF PeerQuotes, Peer
  <2>6. qs = quotes
    <3>0. ASSUME NEW i \in 1..GroupSize PROVE pq[i].quote = quotes[i]
      <4>1. PICK x : x = quotes[i]
        OBVIOUS
      <4>2. pq[i] = [peer |-> i, quote |-> x]
        BY <2>5, <4>1
      <4> QED
        BY <4>1, <4>2
    <3>1. qs = [i \in 1..GroupSize |-> quotes[i]]
      BY <2>3, <2>4, <3>0
    <3>2. quotes = [i \in 1..GroupSize |-> quotes[i]]
      BY <2>2, <2>4
    <3> QED
      BY <3>1, <3>2
  <2>7. ASSUME NEW i \in DOMAIN qs PROVE Acceptable(qs[i], pq[i].peer)
    <3>1. i \in 1..GroupSize /\ pq[i].peer = i
      BY <2>4, <2>5, <2>6
    <3>2. Acceptable(quotes[i], i)
      BY <1>1, <2>2, <3>1 DEF IInv, GoodQuotes, Good
    <3> QED
      BY <2>6, <3>1, <3>2
  <2>8. PICK m : m = MedianIndex(quotes)
    OBVIOUS
  <2>9. m \in 1..GroupSize
    BY <2>2, <2>8, MedianFacts
  <2>10. \A i \in 1..GroupSize :
           payments[i] = [rewards |-> quotes[i].rewards_address,
                          amount |-> IF i = m THEN U256Mul(quotes[i].price, 3) ELSE Zero,
                          hash |-> QuoteHash(quotes[i])]
    BY <2>2, <2>8, SplitFacts
  <2>11. paid[m] = [rewards |-> qs[m].rewards_address,
                    amount |-> U256Mul(qs[m].price, 3), hash |-> QuoteHash(qs[m])]
    BY <2>1, <2>6, <2>9, <2>10
  <2>12. m \in DOMAIN paid
    <3>1. payments \in Seq(DataPayment) /\ Len(payments) = GroupSize
      BY <2>2, SplitFacts
    <3>2. DOMAIN payments = 1..GroupSize
      BY <3>1, GroupSizeAssumption
    <3> QED
      BY <2>1, <2>9, <3>2
  <2> QED
    BY <2>1, <2>3, <2>6, <2>7, <2>8, <2>11, <2>12
<1>2. IInv => ProofIsPaid
  BY <1>1 DEF ProofIsPaid
<1> QED
  BY <1>2, Invariance, PTL
=============================================================================
