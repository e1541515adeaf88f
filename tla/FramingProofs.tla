--------------------------- MODULE FramingProofs ---------------------------
(***************************************************************************)
(* Safety of Framing for every byte size, message size, frame limit and    *)
(* set of payloads, and that it implements FrameQueue.                     *)
(*                                                                         *)
(* The refinement rests on one picture: everything that was ever put into  *)
(* the channel is one byte string W, on which the frames of sent, from the *)
(* first byte on, and the messages of channel, up to the last byte, lie    *)
(* one behind the other, and frame_buf is what lies before the first       *)
(* message.  As long as no damage has been read, it begins where the frame *)
(* to be received next begins.                                             *)
(***************************************************************************)
EXTENDS Framing, SequenceTheorems, TLAPS

-----------------------------------------------------------------------------
(* Arithmetic of the length prefix and of cutting                          *)

\* A remainder is known by its bounds.
LEMMA RemUnique ==
  ASSUME NEW n \in Nat, NEW s \in Nat \ {0}, NEW q \in Nat, NEW r \in 0..(s - 1),
         n = q * s + r
  PROVE  n % s = r
OBVIOUS

\* Division with remainder.
LEMMA DivRem ==
  ASSUME NEW n \in Nat, NEW s \in Nat \ {0}
  PROVE  /\ n \div s \in Nat
         /\ n % s \in 0..(s - 1)
         /\ n = (n \div s) * s + (n % s)
<1> DEFINE q == n \div s
<1>1. q \in Nat /\ s * q <= n /\ n < s * q + s
  OBVIOUS
<1> HIDE DEF q
<1>2. PICK r \in 0..(s - 1) : n = q * s + r
  <2>1. n - q * s \in 0..(s - 1) /\ n = q * s + (n - q * s)
    BY <1>1
  <2> QED
    BY <2>1
<1>3. n % s = r
  BY <1>1, <1>2, RemUnique
<1> QED
  BY <1>1, <1>2, <1>3 DEF q

\* A quotient of something below s * k is below k.
LEMMA DivBelow ==
  ASSUME NEW n \in Nat, NEW s \in Nat \ {0}, NEW k \in Nat, n < s * k
  PROVE  n \div s < k
<1>1. PICK q \in Nat, r \in 0..(s - 1) : q = n \div s /\ n = q * s + r
  BY DivRem
<1>2. q < k
  BY <1>1
<1> QED
  BY <1>1, <1>2

\* A prefix is four bytes, whatever the length.
LEMMA PrefixType ==
  ASSUME NEW n \in Nat
  PROVE  ToBe(n) \in Seq(Byte) /\ Len(ToBe(n)) = PrefixLen
<1> DEFINE h == n \div Base
           k == h \div Base
           m == k \div Base
<1>1. Base \in Nat \ {0}
  BY FramingAssumption
<1>2. n % Base \in Byte /\ h \in Nat
  BY <1>1, DivRem DEF Byte
<1>3. h % Base \in Byte /\ k \in Nat
  BY <1>1, <1>2, DivRem DEF Byte
<1>4. k % Base \in Byte /\ m \in Nat
  BY <1>1, <1>3, DivRem DEF Byte
<1>5. m % Base \in Byte
  BY <1>1, <1>4, DivRem DEF Byte
<1>6. ToBe(n) = <<m % Base, k % Base, h % Base, n % Base>>
  BY DEF ToBe
<1> HIDE DEF h, k, m
<1> QED
  BY <1>2, <1>3, <1>4, <1>5, <1>6 DEF PrefixLen

\* from_be_bytes undoes to_be_bytes on every length that fits.
LEMMA PrefixRoundTrip ==
  ASSUME NEW n \in 0..(Base * Base * Base * Base - 1)
  PROVE  FromBe(ToBe(n)[1], ToBe(n)[2], ToBe(n)[3], ToBe(n)[4]) = n
<1> DEFINE h == n \div Base
           k == h \div Base
           m == k \div Base
<1>1. Base \in Nat \ {0}
  BY FramingAssumption
<1>2. n \in Nat /\ n < Base * (Base * Base * Base)
  BY <1>1
<1>3. h \in Nat /\ n % Base \in Byte /\ n = h * Base + (n % Base)
  BY <1>1, <1>2, DivRem DEF Byte
<1>4. Base * Base * Base \in Nat /\ h < Base * (Base * Base)
  <2>1. Base * Base * Base \in Nat
    BY <1>1
  <2>2. h < Base * Base * Base
    BY <1>1, <1>2, <2>1, DivBelow
  <2> QED
    BY <1>1, <2>1, <2>2
<1> HIDE DEF h
<1>5. k \in Nat /\ h % Base \in Byte /\ h = k * Base + (h % Base)
  BY <1>1, <1>3, DivRem DEF Byte
<1>6. Base * Base \in Nat /\ k < Base * Base
  <2>1. Base * Base \in Nat
    BY <1>1
  <2> QED
    BY <1>1, <1>3, <1>4, <2>1, DivBelow
<1> HIDE DEF k
<1>7. m \in Nat /\ k % Base \in Byte /\ k = m * Base + (k % Base) /\ m % Base \in Byte
  BY <1>1, <1>5, DivRem DEF Byte
<1>8. m < Base
  BY <1>1, <1>5, <1>6, DivBelow
<1> HIDE DEF m
<1>9. m % Base = m
  BY <1>1, <1>7, <1>8
<1>10. ToBe(n) = <<m % Base, k % Base, h % Base, n % Base>>
  BY DEF ToBe, h, k, m
<1>11. FromBe(m, k % Base, h % Base, n % Base) = n
  <2>1. m * Base + (k % Base) = k
    BY <1>7
  <2>2. k * Base + (h % Base) = h
    BY <1>5
  <2>3. h * Base + (n % Base) = n
    BY <1>3
  <2> QED
    BY <2>1, <2>2, <2>3 DEF FromBe
<1> QED
  BY <1>9, <1>10, <1>11

-----------------------------------------------------------------------------
(* Byte strings laid one behind the other                                  *)

\* Where the elements of a concatenation come from.
LEMMA ConcatFacts ==
  ASSUME NEW S, NEW s \in Seq(S), NEW t \in Seq(S), NEW m \in Nat, NEW n \in Nat,
         m = Len(s), n = Len(t)
  PROVE  /\ s \o t \in Seq(S) /\ Len(s \o t) = m + n
         /\ \A i \in 1..m : (s \o t)[i] = s[i]
         /\ \A i \in 1..n : (s \o t)[m + i] = t[i]
<1>1. s \o t \in Seq(S) /\ Len(s \o t) = m + n
  OBVIOUS
<1>2. \A i \in 1..m : (s \o t)[i] = s[i]
  OBVIOUS
<1>3. \A i \in 1..n : (s \o t)[m + i] = t[i]
  OBVIOUS
<1> QED
  BY <1>1, <1>2, <1>3

Bytes == Seq(Byte)
Strings == Seq(Bytes)

\* Concatenation of byte strings.
LEMMA BytesConcat ==
  ASSUME NEW s \in Bytes, NEW t \in Bytes
  PROVE  /\ Len(s) \in Nat /\ Len(t) \in Nat
         /\ s \o t \in Bytes /\ Len(s \o t) = Len(s) + Len(t)
         /\ \A i \in 1..Len(s) : (s \o t)[i] = s[i]
         /\ \A i \in 1..Len(t) : (s \o t)[Len(s) + i] = t[i]
<1>1. Len(s) \in Nat /\ Len(t) \in Nat
  BY DEF Bytes
<1> QED
  BY <1>1, ConcatFacts DEF Bytes

\* Concatenation of sequences of byte strings.
LEMMA StringsConcat ==
  ASSUME NEW s \in Strings, NEW t \in Strings
  PROVE  /\ Len(s) \in Nat /\ Len(t) \in Nat
         /\ s \o t \in Strings /\ Len(s \o t) = Len(s) + Len(t)
         /\ \A i \in 1..Len(s) : (s \o t)[i] = s[i]
         /\ \A i \in 1..Len(t) : (s \o t)[Len(s) + i] = t[i]
<1>1. Len(s) \in Nat /\ Len(t) \in Nat
  BY DEF Strings
<1> QED
  BY <1>1, ConcatFacts DEF Strings

\* The strings of parts lie in W one behind the other: part k takes up the
\* bytes after C[k], up to C[k + 1].
Laid(C, parts, W) ==
  /\ \A k \in 1..(Len(parts) + 1) : C[k] \in Nat /\ C[k] <= Len(W)
  /\ \A j, k \in 1..(Len(parts) + 1) : j <= k => C[j] <= C[k]
  /\ \A k \in 1..Len(parts) :
       /\ C[k + 1] = C[k] + Len(parts[k])
       /\ \A i \in 1..Len(parts[k]) : W[C[k] + i] = parts[k][i]

\* split_messages makes no empty message and loses nothing at the cuts.
LEMMA SplitLaid ==
  ASSUME NEW wire \in Seq(Byte), NEW size \in Nat \ {0}
  PROVE  /\ SplitMessages(wire, size) \in Seq(Seq(Byte) \ {<<>>})
         /\ \E C : /\ Laid(C, SplitMessages(wire, size), wire)
                   /\ C[1] = 0
                   /\ C[Len(SplitMessages(wire, size)) + 1] = Len(wire)
<1> DEFINE L == Len(wire)
           n == (L + size - 1) \div size
           Cut(k) == IF k * size < L THEN k * size ELSE L
           msgs == SplitMessages(wire, size)
<1>0. \A i \in 1..L : wire[i] \in Byte
  OBVIOUS
<1>1. L \in Nat /\ L + size - 1 \in Nat
  OBVIOUS
<1>2. n \in Nat /\ L <= n * size /\ n * size <= L + size - 1
  <2>1. PICK r \in 0..(size - 1) : L + size - 1 = n * size + r
    BY <1>1, DivRem
  <2>2. n \in Nat
    BY <1>1, DivRem
  <2> QED
    BY <1>1, <2>1, <2>2
<1>3. msgs = [k \in 1..n |-> SubSeq(wire, (k - 1) * size + 1, Cut(k))]
  BY DEF SplitMessages
<1> HIDE DEF n
<1>4. ASSUME NEW k \in 1..n
      PROVE  /\ (k - 1) * size \in Nat /\ (k - 1) * size < L
             /\ Cut(k - 1) = (k - 1) * size
             /\ Cut(k) \in Nat /\ Cut(k) > (k - 1) * size /\ Cut(k) <= L
  <2>1. (k - 1) * size \in Nat /\ k * size \in Nat /\ k * size = (k - 1) * size + size
    BY <1>2
  <2>2. k * size <= n * size
    BY <1>2
  <2>3. n * size \in Nat
    BY <1>2
  <2> QED
    BY <1>1, <1>2, <2>1, <2>2, <2>3
<1> HIDE DEF msgs, Cut
<1>5. ASSUME NEW k \in 1..n
      PROVE  /\ msgs[k] \in Seq(Byte) /\ Len(msgs[k]) = Cut(k) - Cut(k - 1) /\ msgs[k] # <<>>
             /\ \A i \in 1..Len(msgs[k]) : msgs[k][i] = wire[Cut(k - 1) + i]
  <2>1. msgs[k] = SubSeq(wire, (k - 1) * size + 1, Cut(k))
    BY <1>3
  <2>2. PICK a \in Nat, c \in Nat : a = (k - 1) * size /\ c = Cut(k) /\ a < c /\ c <= L /\ Cut(k - 1) = a
    BY <1>4
  <2>3. msgs[k] = SubSeq(wire, a + 1, c)
    BY <2>1, <2>2
  <2>4. msgs[k] \in Seq(Byte) /\ Len(msgs[k]) = c - a /\ \A i \in 1..(c - a) : msgs[k][i] = wire[a + i]
    <3>1. a + 1 \in 1..L /\ c \in 1..L /\ c - (a + 1) + 1 = c - a
      BY <1>1, <2>2
    <3>2. SubSeq(wire, a + 1, c) = [i \in 1..(c - (a + 1) + 1) |-> wire[i + (a + 1) - 1]]
      OBVIOUS
    <3>3. ASSUME NEW i \in 1..(c - a)
          PROVE  i + (a + 1) - 1 = a + i /\ a + i \in 1..L
      BY <1>1, <2>2
    <3>4. msgs[k] = [i \in 1..(c - a) |-> wire[a + i]]
      BY <2>3, <3>1, <3>2, <3>3
    <3>5. \A i \in 1..(c - a) : wire[a + i] \in Byte
      BY <1>0, <3>3
    <3>6. c - a \in Nat
      BY <2>2
    <3> QED
      BY <3>4, <3>5, <3>6
  <2> QED
    BY <2>2, <2>4
<1>6. msgs \in Seq(Seq(Byte) \ {<<>>}) /\ Len(msgs) = n
  <2>1. PICK S : S = Seq(Byte) \ {<<>>}
    OBVIOUS
  <2>2. \A k \in 1..n : msgs[k] \in S
    BY <1>5, <2>1
  <2>3. PICK g : g = msgs
    OBVIOUS
  <2>4. g = [k \in 1..n |-> g[k]]
    BY <1>3, <2>3
  <2>5. g \in Seq(S) /\ Len(g) = n
    BY <1>2, <2>2, <2>3, <2>4
  <2> QED
    BY <2>1, <2>3, <2>5
<1> DEFINE C == [k \in 1..(n + 1) |-> Cut(k - 1)]
<1>7. C[1] = 0 /\ C[n + 1] = L
  <2>1. Cut(0) = 0
    BY <1>1 DEF Cut
  <2>2. Cut(n) = L
    BY <1>1, <1>2 DEF Cut
  <2> QED
    BY <1>2, <2>1, <2>2
<1>8. Laid(C, msgs, wire)
  <2>1. \A k \in 1..(n + 1) : C[k] \in Nat /\ C[k] <= L
    <3>1. ASSUME NEW k \in 1..(n + 1) PROVE Cut(k - 1) \in 0..L
      <4>1. CASE k = n + 1
        BY <1>1, <1>2, <1>7, <4>1
      <4>2. CASE k # n + 1
        BY <1>1, <1>2, <1>4, <4>2
      <4> QED
        BY <4>1, <4>2
    <3> QED
      BY <1>1, <3>1
  <2>2. ASSUME NEW k \in 1..n
        PROVE  /\ C[k + 1] = C[k] + Len(msgs[k])
               /\ \A i \in 1..Len(msgs[k]) : wire[C[k] + i] = msgs[k][i]
    <3>1. C[k] = Cut(k - 1) /\ C[k + 1] = Cut(k)
      BY <1>2
    <3>2. Cut(k) \in Nat /\ Cut(k - 1) \in Nat
      BY <1>4
    <3>3. Len(msgs[k]) = Cut(k) - Cut(k - 1)
      BY <1>5
    <3> HIDE DEF C
    <3>4. C[k + 1] = C[k] + Len(msgs[k])
      BY <3>1, <3>2, <3>3
    <3> QED
      BY <1>5, <3>1, <3>4
  <2>3. ASSUME NEW j \in 1..(n + 1), NEW k \in 1..(n + 1), j <= k
        PROVE  C[j] <= C[k]
    <3>1. PICK x \in Nat, y \in Nat : x = j - 1 /\ y = k - 1 /\ x <= y
      BY <1>2, <2>3
    <3>2. x * size \in Nat /\ y * size \in Nat /\ x * size <= y * size
      BY <3>1
    <3>3. Cut(x) <= Cut(y)
      BY <1>1, <3>2 DEF Cut
    <3> QED
      BY <3>1, <3>3
  <2> QED
    BY <1>6, <2>1, <2>2, <2>3 DEF Laid
<1> QED
  BY <1>6, <1>7, <1>8 DEF msgs

\* The first n parts end where part n ends.
LEMMA LaidPrefix ==
  ASSUME NEW W \in Bytes, NEW parts \in Strings, NEW C, Laid(C, parts, W),
         NEW n \in 0..Len(parts)
  PROVE  \E D : /\ Laid(D, SubSeq(parts, 1, n), SubSeq(W, 1, C[n + 1]))
                /\ SubSeq(W, 1, C[n + 1]) \in Bytes
                /\ Len(SubSeq(W, 1, C[n + 1])) = C[n + 1]
                /\ D[1] = C[1] /\ D[n + 1] = C[n + 1]
<1> DEFINE D == [k \in 1..(n + 1) |-> C[k]]
           V == SubSeq(W, 1, C[n + 1])
           first == SubSeq(parts, 1, n)
<1>1. Len(parts) \in Nat /\ Len(W) \in Nat /\ \A k \in 1..Len(parts) : Len(parts[k]) \in Nat
  BY DEF Strings, Bytes
<1>2. C[n + 1] \in Nat /\ C[n + 1] <= Len(W)
  BY DEF Laid
<1>3. V \in Bytes /\ Len(V) = C[n + 1] /\ \A i \in 1..C[n + 1] : V[i] = W[i]
  BY <1>2 DEF Bytes
<1>4. Len(first) = n /\ \A k \in 1..n : first[k] = parts[k]
  BY <1>1 DEF Strings, Bytes
<1> HIDE DEF V, first
<1>5. \A k \in 1..(n + 1) : D[k] = C[k] /\ D[k] \in Nat /\ D[k] <= C[n + 1]
  BY <1>1 DEF Laid
<1>6. ASSUME NEW j \in 1..(n + 1), NEW k \in 1..(n + 1), j <= k
      PROVE  D[j] <= D[k]
  <2>1. j \in 1..(Len(parts) + 1) /\ k \in 1..(Len(parts) + 1)
    BY <1>1
  <2>2. C[j] <= C[k]
    BY <1>6, <2>1 DEF Laid
  <2> QED
    BY <1>5, <2>2
<1> HIDE DEF D
<1>7. ASSUME NEW k \in 1..n
      PROVE  /\ D[k + 1] = D[k] + Len(first[k])
             /\ \A i \in 1..Len(first[k]) : V[D[k] + i] = first[k][i]
  <2>1. k \in 1..Len(parts) /\ D[k] = C[k] /\ D[k + 1] = C[k + 1] /\ first[k] = parts[k]
    BY <1>1, <1>4, <1>5
  <2>2. D[k] \in Nat /\ D[k + 1] \in Nat /\ D[k + 1] <= C[n + 1]
    BY <1>5
  <2>3. D[k + 1] = D[k] + Len(first[k]) /\ Len(first[k]) \in Nat
    BY <1>1, <1>4, <2>1 DEF Laid
  <2>4. ASSUME NEW i \in 1..Len(first[k]) PROVE V[D[k] + i] = first[k][i]
    <3>1. D[k] + i \in 1..C[n + 1]
      <4>1. PICK d \in Nat, e \in Nat, c \in Nat, l \in Nat :
              d = D[k] /\ e = D[k + 1] /\ c = C[n + 1] /\ l = Len(first[k])
        BY <1>2, <2>2, <2>3
      <4>2. e <= c /\ e = d + l
        BY <2>2, <2>3, <4>1
      <4>3. i \in 1..l
        BY <4>1
      <4>4. d + i \in 1..c
        BY <4>2, <4>3
      <4> QED
        BY <4>1, <4>4
    <3> QED
      BY <1>3, <2>1, <3>1 DEF Laid
  <2> QED
    BY <2>3, <2>4
<1>8. Laid(D, first, V)
  BY <1>3, <1>4, <1>5, <1>6, <1>7 DEF Laid
<1>9. D[1] = C[1] /\ D[n + 1] = C[n + 1]
  BY <1>1, <1>5
<1> QED
  BY <1>3, <1>8, <1>9 DEF V, first

\* What is laid stays laid when bytes are appended.
LEMMA LaidWider ==
  ASSUME NEW W \in Bytes, NEW V \in Bytes, NEW parts \in Strings, NEW C,
         Laid(C, parts, W)
  PROVE  Laid(C, parts, W \o V)
<1>1. /\ Len(W) \in Nat /\ Len(W \o V) \in Nat /\ Len(W) <= Len(W \o V)
      /\ \A i \in 1..Len(W) : (W \o V)[i] = W[i]
      /\ Len(parts) \in Nat /\ \A k \in 1..Len(parts) : Len(parts[k]) \in Nat
  BY DEF Strings, Bytes
<1>2. \A k \in 1..(Len(parts) + 1) : C[k] \in Nat /\ C[k] <= Len(W)
  BY DEF Laid
<1>3. \A k \in 1..(Len(parts) + 1) : C[k] \in Nat /\ C[k] <= Len(W \o V)
  BY <1>1, <1>2
<1>4. ASSUME NEW k \in 1..Len(parts), NEW i \in 1..Len(parts[k])
      PROVE  (W \o V)[C[k] + i] = parts[k][i]
  <2>1. C[k] \in Nat /\ C[k + 1] \in Nat /\ C[k + 1] <= Len(W) /\ Len(parts[k]) \in Nat
    BY <1>1, <1>2
  <2>2. C[k + 1] = C[k] + Len(parts[k]) /\ W[C[k] + i] = parts[k][i]
    BY DEF Laid
  <2>3. C[k] + i \in 1..Len(W)
    <3>1. PICK c \in Nat, l \in Nat, w \in Nat :
            c = C[k] /\ l = Len(parts[k]) /\ w = Len(W) /\ c + l <= w
      BY <1>1, <2>1, <2>2
    <3>2. i \in 1..l
      BY <3>1
    <3>3. c + i \in 1..w
      BY <3>1, <3>2
    <3> QED
      BY <3>1, <3>3
  <2> QED
    BY <1>1, <2>2, <2>3
<1> QED
  BY <1>3, <1>4 DEF Laid

\* Laying more behind what is laid up to the end.
LEMMA LaidMore ==
  ASSUME NEW W \in Bytes, NEW V \in Bytes, NEW parts \in Strings, NEW more \in Strings,
         NEW C, Laid(C, parts, W), C[Len(parts) + 1] = Len(W),
         NEW D, Laid(D, more, V), D[1] = 0
  PROVE  \E E : /\ Laid(E, parts \o more, W \o V)
                /\ \A k \in 1..(Len(parts) + 1) : E[k] = C[k]
                /\ E[Len(parts \o more) + 1] = Len(W) + D[Len(more) + 1]
<1>1. PICK p \in Nat, q \in Nat, w \in Nat, v \in Nat :
        p = Len(parts) /\ q = Len(more) /\ w = Len(W) /\ v = Len(V)
  BY DEF Strings, Bytes
<1>2. /\ \A k \in 1..(p + 1) : C[k] \in Nat /\ C[k] <= w
      /\ \A j, k \in 1..(p + 1) : j <= k => C[j] <= C[k]
      /\ \A k \in 1..(q + 1) : D[k] \in Nat /\ D[k] <= v
      /\ \A j, k \in 1..(q + 1) : j <= k => D[j] <= D[k]
  BY <1>1 DEF Laid
<1>3. PICK both : /\ both = parts \o more /\ Len(both) = p + q
                  /\ \A k \in 1..p : both[k] = parts[k]
                  /\ \A k \in 1..q : both[p + k] = more[k] /\ Len(more[k]) \in Nat
  <2>1. /\ Len(parts \o more) = p + q
        /\ \A k \in 1..p : (parts \o more)[k] = parts[k]
        /\ \A k \in 1..q : (parts \o more)[p + k] = more[k]
    BY <1>1 DEF Strings
  <2>2. \A k \in 1..q : Len(more[k]) \in Nat
    BY <1>1 DEF Strings, Bytes
  <2> QED
    BY <2>1, <2>2
<1>4. PICK WV : /\ WV = W \o V /\ Len(WV) = w + v
                /\ \A i \in 1..v : WV[w + i] = V[i]
  <2>1. Len(W \o V) = w + v /\ \A i \in 1..v : (W \o V)[w + i] = V[i]
    BY <1>1 DEF Bytes
  <2> QED
    BY <2>1
<1>5. PICK E : /\ \A k \in 1..(p + 1) : E[k] = C[k]
               /\ \A k \in 1..(q + 1) : E[p + k] = w + D[k]
  <2> DEFINE E == [k \in 1..(p + q + 1) |-> IF k <= p + 1 THEN C[k] ELSE w + D[k - p]]
  <2>1. \A k \in 1..(p + 1) : E[k] = C[k]
    OBVIOUS
  <2>2. ASSUME NEW k \in 1..(q + 1) PROVE E[p + k] = w + D[k]
    <3>1. CASE k = 1
      BY <1>1, <2>1, <3>1
    <3>2. CASE k # 1
      <4>1. p + k \in 1..(p + q + 1) /\ ~(p + k <= p + 1) /\ (p + k) - p = k
        BY <3>2
      <4> QED
        BY <4>1
    <3> QED
      BY <3>1, <3>2
  <2> QED
    BY <2>1, <2>2
<1>6. \A k \in 1..(p + q + 1) : k \in 1..(p + 1) \/ \E m \in 1..(q + 1) : k = p + m
  <2> SUFFICES ASSUME NEW k \in 1..(p + q + 1), k \notin 1..(p + 1)
               PROVE  \E m \in 1..(q + 1) : k = p + m
    OBVIOUS
  <2>1. k - p \in 1..(q + 1) /\ k = p + (k - p)
    OBVIOUS
  <2> QED
    BY <2>1
<1>7. ASSUME NEW k \in 1..(p + q + 1) PROVE E[k] \in Nat /\ E[k] <= w + v
  <2>1. CASE k \in 1..(p + 1)
    <3>1. E[k] = C[k] /\ C[k] \in Nat /\ C[k] <= w
      BY <1>2, <1>5, <2>1
    <3> QED
      BY <3>1
  <2>2. ASSUME NEW m \in 1..(q + 1), k = p + m PROVE E[k] \in Nat /\ E[k] <= w + v
    <3>1. E[k] = w + D[m] /\ D[m] \in Nat /\ D[m] <= v
      BY <1>2, <1>5, <2>2
    <3> QED
      BY <3>1
  <2> QED
    BY <1>6, <2>1, <2>2
<1>8. ASSUME NEW j \in 1..(p + q + 1), NEW k \in 1..(p + q + 1), j <= k
      PROVE  E[j] <= E[k]
  <2>1. CASE k \in 1..(p + 1)
    BY <1>2, <1>5, <1>8, <2>1
  <2>2. ASSUME NEW m \in 1..(q + 1), k = p + m PROVE E[j] <= E[k]
    <3>1. PICK d \in Nat : d = D[m] /\ E[k] = w + d
      BY <1>2, <1>5, <2>2
    <3>2. CASE j \in 1..(p + 1)
      <4>1. PICK c \in Nat : c = E[j] /\ c <= w
        BY <1>2, <1>5, <3>2
      <4> QED
        BY <3>1, <4>1
    <3>3. ASSUME NEW l \in 1..(q + 1), j = p + l PROVE E[j] <= E[k]
      <4>1. l <= m
        BY <1>8, <2>2, <3>3
      <4>2. PICK c \in Nat : c = D[l] /\ E[j] = w + c
        BY <1>2, <1>5, <3>3
      <4>3. D[l] <= D[m]
        BY <1>2, <4>1
      <4> QED
        BY <3>1, <4>2, <4>3
    <3> QED
      BY <1>6, <3>2, <3>3
  <2> QED
    BY <1>6, <2>1, <2>2
<1>9. ASSUME NEW k \in 1..(p + q)
      PROVE  /\ E[k + 1] = E[k] + Len(both[k])
             /\ \A i \in 1..Len(both[k]) : WV[E[k] + i] = both[k][i]
  <2>1. CASE k \in 1..p
    <3>1. E[k] = C[k] /\ E[k + 1] = C[k + 1] /\ both[k] = parts[k]
      BY <1>3, <1>5, <2>1
    <3>2. Laid(C, parts, WV)
      BY <1>4, LaidWider
    <3> QED
      BY <1>1, <2>1, <3>1, <3>2 DEF Laid
  <2>2. CASE k \notin 1..p
    <3>1. PICK m \in 1..q : k = p + m
      <4>1. k - p \in 1..q /\ k = p + (k - p)
        BY <2>2
      <4> QED
        BY <4>1
    <3>2. m \in 1..(q + 1) /\ m + 1 \in 1..(q + 1) /\ k + 1 = p + (m + 1)
      BY <3>1
    <3>3. /\ E[k] = w + D[m] /\ E[k + 1] = w + D[m + 1] /\ both[k] = more[m]
          /\ D[m] \in Nat /\ D[m + 1] \in Nat /\ D[m + 1] <= v
      BY <1>2, <1>3, <1>5, <3>1, <3>2
    <3>4. D[m + 1] = D[m] + Len(more[m]) /\ Len(more[m]) \in Nat
      BY <1>1, <1>3 DEF Laid
    <3>5. ASSUME NEW i \in 1..Len(more[m]) PROVE WV[E[k] + i] = more[m][i]
      <4>1. PICK l \in Nat, d \in Nat, e \in Nat :
              l = Len(more[m]) /\ d = D[m] /\ e = D[m + 1] /\ e = d + l /\ e <= v
        BY <3>3, <3>4
      <4>2. i \in 1..l
        BY <4>1
      <4>3. d + i \in 1..v
        BY <4>1, <4>2
      <4>5. E[k] + i = w + (D[m] + i)
        BY <3>3, <4>1, <4>2
      <4>4. V[D[m] + i] = more[m][i]
        BY <1>1 DEF Laid
      <4> QED
        BY <1>4, <4>1, <4>3, <4>4, <4>5
    <3>6. E[k + 1] = E[k] + Len(both[k])
      <4>1. PICK l \in Nat, d \in Nat, e \in Nat :
              l = Len(more[m]) /\ d = D[m] /\ e = D[m + 1] /\ e = d + l
        BY <3>3, <3>4
      <4>2. w + e = (w + d) + l
        BY <4>1
      <4> QED
        BY <3>3, <4>1, <4>2
    <3>7. \A i \in 1..Len(both[k]) : WV[E[k] + i] = both[k][i]
      BY <3>3, <3>5
    <3> QED
      BY <3>6, <3>7
  <2> QED
    BY <2>1, <2>2
<1>10. Laid(E, both, WV)
  BY <1>3, <1>4, <1>7, <1>8, <1>9 DEF Laid
<1>11. E[Len(both) + 1] = w + D[q + 1]
  <2>1. q + 1 \in 1..(q + 1) /\ Len(both) + 1 = p + (q + 1)
    BY <1>3
  <2> QED
    BY <1>5, <2>1
<1> QED
  BY <1>1, <1>3, <1>4, <1>5, <1>10, <1>11

-----------------------------------------------------------------------------
(* Encoded frames                                                          *)

FramesOf(payloads) == [j \in 1..Len(payloads) |-> EncodeFrame(payloads[j])]

\* A frame is its prefix and its payload.
LEMMA EncodeFacts ==
  ASSUME NEW p \in Bytes
  PROVE  /\ EncodeFrame(p) \in Bytes
         /\ Len(p) \in Nat /\ Len(EncodeFrame(p)) = 4 + Len(p)
         /\ \A i \in 1..4 : EncodeFrame(p)[i] = ToBe(Len(p))[i]
         /\ \A i \in 1..Len(p) : EncodeFrame(p)[4 + i] = p[i]
<1>1. PICK prefix \in Bytes : prefix = ToBe(Len(p)) /\ Len(prefix) = 4
  BY PrefixType DEF Bytes, PrefixLen
<1>3. Len(prefix) = 4
  BY <1>1
<1>2. PICK l \in Nat : l = Len(p)
  BY DEF Bytes
<1>4. /\ prefix \o p \in Bytes /\ Len(prefix \o p) = 4 + l
      /\ \A i \in 1..4 : (prefix \o p)[i] = prefix[i]
      /\ \A i \in 1..l : (prefix \o p)[4 + i] = p[i]
  <2>1. /\ prefix \o p \in Bytes /\ Len(prefix \o p) = Len(prefix) + Len(p)
        /\ \A i \in 1..Len(prefix) : (prefix \o p)[i] = prefix[i]
        /\ \A i \in 1..Len(p) : (prefix \o p)[Len(prefix) + i] = p[i]
    BY BytesConcat
  <2> QED
    BY <1>2, <1>3, <2>1
<1> QED
  BY <1>1, <1>2, <1>4 DEF EncodeFrame

\* A payload is a byte string whose length the prefix can hold.
LEMMA PayloadFacts ==
  ASSUME NEW p \in Payloads
  PROVE  /\ p \in Bytes /\ Len(p) \in 1..MaxFrame
         /\ Len(p) \in 0..(Base * Base * Base * Base - 1)
<1>1. p \in Bytes /\ Len(p) \in 1..MaxFrame
  BY PayloadAssumption DEF Bytes
<1>2. MaxFrame \in Nat /\ MaxFrame <= Base * Base * Base * Base - 1 /\ Base \in Nat
  BY FramingAssumption
<1> QED
  BY <1>1, <1>2

\* The frames of sequences of payloads, one behind the other.
LEMMA FramesFacts ==
  ASSUME NEW ps \in Seq(Payloads), NEW qs \in Seq(Payloads)
  PROVE  /\ FramesOf(ps) \in Strings /\ Len(FramesOf(ps)) = Len(ps)
         /\ FramesOf(ps \o qs) = FramesOf(ps) \o FramesOf(qs)
<1>1. \A p \in Payloads : EncodeFrame(p) \in Bytes
  BY EncodeFacts, PayloadFacts
<1>2. /\ FramesOf(ps) \in Seq(Bytes) /\ Len(FramesOf(ps)) = Len(ps)
      /\ FramesOf(qs) \in Seq(Bytes) /\ Len(FramesOf(qs)) = Len(qs)
      /\ FramesOf(ps \o qs) \in Seq(Bytes) /\ Len(FramesOf(ps \o qs)) = Len(ps) + Len(qs)
  BY <1>1 DEF FramesOf
<1>3. PICK m \in Nat, n \in Nat : m = Len(ps) /\ n = Len(qs)
  OBVIOUS
<1>4. /\ FramesOf(ps) \o FramesOf(qs) \in Seq(Bytes)
      /\ Len(FramesOf(ps) \o FramesOf(qs)) = m + n
      /\ \A i \in 1..m : (FramesOf(ps) \o FramesOf(qs))[i] = FramesOf(ps)[i]
      /\ \A i \in 1..n : (FramesOf(ps) \o FramesOf(qs))[m + i] = FramesOf(qs)[i]
  <2>1. PICK F \in Strings, G \in Strings : F = FramesOf(ps) /\ G = FramesOf(qs)
    BY <1>2 DEF Strings
  <2>2. Len(F) = m /\ Len(G) = n
    BY <1>2, <1>3, <2>1
  <2>3. /\ F \o G \in Strings /\ Len(F \o G) = m + n
        /\ \A i \in 1..m : (F \o G)[i] = F[i]
        /\ \A i \in 1..n : (F \o G)[m + i] = G[i]
    BY <2>2, StringsConcat
  <2> QED
    BY <2>1, <2>3 DEF Strings
<1>5. /\ Len(ps \o qs) = m + n
      /\ \A i \in 1..m : (ps \o qs)[i] = ps[i]
      /\ \A i \in 1..n : (ps \o qs)[m + i] = qs[i]
  BY <1>3, ConcatFacts
<1>6. ASSUME NEW i \in 1..(m + n)
      PROVE  FramesOf(ps \o qs)[i] = (FramesOf(ps) \o FramesOf(qs))[i]
  <2>1. FramesOf(ps \o qs)[i] = EncodeFrame((ps \o qs)[i])
    BY <1>5 DEF FramesOf
  <2>2. CASE i \in 1..m
    <3>1. FramesOf(ps)[i] = EncodeFrame(ps[i])
      BY <1>3, <2>2 DEF FramesOf
    <3> QED
      BY <1>4, <1>5, <2>1, <2>2, <3>1
  <2>3. CASE i \notin 1..m
    <3>1. PICK j \in 1..n : i = m + j
      <4>1. i - m \in 1..n /\ i = m + (i - m)
        BY <2>3
      <4> QED
        BY <4>1
    <3>2. FramesOf(qs)[j] = EncodeFrame(qs[j])
      BY <1>3 DEF FramesOf
    <3> QED
      BY <1>4, <1>5, <2>1, <3>1, <3>2
  <2> QED
    BY <2>2, <2>3
<1>7. FramesOf(ps \o qs) = FramesOf(ps) \o FramesOf(qs)
  BY <1>2, <1>3, <1>4, <1>6, SeqEqual
<1> QED
  BY <1>2, <1>7 DEF Strings

\* One frame is laid from its first byte to its last.
LEMMA OneLaid ==
  ASSUME NEW wire \in Bytes
  PROVE  \E D : Laid(D, <<wire>>, wire) /\ D[1] = 0 /\ D[2] = Len(wire)
<1> DEFINE D == <<0, Len(wire)>>
<1>1. Len(wire) \in Nat /\ Len(<<wire>>) = 1 /\ <<wire>>[1] = wire
  BY DEF Bytes
<1>2. D[1] = 0 /\ D[2] = Len(wire)
  OBVIOUS
<1> HIDE DEF D
<1>3. \A k \in 1..2 : D[k] \in Nat /\ D[k] <= Len(wire)
  BY <1>1, <1>2
<1>4. \A j, k \in 1..2 : j <= k => D[j] <= D[k]
  BY <1>1, <1>2
<1>5. ASSUME NEW k \in 1..1
      PROVE  /\ D[k + 1] = D[k] + Len(<<wire>>[k])
             /\ \A i \in 1..Len(<<wire>>[k]) : wire[D[k] + i] = <<wire>>[k][i]
  <2>1. k = 1
    OBVIOUS
  <2> QED
    BY <1>1, <1>2, <2>1
<1>6. Laid(D, <<wire>>, wire)
  BY <1>1, <1>3, <1>4, <1>5 DEF Laid
<1> QED
  BY <1>2, <1>6

\* The wire bytes of a batch are its frames, one behind the other.
LEMMA WireLaid ==
  ASSUME NEW ps \in Batches
  PROVE  /\ ps \in Seq(Payloads) /\ Len(ps) \in 1..2
         /\ Wire(ps) \in Bytes
         /\ \E D : /\ Laid(D, FramesOf(ps), Wire(ps))
                   /\ D[1] = 0 /\ D[Len(ps) + 1] = Len(Wire(ps))
<1>1. ASSUME NEW p \in Payloads
      PROVE  <<p>> \in Seq(Payloads) /\ FramesOf(<<p>>) = <<EncodeFrame(p)>>
  BY DEF FramesOf
<1>2. CASE \E p \in Payloads : ps = <<p>>
  <2>1. PICK p \in Payloads : ps = <<p>>
    BY <1>2
  <2>2. Wire(ps) = EncodeFrame(p) /\ Len(ps) = 1 /\ FramesOf(ps) = <<EncodeFrame(p)>>
    BY <1>1, <2>1 DEF Wire
  <2>3. EncodeFrame(p) \in Bytes
    BY EncodeFacts, PayloadFacts
  <2> QED
    BY <1>1, <2>1, <2>2, <2>3, OneLaid
<1>3. CASE \E p, q \in Payloads : ps = <<p, q>>
  <2>1. PICK p \in Payloads, q \in Payloads : ps = <<p, q>>
    BY <1>3
  <2>2. ps = <<p>> \o <<q>> /\ Len(ps) = 2 /\ ps \in Seq(Payloads)
    <3>1. Len(ps) = 2 /\ ps \in Seq(Payloads) /\ ps[1] = p /\ ps[2] = q
      BY <2>1
    <3>2. /\ <<p>> \in Seq(Payloads) /\ Len(<<p>>) = 1 /\ <<p>>[1] = p
          /\ <<q>> \in Seq(Payloads) /\ Len(<<q>>) = 1 /\ <<q>>[1] = q
      OBVIOUS
    <3>3. /\ <<p>> \o <<q>> \in Seq(Payloads) /\ Len(<<p>> \o <<q>>) = 2
          /\ (<<p>> \o <<q>>)[1] = p /\ (<<p>> \o <<q>>)[2] = q
      BY <3>2
    <3>4. \A i \in 1..Len(ps) : ps[i] = (<<p>> \o <<q>>)[i]
      BY <3>1, <3>3
    <3>5. ps = <<p>> \o <<q>>
      BY <3>1, <3>3, <3>4, SeqEqual, Zenon
    <3> QED
      BY <3>1, <3>5
  <2>3. Wire(ps) = EncodeFrame(p) \o EncodeFrame(q)
    BY <2>1 DEF Wire
  <2>4. PICK a \in Bytes, b \in Bytes : a = EncodeFrame(p) /\ b = EncodeFrame(q)
    BY EncodeFacts, PayloadFacts
  <2>5. FramesOf(ps) = <<a>> \o <<b>>
    BY <1>1, <2>2, <2>4, FramesFacts
  <2>6. PICK C : Laid(C, <<a>>, a) /\ C[1] = 0 /\ C[2] = Len(a)
    BY OneLaid
  <2>7. PICK D : Laid(D, <<b>>, b) /\ D[1] = 0 /\ D[2] = Len(b)
    BY OneLaid
  <2>8. PICK A \in Strings, B \in Strings : A = <<a>> /\ B = <<b>> /\ Len(A) = 1 /\ Len(B) = 1
    <3>1. <<a>> \in Strings /\ <<b>> \in Strings
      BY DEF Strings
    <3>2. Len(<<a>>) = 1 /\ Len(<<b>>) = 1
      OBVIOUS
    <3> QED
      BY <3>1, <3>2
  <2>9. Len(A \o B) = 2
    BY <2>8, StringsConcat
  <2>10. PICK E : /\ Laid(E, A \o B, a \o b)
                  /\ \A k \in 1..(Len(A) + 1) : E[k] = C[k]
                  /\ E[Len(A \o B) + 1] = Len(a) + D[Len(B) + 1]
    <3>1. C[Len(A) + 1] = Len(a) /\ Laid(C, A, a) /\ Laid(D, B, b) /\ D[1] = 0
      BY <2>6, <2>7, <2>8
    <3> QED
      BY <3>1, LaidMore
  <2>11. E[1] = 0 /\ E[3] = Len(a) + Len(b)
    BY <2>6, <2>7, <2>8, <2>9, <2>10
  <2>12. a \o b \in Bytes /\ Len(a \o b) = Len(a) + Len(b)
    BY BytesConcat
  <2>13. Len(ps) = 2 /\ Len(ps) + 1 = 3 /\ Wire(ps) = a \o b /\ FramesOf(ps) = A \o B
    BY <2>2, <2>3, <2>4, <2>5, <2>8
  <2>14. Laid(E, FramesOf(ps), Wire(ps)) /\ E[1] = 0 /\ E[Len(ps) + 1] = Len(Wire(ps))
    <3>1. Laid(E, FramesOf(ps), Wire(ps))
      BY <2>10, <2>13
    <3>2. E[Len(ps) + 1] = Len(Wire(ps))
      BY <2>11, <2>12, <2>13
    <3> QED
      BY <2>11, <3>1, <3>2
  <2>15. Wire(ps) \in Bytes /\ Len(ps) \in 1..2
    BY <2>12, <2>13
  <2> QED
    BY <2>2, <2>14, <2>15
<1> QED
  BY <1>2, <1>3 DEF Batches

-----------------------------------------------------------------------------
(* The stream                                                              *)

\* On the stream W lie the messages of ch, up to its last byte, the frames of
\* snt from its first byte on, and buf between byte b and the first message.
\* With no more than the frames of snt received, buf begins at a frame.
OnStream(W, M, F, b, ch, buf, snt, n) ==
  /\ Laid(M, ch, W) /\ M[Len(ch) + 1] = Len(W)
  /\ Laid(F, FramesOf(snt), W) /\ F[1] = 0
  /\ b \in Nat /\ b + Len(buf) = M[1]
  /\ \A i \in 1..Len(buf) : W[b + i] = buf[i]
  /\ n <= Len(snt) => b = F[n + 1]

\* What push finds, takes and leaves.
LEMMA PushFacts ==
  ASSUME NEW buf \in Bytes
  PROVE  /\ Found(buf) \in {"none", "error", "frame"}
         /\ Found(buf) # "frame" => Remainder(buf) = buf
         /\ Found(buf) = "frame" =>
              /\ Declared(buf) \in 1..MaxFrame /\ 4 + Declared(buf) <= Len(buf)
              /\ FirstFrame(buf) \in Bytes /\ Len(FirstFrame(buf)) = Declared(buf)
              /\ \A i \in 1..Declared(buf) : FirstFrame(buf)[i] = buf[4 + i]
              /\ Remainder(buf) \in Bytes
              /\ Len(Remainder(buf)) = Len(buf) - (4 + Declared(buf))
              /\ \A i \in 1..Len(Remainder(buf)) :
                   Remainder(buf)[i] = buf[4 + Declared(buf) + i]
<1>1. Found(buf) \in {"none", "error", "frame"}
  BY DEF Found
<1>2. Found(buf) # "frame" => Remainder(buf) = buf
  BY DEF Remainder
<1>3. SUFFICES ASSUME Found(buf) = "frame"
               PROVE  /\ Declared(buf) \in 1..MaxFrame /\ 4 + Declared(buf) <= Len(buf)
                      /\ FirstFrame(buf) \in Bytes /\ Len(FirstFrame(buf)) = Declared(buf)
                      /\ \A i \in 1..Declared(buf) : FirstFrame(buf)[i] = buf[4 + i]
                      /\ Remainder(buf) \in Bytes
                      /\ Len(Remainder(buf)) = Len(buf) - (4 + Declared(buf))
                      /\ \A i \in 1..Len(Remainder(buf)) :
                           Remainder(buf)[i] = buf[4 + Declared(buf) + i]
  BY <1>1, <1>2
<1>4. PICK l \in Nat : l = Len(buf)
  BY DEF Bytes
<1>5. PICK d \in 1..MaxFrame : d = Declared(buf)
  BY <1>3 DEF Found
<1>6. MaxFrame \in Nat /\ d \in Nat
  BY FramingAssumption
<1>7. 4 + d <= l
  BY <1>3, <1>4, <1>5, <1>6 DEF Found, PrefixLen
<1>8. \A i \in 1..l : buf[i] \in Byte
  BY <1>4 DEF Bytes
<1>9. /\ SubSeq(buf, 5, 4 + d) \in Seq(Byte)
      /\ Len(SubSeq(buf, 5, 4 + d)) = d
      /\ \A i \in 1..d : SubSeq(buf, 5, 4 + d)[i] = buf[4 + i]
  BY <1>4, <1>6, <1>7, <1>8
<1>10. /\ SubSeq(buf, 4 + d + 1, l) \in Seq(Byte)
       /\ Len(SubSeq(buf, 4 + d + 1, l)) = l - (4 + d)
       /\ \A i \in 1..(l - (4 + d)) : SubSeq(buf, 4 + d + 1, l)[i] = buf[4 + d + i]
  BY <1>4, <1>6, <1>7, <1>8
<1>11. FirstFrame(buf) = SubSeq(buf, 5, 4 + d)
  BY <1>5 DEF FirstFrame, PrefixLen
<1>12. Remainder(buf) = SubSeq(buf, 4 + d + 1, l)
  BY <1>3, <1>4, <1>5 DEF Remainder, PrefixLen
<1> QED
  BY <1>4, <1>5, <1>6, <1>7, <1>9, <1>10, <1>11, <1>12 DEF Bytes

\* Joining the next message to the buffer.
LEMMA StreamJoin ==
  ASSUME NEW W \in Bytes, NEW M, NEW F, NEW b, NEW ch \in Strings, NEW buf \in Bytes,
         NEW snt, NEW n, OnStream(W, M, F, b, ch, buf, snt, n), ch # <<>>
  PROVE  /\ Tail(ch) \in Strings /\ Head(ch) \in Bytes
         /\ \E N : OnStream(W, N, F, b, Tail(ch), buf \o Head(ch), snt, n)
<1>1. PICK c \in Nat : Len(ch) = c + 1
  <2>1. Len(ch) \in Nat /\ Len(ch) # 0
    BY DEF Strings
  <2>2. Len(ch) - 1 \in Nat /\ Len(ch) = (Len(ch) - 1) + 1
    BY <2>1
  <2> QED
    BY <2>2
<1>2. PICK h \in Bytes : h = Head(ch) /\ h = ch[1]
  <2>1. Head(ch) = ch[1] /\ ch[1] \in Bytes
    BY <1>1 DEF Strings
  <2> QED
    BY <2>1
<1>3. PICK t \in Strings : /\ t = Tail(ch) /\ Len(t) = c
                           /\ \A k \in 1..c : t[k] = ch[k + 1]
  <2>1. /\ Tail(ch) \in Seq(Bytes) /\ Len(Tail(ch)) = c
        /\ \A k \in 1..c : Tail(ch)[k] = ch[k + 1]
    BY <1>1 DEF Strings
  <2> QED
    BY <2>1 DEF Strings
<1>4. PICK l \in Nat, e \in Nat, w \in Nat : l = Len(buf) /\ e = Len(h) /\ w = Len(W)
  BY DEF Bytes
<1>5. /\ \A k \in 1..(c + 2) : M[k] \in Nat /\ M[k] <= w
      /\ \A j, k \in 1..(c + 2) : j <= k => M[j] <= M[k]
      /\ \A k \in 1..(c + 1) : /\ M[k + 1] = M[k] + Len(ch[k])
                               /\ \A i \in 1..Len(ch[k]) : W[M[k] + i] = ch[k][i]
      /\ M[c + 2] = w
  <2>1. Len(ch) + 1 = c + 2
    BY <1>1
  <2> QED
    BY <1>1, <1>4, <2>1 DEF OnStream, Laid
<1>6. PICK N : \A k \in 1..(c + 1) : N[k] = M[k + 1]
  <2>1. \A k \in 1..(c + 1) : [i \in 1..(c + 1) |-> M[i + 1]][k] = M[k + 1]
    OBVIOUS
  <2> QED
    BY <2>1
<1>7. Laid(N, t, W)
  <2>1. \A k \in 1..(c + 1) : N[k] \in Nat /\ N[k] <= w
    BY <1>5, <1>6
  <2>2. \A j, k \in 1..(c + 1) : j <= k => N[j] <= N[k]
    <3> SUFFICES ASSUME NEW j \in 1..(c + 1), NEW k \in 1..(c + 1), j <= k
                 PROVE  N[j] <= N[k]
      OBVIOUS
    <3>1. j + 1 \in 1..(c + 2) /\ k + 1 \in 1..(c + 2) /\ j + 1 <= k + 1
      OBVIOUS
    <3>2. M[j + 1] <= M[k + 1]
      BY <1>5, <3>1
    <3> QED
      BY <1>6, <3>2
  <2>3. ASSUME NEW k \in 1..c
        PROVE  /\ N[k + 1] = N[k] + Len(t[k])
               /\ \A i \in 1..Len(t[k]) : W[N[k] + i] = t[k][i]
    <3>1. k + 1 \in 1..(c + 1) /\ k \in 1..(c + 1)
      OBVIOUS
    <3>2. N[k] = M[k + 1] /\ N[k + 1] = M[k + 1 + 1] /\ t[k] = ch[k + 1]
      BY <1>3, <1>6, <3>1
    <3> QED
      BY <1>5, <3>1, <3>2
  <2> QED
    BY <1>3, <1>4, <2>1, <2>2, <2>3 DEF Laid
<1>8. /\ b \in Nat /\ b + l = M[1] /\ \A i \in 1..l : W[b + i] = buf[i]
      /\ n <= Len(snt) => b = F[n + 1]
      /\ Laid(F, FramesOf(snt), W) /\ F[1] = 0
  BY <1>4 DEF OnStream
<1>9. PICK m1 \in Nat, m2 \in Nat : m1 = M[1] /\ m2 = M[2] /\ m2 = m1 + e /\ N[1] = m2
  <2>1. 1 \in 1..(c + 2) /\ 2 \in 1..(c + 2) /\ 1 \in 1..(c + 1) /\ 1 + 1 = 2
    OBVIOUS
  <2>2. M[1] \in Nat /\ M[2] \in Nat
    BY <1>5, <2>1
  <2>3. M[1 + 1] = M[1] + Len(ch[1]) /\ N[1] = M[1 + 1]
    BY <1>5, <1>6, <2>1
  <2>4. M[2] = M[1] + e /\ N[1] = M[2]
    BY <1>2, <1>4, <2>3
  <2> QED
    BY <2>2, <2>4
<1>10. PICK x \in Bytes : /\ x = buf \o h /\ Len(x) = l + e
                          /\ \A i \in 1..l : x[i] = buf[i]
                          /\ \A i \in 1..e : x[l + i] = h[i]
  <2>1. /\ buf \o h \in Bytes /\ Len(buf \o h) = l + e
        /\ \A i \in 1..l : (buf \o h)[i] = buf[i]
        /\ \A i \in 1..e : (buf \o h)[l + i] = h[i]
    BY <1>4, BytesConcat
  <2> QED
    BY <2>1
<1>11. b + Len(x) = N[1]
  BY <1>8, <1>9, <1>10
<1>12. ASSUME NEW i \in 1..Len(x) PROVE W[b + i] = x[i]
  <2>1. CASE i \in 1..l
    BY <1>8, <1>10, <2>1
  <2>2. CASE i \notin 1..l
    <3>1. PICK j \in 1..e : i = l + j
      <4>1. i - l \in 1..e /\ i = l + (i - l)
        BY <1>10, <2>2
      <4> QED
        BY <4>1
    <3>2. W[m1 + j] = h[j]
      BY <1>2, <1>4, <1>5, <1>9
    <3>3. b + i = m1 + j
      BY <1>8, <1>9, <3>1
    <3> QED
      BY <1>10, <3>1, <3>2, <3>3
  <2> QED
    BY <2>1, <2>2
<1>13. N[Len(t) + 1] = Len(W)
  <2>1. c + 1 \in 1..(c + 1) /\ c + 1 + 1 = c + 2
    OBVIOUS
  <2> QED
    BY <1>3, <1>4, <1>5, <1>6, <2>1
<1>14. OnStream(W, N, F, b, t, x, snt, n)
  BY <1>7, <1>8, <1>11, <1>12, <1>13 DEF OnStream
<1> QED
  BY <1>2, <1>3, <1>10, <1>14

\* Putting messages into the channel.
LEMMA StreamSend ==
  ASSUME NEW W \in Bytes, NEW M, NEW F, NEW b, NEW ch \in Strings, NEW buf \in Bytes,
         NEW snt \in Seq(Payloads), NEW n, OnStream(W, M, F, b, ch, buf, snt, n),
         NEW V \in Bytes, NEW msgs \in Strings, NEW D,
         Laid(D, msgs, V), D[1] = 0, D[Len(msgs) + 1] = Len(V)
  PROVE  \E N : OnStream(W \o V, N, F, b, ch \o msgs, buf, snt, n)
<1>1. Laid(M, ch, W) /\ M[Len(ch) + 1] = Len(W)
  BY DEF OnStream
<1>2. PICK N : /\ Laid(N, ch \o msgs, W \o V)
               /\ \A k \in 1..(Len(ch) + 1) : N[k] = M[k]
               /\ N[Len(ch \o msgs) + 1] = Len(W) + D[Len(msgs) + 1]
  <2>1. PICK A \in Strings, B \in Strings : A = ch /\ B = msgs
    OBVIOUS
  <2>2. Laid(M, A, W) /\ M[Len(A) + 1] = Len(W) /\ Laid(D, B, V)
    BY <1>1, <2>1
  <2>3. \E N : /\ Laid(N, A \o B, W \o V)
               /\ \A k \in 1..(Len(A) + 1) : N[k] = M[k]
               /\ N[Len(A \o B) + 1] = Len(W) + D[Len(B) + 1]
    BY <2>2, LaidMore
  <2> QED
    BY <2>1, <2>3
<1>3. FramesOf(snt) \in Strings
  BY FramesFacts
<1>4. Laid(F, FramesOf(snt), W \o V)
  BY <1>3, LaidWider DEF OnStream
<1>5. PICK l \in Nat, w \in Nat, v \in Nat, c \in Nat :
        l = Len(buf) /\ w = Len(W) /\ v = Len(V) /\ c = Len(ch)
  BY DEF Bytes, Strings
<1>6. PICK X \in Bytes : X = W \o V /\ Len(X) = w + v /\ \A i \in 1..w : X[i] = W[i]
  <2>1. W \o V \in Bytes /\ Len(W \o V) = w + v /\ \A i \in 1..w : (W \o V)[i] = W[i]
    BY <1>5, BytesConcat
  <2> QED
    BY <2>1
<1>7. 1 \in 1..(c + 1)
  OBVIOUS
<1>8. PICK m \in Nat : m = M[1] /\ m <= w
  BY <1>1, <1>5, <1>7 DEF Laid
<1>9. N[1] = m
  BY <1>2, <1>5, <1>7, <1>8
<1>10. b \in Nat /\ b + l = m /\ \A i \in 1..l : W[b + i] = buf[i]
  BY <1>5, <1>8 DEF OnStream
<1>11. ASSUME NEW i \in 1..l PROVE X[b + i] = buf[i]
  <2>1. b + i \in 1..w
    BY <1>8, <1>10
  <2> QED
    BY <1>6, <1>10, <2>1
<1>12. N[Len(ch \o msgs) + 1] = Len(X)
  BY <1>2, <1>5, <1>6
<1>13. (n <= Len(snt) => b = F[n + 1]) /\ F[1] = 0
  BY DEF OnStream
<1>14. b + Len(buf) = N[1]
  BY <1>5, <1>9, <1>10
<1>15. Laid(N, ch \o msgs, X) /\ Laid(F, FramesOf(snt), X)
  BY <1>2, <1>4, <1>6
<1>16. b \in Nat /\ \A i \in 1..Len(buf) : X[b + i] = buf[i]
  BY <1>5, <1>10, <1>11
<1>17. OnStream(X, N, F, b, ch \o msgs, buf, snt, n)
  BY <1>12, <1>13, <1>14, <1>15, <1>16 DEF OnStream
<1> QED
  BY <1>6, <1>17

\* The new bytes are frames, behind those of snt that fill the stream.
LEMMA StreamSent ==
  ASSUME NEW W \in Bytes, NEW M, NEW F, NEW b, NEW ch, NEW buf,
         NEW snt \in Seq(Payloads), NEW n \in Nat, n <= Len(snt),
         NEW V \in Bytes, OnStream(W \o V, M, F, b, ch, buf, snt, n),
         Laid(F, FramesOf(snt), W), F[Len(snt) + 1] = Len(W),
         NEW ps \in Seq(Payloads), NEW D, Laid(D, FramesOf(ps), V),
         D[1] = 0, D[Len(ps) + 1] = Len(V)
  PROVE  \E G : /\ OnStream(W \o V, M, G, b, ch, buf, snt \o ps, n)
                /\ G[Len(snt \o ps) + 1] = Len(W \o V)
<1>1. PICK A \in Strings, B \in Strings :
        /\ A = FramesOf(snt) /\ B = FramesOf(ps) /\ FramesOf(snt \o ps) = A \o B
        /\ Len(A) = Len(snt) /\ Len(B) = Len(ps)
  BY FramesFacts
<1>2. PICK G : /\ Laid(G, A \o B, W \o V)
               /\ \A k \in 1..(Len(A) + 1) : G[k] = F[k]
               /\ G[Len(A \o B) + 1] = Len(W) + D[Len(B) + 1]
  <2>1. Laid(F, A, W) /\ F[Len(A) + 1] = Len(W) /\ Laid(D, B, V)
    BY <1>1
  <2> QED
    BY <2>1, LaidMore
<1>3. PICK s \in Nat, p \in Nat : s = Len(snt) /\ p = Len(ps)
  OBVIOUS
<1>4. Len(snt \o ps) = s + p /\ Len(A \o B) = s + p
  <2>1. Len(snt \o ps) = s + p
    BY <1>3
  <2>2. Len(A \o B) = Len(A) + Len(B)
    BY StringsConcat
  <2> QED
    BY <1>1, <1>3, <2>1, <2>2
<1>5. 1 \in 1..(s + 1) /\ n + 1 \in 1..(s + 1) /\ n <= s + p
  BY <1>3
<1>6. G[1] = 0 /\ b = G[n + 1]
  <2>1. F[1] = 0 /\ b = F[n + 1]
    BY DEF OnStream
  <2> QED
    BY <1>1, <1>2, <1>3, <1>5, <2>1
<1>7. Len(W \o V) = Len(W) + Len(V)
  BY BytesConcat
<1>8. G[Len(snt \o ps) + 1] = Len(W \o V)
  BY <1>1, <1>2, <1>4, <1>7
<1>9. Laid(G, FramesOf(snt \o ps), W \o V)
  BY <1>1, <1>2
<1>10. OnStream(W \o V, M, G, b, ch, buf, snt \o ps, n)
  BY <1>6, <1>9 DEF OnStream
<1> QED
  BY <1>8, <1>10

\* A frame taken off while frames of snt are outstanding is the next of them,
\* and leaves the buffer at the one after it.
LEMMA StreamPop ==
  ASSUME NEW W \in Bytes, NEW M, NEW F, NEW b, NEW ch \in Strings, NEW buf \in Bytes,
         NEW snt \in Seq(Payloads), NEW n \in Nat, OnStream(W, M, F, b, ch, buf, snt, n),
         Found(buf) = "frame"
  PROVE  /\ n < Len(snt) => FirstFrame(buf) = snt[n + 1]
         /\ n = Len(snt) => F[n + 1] # Len(W)
         /\ \E c : OnStream(W, M, F, c, ch, Remainder(buf), snt, n + 1)
<1>1. PICK l \in Nat, w \in Nat, s \in Nat : l = Len(buf) /\ w = Len(W) /\ s = Len(snt)
  BY DEF Bytes
<1>2. PICK d \in Nat : d = Declared(buf) /\ d > 0 /\ 4 + d <= l
  <2>1. MaxFrame \in Nat
    BY FramingAssumption
  <2> QED
    BY <1>1, <2>1, PushFacts
<1>3. 1 \in 1..(Len(ch) + 1)
  BY DEF Strings
<1>4. PICK m \in Nat : m = M[1] /\ m <= w
  BY <1>1, <1>3 DEF OnStream, Laid
<1>5. b \in Nat /\ b + l = m /\ \A i \in 1..l : W[b + i] = buf[i]
  BY <1>1, <1>4 DEF OnStream
<1>6. n <= s => b = F[n + 1]
  BY <1>1 DEF OnStream
<1>7. n = s => F[n + 1] # w
  <2>1. b < w
    BY <1>2, <1>4, <1>5
  <2>2. n = s => n <= s
    OBVIOUS
  <2> QED
    BY <1>5, <1>6, <2>1, <2>2
<1>8. ASSUME n < s
      PROVE  FirstFrame(buf) = snt[n + 1] /\ F[n + 1 + 1] = b + (4 + d)
  <2>1. n + 1 \in 1..s /\ b = F[n + 1]
    BY <1>6, <1>8
  <2>2. PICK p \in Payloads : p = snt[n + 1]
    BY <1>1, <2>1
  <2>3. p \in Bytes /\ Len(p) \in 0..(Base * Base * Base * Base - 1)
    BY PayloadFacts
  <2>4. PICK e \in Bytes, k \in Nat :
          /\ e = EncodeFrame(p) /\ k = Len(p) /\ Len(e) = 4 + k
          /\ \A i \in 1..4 : e[i] = ToBe(Len(p))[i]
          /\ \A i \in 1..k : e[4 + i] = p[i]
    BY <2>3, EncodeFacts
  <2>5. FramesOf(snt)[n + 1] = e /\ Len(FramesOf(snt)) = s
    <3>1. FramesOf(snt)[n + 1] = EncodeFrame(snt[n + 1])
      BY <1>1, <2>1 DEF FramesOf
    <3>2. Len(FramesOf(snt)) = s
      BY <1>1, FramesFacts
    <3> QED
      BY <2>2, <2>4, <3>1, <3>2
  <2>6. F[n + 1 + 1] = b + (4 + k) /\ \A i \in 1..(4 + k) : W[b + i] = e[i]
    <3>1. n + 1 \in 1..Len(FramesOf(snt))
      BY <2>1, <2>5
    <3>2. /\ F[n + 1 + 1] = F[n + 1] + Len(FramesOf(snt)[n + 1])
          /\ \A i \in 1..Len(FramesOf(snt)[n + 1]) :
               W[F[n + 1] + i] = FramesOf(snt)[n + 1][i]
      BY <3>1 DEF OnStream, Laid
    <3>3. Len(FramesOf(snt)[n + 1]) = 4 + k
      BY <2>4, <2>5
    <3> QED
      BY <2>1, <2>5, <3>2, <3>3
  <2>7. \A i \in 1..4 : buf[i] = ToBe(Len(p))[i]
    <3> SUFFICES ASSUME NEW i \in 1..4 PROVE buf[i] = ToBe(Len(p))[i]
      OBVIOUS
    <3>1. i \in 1..l /\ i \in 1..(4 + k)
      BY <1>2
    <3> QED
      BY <1>5, <2>4, <2>6, <3>1
  <2>8. Declared(buf) = Len(p)
    <3>1. /\ buf[1] = ToBe(Len(p))[1] /\ buf[2] = ToBe(Len(p))[2]
          /\ buf[3] = ToBe(Len(p))[3] /\ buf[4] = ToBe(Len(p))[4]
      BY <2>7
    <3> QED
      BY <2>3, <3>1, PrefixRoundTrip DEF Declared
  <2>9. d = k
    BY <1>2, <2>4, <2>8
  <2>10. PICK f \in Bytes : /\ f = FirstFrame(buf) /\ Len(f) = d
                            /\ \A i \in 1..d : f[i] = buf[4 + i]
    BY <1>2, PushFacts
  <2>11. ASSUME NEW i \in 1..k PROVE f[i] = p[i]
    <3>1. i \in 1..d /\ 4 + i \in 1..l /\ 4 + i \in 1..(4 + k)
      BY <1>2, <2>9
    <3>2. f[i] = buf[4 + i] /\ e[4 + i] = p[i]
      BY <2>4, <2>10, <3>1
    <3>3. W[b + (4 + i)] = buf[4 + i] /\ W[b + (4 + i)] = e[4 + i]
      BY <1>5, <2>6, <3>1
    <3> QED
      BY <3>2, <3>3
  <2>12. f = p
    <3>1. f \in Seq(Byte) /\ p \in Seq(Byte) /\ Len(f) = Len(p)
      BY <2>3, <2>4, <2>9, <2>10 DEF Bytes
    <3>2. \A i \in 1..Len(f) : f[i] = p[i]
      BY <2>9, <2>10, <2>11
    <3> QED
      BY <3>1, <3>2, SeqEqual, Zenon
  <2> QED
    BY <2>2, <2>6, <2>9, <2>10, <2>12
<1>9. PICK r \in Bytes : /\ r = Remainder(buf) /\ Len(r) = l - (4 + d)
                         /\ \A i \in 1..Len(r) : r[i] = buf[4 + d + i]
  BY <1>1, <1>2, PushFacts
<1>10. PICK c \in Nat : c = b + (4 + d)
  BY <1>5
<1>11. c + Len(r) = M[1]
  BY <1>2, <1>4, <1>5, <1>9, <1>10
<1>12. ASSUME NEW i \in 1..Len(r) PROVE W[c + i] = r[i]
  <2>1. i \in 1..(l - (4 + d))
    BY <1>9
  <2>2. 4 + d + i \in 1..l /\ c + i = b + (4 + d + i)
    <3>1. b \in Nat /\ i \in Nat /\ i >= 1 /\ i <= l - (4 + d)
      BY <1>2, <1>5, <2>1
    <3>2. 4 + d + i \in Nat /\ 4 + d + i >= 1 /\ 4 + d + i <= l
      BY <3>1
    <3>3. c + i = b + (4 + d + i)
      BY <1>10, <3>1
    <3> QED
      BY <3>2, <3>3
  <2> QED
    BY <1>5, <1>9, <2>2
<1>13. n + 1 <= Len(snt) => c = F[n + 1 + 1]
  BY <1>1, <1>8, <1>10
<1>14. OnStream(W, M, F, c, ch, r, snt, n + 1)
  BY <1>11, <1>12, <1>13 DEF OnStream
<1>15. n < s => FirstFrame(buf) = snt[n + 1]
  BY <1>8
<1> QED
  BY <1>1, <1>7, <1>9, <1>14, <1>15

-----------------------------------------------------------------------------
(* The inductive invariant                                                 *)

\* After a length error recv_frame has returned, with the offending prefix
\* still at the front of the buffer.
ErrorStays == failed => pc = "idle" /\ Found(frame_buf) = "error"

\* Without damage no more frames come out than went in.
Behind == damaged \/ Len(got) <= Len(sent)

\* Without damage the frames of sent are all there is on the stream.
Stream ==
  \E W, M, F, b :
    /\ W \in Bytes
    /\ OnStream(W, M, F, b, channel, frame_buf, sent, Len(got))
    /\ damaged \/ F[Len(sent) + 1] = Len(W)

IInv == TypeOK /\ NothingStranded /\ ErrorStays /\ Behind /\ Stream

Message == Seq(Byte) \ {<<>>}

\* The messages of a channel are byte strings.
LEMMA MessagesAreStrings ==
  ASSUME NEW ch \in Seq(Message)
  PROVE  ch \in Strings
<1>1. Message \subseteq Bytes
  BY DEF Message, Bytes
<1> QED
  BY <1>1 DEF Strings

\* split_messages of a byte string, in the vocabulary of this module.
LEMMA SplitFacts ==
  ASSUME NEW wire \in Bytes, NEW size \in MessageSizes
  PROVE  /\ SplitMessages(wire, size) \in Seq(Message)
         /\ SplitMessages(wire, size) \in Strings
         /\ \E D : /\ Laid(D, SplitMessages(wire, size), wire)
                   /\ D[1] = 0
                   /\ D[Len(SplitMessages(wire, size)) + 1] = Len(wire)
<1>1. wire \in Seq(Byte) /\ size \in Nat \ {0}
  BY FramingAssumption DEF Bytes
<1>2. SplitMessages(wire, size) \in Seq(Message)
  BY <1>1, SplitLaid DEF Message
<1>3. \E D : /\ Laid(D, SplitMessages(wire, size), wire)
             /\ D[1] = 0
             /\ D[Len(SplitMessages(wire, size)) + 1] = Len(wire)
  BY <1>1, SplitLaid
<1> QED
  BY <1>2, <1>3, MessagesAreStrings

\* Both ends start with an empty stream.
LEMMA InitIInv == Init => IInv
<1> SUFFICES ASSUME Init PROVE IInv
  OBVIOUS
<1>1. TypeOK
  <2>1. /\ channel \in Seq(Seq(Byte) \ {<<>>}) /\ frame_buf \in Seq(Byte)
        /\ sent \in Seq(Payloads) /\ got \in Seq(Seq(Byte))
    BY DEF Init
  <2>2. \A i \in DOMAIN got : Len(got[i]) \in 1..MaxFrame
    BY DEF Init
  <2>3. sends \in 0..MaxSends
    BY FramingAssumption DEF Init
  <2>4. pc \in {"idle", "await"} /\ failed \in BOOLEAN /\ damaged \in BOOLEAN
    BY DEF Init
  <2> QED
    BY <2>1, <2>2, <2>3, <2>4 DEF TypeOK
<1>2. NothingStranded /\ ErrorStays
  BY DEF Init, NothingStranded, ErrorStays
<1>3. Len(got) = 0 /\ Len(sent) = 0 /\ Len(channel) = 0 /\ Len(frame_buf) = 0
  BY DEF Init
<1>4. Behind
  BY <1>3 DEF Behind
<1>5. Stream
  <2>1. PICK W \in Bytes : W = <<>> /\ Len(W) = 0
    <3>1. <<>> \in Bytes /\ Len(<<>>) = 0
      BY DEF Bytes
    <3> QED
      BY <3>1
  <2>2. PICK Z : Z[1] = 0
    <3>1. <<0>>[1] = 0
      OBVIOUS
    <3> QED
      BY <3>1
  <2>3. ASSUME NEW parts, Len(parts) = 0 PROVE Laid(Z, parts, W)
    BY <2>1, <2>2, <2>3 DEF Laid
  <2>4. Len(FramesOf(sent)) = 0
    BY <1>3 DEF Init, FramesOf
  <2>5. OnStream(W, Z, Z, 0, channel, frame_buf, sent, Len(got))
    BY <1>3, <2>1, <2>2, <2>3, <2>4 DEF OnStream
  <2>6. Z[Len(sent) + 1] = Len(W)
    BY <1>3, <2>1, <2>2
  <2> QED
    BY <2>5, <2>6 DEF Stream
<1> QED
  BY <1>1, <1>2, <1>4, <1>5 DEF IInv

\* A batch of frames is laid at the end of the stream.
LEMMA SendFramesIInv ==
  ASSUME IInv, NEW ps \in Batches, NEW size \in MessageSizes, SendFrames(ps, size)
  PROVE  IInv'
<1>1. /\ ps \in Seq(Payloads) /\ Len(ps) \in 1..2 /\ Wire(ps) \in Bytes
  BY WireLaid
<1>2. PICK msgs : /\ msgs = SplitMessages(Wire(ps), size)
                  /\ msgs \in Seq(Message) /\ msgs \in Strings
                  /\ \E D : Laid(D, msgs, Wire(ps)) /\ D[1] = 0
                            /\ D[Len(msgs) + 1] = Len(Wire(ps))
  BY <1>1, SplitFacts
<1>3. /\ channel' = channel \o msgs /\ sends' = sends + Len(ps) /\ sends + Len(ps) <= MaxSends
      /\ sent' = IF damaged THEN sent ELSE sent \o ps
      /\ UNCHANGED <<frame_buf, pc, failed, got, damaged>>
  BY <1>2 DEF SendFrames
<1>4. /\ channel \in Seq(Message) /\ frame_buf \in Bytes /\ sent \in Seq(Payloads)
      /\ sends \in 0..MaxSends /\ Len(got) \in Nat
  BY DEF IInv, TypeOK, Message, Bytes
<1>5. channel \in Strings
  BY <1>4, MessagesAreStrings
<1>6. TypeOK'
  <2>1. channel' \in Seq(Message)
    BY <1>2, <1>3, <1>4
  <2>2. sent' \in Seq(Payloads)
    BY <1>1, <1>3, <1>4
  <2>3. sends' \in 0..MaxSends
    BY <1>1, <1>3, <1>4, FramingAssumption
  <2> QED
    BY <1>3, <2>1, <2>2, <2>3 DEF IInv, TypeOK, Message
<1>7. NothingStranded' /\ ErrorStays'
  BY <1>3 DEF IInv, NothingStranded, ErrorStays
<1>8. Len(sent) \in Nat /\ Len(sent \o ps) = Len(sent) + Len(ps) /\ Len(ps) \in Nat
  BY <1>1, <1>4
<1>9. PICK W, M, F, b :
        /\ W \in Bytes
        /\ OnStream(W, M, F, b, channel, frame_buf, sent, Len(got))
        /\ damaged \/ F[Len(sent) + 1] = Len(W)
  BY DEF IInv, Stream
<1>10. PICK N : OnStream(W \o Wire(ps), N, F, b, channel \o msgs, frame_buf, sent, Len(got))
  BY <1>1, <1>2, <1>4, <1>5, <1>9, StreamSend
<1>11. W \o Wire(ps) \in Bytes
  BY <1>1, <1>9, BytesConcat
<1>12. CASE damaged
  <2>1. sent' = sent
    BY <1>3, <1>12
  <2>2. OnStream(W \o Wire(ps), N, F, b, channel', frame_buf', sent', Len(got'))
    BY <1>3, <1>10, <2>1
  <2>3. Stream'
    BY <1>3, <1>11, <1>12, <2>2 DEF Stream
  <2>4. Behind'
    BY <1>3, <1>12 DEF Behind
  <2> QED
    BY <1>6, <1>7, <2>3, <2>4 DEF IInv
<1>13. CASE ~damaged
  <2>1. sent' = sent \o ps /\ Len(got) <= Len(sent) /\ F[Len(sent) + 1] = Len(W)
    BY <1>3, <1>9, <1>13 DEF IInv, Behind
  <2>2. Behind'
    BY <1>3, <1>4, <1>8, <2>1 DEF Behind
  <2>3. PICK D : /\ Laid(D, FramesOf(ps), Wire(ps))
                 /\ D[1] = 0 /\ D[Len(ps) + 1] = Len(Wire(ps))
    BY WireLaid
  <2>4. Laid(F, FramesOf(sent), W)
    BY <1>9 DEF OnStream
  <2>5. PICK G : /\ OnStream(W \o Wire(ps), N, G, b, channel \o msgs, frame_buf, sent \o ps, Len(got))
                 /\ G[Len(sent \o ps) + 1] = Len(W \o Wire(ps))
    BY <1>1, <1>4, <1>9, <1>10, <2>1, <2>3, <2>4, StreamSent
  <2>6. OnStream(W \o Wire(ps), N, G, b, channel', frame_buf', sent', Len(got'))
    BY <1>3, <2>1, <2>5
  <2>7. G[Len(sent') + 1] = Len(W \o Wire(ps))
    BY <2>1, <2>5
  <2>8. Stream'
    BY <1>11, <2>6, <2>7 DEF Stream
  <2> QED
    BY <1>6, <1>7, <2>2, <2>8 DEF IInv
<1> QED
  BY <1>12, <1>13

\* A torn or an illegal frame goes in: the stream goes on, and the frames of
\* sent lie where they lay.
LEMMA SendDamagedIInv == IInv /\ SendDamaged => IInv'
<1> SUFFICES ASSUME IInv, SendDamaged PROVE IInv'
  OBVIOUS
<1>1. PICK msgs, V, D :
        /\ msgs \in Seq(Message) /\ V \in Bytes
        /\ Laid(D, msgs, V) /\ D[1] = 0 /\ D[Len(msgs) + 1] = Len(V)
        /\ channel' = channel \o msgs
  <2>1. MaxMessage \in MessageSizes
    BY FramingAssumption
  <2>2. CASE \E p \in IllegalPayloads :
               channel' = channel \o SplitMessages(EncodeFrame(p), MaxMessage)
    <3>1. PICK p \in IllegalPayloads :
            channel' = channel \o SplitMessages(EncodeFrame(p), MaxMessage)
      BY <2>2
    <3>2. EncodeFrame(p) \in Bytes
      <4>1. p \in Bytes
        BY PayloadAssumption DEF Bytes
      <4> QED
        BY <4>1, EncodeFacts
    <3> QED
      BY <2>1, <3>1, <3>2, SplitFacts
  <2>3. CASE \E p \in Payloads :
               LET messages == SplitMessages(EncodeFrame(p), MaxMessage)
               IN \E k \in 1..(Len(messages) - 1) : channel' = channel \o SubSeq(messages, 1, k)
    <3>1. PICK p \in Payloads :
            \E k \in 1..(Len(SplitMessages(EncodeFrame(p), MaxMessage)) - 1) :
               channel' = channel \o SubSeq(SplitMessages(EncodeFrame(p), MaxMessage), 1, k)
      BY <2>3
    <3>2. PICK e \in Bytes : e = EncodeFrame(p)
      BY EncodeFacts, PayloadFacts
    <3>3. PICK x, C :
            /\ x \in Strings
            /\ x = SplitMessages(EncodeFrame(p), MaxMessage) /\ x \in Seq(Message)
            /\ Laid(C, x, e) /\ C[1] = 0
      BY <2>1, <3>2, SplitFacts
    <3>4. PICK k \in 1..(Len(x) - 1) : channel' = channel \o SubSeq(x, 1, k)
      BY <3>1, <3>3
    <3>5. k \in 0..Len(x) /\ k \in Nat /\ Len(x) \in Nat
      BY DEF Strings
    <3>6. SubSeq(x, 1, k) \in Seq(Message) /\ Len(SubSeq(x, 1, k)) = k
      <4>1. \A i \in 1..k : x[i] \in Message
        BY <3>3, <3>5
      <4> QED
        BY <3>5, <4>1
    <3>7. PICK D : /\ Laid(D, SubSeq(x, 1, k), SubSeq(e, 1, C[k + 1]))
                   /\ SubSeq(e, 1, C[k + 1]) \in Bytes
                   /\ Len(SubSeq(e, 1, C[k + 1])) = C[k + 1]
                   /\ D[1] = C[1] /\ D[k + 1] = C[k + 1]
      BY <3>3, <3>5, LaidPrefix
    <3> QED
      BY <3>3, <3>4, <3>6, <3>7
  <2> QED
    BY <2>2, <2>3 DEF SendDamaged
<1>2. /\ damaged' = TRUE /\ sends < MaxSends /\ sends' = sends + 1
      /\ UNCHANGED <<frame_buf, pc, failed, sent, got>>
  BY DEF SendDamaged
<1>3. /\ channel \in Seq(Message) /\ frame_buf \in Bytes /\ sent \in Seq(Payloads)
      /\ sends \in 0..MaxSends
  BY DEF IInv, TypeOK, Message, Bytes
<1>4. channel \in Strings /\ msgs \in Strings
  BY <1>1, <1>3, MessagesAreStrings
<1>5. TypeOK'
  <2>1. channel' \in Seq(Message)
    BY <1>1, <1>3
  <2>2. sends' \in 0..MaxSends
    BY <1>2, <1>3, FramingAssumption
  <2>3. damaged' \in BOOLEAN
    BY <1>2
  <2> QED
    BY <1>2, <2>1, <2>2, <2>3 DEF IInv, TypeOK, Message
<1>6. NothingStranded' /\ ErrorStays'
  BY <1>2 DEF IInv, NothingStranded, ErrorStays
<1>7. PICK W, M, F, b :
        W \in Bytes /\ OnStream(W, M, F, b, channel, frame_buf, sent, Len(got))
  BY DEF IInv, Stream
<1>8. PICK N : OnStream(W \o V, N, F, b, channel \o msgs, frame_buf, sent, Len(got))
  BY <1>1, <1>3, <1>4, <1>7, StreamSend
<1>9. W \o V \in Bytes
  BY <1>1, <1>7, BytesConcat
<1>10. OnStream(W \o V, N, F, b, channel', frame_buf', sent', Len(got'))
  BY <1>1, <1>2, <1>8
<1>11. Stream' /\ Behind'
  BY <1>2, <1>9, <1>10 DEF Stream, Behind
<1> QED
  BY <1>5, <1>6, <1>11 DEF IInv

\* push, on the bytes that are in the buffer by then.
LEMMA PushIInv ==
  ASSUME IInv, NEW buf \in Bytes, Push(buf), UNCHANGED <<sent, damaged, sends>>,
         channel' \in Seq(Message), failed => Found(buf) = "error",
         NEW W \in Bytes, NEW M, NEW F, NEW b,
         OnStream(W, M, F, b, channel', buf, sent, Len(got)),
         damaged \/ F[Len(sent) + 1] = Len(W)
  PROVE  /\ IInv'
         /\ \/ UNCHANGED got
            \/ /\ Len(got) < Len(sent)
               /\ got' = Append(got, sent[Len(got) + 1])
            \/ /\ damaged /\ ~(Len(got) < Len(sent))
               /\ Len(got') = Len(got) + 1 /\ SubSeq(got', 1, Len(got)) = got
<1>1. /\ frame_buf' = Remainder(buf)
      /\ got' = IF Found(buf) = "frame" THEN Append(got, FirstFrame(buf)) ELSE got
      /\ failed' = (failed \/ Found(buf) = "error")
      /\ pc' = IF Found(buf) = "none" THEN "await" ELSE "idle"
      /\ sent' = sent /\ damaged' = damaged /\ sends' = sends
  BY DEF Push
<1>2. /\ Found(buf) \in {"none", "error", "frame"}
      /\ Found(buf) # "frame" => Remainder(buf) = buf
  BY PushFacts
<1>3. /\ sent \in Seq(Payloads) /\ got \in Strings /\ Len(got) \in Nat /\ Len(sent) \in Nat
      /\ \A i \in 1..Len(got) : Len(got[i]) \in 1..MaxFrame
  BY DEF IInv, TypeOK, Strings, Bytes
<1>4. channel' \in Strings
  BY MessagesAreStrings
<1>5. CASE Found(buf) # "frame"
  <2>1. frame_buf' = buf /\ got' = got
    BY <1>1, <1>2, <1>5
  <2>2. NothingStranded'
    BY <1>1, <2>1 DEF NothingStranded
  <2>3. ErrorStays'
    BY <1>1, <2>1 DEF ErrorStays
  <2>4. Behind'
    BY <1>1, <2>1 DEF IInv, Behind
  <2>5. OnStream(W, M, F, b, channel', frame_buf', sent', Len(got'))
    BY <1>1, <2>1
  <2>6. Stream'
    BY <1>1, <2>5 DEF Stream
  <2>7. TypeOK'
    <3>1. frame_buf' \in Seq(Byte)
      BY <2>1 DEF Bytes
    <3>2. pc' \in {"idle", "await"} /\ failed' \in BOOLEAN
      BY <1>1 DEF IInv, TypeOK
    <3> QED
      BY <1>1, <2>1, <3>1, <3>2 DEF IInv, TypeOK, Message
  <2> QED
    BY <2>1, <2>2, <2>3, <2>4, <2>6, <2>7 DEF IInv
<1>6. CASE Found(buf) = "frame"
  <2>1. PICK f \in Bytes : f = FirstFrame(buf) /\ Len(f) \in 1..MaxFrame
    BY <1>6, PushFacts
  <2>2. PICK r \in Bytes : r = Remainder(buf)
    BY <1>6, PushFacts
  <2>3. /\ frame_buf' = r /\ got' = Append(got, f) /\ pc' = "idle" /\ failed' = FALSE
    BY <1>1, <1>6, <2>1, <2>2
  <2>4. /\ Append(got, f) \in Strings /\ Len(Append(got, f)) = Len(got) + 1
        /\ \A i \in 1..Len(got) : Append(got, f)[i] = got[i]
        /\ Append(got, f)[Len(got) + 1] = f
    BY <1>3, AppendProperties DEF Strings
  <2>5. TypeOK'
    <3>1. frame_buf' \in Seq(Byte) /\ got' \in Seq(Seq(Byte))
      BY <2>3, <2>4 DEF Bytes, Strings
    <3>2. \A i \in DOMAIN got' : Len(got'[i]) \in 1..MaxFrame
      <4>1. DOMAIN got' = 1..(Len(got) + 1)
        BY <2>3, <2>4 DEF Strings
      <4> SUFFICES ASSUME NEW i \in 1..(Len(got) + 1) PROVE Len(Append(got, f)[i]) \in 1..MaxFrame
        BY <2>3, <4>1
      <4>2. CASE i \in 1..Len(got)
        BY <1>3, <2>4, <4>2
      <4>3. CASE i = Len(got) + 1
        BY <2>1, <2>4, <4>3
      <4> QED
        BY <1>3, <4>2, <4>3
    <3>3. pc' \in {"idle", "await"} /\ failed' \in BOOLEAN
      BY <2>3
    <3> QED
      BY <1>1, <3>1, <3>2, <3>3 DEF IInv, TypeOK, Message
  <2>6. NothingStranded' /\ ErrorStays'
    BY <2>3 DEF NothingStranded, ErrorStays
  <2>7. /\ Len(got) < Len(sent) => f = sent[Len(got) + 1]
        /\ Len(got) = Len(sent) => F[Len(got) + 1] # Len(W)
        /\ \E c : OnStream(W, M, F, c, channel', r, sent, Len(got) + 1)
    BY <1>3, <1>4, <1>6, <2>1, <2>2, StreamPop
  <2>8. damaged \/ Len(got) < Len(sent)
    BY <1>3, <2>7 DEF IInv, Behind
  <2>9. Behind'
    BY <1>1, <1>3, <2>3, <2>4, <2>8 DEF Behind
  <2>10. PICK c : OnStream(W, M, F, c, channel', r, sent, Len(got) + 1)
    BY <2>7
  <2>11. OnStream(W, M, F, c, channel', frame_buf', sent', Len(got'))
    BY <1>1, <2>3, <2>4, <2>10
  <2>12. Stream'
    BY <1>1, <2>11 DEF Stream
  <2>13. Len(got') = Len(got) + 1 /\ SubSeq(got', 1, Len(got)) = got
    <3>1. Len(got') = Len(got) + 1 /\ got' \in Strings
      BY <2>3, <2>4
    <3>2. /\ SubSeq(got', 1, Len(got)) \in Strings /\ Len(SubSeq(got', 1, Len(got))) = Len(got)
          /\ \A i \in 1..Len(got) : SubSeq(got', 1, Len(got))[i] = got'[i]
      BY <1>3, <3>1 DEF Strings
    <3>3. \A i \in 1..Len(got) : SubSeq(got', 1, Len(got))[i] = got[i]
      BY <2>3, <2>4, <3>2
    <3>4. SubSeq(got', 1, Len(got)) = got
      BY <1>3, <3>2, <3>3, SeqEqual DEF Strings
    <3> QED
      BY <3>1, <3>4
  <2> QED
    BY <2>3, <2>5, <2>6, <2>7, <2>8, <2>9, <2>12, <2>13 DEF IInv
<1> QED
  BY <1>5, <1>6

\* What a call of recv_frame or the arrival of a message does to got, for the
\* refinement: nothing, the next frame of sent, or, past the damage, anything.
Taken ==
  \/ UNCHANGED got
  \/ /\ Len(got) < Len(sent)
     /\ got' = Append(got, sent[Len(got) + 1])
  \/ /\ damaged /\ ~(Len(got) < Len(sent))
     /\ Len(got') = Len(got) + 1 /\ SubSeq(got', 1, Len(got)) = got

\* A call of recv_frame pushes nothing onto the buffer.
LEMMA RecvFrameIInv == IInv /\ RecvFrame => IInv' /\ Taken
<1> SUFFICES ASSUME IInv, RecvFrame PROVE IInv' /\ Taken
  OBVIOUS
<1>1. Push(frame_buf) /\ UNCHANGED <<channel, sent, damaged, sends>>
  BY DEF RecvFrame
<1>2. frame_buf \in Bytes /\ channel' \in Seq(Message)
  BY <1>1 DEF IInv, TypeOK, Bytes, Message
<1>3. failed => Found(frame_buf) = "error"
  BY DEF IInv, ErrorStays
<1>4. PICK W, M, F, b :
        /\ W \in Bytes
        /\ OnStream(W, M, F, b, channel, frame_buf, sent, Len(got))
        /\ damaged \/ F[Len(sent) + 1] = Len(W)
  BY DEF IInv, Stream
<1>5. OnStream(W, M, F, b, channel', frame_buf, sent, Len(got))
  BY <1>1, <1>4
<1> QED
  BY <1>1, <1>2, <1>3, <1>4, <1>5, PushIInv DEF Taken

\* The first message of the channel is joined to the buffer.
LEMMA MessageReceivedIInv == IInv /\ MessageReceived => IInv' /\ Taken
<1> SUFFICES ASSUME IInv, MessageReceived PROVE IInv' /\ Taken
  OBVIOUS
<1>1. /\ channel # <<>> /\ channel' = Tail(channel) /\ Push(frame_buf \o Head(channel))
      /\ UNCHANGED <<sent, damaged, sends>>
  BY DEF MessageReceived
<1>2. ~failed
  BY DEF IInv, ErrorStays, MessageReceived
<1>3. frame_buf \in Bytes /\ channel \in Seq(Message)
  BY DEF IInv, TypeOK, Bytes, Message
<1>4. channel' \in Seq(Message)
  BY <1>1, <1>3
<1>5. channel \in Strings
  BY <1>3, MessagesAreStrings
<1>6. PICK W, M, F, b :
        /\ W \in Bytes
        /\ OnStream(W, M, F, b, channel, frame_buf, sent, Len(got))
        /\ damaged \/ F[Len(sent) + 1] = Len(W)
  BY DEF IInv, Stream
<1>7. /\ Head(channel) \in Bytes
      /\ \E N : OnStream(W, N, F, b, Tail(channel), frame_buf \o Head(channel), sent, Len(got))
  BY <1>1, <1>3, <1>5, <1>6, StreamJoin
<1>8. PICK N : OnStream(W, N, F, b, channel', frame_buf \o Head(channel), sent, Len(got))
  BY <1>1, <1>7
<1>9. frame_buf \o Head(channel) \in Bytes
  BY <1>3, <1>7, BytesConcat
<1> QED
  BY <1>1, <1>2, <1>4, <1>6, <1>8, <1>9, PushIInv DEF Taken

\* Every step preserves the invariant.
LEMMA NextIInv == IInv /\ [Next]_vars => IInv'
<1> SUFFICES ASSUME IInv, [Next]_vars PROVE IInv'
  OBVIOUS
<1>1. ASSUME NEW ps \in Batches, NEW size \in MessageSizes, SendFrames(ps, size) PROVE IInv'
  BY <1>1, SendFramesIInv
<1>2. CASE SendDamaged
  BY <1>2, SendDamagedIInv
<1>3. CASE RecvFrame
  BY <1>3, RecvFrameIInv
<1>4. CASE MessageReceived
  BY <1>4, MessageReceivedIInv
<1>5. CASE UNCHANGED vars
  BY <1>5 DEF vars, IInv, TypeOK, NothingStranded, ErrorStays, Behind, Stream
<1> QED
  BY <1>1, <1>2, <1>3, <1>4, <1>5 DEF Next

-----------------------------------------------------------------------------
(* Theorems                                                                *)

\* The inductive invariant holds of every state that framing can reach.
THEOREM Invariance == Spec => []IInv
BY InitIInv, NextIInv, PTL DEF Spec

\* Every variable of the two ends keeps its type: in particular every frame
\* returned by recv_frame has between one and MAX_FRAME_SIZE bytes.
THEOREM TypeCorrect == Spec => []TypeOK
<1>1. IInv => TypeOK
  BY DEF IInv
<1> QED
  BY <1>1, Invariance, PTL

\* recv_frame (src/webrtc.rs) never awaits a message while a complete frame is
\* buffered, however frames are cut into messages.
THEOREM StrandedTheorem == Spec => []NothingStranded
<1>1. IInv => NothingStranded
  BY DEF IInv
<1> QED
  BY <1>1, Invariance, PTL

\* After a length error of FrameBuf::push (src/framing.rs) nothing more comes
\* out of the stream and nothing leaves the buffer.
THEOREM ErrorTheorem == Spec => LengthErrorSticks
<1>1. IInv /\ [Next]_vars => [failed => got' = got /\ frame_buf' = frame_buf]_vars
  <2> SUFFICES ASSUME IInv, Next, failed PROVE got' = got /\ frame_buf' = frame_buf
    OBVIOUS
  <2>1. pc = "idle" /\ Found(frame_buf) = "error"
    BY DEF IInv, ErrorStays
  <2>2. ASSUME NEW ps, NEW size, SendFrames(ps, size) PROVE got' = got /\ frame_buf' = frame_buf
    BY <2>2 DEF SendFrames
  <2>3. CASE SendDamaged
    BY <2>3 DEF SendDamaged
  <2>4. CASE RecvFrame
    BY <2>1, <2>4 DEF RecvFrame, Push, Remainder
  <2>5. CASE MessageReceived
    BY <2>1, <2>5 DEF MessageReceived
  <2> QED
    BY <2>2, <2>3, <2>4, <2>5 DEF Next
<1> QED
  BY <1>1, Invariance, PTL DEF Spec, LengthErrorSticks

\* The code of both ends implements the queue of whole frames: for every byte
\* size, message size, frame limit and set of payloads, recv_frame returns the
\* frames that send_frame was given, in order, each once.
THEOREM QueueTheorem == Spec => WholeFramesInOrder
<1>1. Init => Queue!Init
  BY DEF Init, Queue!Init
<1>2. IInv /\ [Next]_vars => [Queue!Next]_Queue!vars
  <2> SUFFICES ASSUME IInv, [Next]_vars PROVE [Queue!Next]_Queue!vars
    OBVIOUS
  <2>1. ASSUME NEW ps \in Batches, NEW size, SendFrames(ps, size)
        PROVE  [Queue!Next]_Queue!vars
    <3>1. UNCHANGED <<got, damaged>> /\ sent' = IF damaged THEN sent ELSE sent \o ps
      BY <2>1 DEF SendFrames
    <3>2. CASE damaged
      BY <3>1, <3>2 DEF Queue!vars
    <3>3. CASE ~damaged
      <4>1. sent \in Seq(Payloads) /\ ps \in Seq(Payloads) /\ Len(ps) \in 1..2
        BY WireLaid DEF IInv, TypeOK
      <4>2. Len(sent) \in Nat /\ Len(ps) \in Nat
        BY <4>1
      <4>3. /\ sent \o ps \in Seq(Payloads) /\ Len(sent \o ps) = Len(sent) + Len(ps)
            /\ \A i \in 1..Len(sent) : (sent \o ps)[i] = sent[i]
        BY <4>1, <4>2, ConcatFacts
      <4>4. Len(sent \o ps) > Len(sent)
        <5>1. PICK m \in Nat, n \in 1..2 : m = Len(sent) /\ n = Len(ps)
          BY <4>1, <4>2
        <5>2. Len(sent \o ps) = m + n
          BY <4>3, <5>1
        <5> QED
          BY <5>1, <5>2
      <4>5. PICK x \in Seq(Payloads) : x = sent \o ps
        BY <4>3
      <4>6. /\ SubSeq(x, 1, Len(sent)) \in Seq(Payloads)
            /\ Len(SubSeq(x, 1, Len(sent))) = Len(sent)
            /\ \A i \in 1..Len(sent) : SubSeq(x, 1, Len(sent))[i] = x[i]
        BY <4>2, <4>3, <4>4, <4>5
      <4>7. SubSeq(x, 1, Len(sent)) = sent
        BY <4>1, <4>3, <4>5, <4>6, SeqEqual
      <4> QED
        BY <3>1, <3>3, <4>4, <4>5, <4>7 DEF Queue!Next, Queue!Send
    <3> QED
      BY <3>2, <3>3
  <2>2. CASE SendDamaged
    BY <2>2 DEF SendDamaged, Queue!Next, Queue!Damage
  <2>3. ASSUME Taken, UNCHANGED <<sent, damaged>> PROVE [Queue!Next]_Queue!vars
    <3>1. CASE UNCHANGED got
      BY <2>3, <3>1 DEF Queue!vars
    <3>2. CASE Len(got) < Len(sent) /\ got' = Append(got, sent[Len(got) + 1])
      BY <2>3, <3>2 DEF Queue!Next, Queue!Receive
    <3>3. CASE /\ damaged /\ ~(Len(got) < Len(sent))
               /\ Len(got') = Len(got) + 1 /\ SubSeq(got', 1, Len(got)) = got
      <4>1. Len(got) >= Len(sent)
        <5>1. Len(got) \in Nat /\ Len(sent) \in Nat
          BY DEF IInv, TypeOK
        <5> QED
          BY <3>3, <5>1
      <4> QED
        BY <2>3, <3>3, <4>1 DEF Queue!Next, Queue!ReceiveGarbage
    <3> QED
      BY <2>3, <3>1, <3>2, <3>3 DEF Taken
  <2>4. CASE RecvFrame
    <3>1. UNCHANGED <<sent, damaged>>
      BY <2>4 DEF RecvFrame
    <3> QED
      BY <2>3, <2>4, <3>1, RecvFrameIInv
  <2>5. CASE MessageReceived
    <3>1. UNCHANGED <<sent, damaged>>
      BY <2>5 DEF MessageReceived
    <3> QED
      BY <2>3, <2>5, <3>1, MessageReceivedIInv
  <2>6. CASE UNCHANGED vars
    BY <2>6 DEF vars, Queue!vars
  <2> QED
    BY <2>1, <2>2, <2>4, <2>5, <2>6 DEF Next
<1> QED
  BY <1>1, <1>2, Invariance, PTL DEF Spec, WholeFramesInOrder, Queue!Spec
=============================================================================
