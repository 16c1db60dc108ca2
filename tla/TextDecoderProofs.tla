------------------------- MODULE TextDecoderProofs --------------------------
(***************************************************************************)
(* Theorems about TextDecoder, for every set of characters and octets and  *)
(* every length: one round of the loop finds exactly the code point whose  *)
(* encoding it stands before, decoding keeps its types, and a text is      *)
(* decoded to itself wherever it is cut.                                   *)
(*                                                                         *)
(* Leaves with numbers as large as a code point name SMT, which alone      *)
(* copes with them.  What is said of every length is shown by the least    *)
(* length for which it would fail.                                         *)
(***************************************************************************)
EXTENDS TextDecoder, CommonLemmas, SequenceTheorems

\* At index k the octets hold the encoding of c.
StandsAt(c, k) ==
  /\ k + Len(Encode(c)) <= Len(octets)
  /\ \A n \in 1..Len(Encode(c)) : octets[k + n] = Encode(c)[n]

\* No bit of a code point is lost when it is cut in groups of six.
LEMMA SixBits ==
  ASSUME NEW c \in Nat
  PROVE  /\ c = 64 * (c \div 64) + (c % 64)
         /\ c \div 64 = 64 * (c \div 4096) + ((c \div 64) % 64)
         /\ c \div 4096 = 64 * (c \div 262144) + ((c \div 4096) % 64)
         /\ c % 64 \in 0..63
         /\ (c \div 64) % 64 \in 0..63
         /\ (c \div 4096) % 64 \in 0..63
  BY SMTT(60)

\* The decoder takes the six bits of a later octet out of it.
LEMMA TrailBits ==
  ASSUME NEW h \in 0..63
  PROVE  (128 + h) % 64 = h
  BY SMT

\* A round of the loop at the encoding of a character: it asks for the octets
\* that Encode wrote, finds them there, and computes the character.
THEOREM DecodesCharacter ==
  ASSUME NEW c \in Nat, c <= LastCodePoint
  PROVE  octets \in Seq(Octet) /\ i \in Nat /\ StandsAt(c, i) =>
           LET n == BytesNeeded(octets[i + 1])
           IN  n + 1 = Len(Encode(c)) /\ Whole(n) /\ CodePoint(n) = c
<1>a. SUFFICES ASSUME octets \in Seq(Octet), i \in Nat, StandsAt(c, i)
               PROVE  LET n == BytesNeeded(octets[i + 1])
                      IN  n + 1 = Len(Encode(c)) /\ Whole(n) /\ CodePoint(n) = c
  OBVIOUS
<1>0. c \in Nat /\ c <= 1114111 /\ i \in Nat /\ Len(octets) \in Nat
  BY SMT, <1>a DEF LastCodePoint
<1>1. CASE c < 128
  <2>1. Encode(c) = <<c>>
    BY SMT, <1>0, <1>1 DEF Encode
  <2>2. c \in 0..127
    BY SMT, <1>0, <1>1
  <2>3. Len(Encode(c)) = 1
    BY SMT, <2>1
  <2>4. i + 1 <= Len(octets)
    BY SMT, <1>a, <2>3 DEF StandsAt
  <2>5. /\ octets[i + 1] = c
    BY SMT, <1>a, <2>1, <2>3 DEF StandsAt
  <2>6. BytesNeeded(octets[i + 1]) = 0 /\ LeadBits(octets[i + 1]) = c
    <3>1. octets[i + 1] \in 0..127 /\ octets[i + 1] = c
      BY SMT, <2>2, <2>5
    <3>2. PICK o \in 0..127 : o = octets[i + 1]
      BY SMT, <3>1
    <3>3. BytesNeeded(o) = 0 /\ LeadBits(o) = o
      BY SMT DEF BytesNeeded, LeadBits
    <3> QED
      BY SMT, <3>1, <3>2, <3>3
  <2>8. Whole(0)
    BY SMT, <1>0, <2>4 DEF Whole
  <2>9. CodePoint(0) = c
    BY SMT, <2>6 DEF CodePoint
  <2> QED
    BY SMT, <1>0, <2>2, <2>3, <2>6, <2>8, <2>9, SixBits
<1>2. CASE c >= 128 /\ c < 2048
  <2>1. Encode(c) = <<192 + c \div 64, 128 + (c % 64)>>
    BY SMT, <1>0, <1>2 DEF Encode
  <2>2. c \div 64 \in 2..31
    BY SMT, <1>0, <1>2
  <2>3. Len(Encode(c)) = 2
    BY SMT, <2>1
  <2>4. i + 2 <= Len(octets)
    BY SMT, <1>a, <2>3 DEF StandsAt
  <2>5. /\ octets[i + 1] = 192 + c \div 64
        /\ octets[i + 2] = 128 + (c % 64)
    BY SMT, <1>a, <2>1, <2>3 DEF StandsAt
  <2>6. BytesNeeded(octets[i + 1]) = 1 /\ LeadBits(octets[i + 1]) = c \div 64
    <3>1. octets[i + 1] \in 194..223 /\ octets[i + 1] - 192 = c \div 64
      BY SMT, <2>2, <2>5
    <3>2. PICK o \in 194..223 : o = octets[i + 1]
      BY SMT, <3>1
    <3>3. BytesNeeded(o) = 1 /\ LeadBits(o) = o - 192
      BY SMT DEF BytesNeeded, LeadBits
    <3> QED
      BY SMT, <3>1, <3>2, <3>3
  <2>7. /\ octets[i + 2] % 64 = c % 64
    BY SMT, <1>0, <2>5, SixBits, TrailBits
  <2>8. Whole(1)
    BY SMT, <1>0, <2>4 DEF Whole
  <2>9. CodePoint(1) = 64 * (c \div 64) + (c % 64)
    <3>1. CodePoint(1) =
            AddBits(LeadBits(octets[i + 1]), octets[i + 2])
      BY SMT DEF CodePoint
    <3> QED
      BY SMT, <2>6, <2>7, <3>1 DEF AddBits
  <2> QED
    BY SMT, <1>0, <2>2, <2>3, <2>6, <2>8, <2>9, SixBits
<1>3. CASE c >= 2048 /\ c < 65536
  <2>1. Encode(c) = <<224 + c \div 4096, 128 + ((c \div 64) % 64), 128 + (c % 64)>>
    BY SMT, <1>0, <1>3 DEF Encode
  <2>2. c \div 4096 \in 0..15
    BY SMT, <1>0, <1>3
  <2>3. Len(Encode(c)) = 3
    BY SMT, <2>1
  <2>4. i + 3 <= Len(octets)
    BY SMT, <1>a, <2>3 DEF StandsAt
  <2>5. /\ octets[i + 1] = 224 + c \div 4096
        /\ octets[i + 2] = 128 + ((c \div 64) % 64)
        /\ octets[i + 3] = 128 + (c % 64)
    BY SMT, <1>a, <2>1, <2>3 DEF StandsAt
  <2>6. BytesNeeded(octets[i + 1]) = 2 /\ LeadBits(octets[i + 1]) = c \div 4096
    <3>1. octets[i + 1] \in 224..239 /\ octets[i + 1] - 224 = c \div 4096
      BY SMT, <2>2, <2>5
    <3>2. PICK o \in 224..239 : o = octets[i + 1]
      BY SMT, <3>1
    <3>3. BytesNeeded(o) = 2 /\ LeadBits(o) = o - 224
      BY SMT DEF BytesNeeded, LeadBits
    <3> QED
      BY SMT, <3>1, <3>2, <3>3
  <2>7. /\ octets[i + 2] % 64 = (c \div 64) % 64
        /\ octets[i + 3] % 64 = c % 64
    BY SMT, <1>0, <2>5, SixBits, TrailBits
  <2>8. Whole(2)
    BY SMT, <1>0, <2>4 DEF Whole
  <2>9. CodePoint(2) = 64 * (64 * (c \div 4096) + ((c \div 64) % 64)) + (c % 64)
    <3>1. CodePoint(2) =
            AddBits(AddBits(LeadBits(octets[i + 1]), octets[i + 2]), octets[i + 3])
      BY SMT DEF CodePoint
    <3> QED
      BY SMT, <2>6, <2>7, <3>1 DEF AddBits
  <2> QED
    BY SMT, <1>0, <2>2, <2>3, <2>6, <2>8, <2>9, SixBits
<1>4. CASE c >= 65536
  <2>1. Encode(c) = <<240 + c \div 262144, 128 + ((c \div 4096) % 64),
                      128 + ((c \div 64) % 64), 128 + (c % 64)>>
    BY SMT, <1>0, <1>4 DEF Encode
  <2>2. c \div 262144 \in 0..4
    BY SMT, <1>0, <1>4
  <2>3. Len(Encode(c)) = 4
    BY SMT, <2>1
  <2>4. i + 4 <= Len(octets)
    BY SMT, <1>a, <2>3 DEF StandsAt
  <2>5. /\ octets[i + 1] = 240 + c \div 262144
        /\ octets[i + 2] = 128 + ((c \div 4096) % 64)
        /\ octets[i + 3] = 128 + ((c \div 64) % 64)
        /\ octets[i + 4] = 128 + (c % 64)
    BY SMT, <1>a, <2>1, <2>3 DEF StandsAt
  <2>6. BytesNeeded(octets[i + 1]) = 3 /\ LeadBits(octets[i + 1]) = c \div 262144
    <3>1. octets[i + 1] \in 240..244 /\ octets[i + 1] - 240 = c \div 262144
      BY SMT, <2>2, <2>5
    <3>2. PICK o \in 240..244 : o = octets[i + 1]
      BY SMT, <3>1
    <3>3. BytesNeeded(o) = 3 /\ LeadBits(o) = o - 240
      BY SMT DEF BytesNeeded, LeadBits
    <3> QED
      BY SMT, <3>1, <3>2, <3>3
  <2>7. /\ octets[i + 2] % 64 = (c \div 4096) % 64
        /\ octets[i + 3] % 64 = (c \div 64) % 64
        /\ octets[i + 4] % 64 = c % 64
    BY SMT, <1>0, <2>5, SixBits, TrailBits
  <2>8. Whole(3)
    BY SMT, <1>0, <2>4 DEF Whole
  <2>9. CodePoint(3) = 64 * (64 * (64 * (c \div 262144) + ((c \div 4096) % 64))
                              + ((c \div 64) % 64)) + (c % 64)
    <3>1. CodePoint(3) =
            AddBits(AddBits(AddBits(LeadBits(octets[i + 1]), octets[i + 2]),
                            octets[i + 3]),
                    octets[i + 4])
      BY SMT DEF CodePoint
    <3> QED
      BY SMT, <2>6, <2>7, <3>1 DEF AddBits
  <2> QED
    BY SMT, <1>0, <2>2, <2>3, <2>6, <2>8, <2>9, SixBits
<1> QED
  BY SMT, <1>0, <1>1, <1>2, <1>3, <1>4

\* So a step of the decoder there appends the character, moves past it, and
\* does not throw.
THEOREM DecodesCharacterStep ==
  ASSUME NEW c \in Nat, c <= LastCodePoint, TypeOK, StandsAt(c, i), Next
  PROVE  /\ string' = Append(string, c)
         /\ i' = i + Len(Encode(c))
         /\ ~thrown'
<1>1. octets \in Seq(Octet) /\ i \in Nat
  BY SMT DEF TypeOK
<1>2. LET n == BytesNeeded(octets[i + 1])
      IN  n + 1 = Len(Encode(c)) /\ Whole(n) /\ CodePoint(n) = c
  BY SMT, <1>1, DecodesCharacter
<1>3. ~(c > LastCodePoint)
  BY SMT DEF LastCodePoint
<1>4. ~DecodeCut /\ ~DecodeThrows
  BY SMT, <1>2, <1>3 DEF DecodeCut, DecodeThrows
<1>5. DecodeWhole
  BY SMT, <1>4 DEF Next
<1>6. PICK o \in 0..255 : o = octets[i + 1]
  <2>1. i < Len(octets)
    BY SMT, <1>5 DEF DecodeWhole, More
  <2>2. i + 1 \in 1..Len(octets)
    BY SMT, <1>1, <2>1
  <2>3. octets[i + 1] \in Octet
    BY SMT, <1>1, <2>2
  <2> QED
    BY SMT, <2>3 DEF Octet
<1>7. BytesNeeded(o) \in 0..3
  BY SMT DEF BytesNeeded
<1>8. i' = i + (BytesNeeded(o) + 1)
  BY SMT, <1>1, <1>5, <1>6, <1>7 DEF DecodeWhole
<1>9. BytesNeeded(o) + 1 = Len(Encode(c)) /\ CodePoint(BytesNeeded(o)) = c
  BY SMT, <1>2, <1>6
<1> QED
  BY SMT, <1>5, <1>6, <1>8, <1>9 DEF DecodeWhole, More

-----------------------------------------------------------------------------
(***************************************************************************)
(* The octets of a text: Extent and EncodeText are what they say.          *)
(***************************************************************************)

\* f counts the octets of the first k characters of t.
Counts(t, k, f) ==
  f = [n \in 0..k |-> IF n = 0 THEN 0 ELSE f[n - 1] + Len(Encode(t[n]))]

\* There is such an f, for every k: the one for k goes on to k + 1.
LEMMA CountsExist ==
  ASSUME NEW t PROVE \A k \in Nat : \E f : Counts(t, k, f)
<1>1. \E f : Counts(t, 0, f)
  <2> DEFINE f == [n \in 0..0 |-> 0]
  <2>1. f = [n \in 0..0 |-> IF n = 0 THEN 0 ELSE f[n - 1] + Len(Encode(t[n]))]
    BY SMT
  <2> QED BY <2>1 DEF Counts
<1>2. ASSUME NEW k \in Nat, NEW f, Counts(t, k, f)
      PROVE  \E g : Counts(t, k + 1, g)
  <2> DEFINE last == f[k] + Len(Encode(t[k + 1]))
             g == [n \in 0..(k + 1) |-> IF n = k + 1 THEN last ELSE f[n]]
  <2>1. \A n \in 0..k : f[n] = IF n = 0 THEN 0 ELSE f[n - 1] + Len(Encode(t[n]))
    BY <1>2 DEF Counts
  <2>2. \A n \in 0..(k + 1) :
          g[n] = IF n = 0 THEN 0 ELSE g[n - 1] + Len(Encode(t[n]))
    <3> SUFFICES ASSUME NEW n \in 0..(k + 1)
                 PROVE  g[n] = IF n = 0 THEN 0 ELSE g[n - 1] + Len(Encode(t[n]))
      OBVIOUS
    <3>1. CASE n = k + 1
      <4>1. g[n] = last /\ g[n - 1] = f[k] /\ n # 0
        BY SMT, <3>1
      <4> QED BY <3>1, <4>1
    <3>2. CASE n \in 0..k
      <4>1. g[n] = f[n] /\ (n # 0 => g[n - 1] = f[n - 1])
        BY SMT, <3>2
      <4> QED BY <2>1, <3>2, <4>1
    <3> QED BY SMT, <3>1, <3>2
  <2>3. Counts(t, k + 1, g)
    <3>1. g = [n \in 0..(k + 1) |-> g[n]]
      OBVIOUS
    <3> HIDE DEF g
    <3> QED BY <2>2, <3>1 DEF Counts
  <2> QED BY <2>3
<1>3. SUFFICES ASSUME NEW k \in Nat, ~\E f : Counts(t, k, f) PROVE FALSE
  OBVIOUS
<1> DEFINE Lacking == {m \in Nat : ~\E f : Counts(t, m, f)}
<1>4. PICK m \in Lacking : \A other \in Lacking : m <= other
  <2>1. Lacking \in SUBSET Nat /\ Lacking # {}
    BY <1>3
  <2> HIDE DEF Lacking
  <2> QED BY <2>1, LeastNumber
<1>5. m \in Nat /\ m # 0 /\ m - 1 \in Nat /\ ~(m <= m - 1)
  BY SMT, <1>1
<1>6. \E f : Counts(t, m - 1, f)
  BY <1>4, <1>5
<1>7. \E f : Counts(t, (m - 1) + 1, f)
  BY <1>2, <1>5, <1>6
<1>8. (m - 1) + 1 = m
  BY SMT, <1>5
<1> QED BY <1>4, <1>7, <1>8

\* So Extent(t) is what its definition says.
LEMMA ExtentEquation ==
  ASSUME NEW t, Len(t) \in Nat
  PROVE  Counts(t, Len(t), Extent(t))
<1>1. Extent(t) = CHOOSE f : Counts(t, Len(t), f)
  BY DEF Extent, Counts
<1> QED BY <1>1, CountsExist

\* The octets of a character: one to four, and the first tells how many.
LEMMA EncodeShape ==
  ASSUME NEW c \in Nat, c <= LastCodePoint
  PROVE  /\ Encode(c) \in Seq(Octet)
         /\ Len(Encode(c)) \in 1..4
         /\ BytesNeeded(Encode(c)[1]) = Len(Encode(c)) - 1
<1>0. c \in Nat /\ c <= 1114111
  BY SMT DEF LastCodePoint
<1>1. CASE c < 128
  <2>1. Encode(c) = <<c>>
    BY SMT, <1>0, <1>1 DEF Encode
  <2>2. c \in 0..127
    BY SMT, <1>0, <1>1
  <2>3. \A o \in 0..127 : BytesNeeded(o) = 0
    BY SMT DEF BytesNeeded
  <2> QED BY SMT, <2>1, <2>2, <2>3 DEF Octet
<1>2. CASE c >= 128 /\ c < 2048
  <2> DEFINE a == 192 + c \div 64
             b == 128 + (c % 64)
  <2>1. Encode(c) = <<a, b>>
    BY SMT, <1>0, <1>2 DEF Encode
  <2>2. a \in 194..223 /\ b \in 0..255
    BY SMT, <1>0, <1>2
  <2>3. \A o \in 194..223 : BytesNeeded(o) = 1
    BY SMT DEF BytesNeeded
  <2> HIDE DEF a, b
  <2> QED BY SMT, <2>1, <2>2, <2>3 DEF Octet
<1>3. CASE c >= 2048 /\ c < 65536
  <2> DEFINE a == 224 + c \div 4096
             b == 128 + ((c \div 64) % 64)
             d == 128 + (c % 64)
  <2>1. Encode(c) = <<a, b, d>>
    BY SMT, <1>0, <1>3 DEF Encode
  <2>2. a \in 224..239 /\ b \in 0..255 /\ d \in 0..255
    BY SMT, <1>0, <1>3
  <2>3. \A o \in 224..239 : BytesNeeded(o) = 2
    BY SMT DEF BytesNeeded
  <2> HIDE DEF a, b, d
  <2> QED BY SMT, <2>1, <2>2, <2>3 DEF Octet
<1>4. CASE c >= 65536
  <2> DEFINE a == 240 + c \div 262144
             b == 128 + ((c \div 4096) % 64)
             d == 128 + ((c \div 64) % 64)
             e == 128 + (c % 64)
  <2>1. Encode(c) = <<a, b, d, e>>
    BY SMT, <1>0, <1>4 DEF Encode
  <2>2. a \in 240..244 /\ b \in 0..255 /\ d \in 0..255 /\ e \in 0..255
    BY SMT, <1>0, <1>4
  <2>3. \A o \in 240..244 : BytesNeeded(o) = 3
    BY SMT DEF BytesNeeded
  <2> HIDE DEF a, b, d, e
  <2> QED BY SMT, <2>1, <2>2, <2>3 DEF Octet
<1> QED BY SMT, <1>0, <1>1, <1>2, <1>3, <1>4

\* The largest code point, by name.
LEMMA LastTyped == LastCodePoint \in Nat
  BY SMT DEF LastCodePoint

\* Sequences of code points.
Texts == Seq(0..LastCodePoint)

\* The extents grow by one to four octets with each character.
LEMMA ExtentSteps ==
  ASSUME NEW t \in Texts
  PROVE  /\ Extent(t)[0] = 0
         /\ \A n \in 1..Len(t) :
              Extent(t)[n] = Extent(t)[n - 1] + Len(Encode(t[n]))
<1>1. Len(t) \in Nat
  BY DEF Texts
<1>2. Counts(t, Len(t), Extent(t))
  BY <1>1, ExtentEquation
<1>3. \A n \in 0..Len(t) :
        Extent(t)[n] = IF n = 0 THEN 0
                       ELSE Extent(t)[n - 1] + Len(Encode(t[n]))
  BY <1>2 DEF Counts
<1>4. 0 \in 0..Len(t) /\ \A n \in 1..Len(t) : n \in 0..Len(t) /\ n # 0
  BY SMT, <1>1
<1> QED BY <1>3, <1>4

\* The extents are numbers, and do not decrease.
LEMMA ExtentTyped ==
  ASSUME NEW t \in Texts
  PROVE  /\ Len(t) \in Nat
         /\ \A n \in 0..Len(t) : Extent(t)[n] \in Nat
         /\ \A n \in 1..Len(t) : /\ t[n] \in 0..LastCodePoint
                                 /\ Extent(t)[n - 1] < Extent(t)[n]
         /\ \A m, n \in 0..Len(t) : m <= n => Extent(t)[m] <= Extent(t)[n]
<1> DEFINE E == Extent(t)
           step(n) == Len(Encode(t[n]))
<1>1. Len(t) \in Nat
  BY DEF Texts
<1>2. \A n \in 1..Len(t) : t[n] \in 0..LastCodePoint
  <2> DEFINE S == 0..LastCodePoint
  <2>1. t \in Seq(S)
    BY DEF Texts
  <2> HIDE DEF S, E, step
  <2>2. \A n \in 1..Len(t) : t[n] \in S
    BY <2>1
  <2> QED BY <2>2 DEF S
<1>3. \A n \in 1..Len(t) : step(n) \in 1..4
  <2>1. \A c \in 0..LastCodePoint : c \in Nat /\ c <= LastCodePoint
    BY SMT, LastTyped
  <2> QED BY <1>2, <2>1, EncodeShape
<1>4. E[0] = 0 /\ \A n \in 1..Len(t) : E[n] = E[n - 1] + step(n)
  BY ExtentSteps
<1> HIDE DEF E, step
<1>5. \A n \in 0..Len(t) :
        E[n] \in Nat /\ \A m \in 0..n : E[m] \in Nat /\ E[m] <= E[n]
  <2> DEFINE Good(n) == E[n] \in Nat /\ \A m \in 0..n : E[m] \in Nat /\ E[m] <= E[n]
             Bad == {n \in 0..Len(t) : ~Good(n)}
  <2> SUFFICES ASSUME Bad # {} PROVE FALSE
    OBVIOUS
  <2>1. PICK n \in Bad : \A other \in Bad : n <= other
    <3>1. Bad \in SUBSET Nat
      BY SMT, <1>1
    <3> HIDE DEF Bad
    <3> QED BY <3>1, LeastNumber
  <2>2. n # 0
    BY SMT, <1>4, <2>1
  <2>3. n \in 1..Len(t) /\ n - 1 \in 0..Len(t) /\ ~(n <= n - 1)
    BY SMT, <1>1, <2>1, <2>2
  <2>4. Good(n - 1)
    BY <2>1, <2>3
  <2>5. E[n] = E[n - 1] + step(n) /\ step(n) \in 1..4
    BY <1>3, <1>4, <2>3
  <2>6. Good(n)
    <3>1. E[n - 1] \in Nat /\ E[n] \in Nat /\ E[n - 1] < E[n]
      BY SMTT(20), <2>4, <2>5
    <3>2. ASSUME NEW m \in 0..n PROVE E[m] \in Nat /\ E[m] <= E[n]
      <4>1. CASE m = n
        BY SMT, <3>1, <4>1
      <4>2. CASE m # n
        <5>1. m \in 0..(n - 1)
          BY SMT, <1>1, <2>3, <4>2
        <5>2. E[m] \in Nat /\ E[m] <= E[n - 1]
          BY <2>4, <5>1
        <5> QED BY SMT, <3>1, <5>2
      <4> QED BY <4>1, <4>2
    <3> QED BY <3>1, <3>2
  <2> QED BY <2>1, <2>6
<1>6. \A n \in 1..Len(t) : E[n - 1] < E[n]
  <2> SUFFICES ASSUME NEW n \in 1..Len(t) PROVE E[n - 1] < E[n]
    OBVIOUS
  <2>1. E[n - 1] \in Nat
    BY SMT, <1>1, <1>5
  <2>2. E[n] = E[n - 1] + step(n) /\ step(n) \in 1..4
    BY <1>3, <1>4
  <2> QED BY SMT, <2>1, <2>2
<1>7. \A m, n \in 0..Len(t) : m <= n => E[m] <= E[n]
  BY SMT, <1>1, <1>5
<1> QED BY <1>1, <1>2, <1>5, <1>6, <1>7 DEF E

\* Every octet of a text lies in one character.
LEMMA InOneCharacter ==
  ASSUME NEW t \in Texts, NEW p \in 1..Extent(t)[Len(t)]
  PROVE  /\ \E n \in 1..Len(t) : Extent(t)[n - 1] < p /\ p <= Extent(t)[n]
         /\ \A m, n \in 1..Len(t) :
              /\ Extent(t)[m - 1] < p /\ p <= Extent(t)[m]
              /\ Extent(t)[n - 1] < p /\ p <= Extent(t)[n]
              => m = n
<1> DEFINE E == Extent(t)
<1>1. /\ Len(t) \in Nat
      /\ \A n \in 0..Len(t) : E[n] \in Nat
      /\ \A m, n \in 0..Len(t) : m <= n => E[m] <= E[n]
      /\ E[0] = 0
      /\ p \in 1..E[Len(t)]
  BY ExtentTyped, ExtentSteps
<1> HIDE DEF E
<1>2. \E n \in 1..Len(t) : E[n - 1] < p /\ p <= E[n]
  <2> DEFINE Beyond == {n \in 0..Len(t) : p <= E[n]}
  <2>1. PICK n \in Beyond : \A other \in Beyond : n <= other
    <3>1. Beyond \in SUBSET Nat /\ Len(t) \in Beyond
      BY SMT, <1>1
    <3> HIDE DEF Beyond
    <3> QED BY <3>1, LeastNumber
  <2>2. n # 0
    BY SMT, <1>1, <2>1
  <2>3. n \in 1..Len(t) /\ n - 1 \in 0..Len(t) /\ ~(n <= n - 1)
    BY SMT, <1>1, <2>1, <2>2
  <2>4. ~(p <= E[n - 1])
    BY <2>1, <2>3
  <2>5. E[n - 1] < p /\ p <= E[n]
    BY SMT, <1>1, <2>1, <2>3, <2>4
  <2> QED BY <2>3, <2>5
<1>3. ASSUME NEW m \in 1..Len(t), NEW n \in 1..Len(t),
             E[m - 1] < p, p <= E[m], E[n - 1] < p, p <= E[n]
      PROVE  m = n
  <2>1. /\ m - 1 \in 0..Len(t) /\ n - 1 \in 0..Len(t)
        /\ m \in 0..Len(t) /\ n \in 0..Len(t)
    BY SMT, <1>1
  <2>2. CASE m <= n - 1
    <3>1. E[m] <= E[n - 1] /\ E[m] \in Nat /\ E[n - 1] \in Nat
      BY <1>1, <2>1, <2>2
    <3> QED BY SMT, <1>1, <1>3, <3>1
  <2>3. CASE n <= m - 1
    <3>1. E[n] <= E[m - 1] /\ E[n] \in Nat /\ E[m - 1] \in Nat
      BY <1>1, <2>1, <2>3
    <3> QED BY SMT, <1>1, <1>3, <3>1
  <2> QED BY SMT, <1>1, <2>2, <2>3
<1> QED BY <1>2, <1>3 DEF E

\* The octets of a text, character by character.
LEMMA EncodedText ==
  ASSUME NEW t \in Texts
  PROVE  /\ EncodeText(t) \in Seq(Octet)
         /\ Len(EncodeText(t)) = Extent(t)[Len(t)]
         /\ \A n \in 1..Len(t) : \A q \in 1..Len(Encode(t[n])) :
              /\ Extent(t)[n - 1] + q \in 1..Extent(t)[Len(t)]
              /\ EncodeText(t)[Extent(t)[n - 1] + q] = Encode(t[n])[q]
<1> DEFINE E == Extent(t)
           In(p, n) == E[n - 1] < p /\ p <= E[n]
           character(p) == CHOOSE n \in 1..Len(t) : In(p, n)
           octet(p) == Encode(t[character(p)])[p - E[character(p) - 1]]
<1>1. EncodeText(t) = [p \in 1..E[Len(t)] |-> octet(p)]
  BY DEF EncodeText
<1>2. /\ Len(t) \in Nat
      /\ \A n \in 0..Len(t) : E[n] \in Nat
      /\ \A n \in 1..Len(t) : t[n] \in Nat /\ t[n] <= LastCodePoint
      /\ \A n \in 1..Len(t) : E[n] = E[n - 1] + Len(Encode(t[n]))
      /\ \A n \in 1..Len(t) : E[n] <= E[Len(t)]
  <2>1. /\ Len(t) \in Nat
        /\ \A n \in 0..Len(t) : E[n] \in Nat
        /\ \A n \in 1..Len(t) : t[n] \in 0..LastCodePoint
        /\ \A m, n \in 0..Len(t) : m <= n => E[m] <= E[n]
    BY ExtentTyped
  <2>2. \A c \in 0..LastCodePoint : c \in Nat /\ c <= LastCodePoint
    BY SMT, LastTyped
  <2>3. \A n \in 1..Len(t) : n \in 0..Len(t) /\ Len(t) \in 0..Len(t) /\ n <= Len(t)
    BY SMT, <2>1
  <2>4. \A n \in 1..Len(t) : E[n] = E[n - 1] + Len(Encode(t[n]))
    BY ExtentSteps
  <2> HIDE DEF E
  <2> QED BY <2>1, <2>2, <2>3, <2>4
<1>3. \A p \in 1..E[Len(t)] :
        /\ character(p) \in 1..Len(t) /\ In(p, character(p))
        /\ \A n \in 1..Len(t) : In(p, n) => n = character(p)
  BY InOneCharacter
<1>4. \A n \in 1..Len(t) : /\ Encode(t[n]) \in Seq(Octet)
                           /\ Len(Encode(t[n])) \in 1..4
  BY <1>2, EncodeShape
<1> HIDE DEF E, character
<1>5. \A n \in 1..Len(t) : n - 1 \in 0..Len(t) /\ E[n - 1] \in Nat /\ E[n] \in Nat
  BY SMT, <1>2
<1>6. ASSUME NEW p \in 1..E[Len(t)] PROVE octet(p) \in Octet
  <2> DEFINE n == character(p)
             q == p - E[n - 1]
  <2>1. n \in 1..Len(t) /\ In(p, n)
    BY <1>3
  <2> HIDE DEF n
  <2>2. E[n - 1] \in Nat /\ p \in Int /\ E[n] = E[n - 1] + Len(Encode(t[n]))
        /\ Len(Encode(t[n])) \in 1..4
    <3>1. E[Len(t)] \in Nat
      BY SMT, <1>2
    <3>2. p \in Int
      BY SMT, <3>1
    <3> QED BY <1>2, <1>4, <1>5, <2>1, <3>2
  <2>3. q \in 1..Len(Encode(t[n]))
    BY SMT, <2>1, <2>2
  <2>4. Encode(t[n]) \in Seq(Octet)
    BY <1>4, <2>1
  <2> HIDE DEF q
  <2>5. Encode(t[n])[q] \in Octet
    BY <2>3, <2>4
  <2> QED BY <2>5 DEF n, q
<1>7. ASSUME NEW n \in 1..Len(t), NEW q \in 1..Len(Encode(t[n]))
      PROVE  /\ E[n - 1] + q \in 1..E[Len(t)]
             /\ octet(E[n - 1] + q) = Encode(t[n])[q]
  <2> DEFINE p == E[n - 1] + q
  <2>1. /\ E[n - 1] \in Nat /\ E[n] = E[n - 1] + Len(Encode(t[n]))
        /\ Len(Encode(t[n])) \in 1..4 /\ E[n] <= E[Len(t)] /\ E[Len(t)] \in Nat
    BY SMT, <1>2, <1>4, <1>5
  <2>2. p \in 1..E[Len(t)] /\ In(p, n) /\ p - E[n - 1] = q
    BY SMTT(20), <2>1
  <2> HIDE DEF p
  <2>3. character(p) = n
    BY <1>3, <2>2
  <2> QED BY <2>2, <2>3 DEF p
<1> HIDE DEF octet
<1>8. EncodeText(t) \in [1..E[Len(t)] -> Octet]
  BY <1>1, <1>6
<1>9. E[Len(t)] \in Nat
  BY SMT, <1>2
<1>10. EncodeText(t) \in Seq(Octet) /\ Len(EncodeText(t)) = E[Len(t)]
  BY <1>8, <1>9
<1> QED BY <1>1, <1>7, <1>10 DEF E

-----------------------------------------------------------------------------
\* What the octets say of the text: each that is there is the text's.
Encoding ==
  encoded =>
    /\ text \in Texts
    /\ Len(octets) <= Extent(text)[Len(text)]
    /\ \A n \in 1..Len(text) : \A q \in 1..Len(Encode(text[n])) :
         Extent(text)[n - 1] + q <= Len(octets) =>
           octets[Extent(text)[n - 1] + q] = Encode(text[n])[q]

\* Short sequences are sequences.
LEMMA SeqsUpToTyped ==
  ASSUME NEW S, NEW T, S \subseteq T, NEW bound \in Nat, NEW s \in SeqsUpTo(S, bound)
  PROVE  s \in Seq(T)
<1>1. PICK k \in 0..bound : s \in [1..k -> S]
  BY DEF SeqsUpTo
<1>2. k \in Nat /\ s \in [1..k -> T]
  BY <1>1
<1> QED BY <1>2

\* A text cut at the end is a part of it.
LEMMA EncodingInit == Init => octets \in Seq(Octet) /\ Encoding
<1>1. ASSUME encoded = TRUE, text \in SeqsUpTo(Characters, MaxCharacters),
             NEW cut \in 0..MaxCut,
             octets = SubSeq(EncodeText(text), 1, Extent(text)[Len(text)] - cut)
      PROVE  octets \in Seq(Octet) /\ Encoding
  <2>1. text \in Texts
    <3>1. Characters \subseteq 0..LastCodePoint
      BY CharactersAssumption
    <3> QED BY <1>1, <3>1, SeqsUpToTyped, BoundsAssumption DEF Texts
  <2> DEFINE E == Extent(text)
             whole == EncodeText(text)
             length == E[Len(text)] - cut
  <2>2. /\ Len(text) \in Nat /\ E[Len(text)] \in Nat
        /\ whole \in Seq(Octet) /\ Len(whole) = E[Len(text)]
        /\ \A n \in 1..Len(text) : \A q \in 1..Len(Encode(text[n])) :
             /\ E[n - 1] + q \in 1..E[Len(text)]
             /\ whole[E[n - 1] + q] = Encode(text[n])[q]
    <3>1. Len(text) \in Nat /\ \A n \in 0..Len(text) : E[n] \in Nat
      BY <2>1, ExtentTyped
    <3>2. Len(text) \in 0..Len(text)
      BY <3>1
    <3> QED BY <2>1, <3>1, <3>2, EncodedText
  <2> HIDE DEF E, whole
  <2>3. length \in Int /\ length <= E[Len(text)] /\ cut \in Nat
    BY <2>2, BoundsAssumption
  <2>4. octets = SubSeq(whole, 1, length)
    BY <1>1 DEF E, whole
  <2> HIDE DEF length
  <2>5. /\ SubSeq(whole, 1, length) \in Seq(Octet)
        /\ Len(SubSeq(whole, 1, length)) = IF 1 <= length THEN length - 1 + 1 ELSE 0
        /\ \A p \in 1..length - 1 + 1 : SubSeq(whole, 1, length)[p] = whole[1 + p - 1]
    <3>1. \A p \in 1..length : whole[p] \in Octet
      BY <2>2, <2>3
    <3> QED BY <2>3, <3>1, SubSeqProperties
  <2>6. /\ octets \in Seq(Octet)
        /\ Len(octets) <= E[Len(text)]
    BY <2>2, <2>3, <2>4, <2>5
  <2>7. ASSUME NEW n \in 1..Len(text), NEW q \in 1..Len(Encode(text[n])),
               E[n - 1] + q <= Len(octets)
        PROVE  octets[E[n - 1] + q] = Encode(text[n])[q]
    <3> DEFINE p == E[n - 1] + q
    <3>1. p \in 1..E[Len(text)] /\ whole[p] = Encode(text[n])[q] /\ p <= Len(octets)
      BY <2>2, <2>7
    <3> HIDE DEF p
    <3>2. p \in 1..length - 1 + 1 /\ 1 + p - 1 = p
      BY <2>2, <2>3, <2>4, <2>5, <3>1
    <3>3. octets[p] = whole[p]
      BY <2>4, <2>5, <3>2
    <3> QED BY <3>1, <3>3 DEF p
  <2> QED BY <2>1, <2>6, <2>7 DEF Encoding, E
<1>2. ASSUME encoded = FALSE, octets \in SeqsUpTo(Octets, MaxOctets)
      PROVE  octets \in Seq(Octet) /\ Encoding
  <2>1. Octets \subseteq Octet
    BY OctetsAssumption DEF Octet
  <2> QED BY <1>2, <2>1, SeqsUpToTyped, BoundsAssumption DEF Encoding
<1> QED BY <1>1, <1>2 DEF Init

\* What a round of the loop finds is a code point, or too large for one.
LEMMA CodePointTyped ==
  ASSUME TypeOK, More
  PROVE  /\ octets[i + 1] \in Octet
         /\ BytesNeeded(octets[i + 1]) \in 0..3
         /\ Whole(BytesNeeded(octets[i + 1])) =>
              CodePoint(BytesNeeded(octets[i + 1])) \in Nat
<1> DEFINE n == BytesNeeded(octets[i + 1])
<1>1. octets \in Seq(Octet) /\ i \in Nat /\ i < Len(octets) /\ Len(octets) \in Nat
  BY DEF TypeOK, More
<1>2. \A p \in 1..Len(octets) : octets[p] \in Octet
  BY <1>1
<1>3. octets[i + 1] \in Octet
  BY <1>1, <1>2
<1>4. \A o \in Octet : BytesNeeded(o) \in 0..3 /\ LeadBits(o) \in Nat
  BY SMT DEF Octet, BytesNeeded, LeadBits
<1>5. \A codePoint \in Nat : \A o \in Octet : AddBits(codePoint, o) \in Nat
  BY SMT DEF AddBits, Octet
<1>6. ASSUME Whole(n) PROVE CodePoint(n) \in Nat
  <2>1. n \in 0..3 /\ LeadBits(octets[i + 1]) \in Nat
    BY <1>3, <1>4
  <2>2. \A m \in 0..n : octets[i + 1 + m] \in Octet
    <3> HIDE DEF n
    <3> SUFFICES ASSUME NEW m \in 0..n PROVE i + 1 + m \in 1..Len(octets)
      BY <1>2
    <3> QED BY SMT, <1>1, <1>6, <2>1 DEF Whole
  <2>3. n >= 1 => octets[i + 2] \in Octet
    <3> HIDE DEF n
    <3>1. i + 1 + 1 = i + 2
      BY SMT, <1>1
    <3> QED BY SMT, <2>1, <2>2, <3>1
  <2>4. n >= 2 => octets[i + 3] \in Octet
    <3> HIDE DEF n
    <3>1. i + 1 + 2 = i + 3
      BY SMT, <1>1
    <3> QED BY SMT, <2>1, <2>2, <3>1
  <2>5. n >= 3 => octets[i + 4] \in Octet
    <3> HIDE DEF n
    <3>1. i + 1 + 3 = i + 4
      BY SMT, <1>1
    <3> QED BY SMT, <2>1, <2>2, <3>1
  <2> HIDE DEF n
  <2>6. CASE n = 0
    BY <2>1, <2>6 DEF CodePoint
  <2>7. CASE n = 1
    <3>1. CodePoint(1) = AddBits(LeadBits(octets[i + 1]), octets[i + 2])
      BY SMT DEF CodePoint
    <3> QED BY <1>5, <2>1, <2>3, <2>7, <3>1
  <2>8. CASE n = 2
    <3>1. CodePoint(2) =
            AddBits(AddBits(LeadBits(octets[i + 1]), octets[i + 2]), octets[i + 3])
      BY SMT DEF CodePoint
    <3> QED BY <1>5, <2>1, <2>3, <2>4, <2>8, <3>1
  <2>9. CASE n = 3
    <3>1. CodePoint(3) =
            AddBits(AddBits(AddBits(LeadBits(octets[i + 1]), octets[i + 2]),
                            octets[i + 3]),
                    octets[i + 4])
      BY SMT DEF CodePoint
    <3> QED BY <1>5, <2>1, <2>3, <2>4, <2>5, <2>9, <3>1
  <2> QED BY SMT, <2>1, <2>6, <2>7, <2>8, <2>9
<1> QED BY <1>3, <1>4, <1>6

\* Decoding keeps its types, whatever the octets are.
LEMMA TypeStep == TypeOK /\ [Next]_vars => TypeOK'
<1> SUFFICES ASSUME TypeOK, [Next]_vars PROVE TypeOK'
  OBVIOUS
<1> DEFINE n == BytesNeeded(octets[i + 1])
           S == 0..LastCodePoint
<1>0. /\ octets \in Seq(Octet) /\ Len(octets) \in Nat
      /\ i \in 0..(Len(octets) + 1)
      /\ string \in Seq(S)
      /\ thrown \in BOOLEAN
  BY DEF TypeOK
<1>1. CASE DecodeWhole
  <2>1. CodePoint(n) \in S
    <3>1. CodePoint(n) \in Nat /\ CodePoint(n) <= LastCodePoint
      BY <1>1, CodePointTyped DEF DecodeWhole
    <3> QED BY SMT, <3>1, LastTyped
  <2>2. n \in 0..3 /\ Whole(n) /\ i < Len(octets)
    BY <1>1, CodePointTyped DEF DecodeWhole, More
  <2>3. /\ string' = Append(string, CodePoint(n)) /\ i' = i + n + 1
        /\ octets' = octets /\ thrown' = thrown
    BY <1>1 DEF DecodeWhole
  <2> HIDE DEF n, S
  <2>4. string' \in Seq(S)
    BY <1>0, <2>1, <2>3
  <2>5. i' \in 0..(Len(octets) + 1)
    BY SMT, <1>0, <2>2, <2>3 DEF Whole
  <2> QED BY <1>0, <2>3, <2>4, <2>5 DEF TypeOK, S
<1>2. CASE DecodeCut
  <2>1. Replacement \in S
    <3>1. Replacement \in Nat /\ Replacement <= LastCodePoint
      BY SMT DEF Replacement, LastCodePoint
    <3> QED BY SMT, <3>1, LastTyped
  <2> HIDE DEF S
  <2>2. string' \in Seq(S)
    BY <1>0, <1>2, <2>1 DEF DecodeCut
  <2>3. i' \in 0..(Len(octets) + 1) /\ octets' = octets /\ thrown' = thrown
    BY <1>0, <1>2 DEF DecodeCut
  <2> QED BY <1>0, <2>2, <2>3 DEF TypeOK, S
<1>3. CASE DecodeThrows
  BY <1>3 DEF DecodeThrows, TypeOK
<1>4. CASE UNCHANGED vars
  BY <1>4 DEF vars, TypeOK
<1> QED BY <1>1, <1>2, <1>3, <1>4 DEF Next

\* The types hold at the start.
LEMMA TypeInit == Init => TypeOK
<1> SUFFICES ASSUME Init PROVE TypeOK
  OBVIOUS
<1>1. octets \in Seq(Octet)
  BY EncodingInit
<1>2. i = 0 /\ string = <<>> /\ thrown = FALSE /\ Len(octets) \in Nat
  BY <1>1 DEF Init
<1> DEFINE S == 0..LastCodePoint
<1> HIDE DEF S
<1>3. string \in Seq(S)
  BY <1>2
<1>4. i \in 0..(Len(octets) + 1)
  BY SMT, <1>2
<1>5. thrown \in BOOLEAN
  BY Zenon, <1>2
<1> QED BY <1>1, <1>3, <1>4, <1>5 DEF TypeOK, S

\* Type correctness: no index and no code point out of range.
THEOREM TypeCorrect == Spec => []TypeOK
  BY TypeInit, TypeStep, PTL DEF Spec

-----------------------------------------------------------------------------
(***************************************************************************)
(* The whole text.  Before each round, the string is a beginning of the    *)
(* text and the index is where the next character stands.  Once a cut      *)
(* character was found the decoder is past the end.                        *)
(***************************************************************************)

Decoded(k) ==
  /\ string = SubSeq(text, 1, k)
  /\ i = Extent(text)[k]
  /\ Extent(text)[k] <= Len(octets)

DecodedAndCut(k) ==
  /\ string = Append(SubSeq(text, 1, k), Replacement)
  /\ i = Len(octets) + 1
  /\ k < Len(text)
  /\ Extent(text)[k] < Len(octets)
  /\ Extent(text)[k + 1] > Len(octets)

DecoderInv ==
  /\ TypeOK
  /\ Encoding
  /\ encoded =>
       /\ ~thrown
       /\ \E k \in 0..Len(text) : Decoded(k) \/ DecodedAndCut(k)

\* A beginning of a text, and the next character.
LEMMA Beginnings ==
  ASSUME NEW t \in Texts, NEW k \in 0..Len(t)
  PROVE  /\ SubSeq(t, 1, k) \in Texts
         /\ Len(SubSeq(t, 1, k)) = k
         /\ \A n \in 1..k : SubSeq(t, 1, k)[n] = t[n]
         /\ k < Len(t) => Append(SubSeq(t, 1, k), t[k + 1]) = SubSeq(t, 1, k + 1)
<1> DEFINE S == 0..LastCodePoint
<1>1. t \in Seq(S) /\ Len(t) \in Nat /\ k \in Nat /\ k <= Len(t)
  <2>1. t \in Seq(S)
    BY DEF Texts
  <2> HIDE DEF S
  <2> QED BY <2>1
<1>2. Texts = Seq(S)
  BY DEF Texts
<1> HIDE DEF S
<1>3. \A n \in 1..Len(t) : t[n] \in S
  BY <1>1
<1>4. ASSUME NEW m \in 0..Len(t)
      PROVE  /\ SubSeq(t, 1, m) \in Seq(S)
             /\ Len(SubSeq(t, 1, m)) = m
             /\ \A n \in 1..m : SubSeq(t, 1, m)[n] = t[n]
  <2>1. m \in Int /\ \A n \in 1..m : t[n] \in S
    BY <1>1, <1>3
  <2>2. /\ SubSeq(t, 1, m) \in Seq(S)
        /\ Len(SubSeq(t, 1, m)) = IF 1 <= m THEN m - 1 + 1 ELSE 0
        /\ \A n \in 1..m - 1 + 1 : SubSeq(t, 1, m)[n] = t[1 + n - 1]
    BY <2>1, SubSeqProperties
  <2> QED BY <1>1, <2>2
<1>5. ASSUME k < Len(t)
      PROVE  Append(SubSeq(t, 1, k), t[k + 1]) = SubSeq(t, 1, k + 1)
  <2>1. /\ SubSeq(t, 1, k) \in Seq(S) /\ Len(SubSeq(t, 1, k)) = k
        /\ \A n \in 1..k : SubSeq(t, 1, k)[n] = t[n]
    BY <1>4
  <2>2. /\ SubSeq(t, 1, k + 1) \in Seq(S) /\ Len(SubSeq(t, 1, k + 1)) = k + 1
        /\ \A n \in 1..(k + 1) : SubSeq(t, 1, k + 1)[n] = t[n]
    <3>1. k + 1 \in 0..Len(t)
      BY <1>1, <1>5
    <3> QED BY <1>4, <3>1
  <2> DEFINE a == SubSeq(t, 1, k)
             b == SubSeq(t, 1, k + 1)
  <2> HIDE DEF a, b
  <2>3. t[k + 1] \in S
    BY <1>1, <1>3, <1>5
  <2>4. /\ Append(a, t[k + 1]) \in Seq(S) /\ Len(Append(a, t[k + 1])) = k + 1
        /\ \A n \in 1..k : Append(a, t[k + 1])[n] = t[n]
        /\ Append(a, t[k + 1])[k + 1] = t[k + 1]
    BY <1>1, <2>1, <2>3 DEF a
  <2>5. \A n \in 1..(k + 1) : Append(a, t[k + 1])[n] = b[n]
    BY <1>1, <2>2, <2>4 DEF b
  <2> QED BY <1>1, <2>2, <2>4, <2>5 DEF a, b
<1> QED BY <1>2, <1>4, <1>5

\* A step from the beginning of a character: it is decoded when it is there as a
\* whole, and replaced when it is cut.
LEMMA DecodedStep ==
  ASSUME DecoderInv, encoded, NEW k \in 0..Len(text), Decoded(k), Next
  PROVE  /\ ~thrown'
         /\ \/ k + 1 \in 0..Len(text) /\ Decoded(k + 1)'
            \/ DecodedAndCut(k)'
<1> DEFINE E == Extent(text)
           c == text[k + 1]
<1>1. TypeOK /\ text \in Texts /\ ~thrown /\ Len(octets) <= E[Len(text)]
  BY DEF DecoderInv, Encoding
<1>2. octets \in Seq(Octet) /\ Len(octets) \in Nat
  BY <1>1 DEF TypeOK
<1>3. /\ Len(text) \in Nat
      /\ \A n \in 0..Len(text) : E[n] \in Nat
      /\ \A n \in 1..Len(text) : /\ text[n] \in 0..LastCodePoint
                                 /\ E[n - 1] < E[n]
                                 /\ E[n] = E[n - 1] + Len(Encode(text[n]))
  BY <1>1, ExtentTyped, ExtentSteps
<1>4. /\ string = SubSeq(text, 1, k) /\ i = E[k] /\ E[k] <= Len(octets)
      /\ UNCHANGED <<text, encoded, octets>>
  BY DEF Decoded, Next, DecodeWhole, DecodeCut, DecodeThrows
<1> HIDE DEF E
<1>5. i < Len(octets) /\ More
  BY DEF Next, DecodeWhole, DecodeCut, DecodeThrows, More
<1>6. k < Len(text) /\ k \in Nat
  <2>1. CASE k = Len(text)
    BY SMT, <1>1, <1>2, <1>3, <1>4, <1>5, <2>1
  <2> QED BY SMT, <1>3, <2>1
<1>7. /\ k + 1 \in 1..Len(text) /\ k + 1 \in 0..Len(text)
      /\ c \in Nat /\ c <= LastCodePoint
      /\ E[k] \in Nat /\ E[k + 1] \in Nat /\ E[k] < E[k + 1]
      /\ E[k + 1] = E[k] + Len(Encode(c))
  <2>1. k + 1 \in 1..Len(text) /\ k + 1 \in 0..Len(text) /\ k + 1 - 1 = k
    BY SMT, <1>3, <1>6
  <2>2. \A x \in 0..LastCodePoint : x \in Nat /\ x <= LastCodePoint
    BY SMT, LastTyped
  <2> QED BY <1>3, <2>1, <2>2
<1>8. \A q \in 1..Len(Encode(c)) :
        E[k] + q <= Len(octets) => octets[E[k] + q] = Encode(c)[q]
  <2>1. k + 1 - 1 = k
    BY SMT, <1>6
  <2> QED BY <1>7, <2>1 DEF DecoderInv, Encoding, E
<1>9. CASE E[k + 1] <= Len(octets)
  <2>1. StandsAt(c, i)
    <3>1. i + Len(Encode(c)) <= Len(octets)
      BY <1>4, <1>7, <1>9
    <3>2. \A q \in 1..Len(Encode(c)) : octets[i + q] = Encode(c)[q]
      <4>1. \A q \in 1..Len(Encode(c)) : E[k] + q <= Len(octets)
        <5>1. Len(Encode(c)) \in 1..4
          BY <1>7, EncodeShape
        <5> QED BY SMT, <1>2, <1>7, <1>9, <5>1
      <4> QED BY <1>4, <1>8, <4>1
    <3> QED BY <3>1, <3>2 DEF StandsAt
  <2>2. string' = Append(string, c) /\ i' = i + Len(Encode(c)) /\ ~thrown'
    BY <1>1, <1>7, <2>1, DecodesCharacterStep
  <2>3. Append(SubSeq(text, 1, k), c) = SubSeq(text, 1, k + 1)
    BY <1>1, <1>6, Beginnings
  <2>4. Decoded(k + 1)'
    BY <1>4, <1>7, <1>9, <2>2, <2>3 DEF Decoded, E
  <2> QED BY <1>7, <2>2, <2>4
<1>10. CASE ~(E[k + 1] <= Len(octets))
  <2>1. /\ Len(Encode(c)) \in 1..4
        /\ BytesNeeded(Encode(c)[1]) = Len(Encode(c)) - 1
    BY <1>7, EncodeShape
  <2>2. octets[i + 1] = Encode(c)[1]
    <3>1. 1 \in 1..Len(Encode(c)) /\ E[k] + 1 <= Len(octets)
      BY SMT, <1>2, <1>4, <1>5, <1>7, <2>1
    <3> QED BY <1>4, <1>8, <3>1
  <2>3. BytesNeeded(octets[i + 1]) = Len(Encode(c)) - 1
    BY <2>1, <2>2
  <2>4. ~Whole(Len(Encode(c)) - 1)
    BY SMT, <1>2, <1>4, <1>7, <1>10, <2>1 DEF Whole
  <2>5. DecodeCut
    BY <2>3, <2>4 DEF Next, DecodeWhole, DecodeThrows
  <2>6. Len(octets) < E[k + 1] /\ E[k] < Len(octets)
    BY SMT, <1>2, <1>4, <1>5, <1>7, <1>10
  <2>7. DecodedAndCut(k)' /\ ~thrown'
    BY <1>1, <1>4, <1>6, <2>5, <2>6 DEF DecodeCut, DecodedAndCut, E
  <2> QED BY <2>7
<1> QED BY <1>9, <1>10

\* Every round keeps the string a beginning of the text.
LEMMA DecoderInvStep == DecoderInv /\ [Next]_vars => DecoderInv'
<1> SUFFICES ASSUME DecoderInv, [Next]_vars PROVE DecoderInv'
  OBVIOUS
<1>1. TypeOK'
  BY TypeStep DEF DecoderInv
<1>2. UNCHANGED <<text, encoded, octets>>
  BY DEF Next, DecodeWhole, DecodeCut, DecodeThrows, vars
<1>3. Encoding'
  BY <1>2 DEF DecoderInv, Encoding
<1>4. ASSUME encoded
      PROVE  /\ ~thrown'
             /\ \E k \in 0..Len(text) : Decoded(k)' \/ DecodedAndCut(k)'
  <2>1. PICK k \in 0..Len(text) : Decoded(k) \/ DecodedAndCut(k)
    BY <1>4 DEF DecoderInv
  <2>2. CASE UNCHANGED vars
    BY <1>4, <2>1, <2>2 DEF vars, DecoderInv, Decoded, DecodedAndCut
  <2>3. CASE Next /\ Decoded(k)
    BY <1>4, <2>3, DecodedStep
  <2>4. CASE Next /\ DecodedAndCut(k)
    <3>1. i = Len(octets) + 1 /\ i < Len(octets) /\ Len(octets) \in Nat
      BY <2>4 DEF DecoderInv, TypeOK, DecodedAndCut, Next, DecodeWhole,
                  DecodeCut, DecodeThrows, More
    <3> QED BY SMT, <3>1
  <2> QED BY <2>1, <2>2, <2>3, <2>4
<1>5. encoded' =>
        /\ ~thrown'
        /\ \E k \in 0..Len(text') : Decoded(k)' \/ DecodedAndCut(k)'
  BY <1>2, <1>4
<1> QED BY <1>1, <1>3, <1>5 DEF DecoderInv

\* Nothing is decoded at first.
LEMMA DecoderInvInit == Init => DecoderInv
<1> SUFFICES ASSUME Init PROVE DecoderInv
  OBVIOUS
<1>1. octets \in Seq(Octet) /\ Encoding
  BY EncodingInit
<1>2. TypeOK
  BY TypeInit
<1>3. ASSUME encoded PROVE \E k \in 0..Len(text) : Decoded(k)
  <2>1. text \in Texts /\ Len(octets) \in Nat
    BY <1>1, <1>3 DEF Encoding
  <2>2. 0 \in 0..Len(text) /\ Extent(text)[0] = 0
    <3>1. Len(text) \in Nat
      BY <2>1, ExtentTyped
    <3> QED BY <2>1, <3>1, ExtentSteps
  <2>3. SubSeq(text, 1, 0) = <<>>
    BY SubSeqEmpty
  <2> QED BY <2>1, <2>2, <2>3 DEF Init, Decoded
<1> QED BY <1>1, <1>2, <1>3 DEF DecoderInv, Init

\* The number of characters that are there as a whole.
IsWhole(n) ==
  /\ Extent(text)[n] <= Len(octets)
  /\ n < Len(text) => Extent(text)[n + 1] > Len(octets)

\* There is one such number, and no smaller one has room for a character more.
LEMMA WholeIsUnique ==
  ASSUME TypeOK, text \in Texts
  PROVE  /\ \E n \in 0..Len(text) : IsWhole(n)
         /\ \A n \in 0..Len(text) : \A k \in 0..Len(text) :
              IsWhole(n) /\ Extent(text)[k] <= Len(octets) => k <= n
         /\ \A k, n \in 0..Len(text) : IsWhole(k) /\ IsWhole(n) => k = n
<1> DEFINE E == Extent(text)
<1>1. /\ Len(text) \in Nat /\ Len(octets) \in Nat
      /\ E[0] = 0
      /\ \A n \in 0..Len(text) : E[n] \in Nat
      /\ \A m, n \in 0..Len(text) : m <= n => E[m] <= E[n]
  BY ExtentTyped, ExtentSteps DEF TypeOK
<1> HIDE DEF E
<1>2. \A n \in 0..Len(text) :
        IsWhole(n) <=> /\ E[n] <= Len(octets)
                       /\ n < Len(text) => E[n + 1] > Len(octets)
  BY DEF IsWhole, E
<1>3. ASSUME NEW n \in 0..Len(text), NEW k \in 0..Len(text),
             IsWhole(n), E[k] <= Len(octets)
      PROVE  k <= n
  <2> SUFFICES ASSUME n + 1 <= k PROVE FALSE
    BY SMT, <1>1
  <2>1. n < Len(text) /\ n + 1 \in 0..Len(text)
    BY SMT, <1>1
  <2>2. E[n + 1] <= E[k] /\ E[n + 1] > Len(octets)
    BY <1>1, <1>2, <1>3, <2>1
  <2>3. E[n + 1] \in Nat /\ E[k] \in Nat
    BY <1>1, <2>1
  <2> QED BY SMT, <1>1, <1>3, <2>2, <2>3
<1>4. \E n \in 0..Len(text) : IsWhole(n)
  <2> DEFINE Full == {n \in 0..Len(text) :
                        n < Len(text) => E[n + 1] > Len(octets)}
  <2>1. PICK n \in Full : \A other \in Full : n <= other
    <3>1. Full \in SUBSET Nat /\ Len(text) \in Full
      BY SMT, <1>1
    <3> HIDE DEF Full
    <3> QED BY <3>1, LeastNumber
  <2>2. n \in 0..Len(text) /\ (n < Len(text) => E[n + 1] > Len(octets))
    BY <2>1
  <2>3. E[n] <= Len(octets)
    <3>1. CASE n = 0
      BY SMT, <1>1, <3>1
    <3>2. CASE n # 0
      <4>1. n - 1 \in 0..Len(text) /\ ~(n <= n - 1) /\ n - 1 + 1 = n
            /\ n - 1 < Len(text)
        BY SMT, <1>1, <2>2, <3>2
      <4>2. ~(E[n] > Len(octets))
        BY <2>1, <4>1
      <4> QED BY SMT, <1>1, <2>2, <4>2
    <3> QED BY <3>1, <3>2
  <2> QED BY <1>2, <2>2, <2>3
<1>5. ASSUME NEW k \in 0..Len(text), NEW n \in 0..Len(text), IsWhole(k), IsWhole(n)
      PROVE  k = n
  <2>1. E[k] <= Len(octets) /\ E[n] <= Len(octets)
    BY <1>2, <1>5
  <2>2. k <= n /\ n <= k
    BY <1>3, <1>5, <2>1
  <2> QED BY SMT, <1>1, <2>2
<1> QED BY <1>3, <1>4, <1>5 DEF E

\* A text of any length, cut anywhere, is decoded to its characters and at most
\* one replacement character.
THEOREM DecodesTextThm == Spec => []DecodesText
<1>1. DecoderInv => DecodesText
  <2> SUFFICES ASSUME DecoderInv, encoded
               PROVE  /\ ~thrown
                      /\ Len(string) <= Len(Expected)
                      /\ string = SubSeq(Expected, 1, Len(string))
                      /\ ~More => string = Expected
    BY DEF DecodesText
  <2> DEFINE E == Extent(text)
             whole == CHOOSE n \in 0..Len(text) : IsWhole(n)
             begin == SubSeq(text, 1, whole)
             rest == IF E[whole] < Len(octets) THEN <<Replacement>> ELSE <<>>
             S == 0..LastCodePoint
  <2>1. TypeOK /\ text \in Texts /\ ~thrown
    BY DEF DecoderInv, Encoding
  <2>2. PICK k \in 0..Len(text) : Decoded(k) \/ DecodedAndCut(k)
    BY DEF DecoderInv
  <2>3. whole \in 0..Len(text) /\ IsWhole(whole)
    BY <2>1, WholeIsUnique
  <2>4. Expected = begin \o rest
    BY DEF Expected, IsWhole
  <2>5. /\ Len(text) \in Nat /\ Len(octets) \in Nat
        /\ E[k] \in Nat /\ E[whole] \in Nat
        /\ k < Len(text) => E[k] < E[k + 1]
    <3>1. /\ Len(text) \in Nat
          /\ \A n \in 0..Len(text) : E[n] \in Nat
          /\ \A n \in 1..Len(text) : E[n - 1] < E[n]
      BY <2>1, ExtentTyped
    <3> HIDE DEF E, whole
    <3>2. k < Len(text) => k + 1 \in 1..Len(text) /\ k + 1 - 1 = k
      BY SMT, <3>1
    <3> QED BY <2>1, <2>3, <3>1, <3>2 DEF TypeOK
  <2>6. /\ begin \in Texts /\ Len(begin) = whole
        /\ \A n \in 1..whole : begin[n] = text[n]
        /\ SubSeq(text, 1, k) \in Texts /\ Len(SubSeq(text, 1, k)) = k
        /\ \A n \in 1..k : SubSeq(text, 1, k)[n] = text[n]
    <3> HIDE DEF whole
    <3> QED BY <2>1, <2>3, Beginnings
  <2> HIDE DEF E, whole, begin
  <2>7. begin \in Seq(S) /\ rest \in Seq(S)
    <3>1. Replacement \in S
      <4>1. Replacement \in Nat /\ Replacement <= LastCodePoint
        BY SMT DEF Replacement, LastCodePoint
      <4> QED BY SMT, <4>1, LastTyped
    <3>2. begin \in Seq(S)
      BY <2>6 DEF Texts
    <3> HIDE DEF S
    <3> QED BY <3>1, <3>2
  <2> HIDE DEF S
  <2>8. CASE Decoded(k)
    <3>1. string = SubSeq(text, 1, k) /\ i = E[k] /\ E[k] <= Len(octets)
          /\ Len(string) = k
      BY <2>6, <2>8 DEF Decoded, E
    <3>2. k <= whole
      BY <2>1, <2>3, <3>1, WholeIsUnique DEF E
    <3>3. /\ Len(Expected) = whole + Len(rest)
          /\ Len(rest) \in Nat
          /\ \A n \in 1..whole : Expected[n] = text[n]
      BY <2>3, <2>4, <2>6, <2>7
    <3>4. Len(string) <= Len(Expected)
      BY SMT, <2>3, <2>5, <3>1, <3>2, <3>3
    <3>5. string = SubSeq(Expected, 1, Len(string))
      <4>1. Expected \in Seq(S)
        BY <2>4, <2>7
      <4>2. k \in Int /\ k \in Nat /\ \A n \in 1..k : Expected[n] \in S
        BY <2>3, <2>5, <3>2, <3>3, <4>1
      <4>3. /\ SubSeq(Expected, 1, k) \in Seq(S)
            /\ Len(SubSeq(Expected, 1, k)) = IF 1 <= k THEN k - 1 + 1 ELSE 0
            /\ \A n \in 1..k - 1 + 1 :
                 SubSeq(Expected, 1, k)[n] = Expected[1 + n - 1]
        BY <4>2, SubSeqProperties
      <4> DEFINE part == SubSeq(Expected, 1, k)
      <4>4. part \in Seq(S) /\ Len(part) = k /\ \A n \in 1..k : part[n] = text[n]
        BY <2>3, <2>5, <3>2, <3>3, <4>2, <4>3
      <4> HIDE DEF part
      <4>5. string \in Seq(S) /\ \A n \in 1..k : string[n] = text[n]
        BY <2>6, <3>1 DEF Texts, S
      <4>6. string = part
        BY <3>1, <4>4, <4>5
      <4> QED BY <3>1, <4>6 DEF part
    <3>6. ASSUME ~More PROVE string = Expected
      <4>1. E[k] = Len(octets)
        BY SMT, <2>1, <2>5, <3>1, <3>6 DEF More
      <4>2. IsWhole(k)
        BY SMT, <2>5, <4>1 DEF IsWhole, E
      <4>3. k = whole
        BY <2>1, <2>3, <4>2, WholeIsUnique
      <4>4. rest = <<>>
        BY SMT, <2>5, <4>1, <4>3
      <4> HIDE DEF rest
      <4>5. Expected = begin
        BY <2>4, <2>7, <4>4
      <4> QED BY <3>1, <4>3, <4>5 DEF begin
    <3> QED BY <2>1, <3>4, <3>5, <3>6
  <2>9. CASE DecodedAndCut(k)
    <3>1. /\ string = Append(SubSeq(text, 1, k), Replacement)
          /\ k < Len(text) /\ E[k] < Len(octets) /\ E[k + 1] > Len(octets)
      BY <2>9 DEF DecodedAndCut, E
    <3>2. IsWhole(k)
      BY SMT, <2>5, <3>1 DEF IsWhole, E
    <3>3. k = whole
      BY <2>1, <2>3, <3>2, WholeIsUnique
    <3>4. rest = <<Replacement>>
      BY <3>1, <3>3
    <3>5. Replacement \in S
      <4> HIDE DEF rest
      <4>1. \A n \in 1..Len(rest) : rest[n] \in S
        BY <2>7
      <4>2. 1 \in 1..Len(rest) /\ rest[1] = Replacement
        BY <3>4
      <4> QED BY <4>1, <4>2
    <3> HIDE DEF rest
    <3>6. string = Expected
      BY <2>4, <2>7, <3>1, <3>3, <3>4, <3>5, AppendIsConcat DEF begin
    <3>7. Expected \in Seq(S)
      BY <2>4, <2>7
    <3>8. SubSeq(Expected, 1, Len(Expected)) = Expected
      BY <3>7, SubSeqFull
    <3>9. Len(Expected) \in Nat
      BY <3>7
    <3> QED BY <2>1, <3>6, <3>8, <3>9
  <2> QED BY <2>2, <2>8, <2>9
<1> QED BY <1>1, DecoderInvInit, DecoderInvStep, PTL DEF Spec

RoundTrip ==
  encoded /\ octets = EncodeText(text) => ~thrown /\ (~More => string = text)

\* A text that nothing was cut off comes back as it was: TextDecoder undoes
\* UTF-8, for texts of any length and any code points (isolate.rs:100-135).
THEOREM RoundTripThm == Spec => []RoundTrip
<1>1. DecoderInv => RoundTrip
  <2> SUFFICES ASSUME DecoderInv, encoded, octets = EncodeText(text)
               PROVE  ~thrown /\ (~More => string = text)
    BY DEF RoundTrip
  <2> DEFINE E == Extent(text)
             S == 0..LastCodePoint
  <2>1. TypeOK /\ text \in Texts /\ ~thrown
    BY DEF DecoderInv, Encoding
  <2>2. PICK k \in 0..Len(text) : Decoded(k) \/ DecodedAndCut(k)
    BY DEF DecoderInv
  <2>3. Len(octets) = E[Len(text)]
    BY <2>1, EncodedText
  <2>4. /\ Len(text) \in Nat
        /\ \A n \in 0..Len(text) : E[n] \in Nat
        /\ \A n \in 1..Len(text) : E[n - 1] < E[n]
        /\ \A m, n \in 0..Len(text) : m <= n => E[m] <= E[n]
    BY <2>1, ExtentTyped
  <2> HIDE DEF E
  <2>5. k < Len(text) => E[k] < E[k + 1] /\ E[k + 1] <= Len(octets)
    <3>1. k < Len(text) => k + 1 \in 1..Len(text) /\ k + 1 - 1 = k
                           /\ Len(text) \in 0..Len(text) /\ k + 1 <= Len(text)
                           /\ k + 1 \in 0..Len(text)
      BY SMT, <2>4
    <3> QED BY <2>3, <2>4, <3>1
  <2>6. Decoded(k) /\ E[k] \in Nat /\ Len(octets) \in Nat
    <3>1. Len(octets) \in Nat /\ (k < Len(text) => E[k + 1] \in Nat)
      BY SMT, <2>1, <2>4 DEF TypeOK
    <3>2. ~DecodedAndCut(k)
      BY SMT, <2>5, <3>1 DEF DecodedAndCut, E
    <3> QED BY <2>2, <2>4, <3>1, <3>2
  <2>7. ASSUME ~More PROVE string = text
    <3>1. E[k] >= Len(octets)
      BY <2>1, <2>6, <2>7 DEF More, Decoded, E
    <3>2. k = Len(text)
      BY SMT, <2>4, <2>5, <2>6, <3>1
    <3>3. /\ string \in Texts /\ Len(string) = k
          /\ \A n \in 1..k : string[n] = text[n]
      BY <2>1, <2>6, Beginnings DEF Decoded
    <3> HIDE DEF S
    <3>4. string \in Seq(S) /\ text \in Seq(S)
      BY <2>1, <3>3 DEF Texts, S
    <3> QED BY <3>2, <3>3, <3>4
  <2> QED BY <2>1, <2>7
<1> QED BY <1>1, DecoderInvInit, DecoderInvStep, PTL DEF Spec
=============================================================================
