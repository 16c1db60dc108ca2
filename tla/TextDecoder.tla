----------------------------- MODULE TextDecoder ----------------------------
(***************************************************************************)
(* TextDecoder.decode of isolate.js (app/rust/src/runtime/isolate.rs),     *)
(* which makes a string of the octets of an ArrayBuffer: ArrayBuffer's     *)
(* toJSON decodes with it.  A step is one round of the outer loop.  Octets *)
(* and code points are numbers; codePoint << 6 | octet & 0x3f is a sum,    *)
(* for its parts share no bit.                                             *)
(*                                                                         *)
(* The octets encode a text in UTF-8, with some octets lost at the end, or *)
(* are arbitrary.                                                          *)
(***************************************************************************)
EXTENDS Integers, Sequences

CONSTANTS
  Characters, MaxCharacters, MaxCut,   \* the texts, and how much may be lost
  Octets, MaxOctets                    \* the arbitrary octets

Octet == 0..255
Replacement == 65533    \* 0xfffd
LastCodePoint == 1114111

ASSUME CharactersAssumption == Characters \subseteq 0..LastCodePoint
ASSUME OctetsAssumption == Octets \subseteq Octet
ASSUME BoundsAssumption ==
  MaxCharacters \in Nat /\ MaxCut \in Nat /\ MaxOctets \in Nat

VARIABLES
  text,      \* what the octets encode, <<>> when they are arbitrary
  encoded,   \* they encode it
  octets,
  i,         \* the index in them, from 0
  string,    \* the code points found so far
  thrown     \* String.fromCodePoint threw a RangeError

vars == <<text, encoded, octets, i, string, thrown>>

-----------------------------------------------------------------------------
\* UTF-8, by RFC 3629.
Encode(c) ==
  IF c < 128 THEN <<c>>
  ELSE IF c < 2048 THEN <<192 + c \div 64, 128 + (c % 64)>>
  ELSE IF c < 65536
       THEN <<224 + c \div 4096, 128 + ((c \div 64) % 64), 128 + (c % 64)>>
  ELSE <<240 + c \div 262144, 128 + ((c \div 4096) % 64),
         128 + ((c \div 64) % 64), 128 + (c % 64)>>

\* The number of octets that the first n characters of t take.
Extent(t) ==
  LET extent[n \in 0..Len(t)] ==
        IF n = 0 THEN 0 ELSE extent[n - 1] + Len(Encode(t[n]))
  IN  extent

\* The octets of t: each lies in the character whose extent it is in.
EncodeText(t) ==
  [p \in 1..Extent(t)[Len(t)] |->
     LET n == CHOOSE m \in 1..Len(t) : Extent(t)[m - 1] < p /\ p <= Extent(t)[m]
     IN  Encode(t[n])[p - Extent(t)[n - 1]]]

SeqsUpTo(S, n) == UNION {[1..k -> S] : k \in 0..n}

Init ==
  /\ \/ /\ encoded = TRUE
        /\ text \in SeqsUpTo(Characters, MaxCharacters)
        /\ \E cut \in 0..MaxCut :
             octets = SubSeq(EncodeText(text), 1, Extent(text)[Len(text)] - cut)
     \/ /\ encoded = FALSE
        /\ text = <<>>
        /\ octets \in SeqsUpTo(Octets, MaxOctets)
  /\ i = 0
  /\ string = <<>>
  /\ thrown = FALSE

-----------------------------------------------------------------------------
\* bytesNeeded, from the first octet.
BytesNeeded(octet) ==
  CASE octet <= 127 -> 0
    [] octet \in 128..223 -> 1
    [] octet \in 224..239 -> 2
    [] octet \in 240..244 -> 3
    [] octet > 244 -> 0

\* The bits of codePoint that are in it.
LeadBits(octet) ==
  CASE octet <= 127 -> octet
    [] octet \in 128..223 -> octet % 32
    [] octet \in 224..239 -> octet % 16
    [] octet \in 240..244 -> octet % 8
    [] octet > 244 -> 0

\* codePoint << 6 | octet & 0x3f.
AddBits(codePoint, octet) == 64 * codePoint + (octet % 64)

\* codePoint with n more octets after the one at index i.
CodePoint(n) ==
  LET lead == LeadBits(octets[i + 1])
  IN  CASE n = 0 -> lead
        [] n = 1 -> AddBits(lead, octets[i + 2])
        [] n = 2 -> AddBits(AddBits(lead, octets[i + 2]), octets[i + 3])
        [] n = 3 -> AddBits(AddBits(AddBits(lead, octets[i + 2]), octets[i + 3]),
                            octets[i + 4])

More == i < Len(octets) /\ ~thrown

\* Mutant: the last character is taken to be cut off when it is not.
WholeStrict(n) == Len(octets) - i - n > 1

\* All the octets of the character are there.
Whole(n) == Len(octets) - i - n > 0

DecodeWhole ==
  LET n == BytesNeeded(octets[i + 1])
  IN  /\ More
      /\ Whole(n)
      /\ CodePoint(n) <= LastCodePoint
      /\ string' = Append(string, CodePoint(n))
      /\ i' = i + n + 1
      /\ UNCHANGED <<text, encoded, octets, thrown>>

\* Mutant: the index moves by the octets that should have been there.
DecodeCutBeyond ==
  LET n == BytesNeeded(octets[i + 1])
  IN  /\ More
      /\ ~Whole(n)
      /\ string' = Append(string, Replacement)
      /\ i' = i + n + 1
      /\ UNCHANGED <<text, encoded, octets, thrown>>

\* The octets end inside a character: one U+FFFD for what is left.
DecodeCut ==
  /\ More
  /\ ~Whole(BytesNeeded(octets[i + 1]))
  /\ string' = Append(string, Replacement)
  /\ i' = Len(octets) + 1
  /\ UNCHANGED <<text, encoded, octets, thrown>>

\* Beyond Unicode: decode throws.
DecodeThrows ==
  LET n == BytesNeeded(octets[i + 1])
  IN  /\ More
      /\ Whole(n)
      /\ CodePoint(n) > LastCodePoint
      /\ thrown' = TRUE
      /\ UNCHANGED <<text, encoded, octets, i, string>>

Next == DecodeWhole \/ DecodeCut \/ DecodeThrows

Spec == Init /\ [][Next]_vars

-----------------------------------------------------------------------------
\* Type invariant; the index ends at most one past the end.
TypeOK ==
  /\ octets \in Seq(Octet)
  /\ i \in 0..(Len(octets) + 1)
  /\ string \in Seq(0..LastCodePoint)
  /\ thrown \in BOOLEAN

\* The characters of the text that are there as a whole, and one replacement
\* character for one that is cut.
Expected ==
  LET whole == CHOOSE n \in 0..Len(text) :
                 /\ Extent(text)[n] <= Len(octets)
                 /\ n < Len(text) => Extent(text)[n + 1] > Len(octets)
  IN  SubSeq(text, 1, whole)
      \o IF Extent(text)[whole] < Len(octets) THEN <<Replacement>> ELSE <<>>

\* What was a text in UTF-8 is decoded to it, wherever the octets were cut off,
\* and decode does not throw; the string never runs ahead of the text
\* (isolate.rs:100-135).
DecodesText ==
  encoded =>
    /\ ~thrown
    /\ Len(string) <= Len(Expected)
    /\ string = SubSeq(Expected, 1, Len(string))
    /\ ~More => string = Expected
=============================================================================
