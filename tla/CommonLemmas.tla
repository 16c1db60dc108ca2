----------------------------- MODULE CommonLemmas --------------------------
(***************************************************************************)
(* Lemmas that several proofs use: that every set of numbers has a least   *)
(* one, which stands in for induction, and what appending to a queue and   *)
(* taking its head do to the set of what is in it, for the ready queue of  *)
(* FetchOps and the Handler's queue of UiTasks.                            *)
(***************************************************************************)
EXTENDS Integers, Sequences, WellFoundedInduction, TLAPS

\* A set of natural numbers has a least one.  A claim about every number is
\* proved with it: were there counterexamples, there would be a least one.
LEMMA LeastNumber ==
  ASSUME NEW S \in SUBSET Nat, S # {}
  PROVE  \E x \in S : \A y \in S : x <= y
<1> DEFINE R == {pair \in Nat \X Nat : pair[1] < pair[2]}
<1>1. IsWellFoundedOn(R, Nat)
  BY NatLessThanWellFounded DEF OpToRel
<1>2. PICK x \in S : \A y \in S : ~(<<y, x>> \in R)
  <2> HIDE DEF R
  <2> QED BY <1>1, WFMin
<1>3. ASSUME NEW y \in S, ~(x <= y) PROVE <<y, x>> \in R
  BY <1>3
<1> QED BY <1>2, <1>3

-----------------------------------------------------------------------------
Has(q, id) == \E i \in 1..Len(q) : q[i] = id
Distinct(q) == \A i, j \in 1..Len(q) : q[i] = q[j] => i = j

\* What is appended comes after those that were there.
LEMMA AppendHas ==
  ASSUME NEW S, NEW q \in Seq(S), NEW e \in S
  PROVE  /\ Append(q, e) \in Seq(S)
         /\ \A id : Has(Append(q, e), id) <=> Has(q, id) \/ id = e
         /\ Distinct(q) /\ ~Has(q, e) => Distinct(Append(q, e))
<1>1. /\ Append(q, e) \in Seq(S)
      /\ Len(q) \in Nat
      /\ Len(Append(q, e)) = Len(q) + 1
      /\ \A i \in 1..Len(q) : Append(q, e)[i] = q[i]
      /\ Append(q, e)[Len(q) + 1] = e
  OBVIOUS
<1>2. ASSUME NEW id PROVE Has(Append(q, e), id) <=> Has(q, id) \/ id = e
  BY <1>1 DEF Has
<1>3. ASSUME Distinct(q), ~Has(q, e) PROVE Distinct(Append(q, e))
  BY <1>1, <1>3 DEF Has, Distinct
<1> QED BY <1>1, <1>2, <1>3

\* What is taken from the head of a queue without duplicates is gone.
LEMMA TailHas ==
  ASSUME NEW S, NEW q \in Seq(S), q # <<>>, Distinct(q)
  PROVE  /\ Head(q) \in S
         /\ Has(q, Head(q))
         /\ Tail(q) \in Seq(S)
         /\ \A id : Has(Tail(q), id) <=> Has(q, id) /\ id # Head(q)
         /\ Distinct(Tail(q))
<1>1. /\ Len(q) \in Nat /\ Len(q) >= 1
      /\ Head(q) = q[1] /\ Head(q) \in S
      /\ Tail(q) \in Seq(S)
      /\ Len(Tail(q)) = Len(q) - 1
      /\ \A i \in 1..Len(Tail(q)) : Tail(q)[i] = q[i + 1]
  OBVIOUS
<1>2. Has(q, Head(q))
  BY <1>1 DEF Has
<1>3. ASSUME NEW id, Has(Tail(q), id) PROVE Has(q, id) /\ id # Head(q)
  <2>1. PICK i \in 1..Len(Tail(q)) : Tail(q)[i] = id
    BY <1>3 DEF Has
  <2>2. i + 1 \in 1..Len(q) /\ q[i + 1] = id /\ 1 \in 1..Len(q) /\ i + 1 # 1
    BY <1>1, <2>1
  <2> QED BY <1>1, <2>2 DEF Has, Distinct
<1>4. ASSUME NEW id, Has(q, id), id # Head(q) PROVE Has(Tail(q), id)
  <2>1. PICK i \in 1..Len(q) : q[i] = id
    BY <1>4 DEF Has
  <2>2. i - 1 \in 1..Len(Tail(q)) /\ Tail(q)[i - 1] = id
    BY <1>1, <1>4, <2>1
  <2> QED BY <2>2 DEF Has
<1>5. Distinct(Tail(q))
  <2> SUFFICES ASSUME NEW i \in 1..Len(Tail(q)), NEW j \in 1..Len(Tail(q)),
                      Tail(q)[i] = Tail(q)[j]
               PROVE  i = j
    BY DEF Distinct
  <2>1. i + 1 \in 1..Len(q) /\ j + 1 \in 1..Len(q) /\ q[i + 1] = q[j + 1]
    BY <1>1
  <2>2. i + 1 = j + 1
    BY <2>1 DEF Distinct
  <2> QED BY <1>1, <2>2
<1> QED BY <1>1, <1>2, <1>3, <1>4, <1>5
=============================================================================
