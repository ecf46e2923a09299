--------------------------- MODULE SequenceLemmas ---------------------------
(***************************************************************************)
(* Facts about sequences that the theorems about queues and streams rest   *)
(* on.                                                                     *)
(***************************************************************************)
EXTENDS Integers, SequenceTheorems, WellFoundedInduction, TLAPS

\* A sequence that an element is appended to.
LEMMA Grown ==
    ASSUME NEW S, NEW s \in Seq(S), NEW e \in S
    PROVE  /\ Append(s, e) \in Seq(S)
           /\ Len(Append(s, e)) = Len(s) + 1
           /\ DOMAIN Append(s, e) = 1 .. Len(s) + 1
           /\ DOMAIN s = 1 .. Len(s) /\ Len(s) \in Nat
           /\ \A j \in 1 .. Len(s) : Append(s, e)[j] = s[j]
           /\ Append(s, e)[Len(s) + 1] = e
<1>1. Append(s, e) \in Seq(S) /\ Len(Append(s, e)) = Len(s) + 1
  OBVIOUS
<1>2. DOMAIN Append(s, e) = 1 .. Len(s) + 1
  BY <1>1, LenProperties
<1>3. DOMAIN s = 1 .. Len(s) /\ Len(s) \in Nat
  BY LenProperties
<1>4. QED
  BY <1>1, <1>2, <1>3, AppendProperties

\* One sequence behind another.
LEMMA Concatenated ==
    ASSUME NEW S, NEW s \in Seq(S), NEW t \in Seq(S)
    PROVE  /\ s \o t \in Seq(S)
           /\ Len(s) \in Nat /\ Len(t) \in Nat /\ Len(s \o t) = Len(s) + Len(t)
           /\ \A x \in 1 .. Len(s) : (s \o t)[x] = s[x]
           /\ \A y \in 1 .. Len(t) : (s \o t)[Len(s) + y] = t[y]
<1>1. /\ s \o t \in Seq(S) /\ Len(s) \in Nat /\ Len(t) \in Nat
      /\ Len(s \o t) = Len(s) + Len(t)
  BY ConcatProperties, LenProperties
<1>2. \A i \in 1 .. Len(s) + Len(t) : (s \o t)[i] = IF i <= Len(s) THEN s[i] ELSE t[i - Len(s)]
  BY ConcatProperties
<1>3. ASSUME NEW x \in 1 .. Len(s)
      PROVE  (s \o t)[x] = s[x]
  BY <1>1, <1>2
<1>4. ASSUME NEW y \in 1 .. Len(t)
      PROVE  (s \o t)[Len(s) + y] = t[y]
  <2>1. /\ Len(s) + y \in 1 .. Len(s) + Len(t)
        /\ ~(Len(s) + y <= Len(s)) /\ (Len(s) + y) - Len(s) = y
    BY <1>1
  <2>2. QED
    BY <1>2, <2>1
<1>5. QED
  BY <1>1, <1>3, <1>4

\* Concatenation is associative.
LEMMA Regrouped ==
    ASSUME NEW S, NEW s \in Seq(S), NEW t \in Seq(S), NEW u \in Seq(S)
    PROVE  s \o (t \o u) = (s \o t) \o u
  BY ConcatAssociative

\* The front element of one sequence goes to the end of another.
LEMMA HandedOver ==
    ASSUME NEW S, NEW s \in Seq(S), NEW t \in Seq(S), t # <<>>
    PROVE  /\ Append(s, Head(t)) \o Tail(t) = s \o t
           /\ Append(s, Head(t)) \in Seq(S) /\ Tail(t) \in Seq(S)
<1> DEFINE h == Head(t)
           u == Tail(t)
<1>1. h \in S /\ u \in Seq(S) /\ t = <<h>> \o u
  OBVIOUS
<1> HIDE DEF h, u
<1>2. <<h>> \in Seq(S)
  BY <1>1
<1>3. Append(s, h) = s \o <<h>> /\ Append(s, h) \in Seq(S)
  BY <1>1, AppendIsConcat
<1>4. (s \o <<h>>) \o u = s \o (<<h>> \o u)
  BY <1>1, <1>2, Regrouped
<1>5. QED
  BY <1>1, <1>3, <1>4 DEF h, u

\* e is element j of s.
IsAt(s, j, e) == j \in 1 .. Len(s) /\ s[j] = e

\* What an element that is appended does to that.
LEMMA AtAppended ==
    ASSUME NEW S, NEW s \in Seq(S), NEW x \in S, NEW e, NEW j \in Nat
    PROVE  IsAt(Append(s, x), j, e) <=> IsAt(s, j, e) \/ (j = Len(s) + 1 /\ e = x)
<1>1. /\ Len(Append(s, x)) = Len(s) + 1 /\ Len(s) \in Nat
      /\ \A i \in 1 .. Len(s) : Append(s, x)[i] = s[i]
      /\ Append(s, x)[Len(s) + 1] = x
  BY Grown
<1>2. j \in 1 .. Len(Append(s, x)) <=> j \in 1 .. Len(s) \/ j = Len(s) + 1
  BY <1>1
<1>3. ~(Len(s) + 1 \in 1 .. Len(s))
  BY <1>1
<1>4. QED
  BY <1>1, <1>2, <1>3 DEF IsAt

\* And what a sequence behind it does.
LEMMA AtConcatenated ==
    ASSUME NEW S, NEW s \in Seq(S), NEW t \in Seq(S), NEW e
    PROVE  /\ \A j \in Nat : IsAt(s, j, e) => IsAt(s \o t, j, e)
           /\ \A j \in Nat : IsAt(t, j, e) => IsAt(s \o t, Len(s) + j, e)
           /\ \A j \in Nat : IsAt(s \o t, j, e) =>
                 IsAt(s, j, e) \/ \E g \in Nat : j = Len(s) + g /\ IsAt(t, g, e)
<1>1. /\ Len(s) \in Nat /\ Len(t) \in Nat /\ Len(s \o t) = Len(s) + Len(t)
      /\ \A x \in 1 .. Len(s) : (s \o t)[x] = s[x]
      /\ \A y \in 1 .. Len(t) : (s \o t)[Len(s) + y] = t[y]
  BY Concatenated
<1>2. ASSUME NEW j \in Nat, IsAt(s, j, e)
      PROVE  IsAt(s \o t, j, e)
  <2>1. j \in 1 .. Len(s) /\ j \in 1 .. Len(s \o t)
    BY <1>1, <1>2 DEF IsAt
  <2>2. QED
    BY <1>1, <1>2, <2>1 DEF IsAt
<1>3. ASSUME NEW j \in Nat, IsAt(t, j, e)
      PROVE  IsAt(s \o t, Len(s) + j, e)
  <2>1. j \in 1 .. Len(t) /\ Len(s) + j \in 1 .. Len(s \o t)
    BY <1>1, <1>3 DEF IsAt
  <2>2. QED
    BY <1>1, <1>3, <2>1 DEF IsAt
<1>4. ASSUME NEW j \in Nat, IsAt(s \o t, j, e), ~IsAt(s, j, e)
      PROVE  \E g \in Nat : j = Len(s) + g /\ IsAt(t, g, e)
  <2>1. j \in 1 .. Len(s) + Len(t) /\ (s \o t)[j] = e
    BY <1>1, <1>4 DEF IsAt
  <2>2. ~(j \in 1 .. Len(s))
    BY <1>1, <1>4, <2>1 DEF IsAt
  <2> DEFINE g == j - Len(s)
  <2>3. g \in 1 .. Len(t) /\ g \in Nat /\ j = Len(s) + g
    BY <1>1, <2>1, <2>2
  <2> HIDE DEF g
  <2>4. t[g] = e
    BY <1>1, <2>1, <2>3
  <2>5. QED
    BY <2>3, <2>4 DEF IsAt
<1>5. QED
  BY <1>2, <1>3, <1>4

\* An element behind two sequences is one behind the second.
LEMMA AppendAtEnd ==
    ASSUME NEW S, NEW s \in Seq(S), NEW t \in Seq(S), NEW e \in S
    PROVE  s \o Append(t, e) = Append(s \o t, e)
<1>1. <<e>> \in Seq(S) /\ s \o t \in Seq(S)
  BY ConcatProperties
<1>2. Append(t, e) = t \o <<e>> /\ Append(s \o t, e) = (s \o t) \o <<e>>
  BY <1>1, AppendIsConcat
<1>3. s \o (t \o <<e>>) = (s \o t) \o <<e>>
  BY <1>1, Regrouped
<1>4. QED
  BY <1>2, <1>3

\* A set of numbers has a least one.
LEMMA LeastNumber ==
    ASSUME NEW T, T \subseteq Nat, T # {}
    PROVE  \E k \in T : \A y \in T : k =< y
<1> DEFINE R == OpToRel(<, Nat)
<1>1. IsWellFoundedOn(R, Nat)
  BY NatLessThanWellFounded
<1>2. \A x, y \in Nat : x < y => <<x, y>> \in R
  BY DEF OpToRel
<1> HIDE DEF R
<1>3. PICK k \in T : \A y \in T : <<y, k>> \notin R
  BY <1>1, WFMin
<1>4. ASSUME NEW y \in T
      PROVE  k =< y
  <2>1. y \in Nat /\ k \in Nat
    OBVIOUS
  <2>2. ~(y < k)
    BY <1>2, <1>3, <2>1
  <2>3. QED
    BY <2>1, <2>2
<1>5. QED
  BY <1>4
=============================================================================
