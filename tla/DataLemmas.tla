----------------------------- MODULE DataLemmas -----------------------------
(***************************************************************************)
(* What the other proofs keep needing of numbers and of sequences: that a  *)
(* set of natural numbers has a least element, which the CHOOSE            *)
(* expressions of the models rest on, and what inserting into a sequence   *)
(* and removing from one leave where.                                      *)
(***************************************************************************)
EXTENDS Integers, SequencesExt, SequenceTheorems, WellFoundedInduction, TLAPS

(* The least number in a set that is not empty.                            *)
LEMMA HasLeast ==
    ASSUME NEW T, T \subseteq Nat, T # {}
    PROVE  \E x \in T : \A y \in T : x <= y
<1> DEFINE R == OpToRel(<, Nat)
<1>1. IsWellFoundedOn(R, Nat)
  BY NatLessThanWellFounded
<1>2. PICK x \in T : \A y \in T : <<y, x>> \notin R
  <2> HIDE DEF R
  <2> QED BY <1>1, WFMin
<1>3. \A y \in T : ~(y < x)
  BY <1>2 DEF OpToRel
<1> QED BY <1>3

(* The greatest number in a set that has one and a bound.                  *)
LEMMA HasGreatest ==
    ASSUME NEW n \in Nat, NEW T, T \subseteq 0 .. n, T # {}
    PROVE  \E x \in T : \A y \in T : y <= x
<1> DEFINE U == {k \in 0 .. n : n - k \in T}
<1>1. PICK t \in T : TRUE
  OBVIOUS
<1>2. n - t \in U /\ U \subseteq Nat
  BY <1>1
<1>3. PICK u \in U : \A v \in U : u <= v
  <2> HIDE DEF U
  <2> QED BY <1>2, HasLeast
<1>4. n - u \in T
  BY <1>3
<1>5. ASSUME NEW y \in T PROVE y <= n - u
  <2>1. n - y \in U
    OBVIOUS
  <2>2. u <= n - y
    BY <2>1, <1>3
  <2>3. u \in 0 .. n /\ y \in 0 .. n
    OBVIOUS
  <2> QED BY <2>2, <2>3
<1> QED BY <1>4, <1>5

-----------------------------------------------------------------------------
(* Inserting an element moves those from its place on by one.              *)
LEMMA InsertAtProperties ==
    ASSUME NEW S, NEW s \in Seq(S), NEW k \in 1 .. Len(s) + 1, NEW e \in S
    PROVE  /\ InsertAt(s, k, e) \in Seq(S)
           /\ Len(InsertAt(s, k, e)) = Len(s) + 1
           /\ \A i \in 1 .. Len(s) + 1 :
                 InsertAt(s, k, e)[i] =
                    IF i < k THEN s[i] ELSE IF i = k THEN e ELSE s[i - 1]
<1> DEFINE n == Len(s)
           a == SubSeq(s, 1, k - 1)
           m == <<e>>
           z == SubSeq(s, k, n)
<1>0. n \in Nat /\ k \in Int /\ k >= 1 /\ k <= n + 1
  BY LenProperties
<1>1. /\ a \in Seq(S) /\ Len(a) = k - 1
      /\ \A i \in 1 .. k - 1 : a[i] = s[i]
  <2>1. \A i \in 1 .. k - 1 : s[i] \in S
    BY <1>0, ElementOfSeq
  <2>2. /\ a \in Seq(S)
        /\ Len(a) = IF 1 <= k - 1 THEN (k - 1) - 1 + 1 ELSE 0
        /\ \A i \in 1 .. (k - 1) - 1 + 1 : a[i] = s[1 + i - 1]
    <3>1. 1 \in Int /\ k - 1 \in Int
      BY <1>0
    <3> QED BY <2>1, <3>1, SubSeqProperties
  <2> HIDE DEF a
  <2> QED BY <2>2, <1>0
<1>2. /\ z \in Seq(S) /\ Len(z) = n - k + 1
      /\ \A i \in 1 .. n - k + 1 : z[i] = s[k + i - 1]
  <2>1. \A i \in k .. n : s[i] \in S
    BY <1>0, ElementOfSeq
  <2>2. /\ z \in Seq(S)
        /\ Len(z) = IF k <= n THEN n - k + 1 ELSE 0
        /\ \A i \in 1 .. n - k + 1 : z[i] = s[k + i - 1]
    BY <2>1, <1>0, SubSeqProperties
  <2> HIDE DEF z, n
  <2> QED BY <2>2, <1>0
<1>3. m \in Seq(S) /\ Len(m) = 1 /\ m[1] = e
  OBVIOUS
<1> DEFINE am == a \o m
           r == am \o z
<1>4. InsertAt(s, k, e) = r
  BY DEF InsertAt
<1> HIDE DEF n, a, m, z
<1>5. /\ am \in Seq(S) /\ Len(am) = k
      /\ \A i \in 1 .. k : am[i] = IF i <= k - 1 THEN a[i] ELSE m[i - (k - 1)]
  <2>1. /\ am \in Seq(S) /\ Len(am) = Len(a) + Len(m)
        /\ \A i \in 1 .. Len(a) + Len(m) :
              am[i] = IF i <= Len(a) THEN a[i] ELSE m[i - Len(a)]
    BY <1>1, <1>3, ConcatProperties
  <2> HIDE DEF am
  <2> QED BY <2>1, <1>0, <1>1, <1>3
<1> HIDE DEF am
<1>6. /\ r \in Seq(S) /\ Len(r) = n + 1
      /\ \A i \in 1 .. n + 1 : r[i] = IF i <= k THEN am[i] ELSE z[i - k]
  <2>1. /\ r \in Seq(S) /\ Len(r) = Len(am) + Len(z)
        /\ \A i \in 1 .. Len(am) + Len(z) :
              r[i] = IF i <= Len(am) THEN am[i] ELSE z[i - Len(am)]
    BY <1>2, <1>5, ConcatProperties
  <2> HIDE DEF r
  <2> QED BY <2>1, <1>0, <1>2, <1>5
<1> HIDE DEF r
<1>7. ASSUME NEW i \in 1 .. n + 1
      PROVE  r[i] = IF i < k THEN s[i] ELSE IF i = k THEN e ELSE s[i - 1]
  <2>1. CASE i < k
    <3>1. i \in 1 .. k - 1 /\ i \in 1 .. k
      BY <2>1, <1>0
    <3>2. r[i] = am[i] /\ am[i] = a[i] /\ a[i] = s[i]
      BY <3>1, <2>1, <1>0, <1>1, <1>5, <1>6
    <3> QED BY <3>2, <2>1
  <2>2. CASE i = k
    <3>1. i - (k - 1) = 1 /\ i \in 1 .. k
      BY <2>2, <1>0
    <3>2. r[i] = am[i] /\ am[i] = m[i - (k - 1)]
      BY <3>1, <2>2, <1>0, <1>5, <1>6
    <3> QED BY <3>1, <3>2, <2>2, <1>3, <1>0
  <2>3. CASE i > k
    <3>1. i - k \in 1 .. n - k + 1 /\ k + (i - k) - 1 = i - 1
      BY <2>3, <1>0
    <3>2. r[i] = z[i - k] /\ z[i - k] = s[k + (i - k) - 1]
      BY <3>1, <2>3, <1>0, <1>2, <1>6
    <3> QED BY <3>1, <3>2, <2>3, <1>0
  <2> QED BY <2>1, <2>2, <2>3, <1>0
<1> QED BY <1>4, <1>6, <1>7 DEF n

(* Removing an element moves those behind it by one.                       *)
LEMMA RemoveAtProperties ==
    ASSUME NEW S, NEW s \in Seq(S), NEW k \in 1 .. Len(s)
    PROVE  /\ RemoveAt(s, k) \in Seq(S)
           /\ Len(RemoveAt(s, k)) = Len(s) - 1
           /\ \A i \in 1 .. Len(s) - 1 :
                 RemoveAt(s, k)[i] = IF i < k THEN s[i] ELSE s[i + 1]
<1> DEFINE n == Len(s)
           a == SubSeq(s, 1, k - 1)
           z == SubSeq(s, k + 1, n)
<1>0. n \in Nat /\ k \in Int /\ k >= 1 /\ k <= n
  BY LenProperties
<1>1. /\ a \in Seq(S) /\ Len(a) = k - 1
      /\ \A i \in 1 .. k - 1 : a[i] = s[i]
  <2>1. \A i \in 1 .. k - 1 : s[i] \in S
    BY <1>0, ElementOfSeq
  <2>2. /\ a \in Seq(S)
        /\ Len(a) = IF 1 <= k - 1 THEN (k - 1) - 1 + 1 ELSE 0
        /\ \A i \in 1 .. (k - 1) - 1 + 1 : a[i] = s[1 + i - 1]
    <3>1. 1 \in Int /\ k - 1 \in Int
      BY <1>0
    <3> QED BY <2>1, <3>1, SubSeqProperties
  <2> HIDE DEF a
  <2> QED BY <2>2, <1>0
<1>2. /\ z \in Seq(S) /\ Len(z) = n - k
      /\ \A i \in 1 .. n - k : z[i] = s[k + i]
  <2>1. \A i \in k + 1 .. n : s[i] \in S
    BY <1>0, ElementOfSeq
  <2>2. /\ z \in Seq(S)
        /\ Len(z) = IF k + 1 <= n THEN n - (k + 1) + 1 ELSE 0
        /\ \A i \in 1 .. n - (k + 1) + 1 : z[i] = s[(k + 1) + i - 1]
    <3>1. k + 1 \in Int /\ n \in Int
      BY <1>0
    <3> QED BY <2>1, <3>1, SubSeqProperties
  <2> HIDE DEF z, n
  <2> QED BY <2>2, <1>0
<1> DEFINE r == a \o z
<1>3. RemoveAt(s, k) = r
  BY DEF RemoveAt
<1> HIDE DEF n, a, z
<1>4. /\ r \in Seq(S) /\ Len(r) = n - 1
      /\ \A i \in 1 .. n - 1 :
            r[i] = IF i <= k - 1 THEN a[i] ELSE z[i - (k - 1)]
  <2>1. /\ r \in Seq(S) /\ Len(r) = Len(a) + Len(z)
        /\ \A i \in 1 .. Len(a) + Len(z) :
              r[i] = IF i <= Len(a) THEN a[i] ELSE z[i - Len(a)]
    BY <1>1, <1>2, ConcatProperties
  <2> HIDE DEF r
  <2> QED BY <2>1, <1>0, <1>1, <1>2
<1> HIDE DEF r
<1>5. ASSUME NEW i \in 1 .. n - 1
      PROVE  r[i] = IF i < k THEN s[i] ELSE s[i + 1]
  <2>1. CASE i < k
    <3>1. i \in 1 .. k - 1
      BY <2>1, <1>0
    <3> QED BY <3>1, <2>1, <1>0, <1>1, <1>4
  <2>2. CASE i >= k
    <3>1. i - (k - 1) \in 1 .. n - k /\ k + (i - (k - 1)) = i + 1
      BY <2>2, <1>0
    <3>2. r[i] = z[i - (k - 1)]
      BY <2>2, <1>0, <1>4
    <3> QED BY <3>1, <3>2, <2>2, <1>0, <1>2
  <2> QED BY <2>1, <2>2, <1>0
<1> QED BY <1>3, <1>4, <1>5 DEF n

(* Removing the first element leaves the rest.                             *)
LEMMA RemoveFirstIsTail ==
    ASSUME NEW S, NEW s \in Seq(S), s # <<>>
    PROVE  RemoveAt(s, 1) = Tail(s)
<1>1. SubSeq(s, 1, 0) = <<>>
  BY SubSeqEmpty
<1>2. Tail(s) = SubSeq(s, 2, Len(s)) /\ Tail(s) \in Seq(S)
  BY TailIsSubSeq, HeadTailProperties
<1>3. <<>> \o Tail(s) = Tail(s)
  BY <1>2, ConcatEmptySeq
<1>4. RemoveAt(s, 1) = SubSeq(s, 1, 0) \o SubSeq(s, 2, Len(s))
  BY DEF RemoveAt
<1> QED BY <1>1, <1>2, <1>3, <1>4

(* Moving an element to the front moves on those that were before it.      *)
LEMMA MoveFirstProperties ==
    ASSUME NEW S, NEW s \in Seq(S), NEW k \in 1 .. Len(s)
    PROVE  LET t == <<s[k]>> \o RemoveAt(s, k)
           IN  /\ t \in Seq(S) /\ Len(t) = Len(s)
               /\ \A i \in 1 .. Len(s) :
                     t[i] = IF i = 1 THEN s[k]
                            ELSE IF i <= k THEN s[i - 1] ELSE s[i]
<1> DEFINE n == Len(s)
           r == RemoveAt(s, k)
           m == <<s[k]>>
           t == m \o r
<1>0. n \in Nat /\ k \in 1 .. n
  BY LenProperties
<1>1. /\ r \in Seq(S) /\ Len(r) = n - 1
      /\ \A i \in 1 .. n - 1 : r[i] = IF i < k THEN s[i] ELSE s[i + 1]
  BY RemoveAtProperties
<1>2. m \in Seq(S) /\ Len(m) = 1 /\ m[1] = s[k]
  <2>1. s[k] \in S
    BY ElementOfSeq
  <2> QED BY <2>1
<1> HIDE DEF n, r, m
<1>3. /\ t \in Seq(S) /\ Len(t) = n
      /\ \A i \in 1 .. n : t[i] = IF i <= 1 THEN m[i] ELSE r[i - 1]
  <2>1. /\ t \in Seq(S) /\ Len(t) = Len(m) + Len(r)
        /\ \A i \in 1 .. Len(m) + Len(r) :
              t[i] = IF i <= Len(m) THEN m[i] ELSE r[i - Len(m)]
    BY <1>1, <1>2, ConcatProperties
  <2>2. Len(m) + Len(r) = n
    BY <1>0, <1>1, <1>2
  <2> HIDE DEF t
  <2> QED BY <2>1, <2>2, <1>2
<1> HIDE DEF t
<1>4. ASSUME NEW i \in 1 .. n
      PROVE  t[i] = IF i = 1 THEN s[k]
                    ELSE IF i <= k THEN s[i - 1] ELSE s[i]
  <2>1. CASE i = 1
    BY <2>1, <1>2, <1>3
  <2>2. CASE i # 1
    <3>1. i - 1 \in 1 .. n - 1 /\ (i - 1) + 1 = i /\ (i - 1 < k <=> i <= k)
      BY <2>2, <1>0
    <3>2. t[i] = r[i - 1]
      BY <2>2, <1>0, <1>3
    <3> QED BY <3>1, <3>2, <2>2, <1>1
  <2> QED BY <2>1, <2>2
<1> QED BY <1>3, <1>4 DEF n, r, m, t

=============================================================================
