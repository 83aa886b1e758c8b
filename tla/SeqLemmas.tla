----------------------------- MODULE SeqLemmas -----------------------------
(***************************************************************************)
(* Lemmas about the data the models are built from: sequences without      *)
(* repetition, which is what a linked list and a free list are, least      *)
(* elements of sets of naturals, which is what a search returns, and how   *)
(* often a sequence holds a value, which is what a bag is.                 *)
(***************************************************************************)
EXTENDS Integers, Sequences, SequencesExt, SequenceTheorems, FiniteSetTheorems,
        TLAPS

(* A nonempty set of naturals has a least element.                         *)
LEMMA LeastElement ==
  ASSUME NEW S \in SUBSET Nat, S # {}
  PROVE  \E m \in S : \A k \in S : m <= k
<1>1. PICK m \in S : \A y \in S : ~ (<<y, m>> \in OpToRel(<, Nat))
  BY NatLessThanWellFounded, WFMin
<1>2. \A y \in S : ~ (y < m)
  BY <1>1 DEF OpToRel
<1> QED BY <1>2

(* What InsertAt returns, element by element.                              *)
LEMMA InsertAtElements ==
  ASSUME NEW S, NEW s \in Seq(S), NEW i \in 1 .. Len(s) + 1, NEW e \in S
  PROVE  /\ InsertAt(s, i, e) \in Seq(S)
         /\ Len(InsertAt(s, i, e)) = Len(s) + 1
         /\ \A j \in 1 .. Len(s) + 1 :
              InsertAt(s, i, e)[j] = IF j < i THEN s[j]
                                     ELSE IF j = i THEN e ELSE s[j - 1]
<1> DEFINE front == SubSeq(s, 1, i - 1)
           back  == SubSeq(s, i, Len(s))
<1>1. /\ front \in Seq(S) /\ Len(front) = i - 1
      /\ \A j \in 1 .. i - 1 : front[j] = s[j]
  BY SubSeqProperties, ElementOfSeq
<1>2. /\ back \in Seq(S) /\ Len(back) = Len(s) - i + 1
      /\ \A j \in 1 .. Len(s) - i + 1 : back[j] = s[i + j - 1]
  BY SubSeqProperties, ElementOfSeq
<1> HIDE DEF front, back
<1>3. /\ <<e>> \in Seq(S) /\ Len(<<e>>) = 1 /\ <<e>>[1] = e
  OBVIOUS
<1>4. /\ front \o <<e>> \in Seq(S) /\ Len(front \o <<e>>) = i
      /\ \A j \in 1 .. i : (front \o <<e>>)[j] = IF j < i THEN s[j] ELSE e
  BY <1>1, <1>3, ConcatProperties
<1>5. /\ (front \o <<e>>) \o back \in Seq(S)
      /\ Len((front \o <<e>>) \o back) = Len(s) + 1
      /\ \A j \in 1 .. Len(s) + 1 :
           ((front \o <<e>>) \o back)[j] = IF j <= i THEN (front \o <<e>>)[j]
                                                     ELSE back[j - i]
  BY <1>2, <1>4, ConcatProperties
<1>6. InsertAt(s, i, e) = (front \o <<e>>) \o back
  BY DEF InsertAt, front, back
<1>7. ASSUME NEW j \in 1 .. Len(s) + 1
      PROVE  InsertAt(s, i, e)[j] = IF j < i THEN s[j]
                                    ELSE IF j = i THEN e ELSE s[j - 1]
  <2>1. CASE j <= i
    BY <2>1, <1>4, <1>5, <1>6
  <2>2. CASE j > i
    <3>1. j - i \in 1 .. Len(s) - i + 1 /\ i + (j - i) - 1 = j - 1
      BY <2>2
    <3>2. back[j - i] = s[j - 1]
      BY <1>2, <3>1
    <3> QED BY <2>2, <3>2, <1>5, <1>6
  <2> QED BY <2>1, <2>2
<1> QED BY <1>5, <1>6, <1>7

(* What RemoveAt returns, element by element.                              *)
LEMMA RemoveAtElements ==
  ASSUME NEW S, NEW s \in Seq(S), NEW i \in 1 .. Len(s)
  PROVE  /\ RemoveAt(s, i) \in Seq(S)
         /\ Len(RemoveAt(s, i)) = Len(s) - 1
         /\ \A j \in 1 .. Len(s) - 1 :
              RemoveAt(s, i)[j] = IF j < i THEN s[j] ELSE s[j + 1]
<1> DEFINE front == SubSeq(s, 1, i - 1)
           back  == SubSeq(s, i + 1, Len(s))
<1>1. /\ front \in Seq(S) /\ Len(front) = i - 1
      /\ \A j \in 1 .. i - 1 : front[j] = s[j]
  BY SubSeqProperties, ElementOfSeq
<1>2. /\ back \in Seq(S) /\ Len(back) = Len(s) - i
      /\ \A j \in 1 .. Len(s) - i : back[j] = s[i + j]
  BY SubSeqProperties, ElementOfSeq
<1> HIDE DEF front, back
<1>3. /\ front \o back \in Seq(S)
      /\ Len(front \o back) = Len(s) - 1
      /\ \A j \in 1 .. Len(s) - 1 :
           (front \o back)[j] = IF j < i THEN front[j] ELSE back[j - i + 1]
  <2>1. /\ front \o back \in Seq(S)
        /\ Len(front \o back) = Len(front) + Len(back)
        /\ \A j \in 1 .. Len(front) + Len(back) :
             (front \o back)[j] = IF j <= Len(front) THEN front[j]
                                                     ELSE back[j - Len(front)]
    BY <1>1, <1>2, ConcatProperties
  <2>2. \A j \in Int : (j <= i - 1 <=> j < i) /\ j - (i - 1) = j - i + 1
    OBVIOUS
  <2>3. (i - 1) + (Len(s) - i) = Len(s) - 1
    BY LenProperties
  <2> QED BY <1>1, <1>2, <2>1, <2>2, <2>3
<1>4. RemoveAt(s, i) = front \o back
  BY DEF RemoveAt, front, back
<1>5. ASSUME NEW j \in 1 .. Len(s) - 1
      PROVE  RemoveAt(s, i)[j] = IF j < i THEN s[j] ELSE s[j + 1]
  <2>1. CASE j < i
    <3>1. j \in 1 .. i - 1
      BY <2>1
    <3> QED BY <1>1, <1>3, <1>4, <2>1, <3>1
  <2>2. CASE j >= i
    <3>1. j - i + 1 \in 1 .. Len(s) - i /\ i + (j - i + 1) = j + 1
      BY <2>2
    <3> QED BY <1>2, <1>3, <1>4, <2>2, <3>1
  <2> QED BY <2>1, <2>2
<1> QED BY <1>3, <1>4, <1>5

(* The elements of a sequence, by position.                                *)
LEMMA RangeElements ==
  ASSUME NEW S, NEW s \in Seq(S)
  PROVE  /\ Range(s) = {s[i] : i \in 1 .. Len(s)}
         /\ Range(s) \subseteq S
         /\ IsInjective(s) <=> \A i, j \in 1 .. Len(s) : s[i] = s[j] => i = j
BY LenProperties, ElementOfSeq DEF Range, IsInjective

(* Inserting a new element keeps a sequence free of repetitions.           *)
LEMMA InsertAtRange ==
  ASSUME NEW S, NEW s \in Seq(S), NEW i \in 1 .. Len(s) + 1, NEW e \in S
  PROVE  /\ Range(InsertAt(s, i, e)) = Range(s) \cup {e}
         /\ IsInjective(s) /\ e \notin Range(s) => IsInjective(InsertAt(s, i, e))
<1> DEFINE t == InsertAt(s, i, e)
<1>1. /\ t \in Seq(S) /\ Len(t) = Len(s) + 1 /\ Len(s) \in Nat
      /\ \A j \in 1 .. Len(s) + 1 :
           t[j] = IF j < i THEN s[j] ELSE IF j = i THEN e ELSE s[j - 1]
  BY InsertAtElements, LenProperties
<1> HIDE DEF t
<1>a. /\ \A j \in 1 .. Len(t) : j < i => j \in 1 .. Len(s) /\ t[j] = s[j]
      /\ \A j \in 1 .. Len(t) : j > i => j - 1 \in 1 .. Len(s) /\ t[j] = s[j - 1]
      /\ i \in 1 .. Len(t) /\ t[i] = e
  BY <1>1
<1>2. Range(t) \subseteq Range(s) \cup {e}
  <2>1. ASSUME NEW j \in 1 .. Len(t) PROVE t[j] \in Range(s) \cup {e}
    <3>1. CASE j < i
      BY <3>1, <1>a, RangeElements
    <3>2. CASE j = i
      BY <3>2, <1>a
    <3>3. CASE j > i
      BY <3>3, <1>a, RangeElements
    <3> QED BY <3>1, <3>2, <3>3
  <2> QED BY <2>1, <1>1, RangeElements
<1>3. Range(s) \cup {e} \subseteq Range(t)
  <2>1. e \in Range(t)
    BY <1>1, <1>a, RangeElements
  <2>2. ASSUME NEW k \in 1 .. Len(s) PROVE s[k] \in Range(t)
    <3>1. CASE k < i
      BY <3>1, <1>1, RangeElements
    <3>2. CASE k >= i
      <4>1. k + 1 \in 1 .. Len(s) + 1 /\ t[k + 1] = s[k]
        BY <3>2, <1>1
      <4> QED BY <4>1, <1>1, RangeElements
    <3> QED BY <3>1, <3>2
  <2> QED BY <2>1, <2>2, RangeElements
<1>4. ASSUME IsInjective(s), e \notin Range(s)
      PROVE  IsInjective(t)
  <2>1. \A j, k \in 1 .. Len(s) : s[j] = s[k] => j = k
    BY <1>4, RangeElements
  <2>2. \A j \in 1 .. Len(s) : s[j] # e
    BY <1>4, RangeElements
  <2>3. ASSUME NEW j \in 1 .. Len(t), NEW k \in 1 .. Len(t), t[j] = t[k]
        PROVE  j = k
    <3>1. i \in Int /\ j \in Int /\ k \in Int
      BY <1>1
    <3>2. ASSUME NEW h \in 1 .. Len(t), t[h] = e PROVE h = i
      BY <3>1, <3>2, <2>2, <1>1, <1>a
    <3>3. CASE j = i \/ k = i
      BY <3>2, <3>3, <2>3, <1>a
    <3>4. CASE j < i /\ k < i
      BY <3>4, <2>1, <2>3, <1>a
    <3>5. CASE j > i /\ k > i
      <4>1. j - 1 \in 1 .. Len(s) /\ k - 1 \in 1 .. Len(s) /\ s[j - 1] = s[k - 1]
        BY <3>5, <2>3, <1>a
      <4>2. j - 1 = k - 1
        BY <4>1, <2>1
      <4> QED BY <3>1, <4>2
    <3>6. CASE j < i /\ k > i
      <4>1. j \in 1 .. Len(s) /\ k - 1 \in 1 .. Len(s) /\ s[j] = s[k - 1]
        BY <3>6, <2>3, <1>a
      <4>2. j = k - 1
        BY <4>1, <2>1
      <4> QED BY <3>6, <4>2
    <3>7. CASE k < i /\ j > i
      <4>1. k \in 1 .. Len(s) /\ j - 1 \in 1 .. Len(s) /\ s[k] = s[j - 1]
        BY <3>7, <2>3, <1>a
      <4>2. k = j - 1
        BY <4>1, <2>1
      <4> QED BY <3>7, <4>2
    <3> QED BY <3>1, <3>3, <3>6, <3>7, <3>4, <3>5
  <2> QED BY <2>3, <1>1, RangeElements
<1> QED BY <1>2, <1>3, <1>4 DEF t

(* Removing a position from a sequence without repetitions.                *)
LEMMA RemoveAtRange ==
  ASSUME NEW S, NEW s \in Seq(S), NEW i \in 1 .. Len(s), IsInjective(s)
  PROVE  /\ Range(RemoveAt(s, i)) = Range(s) \ {s[i]}
         /\ IsInjective(RemoveAt(s, i))
<1> DEFINE t == RemoveAt(s, i)
<1>1. /\ t \in Seq(S) /\ Len(t) = Len(s) - 1 /\ Len(s) \in Nat
      /\ \A j \in 1 .. Len(s) - 1 : t[j] = IF j < i THEN s[j] ELSE s[j + 1]
  BY RemoveAtElements, LenProperties
<1> HIDE DEF t
<1>2. \A j, k \in 1 .. Len(s) : s[j] = s[k] => j = k
  BY RangeElements
<1>3. Range(t) \subseteq Range(s) \ {s[i]}
  BY <1>1, <1>2, RangeElements
<1>4. ASSUME NEW k \in 1 .. Len(s), k # i PROVE s[k] \in Range(t)
  <2>1. CASE k < i
    BY <2>1, <1>1, RangeElements
  <2>2. CASE k > i
    <3>1. k - 1 \in 1 .. Len(s) - 1 /\ t[k - 1] = s[k]
      BY <2>2, <1>1
    <3> QED BY <3>1, <1>1, RangeElements
  <2> QED BY <1>4, <2>1, <2>2
<1>5. Range(s) \ {s[i]} \subseteq Range(t)
  BY <1>4, RangeElements
<1>6. \A j, k \in 1 .. Len(t) : t[j] = t[k] => j = k
  BY <1>1, <1>2
<1> QED BY <1>1, <1>3, <1>5, <1>6, RangeElements DEF t

(* Taking the first element off a sequence without repetitions.            *)
LEMMA TailRange ==
  ASSUME NEW S, NEW s \in Seq(S), s # <<>>, IsInjective(s)
  PROVE  /\ Head(s) \in Range(s)
         /\ Range(Tail(s)) = Range(s) \ {Head(s)}
         /\ IsInjective(Tail(s))
<1> DEFINE t == Tail(s)
<1>1. /\ t \in Seq(S) /\ Len(t) = Len(s) - 1 /\ Len(s) \in Nat \ {0}
      /\ \A j \in 1 .. Len(t) : t[j] = s[j + 1]
      /\ Head(s) = s[1]
  BY HeadTailProperties, EmptySeq
<1> HIDE DEF t
<1>2. \A j, k \in 1 .. Len(s) : s[j] = s[k] => j = k
  BY RangeElements
<1>3. Range(t) \subseteq Range(s) \ {s[1]}
  BY <1>1, <1>2, RangeElements
<1>4. ASSUME NEW k \in 2 .. Len(s) PROVE s[k] \in Range(t)
  <2>1. k - 1 \in 1 .. Len(t) /\ t[k - 1] = s[k]
    BY <1>1
  <2> QED BY <2>1, <1>1, RangeElements
<1>5. Range(s) \ {s[1]} \subseteq Range(t)
  BY <1>4, RangeElements
<1>6. \A j, k \in 1 .. Len(t) : t[j] = t[k] => j = k
  BY <1>1, <1>2
<1>7. Head(s) \in Range(s)
  BY <1>1, RangeElements
<1>8. IsInjective(t)
  BY <1>1, <1>6, RangeElements
<1> QED BY <1>1, <1>3, <1>5, <1>7, <1>8 DEF t

(* Joining two sequences without a common element.                         *)
LEMMA ConcatRange ==
  ASSUME NEW S, NEW s \in Seq(S), NEW t \in Seq(S)
  PROVE  /\ s \o t \in Seq(S)
         /\ Range(s \o t) = Range(s) \cup Range(t)
         /\ IsInjective(s) /\ IsInjective(t) /\ Range(s) \cap Range(t) = {}
              => IsInjective(s \o t)
<1> DEFINE u == s \o t
           m == Len(s)
           n == Len(t)
<1>1. /\ u \in Seq(S) /\ Len(u) = m + n /\ m \in Nat /\ n \in Nat
      /\ \A j \in 1 .. m + n : u[j] = IF j <= m THEN s[j] ELSE t[j - m]
  BY ConcatProperties, LenProperties
<1>2. /\ Range(s) = {s[i] : i \in 1 .. m} /\ Range(t) = {t[i] : i \in 1 .. n}
      /\ IsInjective(s) <=> \A i, j \in 1 .. m : s[i] = s[j] => i = j
      /\ IsInjective(t) <=> \A i, j \in 1 .. n : t[i] = t[j] => i = j
  BY RangeElements
<1> HIDE DEF u, m, n
<1>3. /\ Range(u) = {u[i] : i \in 1 .. m + n}
      /\ IsInjective(u) <=> \A i, j \in 1 .. m + n : u[i] = u[j] => i = j
  BY <1>1, RangeElements
<1>4. /\ \A j \in 1 .. m : j \in 1 .. m + n /\ u[j] = s[j]
      /\ \A j \in 1 .. n : m + j \in 1 .. m + n /\ u[m + j] = t[j]
      /\ \A j \in 1 .. m + n :
           j > m => j - m \in 1 .. n /\ u[j] = t[j - m]
  BY <1>1
<1>5. Range(u) \subseteq Range(s) \cup Range(t)
  <2>1. ASSUME NEW j \in 1 .. m + n PROVE u[j] \in Range(s) \cup Range(t)
    <3>1. CASE j <= m
      BY <3>1, <1>1, <1>2, <1>4
    <3>2. CASE j > m
      BY <3>2, <1>1, <1>2, <1>4
    <3> QED BY <3>1, <3>2, <1>1
  <2> QED BY <2>1, <1>3
<1>6. Range(s) \cup Range(t) \subseteq Range(u)
  BY <1>2, <1>3, <1>4
<1>7. ASSUME IsInjective(s), IsInjective(t), Range(s) \cap Range(t) = {}
      PROVE  IsInjective(u)
  <2>1. \A j \in 1 .. m, k \in 1 .. n : s[j] # t[k]
    BY <1>7, <1>2
  <2>2. ASSUME NEW j \in 1 .. m + n, NEW k \in 1 .. m + n, u[j] = u[k]
        PROVE  j = k
    <3>1. CASE j <= m /\ k <= m
      BY <3>1, <2>2, <1>1, <1>2, <1>4, <1>7
    <3>2. CASE j > m /\ k > m
      BY <3>2, <2>2, <1>1, <1>2, <1>4, <1>7
    <3>3. CASE (j <= m /\ k > m) \/ (j > m /\ k <= m)
      BY <3>3, <2>1, <2>2, <1>1, <1>4
    <3> QED BY <3>1, <3>2, <3>3, <1>1
  <2> QED BY <2>2, <1>3
<1> QED BY <1>1, <1>5, <1>6, <1>7 DEF u

(* A singleton, and appending as joining.                                  *)
LEMMA AppendRange ==
  ASSUME NEW S, NEW s \in Seq(S), NEW e \in S
  PROVE  /\ Append(s, e) \in Seq(S)
         /\ Range(Append(s, e)) = Range(s) \cup {e}
         /\ IsInjective(s) /\ e \notin Range(s) => IsInjective(Append(s, e))
<1>1. /\ <<e>> \in Seq(S) /\ Range(<<e>>) = {e} /\ IsInjective(<<e>>)
  BY DEF Range, IsInjective
<1>2. Append(s, e) = s \o <<e>>
  OBVIOUS
<1>3. /\ s \o <<e>> \in Seq(S)
      /\ Range(s \o <<e>>) = Range(s) \cup Range(<<e>>)
      /\ IsInjective(s) /\ IsInjective(<<e>>) /\ Range(s) \cap Range(<<e>>) = {}
           => IsInjective(s \o <<e>>)
  BY <1>1, ConcatRange
<1> QED BY <1>1, <1>2, <1>3

(* Reversing a sequence.                                                   *)
LEMMA ReverseRange ==
  ASSUME NEW S, NEW s \in Seq(S)
  PROVE  /\ Reverse(s) \in Seq(S)
         /\ Range(Reverse(s)) = Range(s)
         /\ IsInjective(s) => IsInjective(Reverse(s))
<1> DEFINE r == Reverse(s)
           n == Len(s)
<1>1. n \in Nat /\ \A j \in 1 .. n : n - j + 1 \in 1 .. n /\ n - (n - j + 1) + 1 = j
  BY LenProperties
<1>2. /\ r \in [1 .. n -> S]
      /\ \A j \in 1 .. n : r[j] = s[n - j + 1]
  BY <1>1, ElementOfSeq DEF Reverse
<1>3. r \in Seq(S) /\ Len(r) = n
  BY <1>1, <1>2, SeqDef
<1> HIDE DEF r
<1>4. \A j \in 1 .. n : s[j] = r[n - j + 1]
  BY <1>1, <1>2
<1> HIDE DEF n
<1>5. Range(r) = Range(s)
  <2>1. Range(s) = {s[j] : j \in 1 .. n} /\ Range(r) = {r[j] : j \in 1 .. n}
    BY <1>3, RangeElements DEF n
  <2>2. Range(r) \subseteq Range(s)
    BY <1>1, <1>2, <2>1
  <2>3. Range(s) \subseteq Range(r)
    BY <1>1, <1>4, <2>1
  <2> QED BY <2>2, <2>3
<1>6. ASSUME IsInjective(s) PROVE IsInjective(r)
  <2>1. \A j, k \in 1 .. n : s[j] = s[k] => j = k
    BY <1>6, RangeElements DEF n
  <2>2. \A j, k \in 1 .. n : r[j] = r[k] => j = k
    BY <2>1, <1>1, <1>2
  <2> QED BY <2>2, <1>3, RangeElements
<1> QED BY <1>3, <1>5, <1>6 DEF r

(* A sequence of all the elements of a finite set, each of them once.      *)
LEMMA InjectiveEnumeration ==
  ASSUME NEW S, IsFiniteSet(S), NEW s \in [1 .. Cardinality(S) -> S],
         IsInjective(s)
  PROVE  s \in Seq(S) /\ Range(s) = S
<1>1. Cardinality(S) \in Nat
  BY FS_CardinalityType
<1>2. s \in Seq(S)
  BY <1>1, SeqDef
<1>3. s \in Injection(1 .. Cardinality(S), S)
  BY DEF Injection, IsInjective
<1>4. IsFiniteSet(1 .. Cardinality(S)) /\ Cardinality(1 .. Cardinality(S)) = Cardinality(S)
  BY <1>1, FS_Interval
<1>5. s \in Surjection(1 .. Cardinality(S), S)
  BY <1>3, <1>4, FS_Injection
<1>6. Range(s) = S
  BY <1>5 DEF Range, Surjection
<1> QED BY <1>2, <1>6
-----------------------------------------------------------------------------
(* How often r occurs in s.                                                *)
Count(s, r) == Cardinality({i \in DOMAIN s : s[i] = r})

One(x, r) == IF x = r THEN 1 ELSE 0

LEMMA CountType ==
  ASSUME NEW S, NEW s \in Seq(S), NEW r
  PROVE  /\ IsFiniteSet({i \in DOMAIN s : s[i] = r})
         /\ Count(s, r) \in Nat
         /\ r \in Range(s) <=> Count(s, r) > 0
<1> DEFINE P == {i \in DOMAIN s : s[i] = r}
<1>1. IsFiniteSet(P)
  <2>1. Len(s) \in Nat /\ DOMAIN s = 1 .. Len(s)
    BY LenProperties
  <2>2. IsFiniteSet(1 .. Len(s)) /\ P \subseteq 1 .. Len(s)
    BY <2>1, FS_Interval
  <2> QED BY <2>2, FS_Subset
<1>2. Cardinality(P) \in Nat /\ (Cardinality(P) = 0 <=> P = {})
  BY <1>1, FS_CardinalityType, FS_EmptySet
<1>3. r \in Range(s) <=> P # {}
  BY DEF Range
<1> QED BY <1>1, <1>2, <1>3 DEF Count

LEMMA CountEmpty ==
  ASSUME NEW r PROVE Count(<<>>, r) = 0
<1>1. {i \in DOMAIN <<>> : <<>>[i] = r} = {}
  OBVIOUS
<1> QED BY <1>1, FS_EmptySet DEF Count

LEMMA CountOne ==
  ASSUME NEW x, NEW r PROVE Count(<<x>>, r) = One(x, r)
<1>1. CASE x = r
  <2>1. {i \in DOMAIN <<x>> : <<x>>[i] = r} = {1}
    BY <1>1
  <2> QED BY <1>1, <2>1, FS_Singleton DEF Count, One
<1>2. CASE x # r
  <2>1. {i \in DOMAIN <<x>> : <<x>>[i] = r} = {}
    BY <1>2
  <2> QED BY <1>2, <2>1, FS_EmptySet DEF Count, One
<1> QED BY <1>1, <1>2

(* The occurrences in a concatenation: those of the first part, and those  *)
(* of the second part shifted behind it.                                   *)
LEMMA CountConcat ==
  ASSUME NEW S, NEW s \in Seq(S), NEW t \in Seq(S), NEW r
  PROVE  Count(s \o t, r) = Count(s, r) + Count(t, r)
<1> DEFINE n == Len(s)
           A == {i \in DOMAIN s : s[i] = r}
           B == {i \in DOMAIN t : t[i] = r}
           C == {i \in DOMAIN (s \o t) : (s \o t)[i] = r}
           D == {i \in C : i > n}
           f == [i \in B |-> i + n]
<1>1. /\ n \in Nat /\ Len(t) \in Nat /\ DOMAIN s = 1 .. n /\ DOMAIN t = 1 .. Len(t)
      /\ DOMAIN (s \o t) = 1 .. n + Len(t)
      /\ \A i \in 1 .. n + Len(t) : (s \o t)[i] = IF i <= n THEN s[i] ELSE t[i - n]
  <2>1. /\ s \o t \in Seq(S) /\ Len(s \o t) = Len(s) + Len(t)
        /\ \A i \in 1 .. Len(s) + Len(t) :
             (s \o t)[i] = IF i <= Len(s) THEN s[i] ELSE t[i - Len(s)]
    BY ConcatProperties
  <2> QED BY <2>1, LenProperties
<1> HIDE DEF n
<1>2. C = A \cup D /\ A \cap D = {}
  BY <1>1
<1>3. f \in Bijection(B, D)
  <2>1. \A i \in B : i + n \in D
    BY <1>1
  <2>2. ASSUME NEW j \in D PROVE j - n \in B /\ (j - n) + n = j
    <3>1. j \in 1 .. n + Len(t) /\ j > n /\ (s \o t)[j] = r
      BY <1>1
    <3>2. (s \o t)[j] = t[j - n]
      BY <1>1, <3>1
    <3> QED BY <1>1, <3>1, <3>2
  <2>3. \A i, j \in B : i + n = j + n => i = j
    BY <1>1
  <2>4. f \in [B -> D] /\ \A i, j \in B : f[i] = f[j] => i = j
    BY <2>1, <2>3
  <2>5. \A j \in D : \E i \in B : f[i] = j
    BY <2>2
  <2> HIDE DEF f, B, D
  <2>6. f \in Injection(B, D)
    BY <2>4 DEF Injection, IsInjective
  <2>7. f \in Surjection(B, D)
    BY <2>4, <2>5 DEF Surjection
  <2> QED BY <2>6, <2>7 DEF Bijection
<1>4. /\ IsFiniteSet(A) /\ IsFiniteSet(B) /\ Cardinality(A) \in Nat
      /\ Cardinality(B) \in Nat
  BY CountType DEF Count
<1> HIDE DEF A, B, C, D, f
<1>5. IsFiniteSet(D) /\ Cardinality(D) = Cardinality(B)
  <2>1. ExistsBijection(B, D)
    BY <1>3 DEF ExistsBijection
  <2> QED BY <1>4, <2>1, FS_Bijection
<1>6. IsFiniteSet(A \cap D) /\ Cardinality(A \cap D) = 0
  BY <1>2, FS_EmptySet
<1>7. Cardinality(C) = Cardinality(A) + Cardinality(B)
  <2>1. Cardinality(A \cup D) = Cardinality(A) + Cardinality(D) - Cardinality(A \cap D)
    BY <1>4, <1>5, FS_Union
  <2> QED BY <1>2, <1>4, <1>5, <1>6, <2>1
<1> QED BY <1>7 DEF Count, A, B, C

LEMMA CountInsert ==
  ASSUME NEW S, NEW s \in Seq(S), NEW i \in 1 .. Len(s) + 1, NEW x \in S, NEW r
  PROVE  Count(InsertAt(s, i, x), r) = Count(s, r) + One(x, r)
<1> DEFINE front == SubSeq(s, 1, i - 1)
           back  == SubSeq(s, i, Len(s))
<1>1. front \in Seq(S) /\ back \in Seq(S) /\ <<x>> \in Seq(S)
  BY SubSeqProperties, ElementOfSeq
<1>2. front \o back = s
  <2>1. /\ Len(front) = i - 1 /\ \A j \in 1 .. i - 1 : front[j] = s[j]
        /\ Len(back) = Len(s) - i + 1
        /\ \A j \in 1 .. Len(s) - i + 1 : back[j] = s[i + j - 1]
    BY SubSeqProperties, ElementOfSeq
  <2>2. Len(s) \in Nat /\ i \in Int
    BY LenProperties
  <2> HIDE DEF front, back
  <2>3. /\ front \o back \in Seq(S) /\ Len(front \o back) = Len(s)
        /\ \A j \in 1 .. Len(s) :
             (front \o back)[j] = IF j <= i - 1 THEN front[j] ELSE back[j - (i - 1)]
    BY <1>1, <2>1, <2>2, ConcatProperties
  <2>4. ASSUME NEW j \in 1 .. Len(s) PROVE (front \o back)[j] = s[j]
    <3>1. CASE j <= i - 1
      BY <2>1, <2>2, <2>3, <3>1
    <3>2. CASE ~ (j <= i - 1)
      <4>1. j - (i - 1) \in 1 .. Len(s) - i + 1 /\ i + (j - (i - 1)) - 1 = j
        BY <2>2, <3>2
      <4> QED BY <2>1, <2>3, <3>2, <4>1
    <3> QED BY <3>1, <3>2
  <2> QED BY <2>3, <2>4, SeqEqual
<1> HIDE DEF front, back
<1>3. Count(s, r) = Count(front, r) + Count(back, r)
  BY <1>1, <1>2, CountConcat
<1>6. /\ front \o <<x>> \in Seq(S)
      /\ Count(front \o <<x>>, r) = Count(front, r) + Count(<<x>>, r)
  BY <1>1, CountConcat, ConcatProperties
<1>7. Count((front \o <<x>>) \o back, r) = Count(front \o <<x>>, r) + Count(back, r)
  BY <1>1, <1>6, CountConcat
<1>8. Count(<<x>>, r) = One(x, r)
  BY CountOne
<1>4. Count(front, r) \in Nat /\ Count(back, r) \in Nat /\ One(x, r) \in Nat
  BY <1>1, CountType DEF One
<1>5. InsertAt(s, i, x) = (front \o <<x>>) \o back
  BY DEF InsertAt, front, back
<1> QED BY <1>3, <1>4, <1>5, <1>6, <1>7, <1>8

LEMMA CountRemove ==
  ASSUME NEW S, NEW s \in Seq(S), NEW i \in 1 .. Len(s), NEW r
  PROVE  Count(s, r) = Count(RemoveAt(s, i), r) + One(s[i], r)
<1> DEFINE t == RemoveAt(s, i)
<1>0. Len(s) \in Nat /\ i \in Int
  BY LenProperties
<1>1. /\ t \in Seq(S) /\ Len(t) = Len(s) - 1 /\ Len(s) \in Nat /\ i \in Int
      /\ \A j \in 1 .. Len(s) - 1 : t[j] = IF j < i THEN s[j] ELSE s[j + 1]
  <2>1. /\ RemoveAt(s, i) \in Seq(S) /\ Len(RemoveAt(s, i)) = Len(s) - 1
        /\ \A j \in 1 .. Len(s) - 1 :
             RemoveAt(s, i)[j] = IF j < i THEN s[j] ELSE s[j + 1]
    BY RemoveAtElements
  <2> QED BY <1>0, <2>1
<1>2. s[i] \in S /\ i \in 1 .. Len(t) + 1
  BY <1>1, ElementOfSeq
<1> HIDE DEF t
<1>3. /\ InsertAt(t, i, s[i]) \in Seq(S) /\ Len(InsertAt(t, i, s[i])) = Len(t) + 1
      /\ \A j \in 1 .. Len(t) + 1 :
           InsertAt(t, i, s[i])[j] = IF j < i THEN t[j]
                                     ELSE IF j = i THEN s[i] ELSE t[j - 1]
  <2>1. t \in Seq(S) /\ i \in 1 .. Len(t) + 1 /\ s[i] \in S
    BY <1>1, <1>2
  <2> DEFINE x == s[i]
  <2>2. x \in S
    BY <2>1
  <2> HIDE DEF x
  <2>3. /\ InsertAt(t, i, x) \in Seq(S) /\ Len(InsertAt(t, i, x)) = Len(t) + 1
        /\ \A j \in 1 .. Len(t) + 1 :
             InsertAt(t, i, x)[j] = IF j < i THEN t[j] ELSE IF j = i THEN x ELSE t[j - 1]
    BY <2>1, <2>2, InsertAtElements
  <2> QED BY <2>3 DEF x
<1>4. ASSUME NEW j \in 1 .. Len(s) PROVE InsertAt(t, i, s[i])[j] = s[j]
  <2>1. CASE j < i
    <3>1. j \in 1 .. Len(s) - 1 /\ j \in 1 .. Len(t) + 1
      BY <1>1, <2>1
    <3> QED BY <1>1, <1>3, <2>1, <3>1
  <2>2. CASE j = i
    BY <1>2, <1>3, <2>2
  <2>3. CASE j > i
    <3>1. j - 1 \in 1 .. Len(s) - 1 /\ j \in 1 .. Len(t) + 1 /\ ~ (j - 1 < i)
          /\ (j - 1) + 1 = j /\ j # i /\ ~ (j < i)
      BY <1>1, <2>3
    <3> QED BY <1>1, <1>3, <3>1
  <2> QED BY <1>1, <2>1, <2>2, <2>3
<1>5. InsertAt(t, i, s[i]) = s
  <2>1. Len(t) + 1 = Len(s)
    BY <1>1
  <2> QED BY <1>3, <1>4, <2>1, SeqEqual
<1> QED BY <1>1, <1>2, <1>5, CountInsert DEF t

LEMMA TailIsRemoveAt ==
  ASSUME NEW S, NEW s \in Seq(S), s # <<>>
  PROVE  Tail(s) = RemoveAt(s, 1)
<1>1. /\ Len(s) \in Nat /\ 1 \in 1 .. Len(s) /\ Tail(s) \in Seq(S)
      /\ Len(Tail(s)) = Len(s) - 1
      /\ \A j \in 1 .. Len(s) - 1 : Tail(s)[j] = s[j + 1]
  BY HeadTailProperties, EmptySeq, LenProperties
<1>2. /\ RemoveAt(s, 1) \in Seq(S) /\ Len(RemoveAt(s, 1)) = Len(s) - 1
      /\ \A j \in 1 .. Len(s) - 1 : RemoveAt(s, 1)[j] = s[j + 1]
  <2>1. RemoveAt(s, 1) \in Seq(S) /\ Len(RemoveAt(s, 1)) = Len(s) - 1
    BY <1>1, RemoveAtElements
  <2>2. \A j \in 1 .. Len(s) - 1 :
          RemoveAt(s, 1)[j] = IF j < 1 THEN s[j] ELSE s[j + 1]
    BY <1>1, RemoveAtElements
  <2>3. \A j \in 1 .. Len(s) - 1 : ~ (j < 1)
    BY <1>1
  <2> QED BY <2>1, <2>2, <2>3
<1> QED BY <1>1, <1>2, SeqEqual

LEMMA CountTail ==
  ASSUME NEW S, NEW s \in Seq(S), s # <<>>, NEW r
  PROVE  Count(s, r) = Count(Tail(s), r) + One(Head(s), r)
<1>1. 1 \in 1 .. Len(s) /\ Head(s) = s[1] /\ Tail(s) = RemoveAt(s, 1)
  BY EmptySeq, LenProperties, TailIsRemoveAt
<1>2. Count(s, r) = Count(RemoveAt(s, 1), r) + One(s[1], r)
  BY <1>1, CountRemove
<1> QED BY <1>1, <1>2
=============================================================================
