--------------------------- MODULE NvmDataProofs ----------------------------
(***************************************************************************)
(* What the operators of NvmSeq and Nvm return, for every range of the     *)
(* numbers (the code's is SeqMax = 2^15 - 1), every number and size of     *)
(* sectors and every set of records: the order of the sequence numbers,    *)
(* the sums of what records take, the walk over the pool, the lookup table *)
(* made along it, and flash and map as values.                             *)
(***************************************************************************)
EXTENDS Nvm, TLAPS, WellFoundedInduction, SequenceTheorems, FiniteSetTheorems

Numbers == 0 .. SeqMax

NumbersOf(S) == {x[1] : x \in S}

(* How far a number is past b, counting over the wrap.                     *)
Past(b, n) == IF n >= b THEN n - b ELSE n + SeqMax + 1 - b

(* The records lie within w numbers from b on.                             *)
Window(S, b, w) == \A x \in S : Past(b, x[1]) <= w

-----------------------------------------------------------------------------
(* Least and greatest elements.                                            *)

LEMMA MinExists ==
  ASSUME NEW T \in SUBSET Nat, T # {}
  PROVE  \E x \in T : \A y \in T : x <= y
<1> DEFINE R == OpToRel(<, Nat)
<1>1. IsWellFoundedOn(R, Nat)
  BY NatLessThanWellFounded
<1>2. PICK x \in T : \A y \in T : ~(<<y, x>> \in R)
  BY <1>1, WFMin
<1>3. \A y \in T : ~(y < x)
  BY <1>2 DEF OpToRel
<1> QED BY <1>3

LEMMA MaxExists ==
  ASSUME NEW T \in SUBSET Numbers, T # {}
  PROVE  \E x \in T : \A y \in T : x >= y
<1> DEFINE U == {SeqMax - n : n \in T}
<1>1. U \in SUBSET Nat /\ U # {}
  <2>1. \A n \in T : SeqMax - n \in Nat
    BY SeqAssumption DEF Numbers
  <2>2. PICK n \in T : TRUE
    OBVIOUS
  <2>3. SeqMax - n \in U
    BY <2>2
  <2> QED BY <2>1, <2>3
<1>2. PICK u \in U : \A v \in U : u <= v
  BY <1>1, MinExists
<1>3. PICK x \in T : u = SeqMax - x
  BY <1>2
<1>4. \A y \in T : x >= y
  <2> SUFFICES ASSUME NEW y \in T PROVE x >= y
    OBVIOUS
  <2>1. SeqMax - x <= SeqMax - y
    BY <1>2, <1>3
  <2> QED BY <2>1, SeqAssumption DEF Numbers
<1> QED BY <1>4

LEMMA MinIs ==
  ASSUME NEW T \in SUBSET Nat, T # {}
  PROVE  Min(T) \in T /\ \A y \in T : Min(T) <= y
BY MinExists DEF Min

LEMMA MaxIs ==
  ASSUME NEW T \in SUBSET Numbers, T # {}
  PROVE  Max(T) \in T /\ \A y \in T : Max(T) >= y
BY MaxExists DEF Max

(* Halves and quarters by the k with SeqMax = 4k + 3.                      *)
LEMMA Quarters ==
  \E k \in Nat : /\ k >= 1 /\ SeqMax = 4 * k + 3
                 /\ SeqMax \div 2 = 2 * k + 1
                 /\ SeqMax \div 4 = k
                 /\ (3 * SeqMax) \div 4 = 3 * k + 2
<1>1. PICK k \in Nat : SeqMax = 4 * k + 3
  <2>1. SeqMax \div 4 \in Nat /\ SeqMax = 4 * (SeqMax \div 4) + 3
    BY SeqAssumption
  <2> QED BY <2>1
<1> QED BY <1>1, SeqAssumption

-----------------------------------------------------------------------------
(* What the extremes are.                                                  *)
LEMMA ExtremesAre ==
  ASSUME NEW S \in SUBSET (Numbers \X Nat), S # {}
  PROVE  LET q == ExtremesOf(S)
             ns == NumbersOf(S)
         IN /\ ns \in SUBSET Numbers /\ ns # {}
            /\ q.low \in ns /\ \A n \in ns : q.low <= n
            /\ q.high \in ns \cup {1} /\ q.high >= 1 /\ \A n \in ns : q.high >= n
            /\ IF \E n \in ns : InUpperHalf(n)
               THEN /\ q.upLow \in ns /\ InUpperHalf(q.upLow)
                    /\ \A n \in ns : InUpperHalf(n) => q.upLow <= n
               ELSE q.upLow = NoSeq
            /\ IF \E n \in ns : InLowerHalf(n)
               THEN /\ q.loHigh \in ns /\ InLowerHalf(q.loHigh)
                    /\ \A n \in ns : InLowerHalf(n) => q.loHigh >= n
               ELSE q.loHigh = NoSeq
<1> DEFINE ns == NumbersOf(S)
           q  == ExtremesOf(S)
           up == {n \in ns : InUpperHalf(n)}
           lo == {n \in ns : InLowerHalf(n)}
<1>1. ns \in SUBSET Numbers /\ ns # {}
  <2>1. \A x \in S : x[1] \in Numbers
    OBVIOUS
  <2>2. PICK x \in S : TRUE
    OBVIOUS
  <2>3. x[1] \in ns
    BY <2>2 DEF NumbersOf
  <2> QED BY <2>1, <2>3 DEF NumbersOf
<1>2. /\ q.low = Min(ns) /\ q.high = Max(ns \cup {1})
      /\ q.upLow = IF up = {} THEN NoSeq ELSE Min(up)
      /\ q.loHigh = IF lo = {} THEN NoSeq ELSE Max(lo)
  BY <1>1 DEF ExtremesOf, NumbersOf, NoExtremes
<1>3. Numbers \in SUBSET Nat /\ 1 \in Numbers
  BY SeqAssumption DEF Numbers
<1> HIDE DEF q, ns
<1>4. q.low \in ns /\ \A n \in ns : q.low <= n
  BY <1>1, <1>2, <1>3, MinIs
<1>5. q.high \in ns \cup {1} /\ \A n \in ns \cup {1} : q.high >= n
  <2>1. ns \cup {1} \in SUBSET Numbers /\ ns \cup {1} # {}
    BY <1>1, <1>3
  <2> QED BY <1>2, <2>1, MaxIs
<1>6. IF \E n \in ns : InUpperHalf(n)
      THEN /\ q.upLow \in ns /\ InUpperHalf(q.upLow)
           /\ \A n \in ns : InUpperHalf(n) => q.upLow <= n
      ELSE q.upLow = NoSeq
  <2>1. up \in SUBSET Nat
    BY <1>1, <1>3
  <2>2. CASE up # {}
    <3>1. Min(up) \in up /\ \A n \in up : Min(up) <= n
      BY <2>1, <2>2, MinIs
    <3> QED BY <1>2, <2>2, <3>1
  <2>3. CASE up = {}
    BY <1>2, <2>3
  <2> QED BY <2>2, <2>3
<1>7. IF \E n \in ns : InLowerHalf(n)
      THEN /\ q.loHigh \in ns /\ InLowerHalf(q.loHigh)
           /\ \A n \in ns : InLowerHalf(n) => q.loHigh >= n
      ELSE q.loHigh = NoSeq
  <2>1. lo \in SUBSET Numbers
    BY <1>1
  <2>2. CASE lo # {}
    <3>1. Max(lo) \in lo /\ \A n \in lo : Max(lo) >= n
      BY <2>1, <2>2, MaxIs
    <3> QED BY <1>2, <2>2, <3>1
  <2>3. CASE lo = {}
    BY <1>2, <2>3
  <2> QED BY <2>2, <2>3
<1> QED BY <1>1, <1>4, <1>5, <1>6, <1>7 DEF q, ns

LEMMA Halves ==
  ASSUME NEW n \in Numbers
  PROVE  InUpperHalf(n) <=> ~InLowerHalf(n)
BY Quarters DEF Numbers, InUpperHalf, InLowerHalf

(* Unmasked, two records are as far apart as they are in the window:       *)
(* either it starts in the upper quarter, and then the wrap is recognised  *)
(* if it has records on both sides, or it does not reach the wrap.         *)
LEMMA UnmaskKeepsDistance ==
  ASSUME NEW S \in SUBSET (Numbers \X Nat), S # {},
         NEW b \in Numbers, Window(S, b, MaxSpread + 1),
         NEW x \in S, NEW y \in S
  PROVE  LET q == ExtremesOf(S)
         IN  Unmask(q, x[1]) - Unmask(q, y[1]) = Past(b, x[1]) - Past(b, y[1])
<1> DEFINE ns == NumbersOf(S)
           q  == ExtremesOf(S)
<1>1. PICK k \in Nat : /\ k >= 1 /\ SeqMax = 4 * k + 3
                       /\ SeqMax \div 2 = 2 * k + 1
                       /\ SeqMax \div 4 = k
                       /\ (3 * SeqMax) \div 4 = 3 * k + 2
  BY Quarters
<1>2. ns \subseteq 0 .. 4 * k + 3 /\ b \in 0 .. 4 * k + 3
  BY <1>1, ExtremesAre DEF Numbers
<1>3. \A n \in ns : Past(b, n) <= k + 1
  BY <1>1 DEF Window, NumbersOf, MaxSpread
<1>4. x[1] \in ns /\ y[1] \in ns
  BY DEF NumbersOf
<1>5. /\ IF \E n \in ns : n > 2 * k + 1
         THEN /\ q.upLow \in ns /\ q.upLow > 2 * k + 1
              /\ \A n \in ns : n > 2 * k + 1 => q.upLow <= n
         ELSE q.upLow = NoSeq
      /\ IF \E n \in ns : n <= 2 * k + 1
         THEN /\ q.loHigh \in ns /\ q.loHigh <= 2 * k + 1
              /\ \A n \in ns : n <= 2 * k + 1 => q.loHigh >= n
         ELSE q.loHigh = NoSeq
  BY <1>1, ExtremesAre DEF InUpperHalf, InLowerHalf
<1>6. NoSeq = 8 * k + 7
  BY <1>1 DEF NoSeq
<1>7. Wrapping(q) <=> /\ q.upLow # NoSeq /\ q.loHigh # NoSeq
                      /\ q.upLow > 3 * k + 2 /\ q.loHigh <= k
  BY <1>1 DEF Wrapping, InUpperQuarter, InLowerQuarter
<1>8. \A n : Unmask(q, n) = IF Wrapping(q) /\ n <= 2 * k + 1 THEN 4 * k + 4 + n ELSE n
  BY <1>1 DEF Unmask, InLowerHalf
<1>9. /\ k \in Int /\ b \in Int /\ 1 <= k /\ 0 <= b /\ b <= 4 * k + 3
      /\ \A n \in ns : /\ n \in Int /\ 0 <= n /\ n <= 4 * k + 3
                       /\ n >= b => n - b <= k + 1 /\ Past(b, n) = n - b
                       /\ n < b  => /\ n + 4 * k + 4 - b <= k + 1
                                   /\ Past(b, n) = n + 4 * k + 4 - b
  BY <1>1, <1>2, <1>3 DEF Past
<1> DEFINE Same == Unmask(q, x[1]) - Unmask(q, y[1]) = Past(b, x[1]) - Past(b, y[1])
<1> HIDE DEF ns, q
<1>10. ASSUME b <= 3 * k + 2 PROVE Same
  <2>1. \A n \in ns : n >= b
    BY <1>9, <1>10
  <2>2. ~Wrapping(q)
    <3> SUFFICES ASSUME Wrapping(q) PROVE FALSE
      OBVIOUS
    <3>1. q.upLow \in ns /\ q.loHigh \in ns /\ q.upLow > 3 * k + 2 /\ q.loHigh <= k
      BY <1>5, <1>7
    <3>2. q.upLow - b <= k + 1 /\ q.loHigh >= b /\ q.upLow \in Int /\ q.loHigh \in Int
      BY <1>9, <2>1, <3>1
    <3> QED BY <1>9, <3>1, <3>2
  <2>3. \A n \in ns : n \in Int /\ Unmask(q, n) = n /\ Past(b, n) = n - b
    BY <1>8, <1>9, <2>1, <2>2
  <2> QED BY <1>4, <1>9, <2>3
<1>11. ASSUME b > 3 * k + 2 PROVE Same
  <2>1. \A n \in ns : /\ n > 2 * k + 1 => n >= b
                      /\ n <= 2 * k + 1 => n < b /\ n <= k
    BY <1>9, <1>11
  <2>2. CASE Wrapping(q)
    <3>1. \A n \in ns : n \in Int /\ Past(b, n) \in Int /\ Unmask(q, n) = Past(b, n) + b
      BY <1>8, <1>9, <2>1, <2>2
    <3> QED BY <1>4, <1>9, <3>1
  <2>3. CASE ~Wrapping(q)
    <3>1. \A n \in ns : n \in Int /\ Unmask(q, n) = n
      BY <1>8, <1>9, <2>3
    <3>2. \/ \A n \in ns : n > 2 * k + 1
          \/ \A n \in ns : n <= 2 * k + 1
      <4> SUFFICES ASSUME NEW u \in ns, u > 2 * k + 1, NEW l \in ns, l <= 2 * k + 1
                   PROVE  FALSE
        BY <1>9
      <4>1. q.upLow \in ns /\ q.upLow > 2 * k + 1 /\ q.loHigh \in ns /\ q.loHigh <= 2 * k + 1
        BY <1>5
      <4>2. /\ q.upLow \in Int /\ q.loHigh \in Int /\ q.upLow >= b /\ q.loHigh <= k
            /\ q.upLow <= 4 * k + 3
        BY <1>9, <2>1, <4>1
      <4> QED BY <1>6, <1>7, <1>9, <1>11, <2>3, <4>2
    <3>3. CASE \A n \in ns : n > 2 * k + 1
      <4>1. \A n \in ns : Past(b, n) = n - b
        BY <1>9, <2>1, <3>3
      <4> QED BY <1>4, <1>9, <3>1, <4>1
    <3>4. CASE \A n \in ns : n <= 2 * k + 1
      <4>1. \A n \in ns : Past(b, n) = n + 4 * k + 4 - b
        BY <1>9, <2>1, <3>4
      <4> QED BY <1>4, <1>9, <3>1, <4>1
    <3> QED BY <3>2, <3>3, <3>4
  <2> QED BY <2>2, <2>3
<1>12. Same
  BY <1>9, <1>10, <1>11
<1> QED BY <1>12 DEF q

(* Of two records the code takes for newer the one that is less than half  *)
(* way round from the other (Nvm_Pool_SeqNum_Unmask), as long as the       *)
(* spread at which relocation is asked for is passed by one at most.       *)
THEOREM NewerAsTheFlashSays ==
  ASSUME NEW S \in SUBSET (Numbers \X Nat), S # {},
         NEW b \in Numbers, Window(S, b, MaxSpread + 1),
         NEW x \in S, NEW y \in S
  PROVE  LET q == ExtremesOf(S)
         IN  Unmask(q, x[1]) >= Unmask(q, y[1]) <=> NotOlder(x[1], y[1])
<1> DEFINE q == ExtremesOf(S)
           n == x[1]
           m == y[1]
           M == SeqMax + 1
<1>1. PICK k \in Nat : k >= 1 /\ SeqMax = 4 * k + 3 /\ SeqMax \div 2 = 2 * k + 1 /\ MaxSpread = k
  BY Quarters DEF MaxSpread
<1>2. n \in 0 .. SeqMax /\ m \in 0 .. SeqMax /\ b \in 0 .. SeqMax
  BY DEF Numbers
<1>3. Past(b, n) \in 0 .. k + 1 /\ Past(b, m) \in 0 .. k + 1
  BY <1>1, <1>2 DEF Window, Past
<1>4. Unmask(q, n) \in Int /\ Unmask(q, m) \in Int
  BY <1>1, <1>2 DEF Unmask
<1>5. Unmask(q, n) - Unmask(q, m) = Past(b, n) - Past(b, m)
  BY UnmaskKeepsDistance
<1>6. /\ Past(b, n) >= Past(b, m) => (n - m) % M = Past(b, n) - Past(b, m)
      /\ Past(b, n) < Past(b, m) => (n - m) % M = Past(b, n) - Past(b, m) + M
  <2>1. \A d \in 0 .. SeqMax : d % M = d
    BY SeqAssumption
  <2>2. \A d \in -SeqMax .. -1 : d % M = d + M
    BY SeqAssumption
  <2>3. n - m \in -SeqMax .. SeqMax
    BY <1>2, SeqAssumption
  <2>4. Past(b, n) - Past(b, m) \in {n - m, n - m + M, n - m - M}
    BY <1>2, SeqAssumption DEF Past
  <2> HIDE DEF n, m
  <2>5. M = 4 * k + 4 /\ M \in Int
    BY <1>1
  <2>6. /\ n - m \in Int /\ n - m <= SeqMax /\ -SeqMax <= n - m
        /\ Past(b, n) \in Int /\ Past(b, m) \in Int
    BY <1>3, <2>3
  <2>7. CASE Past(b, n) >= Past(b, m)
    <3>1. n - m = Past(b, n) - Past(b, m) \/ n - m = Past(b, n) - Past(b, m) - M
      BY <1>1, <1>3, <2>4, <2>5, <2>6, <2>7
    <3> QED BY <1>1, <1>3, <2>1, <2>2, <2>5, <2>6, <2>7, <3>1
  <2>8. CASE Past(b, n) < Past(b, m)
    <3>1. n - m = Past(b, n) - Past(b, m) \/ n - m = Past(b, n) - Past(b, m) + M
      BY <1>1, <1>3, <2>4, <2>5, <2>6, <2>8
    <3> QED BY <1>1, <1>3, <2>1, <2>2, <2>5, <2>6, <2>8, <3>1
  <2> QED BY <2>6, <2>7, <2>8
<1>7. NotOlder(n, m) <=> (n - m) % M <= 2 * k + 1
  BY <1>1 DEF NotOlder
<1> HIDE DEF n, m, q
<1>8. Unmask(q, n) >= Unmask(q, m) <=> NotOlder(n, m)
  BY <1>1, <1>3, <1>4, <1>5, <1>6, <1>7
<1> QED BY <1>8 DEF n, m, q

LEMMA InNumbers ==
  ASSUME NEW S \in SUBSET (Numbers \X Nat), NEW n \in NumbersOf(S)
  PROVE  n \in Numbers /\ \E x \in S : x[1] = n
BY DEF NumbersOf

(* The highest number bounds the records' from above, and is not further   *)
(* from them than they are wide.                                           *)
LEMMA HighestIs ==
  ASSUME NEW S \in SUBSET (Numbers \X Nat), S # {},
         NEW b \in Numbers, Window(S, b, MaxSpread + 1),
         NEW x \in S
  PROVE  LET q == ExtremesOf(S)
         IN  /\ HighestSeq(q) \in Nat /\ Unmask(q, x[1]) \in Nat
             /\ Unmask(q, x[1]) <= HighestSeq(q)
             /\ HighestSeq(q) <= Unmask(q, x[1]) + MaxSpread + 1
<1> DEFINE ns == NumbersOf(S)
           q  == ExtremesOf(S)
           n  == x[1]
<1>1. PICK k \in Nat : k >= 1 /\ SeqMax = 4 * k + 3 /\ SeqMax \div 2 = 2 * k + 1 /\ MaxSpread = k
  BY Quarters DEF MaxSpread
<1>2. /\ \A m \in ns : m \in Int /\ 0 <= m /\ m <= SeqMax
      /\ n \in ns
  <2>1. ns \in SUBSET Numbers
    BY ExtremesAre
  <2> QED BY <2>1, SeqAssumption DEF Numbers, NumbersOf
<1>3. \A m \in ns : Unmask(q, m) \in Nat
  BY <1>1, <1>2 DEF Unmask
<1>4. \A m \in ns : Past(b, m) \in 0 .. k + 1
  <2> SUFFICES ASSUME NEW m \in ns PROVE Past(b, m) \in 0 .. k + 1
    OBVIOUS
  <2>1. PICK z \in S : z[1] = m
    BY InNumbers
  <2>2. Past(b, m) <= k + 1
    BY <1>1, <2>1 DEF Window
  <2> QED BY <1>1, <1>2, <2>2 DEF Past, Numbers
<1>5. \A m \in ns : Unmask(q, m) <= Unmask(q, n) + k + 1
  <2> SUFFICES ASSUME NEW m \in ns PROVE Unmask(q, m) <= Unmask(q, n) + k + 1
    OBVIOUS
  <2>1. PICK z \in S : z[1] = m
    BY InNumbers
  <2>2. Unmask(q, m) - Unmask(q, n) = Past(b, m) - Past(b, n)
    BY <2>1, UnmaskKeepsDistance
  <2> QED BY <1>2, <1>3, <1>4, <2>2
<1>6. /\ q.high \in ns \cup {1} /\ \A m \in ns : q.high >= m
      /\ (\E m \in ns : InLowerHalf(m)) =>
           /\ q.loHigh \in ns /\ InLowerHalf(q.loHigh)
           /\ \A m \in ns : InLowerHalf(m) => q.loHigh >= m
      /\ ~(\E m \in ns : InLowerHalf(m)) => q.loHigh = NoSeq
  BY ExtremesAre
<1> DEFINE Bounds == /\ HighestSeq(q) \in Nat /\ Unmask(q, n) \in Nat
                     /\ Unmask(q, n) <= HighestSeq(q)
                     /\ HighestSeq(q) <= Unmask(q, n) + MaxSpread + 1
<1> HIDE DEF ns, q, n
<1>7. ASSUME Wrapping(q) PROVE Bounds
  <2>1. /\ q.loHigh \in ns /\ InLowerHalf(q.loHigh)
        /\ \A m \in ns : InLowerHalf(m) => q.loHigh >= m
    BY <1>6, <1>7 DEF Wrapping
  <2>2. HighestSeq(q) = Unmask(q, q.loHigh) /\ HighestSeq(q) = SeqMax + 1 + q.loHigh
    BY <1>7, <2>1 DEF HighestSeq, Unmask
  <2>3. /\ n \in Int /\ 0 <= n /\ n <= SeqMax /\ SeqMax \in Nat
        /\ q.loHigh \in Nat /\ HighestSeq(q) \in Nat
    BY <1>1, <1>2, <2>1, <2>2
  <2>4. HighestSeq(q) <= Unmask(q, n) + k + 1
    BY <1>5, <2>1, <2>2
  <2>5. CASE InLowerHalf(n)
    <3>1. Unmask(q, n) = SeqMax + 1 + n /\ n <= q.loHigh
      BY <1>2, <1>7, <2>1, <2>5 DEF Unmask
    <3>2. Unmask(q, n) \in Nat /\ Unmask(q, n) <= HighestSeq(q)
      BY <2>2, <2>3, <3>1
    <3> QED BY <1>1, <2>3, <2>4, <3>2
  <2>6. CASE ~InLowerHalf(n)
    <3>1. Unmask(q, n) = n
      BY <2>6 DEF Unmask
    <3>2. Unmask(q, n) \in Nat /\ Unmask(q, n) <= HighestSeq(q)
      BY <2>2, <2>3, <3>1
    <3> QED BY <1>1, <2>3, <2>4, <3>2
  <2> QED BY <2>5, <2>6
<1>8. ASSUME ~Wrapping(q) PROVE Bounds
  <2>1. HighestSeq(q) = q.high /\ \A m \in ns : Unmask(q, m) = m
    BY <1>8 DEF HighestSeq, Unmask
  <2>2. Unmask(q, n) = n /\ n <= q.high /\ n \in Nat
    BY <1>1, <1>2, <1>6, <2>1
  <2>3. CASE q.high \in ns
    <3>1. Unmask(q, q.high) <= Unmask(q, n) + k + 1 /\ Unmask(q, q.high) = q.high
      BY <1>5, <2>1, <2>3
    <3>2. q.high \in Nat
      BY <1>2, <2>3
    <3> QED BY <1>1, <2>1, <2>2, <3>1, <3>2
  <2>4. CASE q.high = 1
    BY <1>1, <2>1, <2>2, <2>4
  <2> QED BY <1>6, <2>3, <2>4
<1> QED BY <1>7, <1>8 DEF q, n

LEMMA UnmaskIs ==
  ASSUME NEW q, NEW n
  PROVE  Unmask(q, n) = n \/ Unmask(q, n) = SeqMax + 1 + n
BY DEF Unmask

LEMMA Residue ==
  ASSUME NEW M \in Nat, M > 0, NEW h \in 0 .. 2 * M - 1
  PROVE  h % M = IF h < M THEN h ELSE h - M
<1>1. CASE h < M
  BY <1>1
<1>2. CASE h >= M
  BY <1>2
<1> QED BY <1>1, <1>2

(* The number a new record gets makes it newer than every other record,    *)
(* also when it starts over at 0 (Nvm_Pool_SeqNum_GetNext).                *)
THEOREM NextIsNewest ==
  ASSUME NEW S \in SUBSET (Numbers \X Nat), S # {},
         NEW b \in Numbers, Window(S, b, MaxSpread + 1),
         NEW x \in S
  PROVE  LET next == NextSeq(ExtremesOf(S))
         IN  next \in Numbers /\ NotOlder(next, x[1]) /\ ~NotOlder(x[1], next)
<1> DEFINE q == ExtremesOf(S)
           next == NextSeq(q)
           n == x[1]
           M == SeqMax + 1
           h == HighestSeq(q) + 1
           d == h - Unmask(q, n)
<1>1. PICK k \in Nat : k >= 1 /\ SeqMax = 4 * k + 3 /\ SeqMax \div 2 = 2 * k + 1 /\ MaxSpread = k
  BY Quarters DEF MaxSpread
<1>2. /\ h \in Nat /\ Unmask(q, n) \in Nat /\ n \in 0 .. SeqMax
      /\ d \in 1 .. k + 2
  BY <1>1, HighestIs DEF Numbers
<1>3. Unmask(q, n) = n \/ Unmask(q, n) = M + n
  BY UnmaskIs
<1>4. h < 2 * M
  <2>1. CASE Wrapping(q)
    <3>1. HighestSeq(q) = Unmask(q, q.loHigh) /\ q.loHigh \in Numbers /\ InLowerHalf(q.loHigh)
      BY <2>1, ExtremesAre DEF HighestSeq, Wrapping
    <3> QED BY <1>1, <3>1 DEF Unmask, InLowerHalf, Numbers
  <2>2. CASE ~Wrapping(q)
    BY <1>1, <2>2, ExtremesAre DEF HighestSeq, Numbers
  <2> QED BY <2>1, <2>2
<1>5. M = 4 * k + 4 /\ M \in Nat /\ M > 0
  BY <1>1
<1>6. next = (IF h < M THEN h ELSE h - M) /\ next \in 0 .. SeqMax
  <2> HIDE DEF M
  <2>1. next = h % M
    BY DEF NextSeq, M
  <2> HIDE DEF h, next
  <2>2. h % M = IF h < M THEN h ELSE h - M
    BY <1>2, <1>4, <1>5, Residue
  <2> QED BY <1>1, <1>2, <1>4, <1>5, <2>1, <2>2
<1>7. \A e \in 0 .. SeqMax : e % M = e
  BY SeqAssumption
<1>8. \A e \in -SeqMax .. -1 : e % M = e + M
  BY SeqAssumption
<1> HIDE DEF n, h, q, next, M
<1>9. next - n = d \/ next - n = d - M
  BY <1>1, <1>2, <1>3, <1>4, <1>5, <1>6
<1>10. (next - n) % M = d
  BY <1>1, <1>2, <1>5, <1>7, <1>8, <1>9
<1>11. (n - next) % M = M - d
  <2>1. M - d \in 0 .. SeqMax /\ -d \in -SeqMax .. -1
    BY <1>1, <1>2, <1>5
  <2>2. n - next = -d \/ n - next = M - d
    BY <1>2, <1>5, <1>6, <1>9
  <2>3. (-d) % M = M - d /\ (M - d) % M = M - d
    BY <1>2, <1>5, <1>7, <1>8, <2>1
  <2> QED BY <2>2, <2>3
<1>12. /\ NotOlder(next, n) <=> (next - n) % M <= 2 * k + 1
       /\ NotOlder(n, next) <=> (n - next) % M <= 2 * k + 1
  BY <1>1 DEF NotOlder, M
<1>13. NotOlder(next, n) /\ ~NotOlder(n, next)
  BY <1>1, <1>2, <1>5, <1>10, <1>11, <1>12
<1> QED BY <1>6, <1>13 DEF next, n, q, Numbers

(* The sector that is relocated for its number holds the oldest record     *)
(* (Nvm_Pool_SeqNum_GetLowestSeqNum and the sector kept with it).          *)
THEOREM OldestIsFound ==
  ASSUME NEW S \in SUBSET (Numbers \X Nat), S # {},
         NEW b \in Numbers, Window(S, b, MaxSpread + 1)
  PROVE  LET q == ExtremesOf(S)
         IN  /\ <<LowestSeq(q), OldestSec(q)>> \in S
             /\ \A x \in S : NotOlder(x[1], LowestSeq(q))
<1> DEFINE q  == ExtremesOf(S)
           ns == NumbersOf(S)
           sec(n) == Min({x[2] : x \in {y \in S : y[1] = n}})
<1>1. \A n \in ns : <<n, sec(n)>> \in S
  <2> SUFFICES ASSUME NEW n \in ns PROVE <<n, sec(n)>> \in S
    OBVIOUS
  <2> DEFINE T == {x[2] : x \in {y \in S : y[1] = n}}
  <2>1. PICK z \in S : z[1] = n
    BY InNumbers
  <2>2. z[2] \in T /\ T \in SUBSET Nat
    BY <2>1
  <2>3. sec(n) \in T
    BY <2>2, MinIs
  <2>4. PICK y \in S : y[1] = n /\ y[2] = sec(n)
    BY <2>3
  <2>5. y = <<y[1], y[2]>>
    OBVIOUS
  <2> QED BY <2>4, <2>5
<1>2. /\ ns # {} /\ ns \subseteq Numbers
      /\ q.low \in ns /\ \A n \in ns : q.low <= n
      /\ q.upLow # NoSeq =>
           /\ q.upLow \in ns /\ InUpperHalf(q.upLow)
           /\ \A n \in ns : InUpperHalf(n) => q.upLow <= n
  BY ExtremesAre
<1>3. /\ q.lowSec = sec(q.low)
      /\ q.upLow # NoSeq => q.upSec = sec(q.upLow)
  BY <1>2 DEF ExtremesOf, NumbersOf
<1>4. LowestSeq(q) \in ns /\ OldestSec(q) = sec(LowestSeq(q))
  BY <1>2, <1>3 DEF LowestSeq, OldestSec, Wrapping
<1>5. <<LowestSeq(q), OldestSec(q)>> \in S
  BY <1>1, <1>4
<1>6. ASSUME NEW x \in S
      PROVE  NotOlder(x[1], LowestSeq(q))
  <2>1. x[1] \in ns
    BY DEF NumbersOf
  <2>2. PICK z \in S : z[1] = LowestSeq(q)
    BY <1>4, InNumbers
  <2>3. Unmask(q, x[1]) >= Unmask(q, LowestSeq(q))
    <3>1. CASE ~Wrapping(q)
      BY <1>2, <2>1, <3>1 DEF Unmask, LowestSeq
    <3>2. CASE Wrapping(q)
      <4>1. LowestSeq(q) = q.upLow /\ q.upLow \in ns /\ InUpperHalf(q.upLow)
        BY <1>2, <3>2 DEF LowestSeq, Wrapping
      <4>2. Unmask(q, q.upLow) = q.upLow
        BY <1>2, <4>1, Halves DEF Unmask
      <4>3. CASE InLowerHalf(x[1])
        BY <1>2, <2>1, <3>2, <4>1, <4>2, <4>3, SeqAssumption DEF Unmask, Numbers
      <4>4. CASE InUpperHalf(x[1])
        <5>1. Unmask(q, x[1]) = x[1]
          BY <1>2, <2>1, <4>4, Halves DEF Unmask
        <5>2. q.upLow <= x[1]
          BY <1>2, <2>1, <3>2, <4>4 DEF Wrapping
        <5>3. q.upLow \in Int /\ x[1] \in Int
          BY <1>2, <2>1, <4>1 DEF Numbers
        <5> HIDE DEF q
        <5> QED BY <4>1, <4>2, <5>1, <5>2, <5>3
      <4> QED BY <1>2, <2>1, <4>3, <4>4, Halves
    <3> QED BY <3>1, <3>2
  <2> QED BY <2>2, <2>3, NewerAsTheFlashSays
<1> QED BY <1>5, <1>6

-----------------------------------------------------------------------------
(* One record more.                                                        *)
LEMMA MinOfOneMore ==
  ASSUME NEW T \in SUBSET Nat, T # {}, NEW n \in Nat
  PROVE  Min(T \cup {n}) = IF n < Min(T) THEN n ELSE Min(T)
<1> DEFINE a == Min(T)
           c == Min(T \cup {n})
<1>1. a \in T /\ a \in Nat /\ \A y \in T : y \in Nat /\ a <= y
  BY MinIs
<1>2. c \in T \cup {n} /\ c \in Nat /\ \A y \in T \cup {n} : c <= y
  BY MinIs
<1> HIDE DEF a, c
<1>3. c <= a /\ c <= n /\ (c = n \/ a <= c)
  BY <1>1, <1>2
<1>4. c = IF n < a THEN n ELSE a
  BY <1>1, <1>2, <1>3
<1> QED BY <1>4 DEF a, c

LEMMA MaxOfOneMore ==
  ASSUME NEW T \in SUBSET Numbers, T # {}, NEW n \in Numbers
  PROVE  Max(T \cup {n}) = IF n > Max(T) THEN n ELSE Max(T)
<1> DEFINE a == Max(T)
           c == Max(T \cup {n})
           U == T \cup {n}
<1>1. a \in T /\ \A y \in T : a >= y
  BY MaxIs
<1>2. c \in U /\ \A y \in U : c >= y
  <2>1. U \in SUBSET Numbers /\ U # {}
    OBVIOUS
  <2> QED BY <2>1, MaxIs
<1>5. a \in Int /\ c \in Int /\ n \in Int
  <2>1. a \in Numbers /\ c \in Numbers
    BY <1>1, <1>2
  <2> HIDE DEF a, c
  <2> QED BY <2>1 DEF Numbers
<1> HIDE DEF a, c
<1>3. c >= a /\ c >= n /\ (c = n \/ a >= c)
  BY <1>1, <1>2
<1>4. c = IF n > a THEN n ELSE a
  BY <1>3, <1>5
<1> QED BY <1>4 DEF a, c

LEMMA OneElement ==
  ASSUME NEW n \in Numbers
  PROVE  Min({n}) = n /\ Max({n}) = n
BY MinIs, MaxIs, SeqAssumption DEF Numbers

LEMMA SectorsOfOneMore ==
  ASSUME NEW S \in SUBSET (Numbers \X Nat), NEW n \in Numbers, NEW sec \in Nat,
         n \notin NumbersOf(S)
  PROVE  LET of(T, m) == {x[2] : x \in {y \in T : y[1] = m}}
             U == S \cup {<<n, sec>>}
         IN  /\ of(U, n) = {sec}
             /\ \A m \in NumbersOf(S) : of(U, m) = of(S, m)
             /\ {x[1] : x \in U} = NumbersOf(S) \cup {n}
<1> DEFINE of(T, m) == {x[2] : x \in {y \in T : y[1] = m}}
           U == S \cup {<<n, sec>>}
<1>1. {y \in U : y[1] = n} = {<<n, sec>>}
  BY DEF NumbersOf
<1>2. of(U, n) = {sec}
  <2>1. of(U, n) = {x[2] : x \in {<<n, sec>>}}
    BY <1>1
  <2> QED BY <2>1
<1>3. \A m \in NumbersOf(S) : of(U, m) = of(S, m)
  <2> SUFFICES ASSUME NEW m \in NumbersOf(S) PROVE of(U, m) = of(S, m)
    OBVIOUS
  <2>1. {y \in U : y[1] = m} = {y \in S : y[1] = m}
    OBVIOUS
  <2> QED BY <2>1
<1>4. {x[1] : x \in U} = NumbersOf(S) \cup {n}
  <2>1. <<n, sec>> \in U /\ <<n, sec>>[1] = n
    OBVIOUS
  <2>2. \A x \in U : x \in S \/ x[1] = n
    OBVIOUS
  <2>3. \A x \in S : x \in U
    OBVIOUS
  <2>4. {x[1] : x \in U} \subseteq NumbersOf(S) \cup {n}
    BY <2>2 DEF NumbersOf
  <2> HIDE DEF U
  <2>5. NumbersOf(S) \cup {n} \subseteq {x[1] : x \in U}
    BY <2>1, <2>3 DEF NumbersOf
  <2> QED BY <2>4, <2>5
<1> QED BY <1>2, <1>3, <1>4

(* The extremes that are updated with each new record are those that a     *)
(* walk over the pool finds (Nvm_Pool_SeqNum_RegisterSeqNum), also for the *)
(* first record, where the highest starts as 1 and the others as invalid.  *)
THEOREM KeptAsRecomputed ==
  ASSUME NEW S \in SUBSET (Numbers \X Nat), NEW n \in Numbers, NEW sec \in Nat,
         n \notin NumbersOf(S)
  PROVE  Register(ExtremesOf(S), n, sec) = ExtremesOf(S \cup {<<n, sec>>})
<1> DEFINE of(T, m) == {x[2] : x \in {y \in T : y[1] = m}}
           U  == S \cup {<<n, sec>>}
           ns == NumbersOf(S)
           us == ns \cup {n}
           up == {m \in ns : InUpperHalf(m)}
           lo == {m \in ns : InLowerHalf(m)}
           q  == ExtremesOf(S)
           e  == ExtremesOf(U)
           r  == Register(q, n, sec)
<1>1. /\ of(U, n) = {sec} /\ {x[1] : x \in U} = us
      /\ \A m \in ns : of(U, m) = of(S, m)
  BY SectorsOfOneMore
<1>2. ns \in SUBSET Numbers /\ us \in SUBSET Numbers /\ us # {} /\ n \in us
  BY DEF NumbersOf
<1>3. /\ Numbers \in SUBSET Nat /\ 1 \in Numbers /\ n \in Nat /\ n < NoSeq /\ NoSeq \in Nat
      /\ \A m \in Numbers : m # NoSeq /\ m < NoSeq
  BY SeqAssumption DEF Numbers, NoSeq
<1>4. q = [high   |-> Max(ns \cup {1}),
           low    |-> IF ns = {} THEN NoSeq ELSE Min(ns),
           lowSec |-> IF ns = {} THEN 0 ELSE Min(of(S, Min(ns))),
           upLow  |-> IF up = {} THEN NoSeq ELSE Min(up),
           upSec  |-> IF up = {} THEN 0 ELSE Min(of(S, Min(up))),
           loHigh |-> IF lo = {} THEN NoSeq ELSE Max(lo)]
  BY DEF ExtremesOf, NumbersOf, NoExtremes
<1> DEFINE uup == {m \in us : InUpperHalf(m)}
           ulo == {m \in us : InLowerHalf(m)}
<1>5. e = [high   |-> Max(us \cup {1}),
           low    |-> Min(us),
           lowSec |-> Min(of(U, Min(us))),
           upLow  |-> IF uup = {} THEN NoSeq ELSE Min(uup),
           upSec  |-> IF uup = {} THEN 0 ELSE Min(of(U, Min(uup))),
           loHigh |-> IF ulo = {} THEN NoSeq ELSE Max(ulo)]
  BY <1>1, <1>2 DEF ExtremesOf, NoExtremes
<1>6. /\ uup = IF InUpperHalf(n) THEN up \cup {n} ELSE up
      /\ ulo = IF InLowerHalf(n) THEN lo \cup {n} ELSE lo
  OBVIOUS
<1>7. Min(of(U, n)) = sec
  <2>1. \A T \in SUBSET Nat : T # {} => Min(T) \in T
    BY MinIs
  <2> QED BY <1>1, <2>1
<1>8. /\ r.high   = IF n > q.high \/ q.high = NoSeq THEN n ELSE q.high
      /\ r.low    = IF n < q.low \/ q.low = NoSeq THEN n ELSE q.low
      /\ r.lowSec = IF n < q.low \/ q.low = NoSeq THEN sec ELSE q.lowSec
      /\ r.upLow  = IF InUpperHalf(n) /\ (n < q.upLow \/ q.upLow = NoSeq) THEN n ELSE q.upLow
      /\ r.upSec  = IF InUpperHalf(n) /\ (n < q.upLow \/ q.upLow = NoSeq) THEN sec ELSE q.upSec
      /\ r.loHigh = IF InLowerHalf(n) /\ (n > q.loHigh \/ q.loHigh = NoSeq)
                    THEN n ELSE q.loHigh
  BY DEF Register
<1>9. /\ r = [high |-> r.high, low |-> r.low, lowSec |-> r.lowSec, upLow |-> r.upLow,
              upSec |-> r.upSec, loHigh |-> r.loHigh]
      /\ e = [high |-> e.high, low |-> e.low, lowSec |-> e.lowSec, upLow |-> e.upLow,
              upSec |-> e.upSec, loHigh |-> e.loHigh]
  BY <1>5 DEF Register
<1>10. up \in SUBSET Numbers /\ lo \in SUBSET Numbers
  BY <1>2
<1> HIDE DEF of, U, ns, q, e, r, up, lo, uup, ulo
<1>11. r.high = e.high
  <2> DEFINE T == ns \cup {1}
  <2>1. T \in SUBSET Numbers /\ T # {} /\ us \cup {1} = T \cup {n}
    BY <1>2, <1>3
  <2>2. Max(T) \in Numbers
    BY <2>1, MaxIs
  <2>3. Max(T \cup {n}) = IF n > Max(T) THEN n ELSE Max(T)
    BY <2>1, MaxOfOneMore
  <2> QED BY <1>3, <1>4, <1>5, <1>8, <2>1, <2>2, <2>3
<1>12. r.low = e.low /\ r.lowSec = e.lowSec
  <2>1. CASE ns = {}
    <3>1. Min(us) = n
      BY <2>1, OneElement
    <3> QED BY <1>3, <1>4, <1>5, <1>7, <1>8, <2>1, <3>1
  <2>2. CASE ns # {}
    <3>1. Min(ns) \in ns /\ Min(ns) \in Numbers
      BY <1>2, <1>3, <2>2, MinIs
    <3>2. Min(us) = IF n < Min(ns) THEN n ELSE Min(ns)
      BY <1>2, <1>3, <2>2, MinOfOneMore
    <3> QED BY <1>1, <1>3, <1>4, <1>5, <1>7, <1>8, <2>2, <3>1, <3>2
  <2> QED BY <2>1, <2>2
<1>13. r.upLow = e.upLow /\ r.upSec = e.upSec
  <2>1. CASE ~InUpperHalf(n)
    <3>1. uup = up
      BY <1>6, <2>1
    <3>2. up # {} => Min(up) \in ns
      <4>1. up \in SUBSET Nat
        BY <1>3, <1>10
      <4> QED BY <4>1, MinIs DEF up
    <3> QED BY <1>1, <1>4, <1>5, <1>8, <2>1, <3>1, <3>2
  <2>2. CASE InUpperHalf(n) /\ up = {}
    <3>1. uup = {n}
      BY <1>6, <2>2
    <3>2. Min(uup) = n /\ uup # {}
      BY <3>1, OneElement
    <3> QED BY <1>4, <1>5, <1>7, <1>8, <2>2, <3>2
  <2>3. CASE InUpperHalf(n) /\ up # {}
    <3>1. uup = up \cup {n} /\ uup # {} /\ up \in SUBSET Nat
      BY <1>3, <1>6, <1>10, <2>3
    <3>2. Min(up) \in up
      BY <2>3, <3>1, MinIs
    <3>3. Min(up) \in ns /\ Min(up) \in Numbers
      BY <1>10, <3>2 DEF up
    <3>4. Min(uup) = IF n < Min(up) THEN n ELSE Min(up)
      BY <1>3, <2>3, <3>1, MinOfOneMore
    <3> QED BY <1>1, <1>3, <1>4, <1>5, <1>7, <1>8, <2>3, <3>1, <3>3, <3>4
  <2> QED BY <2>1, <2>2, <2>3
<1>14. r.loHigh = e.loHigh
  <2>1. CASE ~InLowerHalf(n)
    BY <1>4, <1>5, <1>6, <1>8, <2>1
  <2>2. CASE InLowerHalf(n) /\ lo = {}
    <3>1. ulo = {n}
      BY <1>6, <2>2
    <3>2. Max(ulo) = n /\ ulo # {}
      BY <3>1, OneElement
    <3> QED BY <1>4, <1>5, <1>8, <2>2, <3>2
  <2>3. CASE InLowerHalf(n) /\ lo # {}
    <3>1. ulo = lo \cup {n} /\ ulo # {}
      BY <1>6, <2>3
    <3>2. Max(lo) \in Numbers
      BY <1>10, <2>3, MaxIs
    <3>3. Max(ulo) = IF n > Max(lo) THEN n ELSE Max(lo)
      BY <1>10, <2>3, <3>1, MaxOfOneMore
    <3> QED BY <1>3, <1>4, <1>5, <1>8, <2>3, <3>1, <3>2, <3>3
  <2> QED BY <2>1, <2>2, <2>3
<1>15. r = e
  BY <1>9, <1>11, <1>12, <1>13, <1>14
<1> QED BY <1>15 DEF r, e, q, U

-----------------------------------------------------------------------------
(* One more number and the order is lost: with the oldest record just      *)
(* below the upper quarter the wrap is not recognised, and the newest      *)
(* record counts as the older one.                                         *)
THEOREM SpreadIsSharp ==
  LET b == (3 * SeqMax) \div 4
      S == {<<b, 0>>, <<0, 1>>}
      q == ExtremesOf(S)
  IN  /\ Window(S, b, MaxSpread + 2)
      /\ NotOlder(0, b) /\ Unmask(q, 0) < Unmask(q, b)
<1> DEFINE b == (3 * SeqMax) \div 4
           S == {<<b, 0>>, <<0, 1>>}
           q == ExtremesOf(S)
<1>1. PICK k \in Nat : /\ k >= 1 /\ SeqMax = 4 * k + 3
                       /\ SeqMax \div 2 = 2 * k + 1
                       /\ MaxSpread = k /\ b = 3 * k + 2
  BY Quarters DEF MaxSpread
<1>2. Window(S, b, MaxSpread + 2)
  <2>1. Past(b, b) = 0 /\ Past(b, 0) = k + 2
    BY <1>1 DEF Past
  <2> QED BY <1>1, <2>1 DEF Window
<1>3. NotOlder(0, b)
  <2> DEFINE M == SeqMax + 1
  <2>1. \A e \in -SeqMax .. -1 : e % M = e + M
    BY SeqAssumption
  <2> HIDE DEF M, b
  <2>2. 0 - b \in -SeqMax .. -1 /\ M = 4 * k + 4
    BY <1>1 DEF M
  <2>3. (0 - b) % M = (0 - b) + M
    BY <2>1, <2>2
  <2>4. (0 - b) % M = k + 2
    BY <1>1, <2>2, <2>3
  <2>5. k + 2 <= SeqMax \div 2
    BY <1>1
  <2> QED BY <2>4, <2>5 DEF NotOlder, M
<1>4. S \in SUBSET (Numbers \X Nat) /\ S # {} /\ NumbersOf(S) = {b, 0}
  BY <1>1 DEF Numbers, NumbersOf
<1>5. ~Wrapping(q)
  <2>1. b \in NumbersOf(S) /\ InUpperHalf(b) /\ ~InUpperHalf(0)
    <3> HIDE DEF b, S
    <3> QED BY <1>1, <1>4 DEF InUpperHalf
  <2>2. q.upLow = b
    BY <1>4, <2>1, ExtremesAre
  <2>3. ~InUpperQuarter(b)
    BY <1>1 DEF InUpperQuarter
  <2> QED BY <2>2, <2>3 DEF Wrapping
<1>6. Unmask(q, 0) = 0 /\ Unmask(q, b) = b /\ 0 < b
  BY <1>1, <1>5 DEF Unmask
<1> QED BY <1>2, <1>3, <1>6
-----------------------------------------------------------------------------
(***************************************************************************)
(* The units that records take. A fold over a set of places is what        *)
(* removing them one by one adds up to; that no place is left out or       *)
(* counted twice is shown by a least number of places for which it would   *)
(* fail.                                                                   *)
(***************************************************************************)

(* The units that the records at places D of rs take.                      *)
Total(rs, D) == MapThenSumSet(LAMBDA i : SizeOf(rs[i].val), D)

Pick(s) == CHOOSE x \in s : TRUE

Sums(rs, D, it) ==
  it = [s \in SUBSET D |-> IF s = {} THEN 0 ELSE SizeOf(rs[Pick(s)].val) + it[s \ {Pick(s)}]]

Sized(rs, D) == \A i \in D : SizeOf(rs[i].val) \in Nat

(* Sums of the sets of up to n elements.                                   *)
SumsTo(rs, D, n, it) ==
  /\ it \in [SUBSET D -> Nat]
  /\ \A s \in SUBSET D : Cardinality(s) <= n =>
       it[s] = IF s = {} THEN 0 ELSE SizeOf(rs[Pick(s)].val) + it[s \ {Pick(s)}]

LEMMA SubsetSmaller ==
  ASSUME NEW D, IsFiniteSet(D), NEW s \in SUBSET D
  PROVE  /\ Cardinality(s) \in Nat /\ IsFiniteSet(s)
         /\ s # {} => Cardinality(s) > 0
         /\ \A x \in s : s \ {x} \in SUBSET D /\ Cardinality(s \ {x}) = Cardinality(s) - 1
<1>1. IsFiniteSet(s) /\ Cardinality(s) \in Nat
  BY FS_Subset, FS_CardinalityType
<1>2. s # {} => Cardinality(s) # 0
  BY <1>1, FS_EmptySet
<1>3. \A x \in s : Cardinality(s \ {x}) = Cardinality(s) - 1
  BY <1>1, FS_RemoveElement
<1> QED BY <1>1, <1>2, <1>3

LEMMA SumsUpTo ==
  ASSUME NEW rs, NEW D, IsFiniteSet(D), Sized(rs, D), NEW n \in Nat
  PROVE  \E it : SumsTo(rs, D, n, it)
<1> DEFINE Bad == {k \in Nat : ~\E it : SumsTo(rs, D, k, it)}
<1> SUFFICES ASSUME Bad # {} PROVE FALSE
  OBVIOUS
<1>1. PICK k \in Bad : \A j \in Bad : k <= j
  BY MinExists
<1>2. k # 0
  <2> DEFINE it == [s \in SUBSET D |-> 0]
  <2>1. SumsTo(rs, D, 0, it)
    <3>1. \A s \in SUBSET D : Cardinality(s) <= 0 => s = {}
      BY SubsetSmaller
    <3> QED BY <3>1 DEF SumsTo
  <2> QED BY <2>1
<1>3. PICK it : SumsTo(rs, D, k - 1, it)
  BY <1>1, <1>2
<1> DEFINE jt == [s \in SUBSET D |-> IF Cardinality(s) < k THEN it[s]
                    ELSE IF s = {} THEN 0 ELSE SizeOf(rs[Pick(s)].val) + it[s \ {Pick(s)}]]
<1>4. \A s \in SUBSET D : s # {} => Pick(s) \in s
  BY DEF Pick
<1>5. \A s \in SUBSET D : it[s] \in Nat
  BY <1>3 DEF SumsTo
<1>6. jt \in [SUBSET D -> Nat]
  <2> SUFFICES ASSUME NEW s \in SUBSET D PROVE jt[s] \in Nat
    OBVIOUS
  <2>1. CASE s = {} \/ Cardinality(s) < k
    BY <1>5, <2>1
  <2>2. CASE s # {} /\ ~(Cardinality(s) < k)
    <3>1. SizeOf(rs[Pick(s)].val) \in Nat /\ it[s \ {Pick(s)}] \in Nat
      BY <1>4, <1>5, <2>2 DEF Sized
    <3>2. jt[s] = SizeOf(rs[Pick(s)].val) + it[s \ {Pick(s)}]
      BY <2>2
    <3> HIDE DEF jt
    <3> QED BY <3>1, <3>2
  <2> QED BY <2>1, <2>2
<1>7. \A s \in SUBSET D : Cardinality(s) <= k =>
        jt[s] = IF s = {} THEN 0 ELSE SizeOf(rs[Pick(s)].val) + jt[s \ {Pick(s)}]
  <2>0. jt[{}] = 0
    <3>1. Cardinality({}) < k /\ it[{}] = 0
      BY <1>1, <1>2, <1>3, FS_EmptySet DEF SumsTo
    <3> QED BY <3>1
  <2> SUFFICES ASSUME NEW s \in SUBSET D, Cardinality(s) <= k, s # {}
               PROVE  jt[s] = SizeOf(rs[Pick(s)].val) + jt[s \ {Pick(s)}]
    BY <2>0
  <2> DEFINE t == s \ {Pick(s)}
  <2>1. Pick(s) \in s
    BY <1>4
  <2>2. t \in SUBSET D /\ Cardinality(t) = Cardinality(s) - 1 /\ Cardinality(s) \in Nat
    BY <2>1, SubsetSmaller
  <2>3. jt[t] = it[t]
    BY <2>2, <1>1
  <2>4. CASE Cardinality(s) < k
    <3>1. Cardinality(s) <= k - 1
      BY <2>2, <2>4, <1>1
    <3>2. it[s] = SizeOf(rs[Pick(s)].val) + it[t]
      BY <1>3, <3>1 DEF SumsTo
    <3> QED BY <2>3, <2>4, <3>2
  <2>5. CASE Cardinality(s) = k
    <3>1. jt[s] = SizeOf(rs[Pick(s)].val) + it[t]
      BY <2>2, <2>5
    <3> QED BY <2>3, <3>1
  <2> QED BY <2>2, <2>4, <2>5, <1>1
<1>8. SumsTo(rs, D, k, jt)
  BY <1>6, <1>7 DEF SumsTo
<1> QED BY <1>1, <1>8

LEMMA SumsExist ==
  ASSUME NEW rs, NEW D, IsFiniteSet(D), Sized(rs, D)
  PROVE  \E it \in [SUBSET D -> Nat] : Sums(rs, D, it) /\ Total(rs, D) = it[D]
<1>1. Cardinality(D) \in Nat
  BY FS_CardinalityType
<1>2. PICK jt : SumsTo(rs, D, Cardinality(D), jt)
  BY <1>1, SumsUpTo
<1>3. Sums(rs, D, jt)
  <2>1. \A s \in SUBSET D : Cardinality(s) <= Cardinality(D)
    BY FS_Subset
  <2> QED BY <1>2, <2>1 DEF SumsTo, Sums
<1> DEFINE it == CHOOSE it : Sums(rs, D, it)
<1>4. Sums(rs, D, it)
  BY <1>3
<1>5. Total(rs, D) = it[D]
  BY DEF Total, MapThenSumSet, MapThenFoldSet, Sums, Pick
<1> HIDE DEF it
<1>6. it \in [SUBSET D -> Nat]
  <2> DEFINE Bad == {n \in Nat : \E s \in SUBSET D : Cardinality(s) = n /\ it[s] \notin Nat}
  <2>1. ASSUME Bad # {} PROVE FALSE
    <3>1. PICK n \in Bad : \A j \in Bad : n <= j
      BY <2>1, MinExists
    <3>2. PICK s \in SUBSET D : Cardinality(s) = n /\ it[s] \notin Nat
      BY <3>1
    <3>3. it[s] = IF s = {} THEN 0 ELSE SizeOf(rs[Pick(s)].val) + it[s \ {Pick(s)}]
      BY <1>4 DEF Sums
    <3>4. s # {} /\ Pick(s) \in s
      BY <3>2, <3>3 DEF Pick
    <3>5. s \ {Pick(s)} \in SUBSET D /\ Cardinality(s \ {Pick(s)}) = n - 1 /\ n - 1 \in Nat
      BY <3>2, <3>4, SubsetSmaller
    <3>6. it[s \ {Pick(s)}] \in Nat
      BY <3>1, <3>5
    <3> QED BY <3>2, <3>3, <3>4, <3>6 DEF Sized
  <2>2. \A s \in SUBSET D : it[s] \in Nat
    BY <2>1, SubsetSmaller
  <2> QED BY <1>4, <2>2 DEF Sums
<1> QED BY <1>4, <1>5, <1>6

Summing(rs, D, it) ==
  /\ IsFiniteSet(D) /\ Sized(rs, D)
  /\ it \in [SUBSET D -> Nat] /\ Sums(rs, D, it)

(* Any element may be taken first.                                         *)
LEMMA SumsAnyFirst ==
  ASSUME NEW rs, NEW D, NEW it, Summing(rs, D, it), NEW s \in SUBSET D, NEW x \in s
  PROVE  it[s] = SizeOf(rs[x].val) + it[s \ {x}]
<1> USE DEF Summing
<1> DEFINE Ok(u, y) == it[u] = SizeOf(rs[y].val) + it[u \ {y}]
           Bad == {n \in Nat : \E u \in SUBSET D : \E y \in u : Cardinality(u) = n /\ ~Ok(u, y)}
<1> SUFFICES Bad = {}
  <2>1. Cardinality(s) \in Nat
    BY SubsetSmaller
  <2> QED BY <2>1
<1> SUFFICES ASSUME Bad # {} PROVE FALSE
  OBVIOUS
<1>1. PICK n \in Bad : \A j \in Bad : n <= j
  BY MinExists
<1>2. PICK u \in SUBSET D : \E y \in u : Cardinality(u) = n /\ ~Ok(u, y)
  BY <1>1
<1>3. PICK y \in u : Cardinality(u) = n /\ ~Ok(u, y)
  BY <1>2
<1> DEFINE z == Pick(u)
<1>4. z \in u
  BY DEF Pick
<1>5. it[u] = SizeOf(rs[z].val) + it[u \ {z}]
  BY <1>4 DEF Sums
<1> HIDE DEF z
<1>6. z # y
  BY <1>3, <1>5
<1>7. /\ u \ {z} \in SUBSET D /\ Cardinality(u \ {z}) = n - 1
      /\ u \ {y} \in SUBSET D /\ Cardinality(u \ {y}) = n - 1 /\ n - 1 \in Nat
      /\ (u \ {z}) \ {y} \in SUBSET D
  BY <1>3, <1>4, SubsetSmaller
<1>8. \A v \in SUBSET D : \A w \in v : Cardinality(v) = n - 1 => Ok(v, w)
  <2>1. n \in Nat /\ ~(n <= n - 1)
    BY <1>1, <1>7
  <2>2. n - 1 \notin Bad
    BY <1>1, <2>1
  <2> QED BY <1>7, <2>2
<1>9. y \in u \ {z} /\ z \in u \ {y}
  BY <1>3, <1>4, <1>6
<1>10. it[u \ {z}] = SizeOf(rs[y].val) + it[(u \ {z}) \ {y}]
  BY <1>7, <1>8, <1>9
<1>11. it[u \ {y}] = SizeOf(rs[z].val) + it[(u \ {y}) \ {z}]
  BY <1>7, <1>8, <1>9
<1>12. (u \ {y}) \ {z} = (u \ {z}) \ {y}
  OBVIOUS
<1>13. SizeOf(rs[y].val) \in Nat /\ SizeOf(rs[z].val) \in Nat /\ it[(u \ {z}) \ {y}] \in Nat
  BY <1>3, <1>4, <1>7 DEF Sized
<1> DEFINE a == SizeOf(rs[y].val)
           b == SizeOf(rs[z].val)
           c == it[(u \ {z}) \ {y}]
<1>14. it[u] = b + (a + c) /\ it[u \ {y}] = b + c
  BY <1>5, <1>10, <1>11, <1>12
<1>15. a \in Nat /\ b \in Nat /\ c \in Nat
  BY <1>13
<1> HIDE DEF a, b, c
<1>16. it[u] = a + it[u \ {y}]
  BY <1>14, <1>15
<1> QED BY <1>3, <1>16 DEF a

(* Sums over equal payloads are equal.                                     *)
LEMMA SumsAgree ==
  ASSUME NEW rs, NEW qs, NEW D, NEW E, IsFiniteSet(D), D \subseteq E,
         \A i \in D : rs[i].val = qs[i].val,
         NEW it, NEW jt, Sums(rs, D, it), Sums(qs, E, jt)
  PROVE  it[D] = jt[D]
<1> DEFINE Bad == {n \in Nat : \E s \in SUBSET D : Cardinality(s) = n /\ it[s] # jt[s]}
<1> SUFFICES Bad = {}
  BY SubsetSmaller
<1> SUFFICES ASSUME Bad # {} PROVE FALSE
  OBVIOUS
<1>1. PICK n \in Bad : \A j \in Bad : n <= j
  BY MinExists
<1>2. PICK s \in SUBSET D : Cardinality(s) = n /\ it[s] # jt[s]
  BY <1>1
<1>3. s \in SUBSET E
  OBVIOUS
<1>4. /\ it[s] = IF s = {} THEN 0 ELSE SizeOf(rs[Pick(s)].val) + it[s \ {Pick(s)}]
      /\ jt[s] = IF s = {} THEN 0 ELSE SizeOf(qs[Pick(s)].val) + jt[s \ {Pick(s)}]
  BY <1>3 DEF Sums
<1>5. s # {} /\ Pick(s) \in s
  BY <1>2, <1>4 DEF Pick
<1>6. s \ {Pick(s)} \in SUBSET D /\ Cardinality(s \ {Pick(s)}) = n - 1 /\ n - 1 \in Nat
  BY <1>2, <1>5, SubsetSmaller
<1>7. it[s \ {Pick(s)}] = jt[s \ {Pick(s)}]
  BY <1>1, <1>6
<1> QED BY <1>2, <1>4, <1>5, <1>7

LEMMA TotalIs ==
  ASSUME NEW rs, NEW D, IsFiniteSet(D), Sized(rs, D)
  PROVE  Total(rs, D) \in Nat
<1>1. PICK it \in [SUBSET D -> Nat] : Sums(rs, D, it) /\ Total(rs, D) = it[D]
  BY SumsExist
<1> QED BY <1>1

LEMMA TotalEmpty ==
  ASSUME NEW rs PROVE Total(rs, {}) = 0
<1>1. IsFiniteSet({}) /\ Sized(rs, {})
  BY FS_EmptySet DEF Sized
<1>2. PICK it \in [SUBSET {} -> Nat] : Sums(rs, {}, it) /\ Total(rs, {}) = it[{}]
  BY <1>1, SumsExist
<1> QED BY <1>2 DEF Sums

LEMMA TotalAgree ==
  ASSUME NEW rs, NEW qs, NEW D, IsFiniteSet(D), Sized(rs, D),
         \A i \in D : rs[i].val = qs[i].val
  PROVE  Total(rs, D) = Total(qs, D)
<1>1. Sized(qs, D)
  BY DEF Sized
<1>2. PICK it \in [SUBSET D -> Nat] : Sums(rs, D, it) /\ Total(rs, D) = it[D]
  BY SumsExist
<1>3. PICK jt \in [SUBSET D -> Nat] : Sums(qs, D, jt) /\ Total(qs, D) = jt[D]
  BY <1>1, SumsExist
<1> QED BY <1>2, <1>3, SumsAgree

LEMMA TotalOneMore ==
  ASSUME NEW rs, NEW D, NEW x, IsFiniteSet(D), x \notin D, Sized(rs, D \cup {x})
  PROVE  Total(rs, D \cup {x}) = Total(rs, D) + SizeOf(rs[x].val)
<1> DEFINE E == D \cup {x}
<1>1. IsFiniteSet(E) /\ Sized(rs, D) /\ x \in E /\ E \ {x} = D /\ E \in SUBSET E
  BY FS_AddElement DEF Sized
<1> HIDE DEF E
<1>2. Sized(rs, E)
  BY DEF E
<1>3. PICK it \in [SUBSET D -> Nat] : Sums(rs, D, it) /\ Total(rs, D) = it[D]
  BY <1>1, SumsExist
<1>4. PICK jt \in [SUBSET E -> Nat] : Sums(rs, E, jt) /\ Total(rs, E) = jt[E]
  BY <1>1, <1>2, SumsExist
<1>5. jt[E] = SizeOf(rs[x].val) + jt[D]
  <2>1. jt[E] = SizeOf(rs[x].val) + jt[E \ {x}]
    <3>1. Summing(rs, E, jt)
      BY <1>1, <1>2, <1>4 DEF Summing
    <3> QED BY <1>1, <3>1, SumsAnyFirst
  <2> QED BY <1>1, <2>1
<1>6. it[D] = jt[D]
  <2>1. D \subseteq E
    BY <1>1
  <2> QED BY <1>3, <1>4, <2>1, SumsAgree
<1>7. it[D] \in Nat /\ SizeOf(rs[x].val) \in Nat
  BY <1>1, <1>2, <1>3 DEF Sized
<1> QED BY <1>3, <1>4, <1>5, <1>6, <1>7 DEF E

-----------------------------------------------------------------------------
(* What the records of a page take.                                        *)

LEMMA SizeIs ==
  ASSUME NEW v \in Payloads
  PROVE  SizeOf(v) \in Nat \ {0} /\ SizeOf(v) <= PageSize
BY NvmAssumption DEF SizeOf, Payloads

LEMMA RecordsAreSized ==
  ASSUME NEW rs \in Seq(Record)
  PROVE  /\ IsFiniteSet(DOMAIN rs) /\ DOMAIN rs = 1 .. Len(rs) /\ Len(rs) \in Nat
         /\ \A i \in DOMAIN rs : rs[i] \in Record
         /\ \A D \in SUBSET DOMAIN rs : IsFiniteSet(D) /\ Sized(rs, D)
<1>1. DOMAIN rs = 1 .. Len(rs) /\ Len(rs) \in Nat
  OBVIOUS
<1>2. IsFiniteSet(DOMAIN rs)
  BY <1>1, FS_Interval
<1>3. \A i \in DOMAIN rs : rs[i] \in Record
  BY <1>1
<1>4. \A i \in DOMAIN rs : rs[i].val \in Payloads
  BY <1>3 DEF Record
<1>5. \A D \in SUBSET DOMAIN rs : IsFiniteSet(D) /\ Sized(rs, D)
  BY <1>2, <1>4, SizeIs, FS_Subset DEF Sized
<1> QED BY <1>1, <1>2, <1>3, <1>5

LEMMA UsedIsTotal ==
  ASSUME NEW rs PROVE UsedOf(rs) = Total(rs, DOMAIN rs)
BY DEF UsedOf, Total

LEMMA UsedIs ==
  ASSUME NEW rs \in Seq(Record)
  PROVE  UsedOf(rs) \in Nat
BY UsedIsTotal, RecordsAreSized, TotalIs

LEMMA UsedEmpty == UsedOf(<<>>) = 0
<1>1. DOMAIN <<>> = {}
  OBVIOUS
<1> QED BY <1>1, UsedIsTotal, TotalEmpty

LEMMA UsedAppend ==
  ASSUME NEW rs \in Seq(Record), NEW r \in Record
  PROVE  UsedOf(Append(rs, r)) = UsedOf(rs) + SizeOf(r.val)
<1> DEFINE n  == Len(rs) + 1
           qs == Append(rs, r)
<1>1. /\ qs \in Seq(Record) /\ DOMAIN qs = DOMAIN rs \cup {n} /\ n \notin DOMAIN rs
      /\ qs[n] = r /\ \A i \in DOMAIN rs : qs[i] = rs[i]
  OBVIOUS
<1> HIDE DEF qs, n
<1>2. IsFiniteSet(DOMAIN rs) /\ Sized(rs, DOMAIN rs) /\ Sized(qs, DOMAIN qs)
  BY <1>1, RecordsAreSized
<1>3. Total(qs, DOMAIN rs) = Total(rs, DOMAIN rs)
  BY <1>1, <1>2, TotalAgree
<1>4. Total(qs, DOMAIN qs) = Total(qs, DOMAIN rs) + SizeOf(qs[n].val)
  BY <1>1, <1>2, TotalOneMore
<1> QED BY <1>1, <1>3, <1>4, UsedIsTotal DEF qs

(* A page takes no less than its first records do.                         *)
LEMMA UsedPrefix ==
  ASSUME NEW rs \in Seq(Record), NEW n \in 0 .. Len(rs)
  PROVE  Total(rs, 1 .. n) <= UsedOf(rs)
<1> DEFINE N == Len(rs)
           Bad == {k \in Nat : n <= k /\ k <= N /\ ~(Total(rs, 1 .. n) <= Total(rs, 1 .. k))}
<1>1. DOMAIN rs = 1 .. N /\ N \in Nat
  OBVIOUS
<1>2. \A k \in 0 .. N : IsFiniteSet(1 .. k) /\ Sized(rs, 1 .. k) /\ Total(rs, 1 .. k) \in Nat
  <2> TAKE k \in 0 .. N
  <2>1. 1 .. k \in SUBSET DOMAIN rs
    BY <1>1
  <2> QED BY <2>1, RecordsAreSized, TotalIs
<1> HIDE DEF N
<1>3. Bad = {}
  <2> SUFFICES ASSUME Bad # {} PROVE FALSE
    OBVIOUS
  <2>1. PICK k \in Bad : \A j \in Bad : k <= j
    BY MinExists
  <2>2. k # n /\ k - 1 \in Nat /\ n <= k - 1 /\ k - 1 <= N /\ n \in 0 .. N
    BY <1>1, <1>2, <2>1 DEF N
  <2>3. Total(rs, 1 .. n) <= Total(rs, 1 .. (k - 1))
    <3>1. ~(k <= k - 1)
      BY <2>1
    <3> QED BY <2>1, <2>2, <3>1
  <2>4. 1 .. k = (1 .. (k - 1)) \cup {k} /\ k \notin 1 .. (k - 1) /\ k \in 0 .. N /\ k - 1 \in 0 .. N
    BY <1>1, <2>1, <2>2
  <2>5. Total(rs, 1 .. k) = Total(rs, 1 .. (k - 1)) + SizeOf(rs[k].val)
    BY <1>2, <2>4, TotalOneMore
  <2>6. SizeOf(rs[k].val) \in Nat
    BY <1>2, <2>1, <2>2, <2>4 DEF Sized
  <2> QED BY <1>2, <2>1, <2>2, <2>3, <2>4, <2>5, <2>6
<1>4. Total(rs, 1 .. n) <= Total(rs, 1 .. N)
  BY <1>1, <1>3 DEF N
<1> QED BY <1>1, <1>4, UsedIsTotal
-----------------------------------------------------------------------------
(***************************************************************************)
(* The walk over the pool visits every place of every mapped sector once,  *)
(* and the lookup table made along it has every token of these places      *)
(* once, at its newest record.                                             *)
(***************************************************************************)

(* The recursion of SeqConcat.                                             *)
Concats(f, n, up) ==
  up = [i \in 0 .. n |-> IF i = 0 THEN <<>> ELSE up[i - 1] \o f[i]]

ConcatsTo(f, n, k, S, up) ==
  /\ up \in [0 .. n -> Seq(S)]
  /\ \A i \in 0 .. n : i <= k => up[i] = IF i = 0 THEN <<>> ELSE up[i - 1] \o f[i]

LEMMA ConcatsUpTo ==
  ASSUME NEW S, NEW n \in Nat, NEW f \in [1 .. n -> Seq(S)], NEW k \in 0 .. n
  PROVE  \E up : ConcatsTo(f, n, k, S, up)
<1> DEFINE Bad == {j \in Nat : j <= n /\ ~\E up : ConcatsTo(f, n, j, S, up)}
<1> SUFFICES Bad = {}
  <2>1. k \in Nat /\ k <= n
    OBVIOUS
  <2> QED BY <2>1
<1> SUFFICES ASSUME Bad # {} PROVE FALSE
  OBVIOUS
<1>1. PICK j \in Bad : \A i \in Bad : j <= i
  BY MinExists
<1>2. j # 0
  <2> DEFINE up == [i \in 0 .. n |-> <<>>]
  <2>1. ConcatsTo(f, n, 0, S, up)
    <3>1. \A i \in 0 .. n : i <= 0 => i = 0
      OBVIOUS
    <3>2. <<>> \in Seq(S)
      OBVIOUS
    <3> QED BY <3>1, <3>2 DEF ConcatsTo
  <2> QED BY <1>1, <2>1
<1>3. PICK up : ConcatsTo(f, n, j - 1, S, up)
  <2>1. j - 1 \in Nat /\ j - 1 <= n /\ ~(j <= j - 1)
    BY <1>1, <1>2
  <2> QED BY <1>1, <2>1
<1> DEFINE vp == [i \in 0 .. n |-> IF i = j THEN up[j - 1] \o f[j] ELSE up[i]]
<1>4. j \in 1 .. n
  BY <1>1, <1>2
<1>5. up[j - 1] \in Seq(S) /\ f[j] \in Seq(S)
  BY <1>3, <1>4 DEF ConcatsTo
<1>6. up[j - 1] \o f[j] \in Seq(S)
  BY <1>5
<1>7. vp \in [0 .. n -> Seq(S)]
  BY <1>3, <1>6 DEF ConcatsTo
<1>8. \A i \in 0 .. n : i <= j => vp[i] = IF i = 0 THEN <<>> ELSE vp[i - 1] \o f[i]
  <2> SUFFICES ASSUME NEW i \in 0 .. n, i <= j
               PROVE  vp[i] = IF i = 0 THEN <<>> ELSE vp[i - 1] \o f[i]
    OBVIOUS
  <2>1. CASE i = j
    <3>1. vp[i] = up[i - 1] \o f[i] /\ i # 0
      BY <1>4, <2>1
    <3>2. vp[i - 1] = up[i - 1]
      BY <1>4, <2>1
    <3> QED BY <3>1, <3>2
  <2>2. CASE i # j
    <3>1. i <= j - 1
      BY <1>4, <2>2
    <3>2. vp[i] = up[i]
      BY <2>2
    <3>3. up[i] = IF i = 0 THEN <<>> ELSE up[i - 1] \o f[i]
      BY <1>3, <3>1 DEF ConcatsTo
    <3>4. i # 0 => vp[i - 1] = up[i - 1]
      BY <1>4, <3>1
    <3> QED BY <3>2, <3>3, <3>4
  <2> QED BY <2>1, <2>2
<1>9. ConcatsTo(f, n, j, S, vp)
  BY <1>7, <1>8 DEF ConcatsTo
<1> QED BY <1>1, <1>9

LEMMA ConcatElements ==
  ASSUME NEW S, NEW s \in Seq(S), NEW t \in Seq(S)
  PROVE  s \o t \in Seq(S) /\ Range(s \o t) = Range(s) \cup Range(t)
<1>1. /\ s \o t \in Seq(S) /\ Len(s \o t) = Len(s) + Len(t)
      /\ \A i \in 1 .. Len(s) + Len(t) :
           (s \o t)[i] = IF i <= Len(s) THEN s[i] ELSE t[i - Len(s)]
  BY ConcatProperties
<1>2. /\ DOMAIN s = 1 .. Len(s) /\ DOMAIN t = 1 .. Len(t)
      /\ DOMAIN (s \o t) = 1 .. Len(s) + Len(t) /\ Len(s) \in Nat /\ Len(t) \in Nat
  BY <1>1, LenProperties
<1> DEFINE u == s \o t
<1> HIDE DEF u
<1>3. \A e \in Range(u) : e \in Range(s) \cup Range(t)
  <2> SUFFICES ASSUME NEW i \in 1 .. Len(s) + Len(t) PROVE u[i] \in Range(s) \cup Range(t)
    BY <1>2 DEF Range, u
  <2>1. CASE i <= Len(s)
    BY <1>1, <1>2, <2>1 DEF Range, u
  <2>2. CASE ~(i <= Len(s))
    <3>1. i - Len(s) \in 1 .. Len(t)
      BY <1>2, <2>2
    <3> QED BY <1>1, <1>2, <2>2, <3>1 DEF Range, u
  <2> QED BY <2>1, <2>2
<1>4. \A i \in 1 .. Len(s) : s[i] \in Range(u)
  <2> TAKE i \in 1 .. Len(s)
  <2>1. i \in DOMAIN u /\ u[i] = s[i]
    BY <1>1, <1>2 DEF u
  <2> QED BY <2>1 DEF Range
<1>5. \A i \in 1 .. Len(t) : t[i] \in Range(u)
  <2> TAKE i \in 1 .. Len(t)
  <2>1. Len(s) + i \in DOMAIN u /\ u[Len(s) + i] = t[i]
    BY <1>1, <1>2 DEF u
  <2> QED BY <2>1 DEF Range
<1>6. Range(u) = Range(s) \cup Range(t)
  BY <1>2, <1>3, <1>4, <1>5 DEF Range
<1> QED BY <1>1, <1>6 DEF u

(* SeqConcat has the elements of all the sequences.                        *)
LEMMA SeqConcatElements ==
  ASSUME NEW S, NEW n \in Nat, NEW f \in [1 .. n -> Seq(S)]
  PROVE  /\ SeqConcat(f, n) \in Seq(S)
         /\ Range(SeqConcat(f, n)) = UNION {Range(f[i]) : i \in 1 .. n}
<1>1. PICK vp : ConcatsTo(f, n, n, S, vp)
  <2>1. n \in 0 .. n
    OBVIOUS
  <2> QED BY <2>1, ConcatsUpTo
<1>2. Concats(f, n, vp)
  <2>1. \A i \in 0 .. n : i <= n
    OBVIOUS
  <2> QED BY <1>1, <2>1 DEF ConcatsTo, Concats
<1> DEFINE up == CHOOSE up : Concats(f, n, up)
<1>3. Concats(f, n, up)
  BY <1>2
<1>4. SeqConcat(f, n) = up[n]
  BY DEF SeqConcat, Concats
<1> HIDE DEF up
<1> DEFINE Ok(i) == up[i] \in Seq(S) /\ Range(up[i]) = UNION {Range(f[j]) : j \in 1 .. i}
           Bad == {i \in Nat : i <= n /\ ~Ok(i)}
<1>5. Bad = {}
  <2> SUFFICES ASSUME Bad # {} PROVE FALSE
    OBVIOUS
  <2>1. PICK i \in Bad : \A j \in Bad : i <= j
    BY MinExists
  <2>2. CASE i = 0
    <3>1. up[0] = <<>>
      BY <1>3 DEF Concats
    <3>2. Range(<<>>) = {} /\ UNION {Range(f[j]) : j \in 1 .. 0} = {}
      BY DEF Range
    <3>3. Ok(0)
      BY <3>1, <3>2
    <3> QED BY <2>1, <2>2, <3>3
  <2>3. CASE i # 0
    <3>1. i - 1 \in Nat /\ i - 1 <= n /\ i \in 1 .. n
      BY <2>1, <2>3
    <3>2. Ok(i - 1)
      <4>1. ~(i <= i - 1)
        BY <3>1
      <4> QED BY <2>1, <3>1, <4>1
    <3>3. up[i] = up[i - 1] \o f[i]
      <4>1. i \in 0 .. n /\ i # 0
        BY <3>1
      <4> QED BY <1>3, <4>1 DEF Concats
    <3>4. up[i] \in Seq(S) /\ Range(up[i]) = Range(up[i - 1]) \cup Range(f[i])
      BY <3>1, <3>2, <3>3, ConcatElements
    <3>5. 1 .. i = (1 .. (i - 1)) \cup {i}
      BY <3>1
    <3>6. UNION {Range(f[j]) : j \in 1 .. i}
            = (UNION {Range(f[j]) : j \in 1 .. (i - 1)}) \cup Range(f[i])
      BY <3>5
    <3>7. Ok(i)
      BY <3>2, <3>4, <3>6
    <3> QED BY <2>1, <3>7
  <2> QED BY <2>2, <2>3
<1>6. Ok(n)
  <2> HIDE DEF Ok
  <2>1. n <= n
    OBVIOUS
  <2> QED BY <1>5, <2>1 DEF Bad
<1> QED BY <1>4, <1>6
-----------------------------------------------------------------------------
(* The pool.  Places are what Nvm_Pool_Iterator goes over.                 *)

FlashTyped == flash \in [Sectors -> [head : [Pages -> Header], page : [Pages -> Seq(Record)]]]

PhysTyped(m) == m.phys \in [Sectors -> Sectors \cup {NoSector}]

Places == [sec : Sectors, page : Pages, idx : Nat \ {0}]

(* Record r is at place w.                                                 *)
IsSpot(m, w) ==
  /\ w.sec \in InUse(m) /\ w.page \in Pages
  /\ w.idx \in DOMAIN PageOf(m, w.sec, w.page)

LEMMA NumbersOfSectors ==
  ASSUME use \in Uses
  PROVE  /\ NumSectors \in Nat \ {0} /\ Sectors = 0 .. NumSectors - 1 /\ NoSector \notin Sectors
         /\ Sectors \subseteq Nat /\ IsFiniteSet(Sectors)
<1>1. use \in Use /\ NoSector \notin 0 .. use.sectors
  BY NvmAssumption
<1>2. use.sectors \in Nat \ {0}
  BY <1>1 DEF Use
<1>3. Sectors = 0 .. NumSectors - 1 /\ NumSectors \in Nat \ {0}
  BY <1>2 DEF Sectors, NumSectors
<1>4. NoSector \notin Sectors
  BY <1>1, <1>2 DEF Sectors, NumSectors
<1>5. IsFiniteSet(Sectors)
  BY <1>3, FS_Interval
<1> QED BY <1>3, <1>4, <1>5

LEMMA PagesTyped ==
  ASSUME use \in Uses, FlashTyped, NEW m, PhysTyped(m), NEW s \in InUse(m), NEW g \in Pages
  PROVE  /\ m.phys[s] \in Sectors /\ s \in Sectors
         /\ PageOf(m, s, g) \in Seq(Record)
BY NumbersOfSectors DEF FlashTyped, PhysTyped, InUse, PageOf

LEMMA WalkIs ==
  ASSUME use \in Uses, FlashTyped, NEW m, PhysTyped(m)
  PROVE  /\ Walk(m) \in Seq(Places)
         /\ Range(Walk(m)) = {w \in Places : IsSpot(m, w)}
<1> DEFINE at(s, g) == [i \in DOMAIN PageOf(m, s, g) |-> [sec |-> s, page |-> g, idx |-> i]]
           f == [n \in 1 .. NumSectors |->
                   IF n - 1 \in InUse(m) THEN at(n - 1, 1) \o at(n - 1, 2) ELSE <<>>]
<1>1. Walk(m) = SeqConcat(f, NumSectors)
  BY DEF Walk
<1>2. ASSUME NEW s \in InUse(m), NEW g \in Pages
      PROVE  /\ at(s, g) \in Seq(Places)
             /\ Range(at(s, g)) = {w \in Places : IsSpot(m, w) /\ w.sec = s /\ w.page = g}
  <2>1. s \in Sectors /\ PageOf(m, s, g) \in Seq(Record)
    BY PagesTyped
  <2> DEFINE p == PageOf(m, s, g)
             e(i) == [sec |-> s, page |-> g, idx |-> i]
  <2>2. DOMAIN p = 1 .. Len(p) /\ Len(p) \in Nat
    BY <2>1
  <2>3. \A i \in DOMAIN p : e(i) \in Places /\ IsSpot(m, e(i))
    BY <2>1, <2>2 DEF Places, IsSpot
  <2>4. at(s, g) \in Seq(Places)
    BY <2>2, <2>3, SeqDef
  <2>5. Range(at(s, g)) = {e(i) : i \in DOMAIN p}
    BY DEF Range
  <2>6. ASSUME NEW w \in Places, IsSpot(m, w), w.sec = s, w.page = g
        PROVE  w \in {e(i) : i \in DOMAIN p}
    <3>1. w.idx \in DOMAIN p /\ w = e(w.idx)
      BY <2>6 DEF IsSpot, Places
    <3> QED BY <3>1
  <2>7. \A i \in DOMAIN p : e(i).sec = s /\ e(i).page = g
    OBVIOUS
  <2>8. {e(i) : i \in DOMAIN p} = {w \in Places : IsSpot(m, w) /\ w.sec = s /\ w.page = g}
    <3> HIDE DEF e, p
    <3> QED BY <2>3, <2>6, <2>7
  <2> QED BY <2>4, <2>5, <2>8
<1> HIDE DEF at
<1>3. ASSUME NEW n \in 1 .. NumSectors
      PROVE  /\ f[n] \in Seq(Places)
             /\ Range(f[n]) = {w \in Places : IsSpot(m, w) /\ w.sec = n - 1}
  <2>1. CASE n - 1 \in InUse(m)
    <3>1. f[n] = at(n - 1, 1) \o at(n - 1, 2)
      BY <2>1
    <3>2. /\ at(n - 1, 1) \in Seq(Places) /\ at(n - 1, 2) \in Seq(Places)
          /\ Range(at(n - 1, 1)) = {w \in Places : IsSpot(m, w) /\ w.sec = n - 1 /\ w.page = 1}
          /\ Range(at(n - 1, 2)) = {w \in Places : IsSpot(m, w) /\ w.sec = n - 1 /\ w.page = 2}
      BY <1>2, <2>1 DEF Pages
    <3>3. f[n] \in Seq(Places) /\ Range(f[n]) = Range(at(n - 1, 1)) \cup Range(at(n - 1, 2))
      BY <3>1, <3>2, ConcatElements
    <3>4. \A w \in Places : w.page = 1 \/ w.page = 2
      BY DEF Places, Pages
    <3> QED BY <3>2, <3>3, <3>4
  <2>2. CASE n - 1 \notin InUse(m)
    <3>1. f[n] = <<>> /\ Range(<<>>) = {} /\ <<>> \in Seq(Places)
      BY <2>2 DEF Range
    <3>2. {w \in Places : IsSpot(m, w) /\ w.sec = n - 1} = {}
      BY <2>2 DEF IsSpot
    <3> HIDE DEF f
    <3> QED BY <3>1, <3>2
  <2> QED BY <2>1, <2>2
<1>4. NumSectors \in Nat /\ Sectors = 0 .. NumSectors - 1
  BY NumbersOfSectors
<1>5. f \in [1 .. NumSectors -> Seq(Places)]
  BY <1>3
<1> HIDE DEF f
<1>6. /\ Walk(m) \in Seq(Places)
      /\ Range(Walk(m)) = UNION {Range(f[n]) : n \in 1 .. NumSectors}
  BY <1>1, <1>4, <1>5, SeqConcatElements
<1>7. \A w \in Places : w.sec + 1 \in 1 .. NumSectors /\ (w.sec + 1) - 1 = w.sec
  BY <1>4 DEF Places
<1>8. \A w \in UNION {Range(f[n]) : n \in 1 .. NumSectors} : w \in Places /\ IsSpot(m, w)
  BY <1>3
<1>9. \A w \in Places : IsSpot(m, w) => w \in UNION {Range(f[n]) : n \in 1 .. NumSectors}
  <2> SUFFICES ASSUME NEW w \in Places, IsSpot(m, w)
               PROVE  \E n \in 1 .. NumSectors : w \in Range(f[n])
    OBVIOUS
  <2>1. w \in Range(f[w.sec + 1])
    BY <1>3, <1>7
  <2> QED BY <1>7, <2>1
<1> QED BY <1>6, <1>8, <1>9
-----------------------------------------------------------------------------
(* Finite sets of naturals.                                                *)

LEMMA GreatestElement ==
  ASSUME NEW T \in SUBSET Nat, T # {}, NEW b \in Nat, \A x \in T : x <= b
  PROVE  \E x \in T : \A y \in T : y <= x
<1> DEFINE U == {b - n : n \in T}
<1>1. U \in SUBSET Nat /\ U # {}
  <2>1. \A n \in T : b - n \in Nat
    OBVIOUS
  <2>2. PICK n \in T : TRUE
    OBVIOUS
  <2> QED BY <2>1, <2>2
<1>2. PICK u \in U : \A v \in U : u <= v
  BY <1>1, MinExists
<1>3. PICK x \in T : u = b - x
  BY <1>2
<1>4. \A y \in T : y <= x
  BY <1>2, <1>3
<1> QED BY <1>4

Rank(F, i) == Cardinality({j \in F : j <= i})

LEMMA RankIs ==
  ASSUME NEW F \in SUBSET Nat, IsFiniteSet(F), NEW i \in F
  PROVE  Rank(F, i) \in 1 .. Cardinality(F)
<1> DEFINE T == {j \in F : j <= i}
<1>1. T \in SUBSET F /\ i \in T
  OBVIOUS
<1>2. /\ IsFiniteSet(T) /\ Cardinality(T) <= Cardinality(F) /\ Cardinality(F) \in Nat
      /\ Cardinality(T) \in Nat /\ Cardinality(T) # 0
  BY <1>1, FS_Subset, FS_CardinalityType, FS_EmptySet
<1> QED BY <1>2 DEF Rank

LEMMA RankGrows ==
  ASSUME NEW F \in SUBSET Nat, IsFiniteSet(F), NEW i \in F, NEW j \in F, i < j
  PROVE  Rank(F, i) < Rank(F, j)
<1> DEFINE T == {k \in F : k <= i}
           U == {k \in F : k <= j}
<1>1. T \cup {j} \in SUBSET U /\ j \notin T /\ T \in SUBSET F /\ U \in SUBSET F
  <2>1. i \in Nat /\ j \in Nat /\ \A k \in F : k \in Nat
    OBVIOUS
  <2>2. \A k \in T : k \in U
    BY <2>1
  <2>3. j \in U /\ j \notin T
    BY <2>1
  <2> QED BY <2>2, <2>3
<1>2. IsFiniteSet(T) /\ IsFiniteSet(U)
  BY <1>1, FS_Subset
<1>3. Cardinality(T \cup {j}) = Cardinality(T) + 1
  BY <1>1, <1>2, FS_AddElement
<1>4. Cardinality(T \cup {j}) <= Cardinality(U)
  BY <1>1, <1>2, FS_Subset
<1>5. Cardinality(T) \in Nat /\ Cardinality(U) \in Nat
  BY <1>2, FS_CardinalityType
<1> QED BY <1>3, <1>4, <1>5 DEF Rank

LEMMA RankSame ==
  ASSUME NEW F \in SUBSET Nat, IsFiniteSet(F), NEW i \in F, NEW j \in F,
         Rank(F, i) = Rank(F, j)
  PROVE  i = j
<1>1. Rank(F, i) \in Nat /\ i \in Nat /\ j \in Nat
  BY RankIs
<1>2. ~(Rank(F, i) < Rank(F, j)) /\ ~(Rank(F, j) < Rank(F, i))
  BY <1>1
<1>3. ~(i < j) /\ ~(j < i)
  BY <1>2, RankGrows
<1> QED BY <1>1, <1>3

(* Every rank is some element's.                                           *)
LEMMA RankFound ==
  ASSUME NEW F \in SUBSET Nat, IsFiniteSet(F), NEW n \in 1 .. Cardinality(F)
  PROVE  \E i \in F : Rank(F, i) = n
<1> DEFINE r == [i \in F |-> Rank(F, i)]
           N == 1 .. Cardinality(F)
<1>1. Cardinality(F) \in Nat
  BY FS_CardinalityType
<1>2. IsFiniteSet(N) /\ Cardinality(N) = Cardinality(F)
  BY <1>1, FS_Interval
<1>3. r \in Injection(F, N)
  <2>1. r \in [F -> N]
    BY RankIs
  <2>2. \A i, j \in F : r[i] = r[j] => i = j
    BY RankSame
  <2> QED BY <2>1, <2>2 DEF Injection, IsInjective
<1>4. r \in Surjection(F, N)
  BY <1>2, <1>3, FS_Injection
<1>5. n \in N
  OBVIOUS
<1>6. PICK i \in F : r[i] = n
  BY <1>4, <1>5 DEF Surjection
<1> QED BY <1>6
-----------------------------------------------------------------------------
(* The lookup table that is made from the flash.                           *)

Items == [tok : Tokens, sec : Sectors, page : Pages, idx : Nat \ {0}, refs : Nat]

Age(m, w) == Unmask(m.seqs, RecordAt(m, w).seq)

(* Every token of the pool has one item, which leads to the newest of its  *)
(* records by the numbers as they are unmasked, and knows when there are   *)
(* none in another sector.                                                 *)
Populates(m, lut) ==
  /\ lut \in Seq(Items)
  /\ \A k \in DOMAIN lut : /\ IsSpot(m, lut[k])
                           /\ RecordAt(m, lut[k]).tok = lut[k].tok
                           /\ \A w \in Places : IsSpot(m, w) /\ RecordAt(m, w).tok = lut[k].tok =>
                                /\ Age(m, w) <= Age(m, lut[k])
                                /\ lut[k].refs = 1 => w.sec = lut[k].sec
  /\ \A j, k \in DOMAIN lut : lut[j].tok = lut[k].tok => j = k
  /\ \A w \in Places : IsSpot(m, w) => \E k \in DOMAIN lut : lut[k].tok = RecordAt(m, w).tok

LEMMA SpotRecord ==
  ASSUME use \in Uses, FlashTyped, NEW m, PhysTyped(m), NEW w, IsSpot(m, w)
  PROVE  /\ RecordAt(m, w) \in Record /\ RecordAt(m, w).tok \in Tokens
         /\ Age(m, w) \in 0 .. 2 * SeqMax + 1
<1>1. PageOf(m, w.sec, w.page) \in Seq(Record)
  BY PagesTyped DEF IsSpot
<1>2. RecordAt(m, w) \in Record
  BY <1>1 DEF IsSpot, RecordAt
<1>3. RecordAt(m, w).seq \in 0 .. SeqMax /\ RecordAt(m, w).tok \in Tokens
  BY <1>2 DEF Record
<1> QED BY <1>2, <1>3, SeqAssumption DEF Age, Unmask

Walks(m, walk) == walk \in Seq(Places) /\ Range(walk) = {w \in Places : IsSpot(m, w)}

LEMMA PopulateOfWalk ==
  ASSUME use \in Uses, FlashTyped, NEW m, PhysTyped(m), NEW walk, Walks(m, walk)
  PROVE  Populates(m, Populate(m, walk))
<1> DEFINE N == Len(walk)
<1>1. walk \in Seq(Places) /\ Range(walk) = {w \in Places : IsSpot(m, w)}
  BY DEF Walks
<1>2. DOMAIN walk = 1 .. N /\ N \in Nat
  BY <1>1
<1> HIDE DEF N
<1>3. \A i \in 1 .. N : walk[i] \in Places /\ IsSpot(m, walk[i])
  BY <1>1, <1>2 DEF Range
<1>4. \A w \in Places : IsSpot(m, w) => \E i \in 1 .. N : walk[i] = w
  BY <1>1, <1>2 DEF Range
<1> DEFINE tokAt(i)   == RecordAt(m, walk[i]).tok
           age(i)     == Unmask(m.seqs, RecordAt(m, walk[i]).seq)
           first      == {i \in DOMAIN walk : \A j \in 1 .. i - 1 : tokAt(j) # tokAt(i)}
           places(t)  == {i \in DOMAIN walk : tokAt(i) = t}
           newest(is) == Min({i \in is : \A j \in is : age(j) <= age(i)})
           item(t)    == LET w == walk[newest(places(t))]
                         IN [tok |-> t, sec |-> w.sec, page |-> w.page, idx |-> w.idx,
                             refs |-> Cardinality({walk[i].sec : i \in places(t)})]
           nth(n)     == CHOOSE i \in first : Cardinality({j \in first : j <= i}) = n
           lut        == [n \in 1 .. Cardinality(first) |-> item(tokAt(nth(n)))]
<1>5. Populate(m, walk) = lut
  BY DEF Populate
<1>6. first \in SUBSET Nat /\ IsFiniteSet(first) /\ first \subseteq 1 .. N
  <2>1. first \in SUBSET (1 .. N)
    BY <1>2
  <2>2. IsFiniteSet(1 .. N)
    BY <1>2, FS_Interval
  <2> QED BY <1>2, <2>1, <2>2, FS_Subset
<1>7. \A i \in 1 .. N : tokAt(i) \in Tokens /\ age(i) \in 0 .. 2 * SeqMax + 1 /\ age(i) = Age(m, walk[i])
  BY <1>3, SpotRecord DEF Age
<1>8. \A i \in 1 .. N : \E j \in first : tokAt(j) = tokAt(i)
  <2> TAKE i \in 1 .. N
  <2> DEFINE T == {j \in 1 .. N : tokAt(j) = tokAt(i)}
  <2>1. T \in SUBSET Nat /\ T # {}
    OBVIOUS
  <2> HIDE DEF tokAt
  <2>2. PICK j \in T : \A k \in T : j <= k
    BY <2>1, MinExists
  <2>3. \A k \in 1 .. j - 1 : tokAt(k) # tokAt(j)
    <3> SUFFICES ASSUME NEW k \in 1 .. j - 1, tokAt(k) = tokAt(j) PROVE FALSE
      OBVIOUS
    <3>1. k \in T /\ ~(j <= k)
      BY <1>2, <2>2
    <3> QED BY <2>2, <3>1
  <2> QED BY <1>2, <2>2, <2>3
<1>9. \A i, j \in first : tokAt(i) = tokAt(j) => i = j
  <2> SUFFICES ASSUME NEW i \in first, NEW j \in first, tokAt(i) = tokAt(j), i < j PROVE FALSE
    BY <1>6
  <2>1. i \in 1 .. j - 1
    BY <1>6
  <2> QED BY <2>1
<1> DEFINE C == Cardinality(first)
<1>10. C \in Nat
  BY <1>6, FS_CardinalityType
<1>11. \A n \in 1 .. C : nth(n) \in first /\ Rank(first, nth(n)) = n
  <2> HIDE DEF first
  <2>1. \A n \in 1 .. C : \E i \in first : Rank(first, i) = n
    BY <1>6, RankFound
  <2> QED BY <2>1 DEF Rank
<1>12. \A i \in first : \E n \in 1 .. C : nth(n) = i
  <2> HIDE DEF first, nth
  <2> TAKE i \in first
  <2>1. Rank(first, i) \in 1 .. C
    BY <1>6, RankIs
  <2> DEFINE k == nth(Rank(first, i))
  <2>2. k \in first /\ Rank(first, k) = Rank(first, i)
    BY <1>11, <2>1
  <2> HIDE DEF k
  <2>3. k = i
    BY <1>6, <2>2, RankSame
  <2> QED BY <2>1, <2>3 DEF k
<1>13. ASSUME NEW t, NEW i \in 1 .. N, tokAt(i) = t
       PROVE  LET k == newest(places(t))
              IN  k \in places(t) /\ \A j \in places(t) : age(j) <= age(k)
  <2> DEFINE P  == places(t)
             A  == {age(j) : j \in P}
             B  == {j \in P : \A l \in P : age(l) <= age(j)}
  <2>1. P \in SUBSET Nat /\ i \in P /\ P \subseteq 1 .. N
    BY <1>2, <1>13
  <2>2. A \in SUBSET Nat /\ A # {} /\ (\A a \in A : a <= 2 * SeqMax + 1) /\ 2 * SeqMax + 1 \in Nat
    BY <1>7, <2>1, SeqAssumption
  <2> HIDE DEF P, age
  <2>3. PICK a \in A : \A b \in A : b <= a
    BY <2>2, GreatestElement
  <2>4. PICK j \in P : a = age(j)
    BY <2>3
  <2>5. B # {} /\ B \in SUBSET Nat
    BY <2>1, <2>3, <2>4
  <2>6. Min(B) \in B
    BY <2>5, MinIs
  <2> QED BY <2>6 DEF P
<1>14. ASSUME NEW t, NEW i \in 1 .. N, tokAt(i) = t
       PROVE  /\ item(t) \in Items /\ item(t).tok = t /\ IsSpot(m, item(t))
              /\ RecordAt(m, item(t)).tok = t
              /\ \A w \in Places : IsSpot(m, w) /\ RecordAt(m, w).tok = t =>
                   /\ Age(m, w) <= Age(m, item(t))
                   /\ item(t).refs = 1 => w.sec = item(t).sec
  <2> DEFINE k == newest(places(t))
             S == {walk[j].sec : j \in places(t)}
  <2>1. k \in places(t) /\ \A j \in places(t) : age(j) <= age(k)
    BY <1>13, <1>14
  <2>2. k \in 1 .. N /\ tokAt(k) = t
    BY <1>2, <2>1
  <2>3. item(t) = [tok |-> t, sec |-> walk[k].sec, page |-> walk[k].page, idx |-> walk[k].idx,
                   refs |-> Cardinality(S)]
    OBVIOUS
  <2>4. IsFiniteSet(S)
    <3>1. IsFiniteSet(Sectors)
      BY NumbersOfSectors
    <3>2. S \in SUBSET Sectors
      BY <1>2, <1>3 DEF Places
    <3> QED BY <3>1, <3>2, FS_Subset
  <2>5. Cardinality(S) \in Nat
    BY <2>4, FS_CardinalityType
  <2> HIDE DEF k, S, item
  <2>6. walk[k] \in Places /\ IsSpot(m, walk[k])
    BY <1>3, <2>2
  <2>7. IsSpot(m, item(t)) /\ RecordAt(m, item(t)) = RecordAt(m, walk[k])
    BY <2>3, <2>6 DEF IsSpot, RecordAt
  <2>8. item(t) \in Items /\ item(t).tok = t
    BY <1>7, <2>2, <2>3, <2>5, <2>6 DEF Items, Places
  <2>9. ASSUME NEW w \in Places, IsSpot(m, w), RecordAt(m, w).tok = t
        PROVE  /\ Age(m, w) <= Age(m, item(t))
               /\ item(t).refs = 1 => w.sec = item(t).sec
    <3>1. PICK j \in 1 .. N : walk[j] = w
      BY <1>4, <2>9
    <3>2. j \in places(t)
      BY <1>2, <2>9, <3>1
    <3>3. Age(m, w) <= Age(m, item(t))
      <4>1. age(j) <= age(k)
        BY <2>1, <3>2
      <4> QED BY <2>7, <3>1, <4>1 DEF Age
    <3>4. w.sec \in S /\ walk[k].sec \in S
      BY <2>1, <3>1, <3>2 DEF S
    <3>5. Cardinality(S) = 1 => w.sec = walk[k].sec
      BY <2>4, <3>4, FS_Singleton
    <3> QED BY <2>3, <3>3, <3>5
  <2> QED BY <2>2, <2>7, <2>8, <2>9
<1> HIDE DEF first, nth, item, places, newest
<1>15. \A n \in 1 .. C : nth(n) \in 1 .. N
  BY <1>6, <1>11
<1>16. lut \in Seq(Items) /\ DOMAIN lut = 1 .. C
  <2>1. \A n \in 1 .. C : item(tokAt(nth(n))) \in Items
    BY <1>14, <1>15
  <2> QED BY <1>10, <2>1, SeqDef
<1>17. \A n \in 1 .. C : lut[n] = item(tokAt(nth(n)))
  OBVIOUS
<1> HIDE DEF C, lut
<1>18. \A n \in 1 .. C : lut[n].tok = tokAt(nth(n))
  BY <1>14, <1>15, <1>17
<1>19. \A n, k \in 1 .. C : lut[n].tok = lut[k].tok => n = k
  <2> SUFFICES ASSUME NEW n \in 1 .. C, NEW k \in 1 .. C, lut[n].tok = lut[k].tok PROVE n = k
    OBVIOUS
  <2>1. nth(n) = nth(k)
    BY <1>9, <1>11, <1>18
  <2> QED BY <1>11, <2>1
<1>20. \A w \in Places : IsSpot(m, w) => \E n \in 1 .. C : lut[n].tok = RecordAt(m, w).tok
  <2> SUFFICES ASSUME NEW w \in Places, IsSpot(m, w)
               PROVE  \E n \in 1 .. C : lut[n].tok = RecordAt(m, w).tok
    OBVIOUS
  <2>1. PICK i \in 1 .. N : walk[i] = w
    BY <1>4
  <2>2. PICK j \in first : tokAt(j) = tokAt(i)
    BY <1>8
  <2>3. PICK n \in 1 .. C : nth(n) = j
    BY <1>12
  <2> QED BY <1>18, <2>1, <2>2, <2>3
<1>21. ASSUME NEW n \in 1 .. C
       PROVE  /\ IsSpot(m, lut[n])
              /\ RecordAt(m, lut[n]).tok = lut[n].tok
              /\ \A w \in Places : IsSpot(m, w) /\ RecordAt(m, w).tok = lut[n].tok =>
                   /\ Age(m, w) <= Age(m, lut[n])
                   /\ lut[n].refs = 1 => w.sec = lut[n].sec
  BY <1>14, <1>15, <1>17
<1>22. Populates(m, lut)
  BY <1>16, <1>19, <1>20, <1>21 DEF Populates
<1> QED BY <1>5, <1>22

LEMMA PopulateIs ==
  ASSUME use \in Uses, FlashTyped, NEW m, PhysTyped(m)
  PROVE  Populates(m, Populate(m, Walk(m)))
<1>1. Walks(m, Walk(m))
  BY WalkIs DEF Walks
<1> QED BY <1>1, PopulateOfWalk
-----------------------------------------------------------------------------
(***************************************************************************)
(* The other tables: what can be reclaimed, and the namespace.             *)
(***************************************************************************)

(* One record that ReclaimNamespaceSpace looks at, the i-th in its order.  *)
Visited(m, walk, a, i) ==
  LET k == ((i - 1) \div Len(walk)) + 1
      w == walk[((i - 1) % Len(walk)) + 1]
  IN  IF \/ RecordAt(m, m.lut[k]).val # Removed \/ w.sec = a.skip
         \/ RecordAt(m, w).tok # m.lut[k].tok
      THEN a
      ELSE [count |-> a.count + 1, skip |-> w.sec,
            selected |-> IF a.selected \in {NoSector, m.lut[k].sec} THEN w.sec ELSE a.selected]

NoneFound == [count |-> 0, selected |-> NoSector, skip |-> NoSector]

Searches(m, walk, L, up) ==
  up = [i \in 0 .. L |-> IF i = 0 THEN NoneFound ELSE Visited(m, walk, up[i - 1], i)]

(* What is found so far: a sector of the pool once anything is.            *)
Found(m) ==
  {a \in [count : Nat, selected : InUse(m) \cup {NoSector}, skip : InUse(m) \cup {NoSector}] :
     a.count # 0 => a.selected # NoSector}

SearchesTo(m, walk, L, k, up) ==
  /\ up \in [0 .. L -> Found(m)]
  /\ \A i \in 0 .. L : i <= k =>
       up[i] = IF i = 0 THEN NoneFound ELSE Visited(m, walk, up[i - 1], i)

LEMMA VisitedIs ==
  ASSUME NEW m, NEW walk \in Seq(Places), NEW n \in Nat, NoSector \notin Sectors,
         \A j \in 1 .. Len(walk) : walk[j].sec \in InUse(m),
         NEW i \in 1 .. n * Len(walk), NEW a \in Found(m)
  PROVE  Visited(m, walk, a, i) \in Found(m)
<1> DEFINE N == Len(walk)
           j == ((i - 1) % N) + 1
           w == walk[j]
           k == ((i - 1) \div N) + 1
<1>1. N \in Nat
  OBVIOUS
<1>2. N # 0
  <2>1. n * 0 = 0
    OBVIOUS
  <2> HIDE DEF N
  <2>2. i \in 1 .. n * N
    BY DEF N
  <2>3. ASSUME N = 0 PROVE FALSE
    <3>1. i \in 1 .. 0
      BY <2>1, <2>2, <2>3
    <3> QED BY <3>1
  <2> QED BY <2>3
<1>3. j \in 1 .. N
  <2>1. \A x \in Nat : \A y \in Nat \ {0} : x % y \in 0 .. y - 1
    OBVIOUS
  <2>2. i - 1 \in Nat
    BY <1>1
  <2> HIDE DEF N
  <2>3. (i - 1) % N \in 0 .. N - 1
    BY <1>1, <1>2, <2>1, <2>2
  <2> QED BY <1>1, <2>3
<1>4. w.sec \in InUse(m) /\ w.sec # NoSector
  BY <1>3 DEF InUse
<1> HIDE DEF w, k
<1>5. Visited(m, walk, a, i)
        = IF \/ RecordAt(m, m.lut[k]).val # Removed \/ w.sec = a.skip
             \/ RecordAt(m, w).tok # m.lut[k].tok
          THEN a
          ELSE [count |-> a.count + 1, skip |-> w.sec,
                selected |-> IF a.selected \in {NoSector, m.lut[k].sec} THEN w.sec ELSE a.selected]
  BY DEF Visited, w, k
<1> QED BY <1>4, <1>5 DEF Found

LEMMA SearchesUpTo ==
  ASSUME NEW m, NEW walk \in Seq(Places), NEW n \in Nat, NoSector \notin Sectors,
         \A j \in 1 .. Len(walk) : walk[j].sec \in InUse(m),
         NEW k \in 0 .. n * Len(walk)
  PROVE  \E up : SearchesTo(m, walk, n * Len(walk), k, up)
<1> DEFINE L == n * Len(walk)
           Bad == {j \in Nat : j <= L /\ ~\E up : SearchesTo(m, walk, L, j, up)}
<1>0. L \in Nat
  <2>1. \A x, y \in Nat : x * y \in Nat
    OBVIOUS
  <2>2. Len(walk) \in Nat
    OBVIOUS
  <2> QED BY <2>1, <2>2
<1>a. \A i \in 1 .. L : \A a \in Found(m) : Visited(m, walk, a, i) \in Found(m)
  BY VisitedIs
<1>b. k \in 0 .. L
  OBVIOUS
<1> HIDE DEF L
<1> SUFFICES Bad = {}
  BY <1>0, <1>b DEF L
<1> SUFFICES ASSUME Bad # {} PROVE FALSE
  OBVIOUS
<1>1. PICK j \in Bad : \A i \in Bad : j <= i
  BY MinExists
<1>c. NoneFound \in Found(m)
  BY DEF NoneFound, Found
<1>2. j # 0
  <2> DEFINE up == [i \in 0 .. L |-> NoneFound]
  <2>1. SearchesTo(m, walk, L, 0, up)
    <3>1. \A i \in 0 .. L : i <= 0 => i = 0
      BY <1>0
    <3> QED BY <1>c, <3>1 DEF SearchesTo
  <2> QED BY <1>1, <2>1
<1>3. PICK up : SearchesTo(m, walk, L, j - 1, up)
  <2>1. j - 1 \in Nat /\ j - 1 <= L /\ ~(j <= j - 1)
    BY <1>0, <1>1, <1>2
  <2> QED BY <1>1, <2>1
<1> DEFINE vp == [i \in 0 .. L |-> IF i = j THEN Visited(m, walk, up[j - 1], j) ELSE up[i]]
<1>4. j \in 1 .. L
  BY <1>0, <1>1, <1>2
<1>5. up[j - 1] \in Found(m)
  BY <1>0, <1>3, <1>4 DEF SearchesTo
<1>6. vp \in [0 .. L -> Found(m)]
  BY <1>a, <1>3, <1>4, <1>5 DEF SearchesTo
<1>7. \A i \in 0 .. L : i <= j =>
        vp[i] = IF i = 0 THEN NoneFound ELSE Visited(m, walk, vp[i - 1], i)
  <2> SUFFICES ASSUME NEW i \in 0 .. L, i <= j
               PROVE  vp[i] = IF i = 0 THEN NoneFound ELSE Visited(m, walk, vp[i - 1], i)
    OBVIOUS
  <2>1. CASE i = j
    <3>1. vp[i] = Visited(m, walk, up[i - 1], i) /\ i # 0
      BY <1>0, <1>4, <2>1
    <3>2. vp[i - 1] = up[i - 1]
      BY <1>0, <1>4, <2>1
    <3> QED BY <3>1, <3>2
  <2>2. CASE i # j
    <3>1. i <= j - 1
      BY <1>0, <1>4, <2>2
    <3>2. vp[i] = up[i]
      BY <2>2
    <3>3. up[i] = IF i = 0 THEN NoneFound ELSE Visited(m, walk, up[i - 1], i)
      BY <1>3, <3>1 DEF SearchesTo
    <3>4. i # 0 => vp[i - 1] = up[i - 1]
      BY <1>0, <1>4, <3>1
    <3> QED BY <3>2, <3>3, <3>4
  <2> QED BY <2>1, <2>2
<1>8. SearchesTo(m, walk, L, j, vp)
  BY <1>6, <1>7 DEF SearchesTo
<1> QED BY <1>1, <1>8

(* What ReclaimNamespaceSpace selects is a sector of the pool.             *)
LEMMA NamespaceIs ==
  ASSUME use \in Uses, FlashTyped, NEW m, PhysTyped(m), m.lut \in Seq(Items),
         Namespace(m).count # 0
  PROVE  Namespace(m).selected \in InUse(m)
<1> DEFINE walk == Walk(m)
           n == Len(m.lut)
           L == n * Len(walk)
<1>1. walk \in Seq(Places) /\ Range(walk) = {w \in Places : IsSpot(m, w)}
  BY WalkIs
<1> HIDE DEF walk
<1>2. \A j \in 1 .. Len(walk) : walk[j].sec \in InUse(m)
  BY <1>1 DEF Range, IsSpot
<1>3. n \in Nat /\ NoSector \notin Sectors
  BY NumbersOfSectors
<1>4. L \in Nat
  <2>1. \A x, y \in Nat : x * y \in Nat
    OBVIOUS
  <2>2. Len(walk) \in Nat
    BY <1>1
  <2> QED BY <1>3, <2>1, <2>2
<1>5. PICK vp : SearchesTo(m, walk, L, L, vp)
  <2>1. L \in 0 .. n * Len(walk)
    BY <1>4
  <2> HIDE DEF n
  <2> QED BY <1>1, <1>2, <1>3, <2>1, SearchesUpTo
<1>6. Searches(m, walk, L, vp)
  <2>1. \A i \in 0 .. L : i <= L
    BY <1>4
  <2> QED BY <1>5, <2>1 DEF SearchesTo, Searches
<1> DEFINE up == CHOOSE up : Searches(m, walk, L, up)
<1>7. Searches(m, walk, L, up)
  BY <1>6
<1>8. Namespace(m) = up[L]
  BY DEF Namespace, Searches, Visited, NoneFound, walk
<1> HIDE DEF up, n
<1>a. \A i \in 1 .. L : \A a \in Found(m) : Visited(m, walk, a, i) \in Found(m)
  BY <1>1, <1>2, <1>3, VisitedIs
<1> HIDE DEF L
<1> DEFINE Bad == {i \in Nat : i <= L /\ up[i] \notin Found(m)}
<1>9. Bad = {}
  <2> SUFFICES ASSUME Bad # {} PROVE FALSE
    OBVIOUS
  <2>1. PICK i \in Bad : \A j \in Bad : i <= j
    BY MinExists
  <2>2. up[i] = IF i = 0 THEN NoneFound ELSE Visited(m, walk, up[i - 1], i)
    BY <1>4, <1>7, <2>1 DEF Searches
  <2>3. i # 0
    BY <2>1, <2>2 DEF NoneFound, Found
  <2>4. i - 1 \in Nat /\ i - 1 <= L /\ ~(i <= i - 1) /\ i \in 1 .. L
    BY <1>4, <2>1, <2>3
  <2>5. up[i - 1] \in Found(m)
    BY <2>1, <2>4
  <2> QED BY <1>a, <2>1, <2>2, <2>3, <2>4, <2>5
<1>10. up[L] \in Found(m)
  BY <1>4, <1>9
<1> QED BY <1>8, <1>10 DEF Found
-----------------------------------------------------------------------------
(***************************************************************************)
(* The parts of the tables: records up to the first broken one, items that *)
(* are replaced, listed or sent elsewhere.                                 *)
(***************************************************************************)

AllOk(rs) == \A i \in DOMAIN rs : rs[i].ok

LEMMA GoodIs ==
  ASSUME NEW rs \in Seq(Record)
  PROVE  /\ GoodRecords(rs) \in Seq(Record)
         /\ Len(GoodRecords(rs)) <= Len(rs)
         /\ \A i \in 1 .. Len(GoodRecords(rs)) : GoodRecords(rs)[i] = rs[i] /\ rs[i].ok
         /\ AllOk(rs) => GoodRecords(rs) = rs
         /\ ~AllOk(rs) => /\ Len(GoodRecords(rs)) < Len(rs)
                          /\ ~rs[Len(GoodRecords(rs)) + 1].ok
<1> DEFINE bad == {i \in DOMAIN rs : ~rs[i].ok}
           G   == GoodRecords(rs)
<1>1. DOMAIN rs = 1 .. Len(rs) /\ Len(rs) \in Nat
  OBVIOUS
<1>2. CASE bad = {}
  <2>1. G = rs /\ AllOk(rs)
    BY <1>2 DEF GoodRecords, AllOk
  <2> QED BY <1>1, <2>1 DEF AllOk
<1>3. CASE bad # {}
  <2> DEFINE b == Min(bad)
  <2>1. bad \in SUBSET Nat
    BY <1>1
  <2>2. b \in bad /\ \A i \in bad : b <= i
    BY <1>3, <2>1, MinIs
  <2>3. G = SubSeq(rs, 1, b - 1)
    BY <1>3 DEF GoodRecords
  <2> HIDE DEF G, b
  <2>4. b \in 1 .. Len(rs)
    BY <1>1, <2>2
  <2>5. G \in Seq(Record) /\ Len(G) = b - 1 /\ \A i \in 1 .. b - 1 : G[i] = rs[i]
    BY <1>1, <2>3, <2>4, SubSeqProperties
  <2>6. \A i \in 1 .. b - 1 : rs[i].ok
    <3> SUFFICES ASSUME NEW i \in 1 .. b - 1, ~rs[i].ok PROVE FALSE
      OBVIOUS
    <3>1. i \in bad /\ ~(b <= i)
      BY <1>1, <2>4
    <3> QED BY <2>2, <3>1
  <2>7. ~AllOk(rs) /\ ~rs[b].ok
    BY <2>2 DEF AllOk
  <2>8. Len(G) <= Len(rs) /\ Len(G) < Len(rs) /\ Len(G) + 1 = b
    BY <1>1, <2>4, <2>5
  <2> QED BY <2>5, <2>6, <2>7, <2>8 DEF G
<1> QED BY <1>2, <1>3

(* A record that is cut short adds nothing.                                *)
LEMMA GoodAppend ==
  ASSUME NEW rs \in Seq(Record), AllOk(rs), NEW r \in Record
  PROVE  GoodRecords(Append(rs, r)) = IF r.ok THEN Append(rs, r) ELSE rs
<1> DEFINE qs == Append(rs, r)
           G  == GoodRecords(qs)
<1>1. /\ qs \in Seq(Record) /\ DOMAIN qs = 1 .. Len(rs) + 1 /\ Len(qs) = Len(rs) + 1
      /\ Len(rs) \in Nat /\ qs[Len(rs) + 1] = r /\ \A i \in 1 .. Len(rs) : qs[i] = rs[i]
      /\ DOMAIN rs = 1 .. Len(rs)
  OBVIOUS
<1>2. \A i \in 1 .. Len(rs) : qs[i].ok
  BY <1>1 DEF AllOk
<1> HIDE DEF qs
<1>3. CASE r.ok
  <2>1. AllOk(qs)
    BY <1>1, <1>2, <1>3 DEF AllOk
  <2> QED BY <1>1, <1>3, <2>1, GoodIs DEF qs
<1>4. CASE ~r.ok
  <2>1. ~AllOk(qs)
    BY <1>1, <1>4 DEF AllOk
  <2>2. /\ G \in Seq(Record) /\ Len(G) < Len(qs) /\ ~qs[Len(G) + 1].ok
        /\ \A i \in 1 .. Len(G) : G[i] = qs[i]
    BY <1>1, <2>1, GoodIs
  <2> HIDE DEF G
  <2>3. Len(G) = Len(rs)
    <3>1. Len(G) \in Nat
      BY <2>2
    <3> QED BY <1>1, <1>2, <2>2, <3>1
  <2>4. \A i \in 1 .. Len(rs) : G[i] = rs[i]
    BY <1>1, <2>2, <2>3
  <2>5. G = rs
    BY <2>2, <2>3, <2>4, SeqEqual
  <2> QED BY <1>4, <2>5 DEF G, qs
<1> QED BY <1>3, <1>4

LEMMA RangeAppend ==
  ASSUME NEW S, NEW rs \in Seq(S), NEW r \in S
  PROVE  Range(Append(rs, r)) = Range(rs) \cup {r}
<1> DEFINE qs == Append(rs, r)
<1>1. /\ DOMAIN qs = 1 .. Len(rs) + 1 /\ DOMAIN rs = 1 .. Len(rs) /\ Len(rs) \in Nat
      /\ qs[Len(rs) + 1] = r /\ \A i \in 1 .. Len(rs) : qs[i] = rs[i]
  OBVIOUS
<1> HIDE DEF qs
<1>2. \A x \in Range(qs) : x \in Range(rs) \/ x = r
  BY <1>1 DEF Range
<1>3. \A x \in Range(rs) : x \in Range(qs)
  BY <1>1 DEF Range
<1>4. r \in Range(qs)
  BY <1>1 DEF Range
<1> QED BY <1>2, <1>3, <1>4 DEF qs
-----------------------------------------------------------------------------
(* Sequence numbers.                                                       *)

SeqsType == [high : Numbers, low : Numbers \cup {NoSeq}, lowSec : Nat,
             upLow : Numbers \cup {NoSeq}, upSec : Nat, loHigh : Numbers \cup {NoSeq}]

LEMMA RegisterTyped ==
  ASSUME NEW q \in SeqsType, NEW n \in Numbers, NEW sec \in Nat
  PROVE  Register(q, n, sec) \in SeqsType
BY DEF Register, SeqsType

LEMMA NextTyped ==
  ASSUME NEW q \in SeqsType
  PROVE  HighestSeq(q) \in Nat /\ NextSeq(q) \in Numbers
<1>1. HighestSeq(q) \in Nat
  BY SeqAssumption DEF SeqsType, HighestSeq, Unmask, Wrapping, Numbers
<1>2. \A x \in Nat : \A y \in Nat \ {0} : x % y \in 0 .. y - 1
  OBVIOUS
<1> DEFINE h == HighestSeq(q) + 1
<1>3. h \in Nat /\ SeqMax + 1 \in Nat \ {0}
  BY <1>1, SeqAssumption
<1> HIDE DEF h
<1>4. h % (SeqMax + 1) \in 0 .. (SeqMax + 1) - 1
  BY <1>2, <1>3
<1> QED BY <1>1, <1>4, SeqAssumption DEF NextSeq, h, Numbers

LEMMA ExtremesTyped ==
  ASSUME NEW S \in SUBSET (Numbers \X Nat)
  PROVE  ExtremesOf(S) \in SeqsType
<1> DEFINE q == ExtremesOf(S)
           ns == NumbersOf(S)
           up == {n \in ns : InUpperHalf(n)}
           lo == {n \in ns : InLowerHalf(n)}
           sec(n) == Min({x[2] : x \in {y \in S : y[1] = n}})
<1>1. q = [high   |-> Max(ns \cup {1}),
           low    |-> IF ns = {} THEN NoSeq ELSE Min(ns),
           lowSec |-> IF ns = {} THEN 0 ELSE sec(Min(ns)),
           upLow  |-> IF up = {} THEN NoSeq ELSE Min(up),
           upSec  |-> IF up = {} THEN 0 ELSE sec(Min(up)),
           loHigh |-> IF lo = {} THEN NoSeq ELSE Max(lo)]
  BY DEF ExtremesOf, NumbersOf, NoExtremes
<1>2. \A n \in ns : sec(n) \in Nat
  <2> TAKE n \in ns
  <2> DEFINE T == {x[2] : x \in {y \in S : y[1] = n}}
  <2>1. PICK z \in S : z[1] = n
    BY InNumbers
  <2>2. z[2] \in T /\ T \in SUBSET Nat
    BY <2>1
  <2>3. sec(n) \in T
    BY <2>2, MinIs
  <2> QED BY <2>2, <2>3
<1>3. ns \in SUBSET Numbers /\ Numbers \in SUBSET Nat /\ 1 \in Numbers
  BY SeqAssumption DEF NumbersOf, Numbers
<1> HIDE DEF q, ns, sec
<1>4. Max(ns \cup {1}) \in Numbers
  <2>1. ns \cup {1} \in SUBSET Numbers /\ ns \cup {1} # {}
    BY <1>3
  <2> QED BY <2>1, MaxIs
<1>5. ns # {} => Min(ns) \in ns
  BY <1>3, MinIs
<1>6. up # {} => Min(up) \in up
  <2>1. up \in SUBSET Nat
    BY <1>3
  <2> QED BY <2>1, MinIs
<1>7. lo # {} => Max(lo) \in lo
  <2>1. lo \in SUBSET Numbers
    BY <1>3
  <2> QED BY <2>1, MaxIs
<1>8. q \in SeqsType
  BY <1>1, <1>2, <1>3, <1>4, <1>5, <1>6, <1>7 DEF SeqsType
<1> QED BY <1>8 DEF q
-----------------------------------------------------------------------------
(* Which sectors are free.                                                 *)

LEMMA FreeLogicalIs ==
  ASSUME use \in Uses, NEW m, InUse(m) # Sectors
  PROVE  FreeLogical(m) \in Sectors \ InUse(m)
<1>1. Sectors \ InUse(m) # {} /\ Sectors \ InUse(m) \in SUBSET Nat
  BY NumbersOfSectors DEF InUse
<1> QED BY <1>1, MinIs DEF FreeLogical

LEMMA FreePhysicalIs ==
  ASSUME use \in Uses, NEW last \in Sectors, \E p \in Sectors : IsFree(p)
  PROVE  FreePhysical(last) \in Sectors /\ IsFree(FreePhysical(last))
<1> DEFINE at(i) == (last + 1 + i) % NumSectors
           N == NumSectors
           T == {i \in 0 .. N - 1 : IsFree(at(i))}
<1>1. N \in Nat \ {0} /\ Sectors = 0 .. N - 1
  BY NumbersOfSectors
<1>2. \A x \in Nat : \A y \in Nat \ {0} : x % y \in 0 .. y - 1
  OBVIOUS
<1> HIDE DEF N
<1>3. \A i \in 0 .. N - 1 : at(i) \in Sectors
  <2> TAKE i \in 0 .. N - 1
  <2>1. last + 1 + i \in Nat
    BY <1>1
  <2> QED BY <1>1, <1>2, <2>1 DEF N
<1>4. PICK p \in Sectors : IsFree(p)
  OBVIOUS
<1> DEFINE i == IF p >= last + 1 THEN p - last - 1 ELSE p - last - 1 + N
<1>5. i \in 0 .. N - 1
  BY <1>1
<1>6. at(i) = p
  <2>2. last + 1 + i = p \/ last + 1 + i = p + N
    BY <1>1
  <2>3. p \in Nat /\ p < N /\ p + N \in Nat /\ p < 2 * N /\ p + N < 2 * N
    BY <1>1
  <2>4. p % N = p /\ (p + N) % N = p
    <3>1. N > 0 /\ p \in 0 .. 2 * N - 1 /\ p + N \in 0 .. 2 * N - 1
      BY <1>1, <2>3
    <3>2. p % N = IF p < N THEN p ELSE p - N
      BY <1>1, <3>1, Residue
    <3>3. (p + N) % N = IF p + N < N THEN p + N ELSE p + N - N
      BY <1>1, <3>1, Residue
    <3> QED BY <1>1, <2>3, <3>2, <3>3
  <2> QED BY <2>2, <2>4 DEF N
<1>7. T # {} /\ T \in SUBSET Nat
  BY <1>4, <1>5, <1>6
<1>8. Min(T) \in T
  BY <1>7, MinIs
<1>9. FreePhysical(last) = at(Min(T))
  BY DEF FreePhysical, N
<1> QED BY <1>3, <1>8, <1>9
-----------------------------------------------------------------------------
(* The tables in RAM.                                                      *)

Tables == [phys : [Sectors -> Sectors \cup {NoSector}], locked : SUBSET Sectors,
           inactive : [Sectors -> Nat], lut : Seq(Items), unique : Nat,
           seqs : SeqsType, last : Sectors]

Room == \A p \in Sectors, g \in Pages : UsedOf(flash[p].page[g]) <= PageSize

LEMMA InactiveTyped ==
  ASSUME use \in Uses, FlashTyped, NEW m, PhysTyped(m), NEW s \in InUse(m)
  PROVE  InactiveSum(m, s) \in Nat
<1> DEFINE unneeded(k, r) == r.val = Removed /\ m.lut[k].refs = 1
           counts(g, i) ==
             \/ ~IsItem(m, s, g, i)
             \/ \E k \in DOMAIN m.lut : /\ m.lut[k].sec = s /\ m.lut[k].page = g
                                        /\ m.lut[k].idx = i
                                        /\ unneeded(k, PageOf(m, s, g)[i])
           D(g) == {i \in DOMAIN PageOf(m, s, g) : counts(g, i)}
<1>1. InactiveSum(m, s) = Total(PageOf(m, s, 1), D(1)) + Total(PageOf(m, s, 2), D(2))
  BY DEF InactiveSum, Total
<1>2. \A g \in Pages : D(g) \in SUBSET DOMAIN PageOf(m, s, g)
  OBVIOUS
<1> HIDE DEF D
<1>3. ASSUME NEW g \in Pages
      PROVE  Total(PageOf(m, s, g), D(g)) \in Nat
  <2>1. PageOf(m, s, g) \in Seq(Record)
    BY PagesTyped
  <2>2. IsFiniteSet(D(g)) /\ Sized(PageOf(m, s, g), D(g))
    BY <1>2, <2>1, RecordsAreSized
  <2> QED BY <2>2, TotalIs
<1> QED BY <1>1, <1>3 DEF Pages

LEMMA FreeOnIs ==
  ASSUME use \in Uses, FlashTyped, Room, NEW m, PhysTyped(m), NEW s \in InUse(m), NEW g \in Pages
  PROVE  FreeOn(m, s, g) \in Nat /\ UsedOf(PageOf(m, s, g)) = PageSize - FreeOn(m, s, g)
<1>1. m.phys[s] \in Sectors /\ PageOf(m, s, g) \in Seq(Record)
  BY PagesTyped
<1>2. UsedOf(PageOf(m, s, g)) \in Nat /\ UsedOf(PageOf(m, s, g)) <= PageSize
  BY <1>1, UsedIs DEF Room, PageOf
<1> QED BY <1>2, NvmAssumption DEF FreeOn

LEMMA LeastFreeIs ==
  ASSUME use \in Uses, FlashTyped, Room, NEW m, PhysTyped(m), NEW s \in InUse(m),
         NEW size \in Nat \ {0}, \E g \in Pages : FreeOn(m, s, g) >= size
  PROVE  /\ LeastFree(m, s, size) \in Nat
         /\ PickPage(m, s, size) \in Pages
         /\ UsedOf(PageOf(m, s, PickPage(m, s, size))) + size <= PageSize
<1> DEFINE F == {FreeOn(m, s, g) : g \in Pages}
           T == F \ 0 .. size - 1
           L == LeastFree(m, s, size)
<1>1. \A g \in Pages : FreeOn(m, s, g) \in Nat /\ UsedOf(PageOf(m, s, g)) = PageSize - FreeOn(m, s, g)
  BY FreeOnIs
<1>2. T \in SUBSET Nat
  BY <1>1
<1>3. T # {}
  <2>1. PICK g \in Pages : FreeOn(m, s, g) >= size
    OBVIOUS
  <2> QED BY <1>1, <2>1
<1>4. L \in T
  BY <1>2, <1>3, MinIs DEF LeastFree
<1>5. L \in Nat /\ L >= size /\ \E g \in Pages : L = FreeOn(m, s, g)
  BY <1>2, <1>4
<1> HIDE DEF L
<1>6. PickPage(m, s, size) \in Pages /\ FreeOn(m, s, PickPage(m, s, size)) = L
  BY <1>5 DEF PickPage, Pages, L
<1>7. PageSize \in Nat
  BY NvmAssumption
<1> QED BY <1>1, <1>5, <1>6, <1>7 DEF L

LEMMA LeastCost ==
  ASSUME NEW T, T # {}, NEW c \in [T -> Nat]
  PROVE  \E s \in T : \A r \in T : c[s] <= c[r]
<1> DEFINE C == {c[s] : s \in T}
<1>1. C \in SUBSET Nat /\ C # {}
  OBVIOUS
<1>2. PICK x \in C : \A y \in C : x <= y
  BY <1>1, MinExists
<1> QED BY <1>2

LEMMA FitsIs ==
  ASSUME NEW m, NEW size, NEW s \in Fits(m, size)
  PROVE  s \in InUse(m) /\ s \notin m.locked /\ \E g \in Pages : FreeOn(m, s, g) >= size
BY DEF Fits

(* Record_Allocate chooses a sector with room.                             *)
LEMMA PickSectorIs ==
  ASSUME use \in Uses, FlashTyped, Room, NEW m \in Tables,
         NEW size \in Nat \ {0}, Fits(m, size) # {}
  PROVE  PickSector(m, size) \in Fits(m, size)
<1> DEFINE cost(s) == IF IsUrgent THEN m.inactive[s] ELSE LeastFree(m, s, size)
           fits    == Fits(m, size)
           T       == {s \in fits : \A r \in fits : cost(s) <= cost(r)}
<1>1. PhysTyped(m) /\ m.inactive \in [Sectors -> Nat]
  BY DEF Tables, PhysTyped
<1>2. fits \subseteq Sectors
  BY FitsIs DEF InUse
<1>3. \A s \in fits : cost(s) \in Nat
  <2> TAKE s \in fits
  <2>1. s \in InUse(m) /\ s \in Sectors /\ \E g \in Pages : FreeOn(m, s, g) >= size
    BY <1>2, FitsIs
  <2>2. LeastFree(m, s, size) \in Nat
    BY <1>1, <2>1, LeastFreeIs
  <2> QED BY <1>1, <2>1, <2>2
<1> HIDE DEF cost, fits
<1> DEFINE c == [s \in fits |-> cost(s)]
<1>4. c \in [fits -> Nat] /\ fits # {}
  BY <1>3 DEF fits
<1>5. PICK s \in fits : \A r \in fits : c[s] <= c[r]
  BY <1>4, LeastCost
<1>6. T # {} /\ T \in SUBSET Nat
  BY <1>2, <1>5, NumbersOfSectors
<1>7. Min(T) \in T
  BY <1>6, MinIs
<1>8. PickSector(m, size) = Min(T)
  BY DEF PickSector, cost, fits
<1> QED BY <1>7, <1>8 DEF fits
-----------------------------------------------------------------------------
(* A record is listed.                                                     *)

Unlike(lut) == \A j, k \in DOMAIN lut : lut[j].tok = lut[k].tok => j = k

(* The item of t, if any, leads to a new place in the table new.           *)
Relisted(lut, t, sec, page, idx, new) ==
  /\ new \in Seq(Items) /\ Len(new) = Len(lut) /\ DOMAIN new = DOMAIN lut
  /\ \A k \in DOMAIN lut :
       /\ new[k].tok = lut[k].tok /\ new[k].refs = lut[k].refs
       /\ lut[k].tok # t => new[k] = lut[k]
       /\ lut[k].tok = t => new[k].sec = sec /\ new[k].page = page /\ new[k].idx = idx

LEMMA ListAtOld ==
  ASSUME NEW lut \in Seq(Items), NEW t, NEW sec \in Sectors, NEW page \in Pages,
         NEW idx \in Nat \ {0}, \E k \in DOMAIN lut : lut[k].tok = t
  PROVE  Relisted(lut, t, sec, page, idx, ListAt(lut, t, sec, page, idx))
<1> DEFINE is  == {k \in DOMAIN lut : lut[k].tok = t}
           new == [k \in DOMAIN lut |->
                     IF k \in is THEN [lut[k] EXCEPT !.sec = sec, !.page = page, !.idx = idx]
                                 ELSE lut[k]]
<1>1. ListAt(lut, t, sec, page, idx) = new
  BY DEF ListAt
<1>2. DOMAIN lut = 1 .. Len(lut) /\ Len(lut) \in Nat /\ \A k \in DOMAIN lut : lut[k] \in Items
  OBVIOUS
<1>3. \A k \in DOMAIN lut : new[k] \in Items
  BY <1>2 DEF Items
<1>4. \A k \in DOMAIN lut :
        /\ new[k].tok = lut[k].tok /\ new[k].refs = lut[k].refs
        /\ lut[k].tok # t => new[k] = lut[k]
        /\ lut[k].tok = t => new[k].sec = sec /\ new[k].page = page /\ new[k].idx = idx
  BY <1>2 DEF Items
<1>5. DOMAIN new = 1 .. Len(lut)
  BY <1>2
<1> HIDE DEF new
<1>6. new \in Seq(Items) /\ Len(new) = Len(lut)
  <2>1. new = [k \in 1 .. Len(lut) |-> new[k]]
    BY <1>5 DEF new
  <2>2. new \in [1 .. Len(lut) -> Items]
    BY <1>2, <1>3, <2>1
  <2> QED BY <1>2, <1>5, <2>2, SeqDef, LenProperties
<1>7. Relisted(lut, t, sec, page, idx, new)
  BY <1>2, <1>4, <1>5, <1>6 DEF Relisted
<1> QED BY <1>1, <1>7 DEF new

LEMMA ListAtNew ==
  ASSUME NEW lut \in Seq(Items), NEW t \in Tokens, NEW sec \in Sectors, NEW page \in Pages,
         NEW idx \in Nat \ {0}, ~\E k \in DOMAIN lut : lut[k].tok = t
  PROVE  ListAt(lut, t, sec, page, idx)
           = IF Len(lut) < use.names
             THEN Append(lut, [tok |-> t, sec |-> sec, page |-> page, idx |-> idx, refs |-> 0])
             ELSE lut
<1>1. {k \in DOMAIN lut : lut[k].tok = t} = {}
  OBVIOUS
<1> QED BY <1>1 DEF ListAt

(* A table that lists tokens once is as long as they are many.             *)
LEMMA UnlikeLength ==
  ASSUME NEW lut \in Seq(Items), Unlike(lut)
  PROVE  LET T == {lut[k].tok : k \in DOMAIN lut}
         IN  IsFiniteSet(T) /\ Cardinality(T) = Len(lut)
<1> DEFINE N == 1 .. Len(lut)
           T == {lut[k].tok : k \in DOMAIN lut}
           f == [k \in N |-> lut[k].tok]
<1>1. DOMAIN lut = N /\ Len(lut) \in Nat
  OBVIOUS
<1>2. IsFiniteSet(N) /\ Cardinality(N) = Len(lut)
  BY <1>1, FS_Interval
<1>3. f \in Bijection(N, T)
  <2>1. f \in [N -> T]
    BY <1>1
  <2>2. \A j, k \in N : f[j] = f[k] => j = k
    BY <1>1 DEF Unlike
  <2>3. \A t \in T : \E k \in N : f[k] = t
    BY <1>1
  <2> QED BY <2>1, <2>2, <2>3 DEF Bijection, Injection, Surjection, IsInjective
<1>4. ExistsBijection(N, T)
  BY <1>3 DEF ExistsBijection
<1> QED BY <1>2, <1>4, FS_Bijection
-----------------------------------------------------------------------------
(***************************************************************************)
(* The flash F over sectors S, and the map phys of them, as values: what   *)
(* is said of them holds of the next state too.                            *)
(***************************************************************************)
HeadersIn(S) == [id : S \cup {NoSector}, pending : BOOLEAN]
SectorsIn(S) == [head : [Pages -> HeadersIn(S)], page : [Pages -> Seq(Record)]]
FlashIn(S)   == [S -> SectorsIn(S)]
MapIn(S)     == [S -> S \cup {NoSector}]

HeadOf(s) == [id |-> s, pending |-> FALSE]

IsValid(x)   == x.head[1].id # NoSector
IsBroken(x)  == \/ x.head[1] # x.head[2]
                \/ \E g \in Pages : \E i \in DOMAIN x.page[g] : ~x.page[g][i].ok
IsSound(x)   == IsValid(x) /\ ~IsBroken(x)

(* The good records of a sector, if its header is valid.                   *)
Shown(x) == {r \in UNION {Range(GoodRecords(x.page[g])) : g \in Pages} : IsValid(x)}

RecordsIn(F, S) == UNION {Shown(F[p]) : p \in S}
TokensIn(F, S)  == {r.tok : r \in RecordsIn(F, S)}

(* An erase is only ever announced in the first header; a sector without a *)
(* header is blank; no two sound sectors have one number.                  *)
FlashGood(F, S) ==
  /\ \A p \in S : ~F[p].head[2].pending
  /\ \A p \in S : F[p].head[1] = NoHeader => F[p] = Blank
  /\ \A p, q \in S : IsSound(F[p]) /\ IsSound(F[q]) /\ F[p].head[1].id = F[q].head[1].id => p = q

Named(F, S, n) == IsFiniteSet(TokensIn(F, S)) /\ Cardinality(TokensIn(F, S)) <= n

LEMMA BlankIs ==
  ASSUME NEW S
  PROVE  /\ Blank \in SectorsIn(S) /\ ~IsValid(Blank) /\ Shown(Blank) = {}
         /\ \A g \in Pages : Blank.head[g] = NoHeader /\ Blank.page[g] = <<>>
<1>1. \A g \in Pages : Blank.head[g] = NoHeader /\ Blank.page[g] = <<>>
  BY DEF Blank
<1>2. ~IsValid(Blank)
  BY <1>1 DEF IsValid, NoHeader, Pages
<1>3. Blank \in SectorsIn(S)
  <2>1. NoHeader \in HeadersIn(S) /\ <<>> \in Seq(Record)
    BY DEF NoHeader, HeadersIn
  <2> QED BY <2>1 DEF Blank, SectorsIn
<1> QED BY <1>1, <1>2, <1>3 DEF Shown

LEMMA TokensAre ==
  ASSUME NEW F, NEW S, NEW t
  PROVE  t \in TokensIn(F, S) <=> \E p \in S : \E r \in Shown(F[p]) : r.tok = t
BY DEF TokensIn, RecordsIn

(* One sector changes.                                                     *)
LEMMA OneSector ==
  ASSUME NEW S, NEW F \in FlashIn(S), FlashGood(F, S), NEW p \in S, NEW x \in SectorsIn(S),
         ~x.head[2].pending, x.head[1] = NoHeader => x = Blank,
         IsSound(x) => \A q \in S \ {p} : IsSound(F[q]) => F[q].head[1].id # x.head[1].id
  PROVE  /\ [F EXCEPT ![p] = x] \in FlashIn(S)
         /\ FlashGood([F EXCEPT ![p] = x], S)
<1> DEFINE G == [F EXCEPT ![p] = x]
<1>1. G[p] = x /\ \A q \in S \ {p} : G[q] = F[q]
  BY DEF FlashIn
<1>2. G \in FlashIn(S)
  BY DEF FlashIn
<1> HIDE DEF G
<1>3. FlashGood(G, S)
  BY <1>1 DEF FlashGood
<1> QED BY <1>2, <1>3 DEF G

LEMMA FewerTokens ==
  ASSUME NEW S, NEW F \in FlashIn(S), NEW n \in Nat, Named(F, S, n), NEW p \in S, NEW x,
         \A r \in Shown(x) : r.tok \in TokensIn(F, S)
  PROVE  Named([F EXCEPT ![p] = x], S, n)
<1> DEFINE G == [F EXCEPT ![p] = x]
<1>1. G[p] = x /\ \A q \in S \ {p} : G[q] = F[q]
  BY DEF FlashIn
<1> HIDE DEF G
<1>2. TokensIn(G, S) \in SUBSET TokensIn(F, S)
  <2> SUFFICES ASSUME NEW t \in TokensIn(G, S) PROVE t \in TokensIn(F, S)
    OBVIOUS
  <2>1. PICK q \in S : \E r \in Shown(G[q]) : r.tok = t
    BY TokensAre
  <2>2. CASE q = p
    BY <1>1, <2>1, <2>2
  <2>3. CASE q # p
    BY <1>1, <2>1, <2>3, TokensAre
  <2> QED BY <2>2, <2>3
<1>3. IsFiniteSet(TokensIn(F, S)) /\ Cardinality(TokensIn(F, S)) <= n
  BY DEF Named
<1>4. IsFiniteSet(TokensIn(G, S)) /\ Cardinality(TokensIn(G, S)) <= Cardinality(TokensIn(F, S))
  BY <1>2, <1>3, FS_Subset
<1>5. Cardinality(TokensIn(G, S)) \in Nat /\ Cardinality(TokensIn(F, S)) \in Nat
  BY <1>3, <1>4, FS_CardinalityType
<1> QED BY <1>3, <1>4, <1>5 DEF Named, G

-----------------------------------------------------------------------------
(* The map and the table.                                                  *)

(* A sector of the map has its number in both headers, unless it is being  *)
(* opened, and whole records; all sectors with a header are mapped.        *)
TidyIn(F, S, phys, open) ==
  /\ \A s \in S : phys[s] # NoSector =>
       /\ F[phys[s]].head[1] = HeadOf(s)
       /\ s # open => F[phys[s]].head[2] = HeadOf(s)
       /\ s = open => F[phys[s]].head[2] = NoHeader /\ F[phys[s]].page = Blank.page
       /\ \A g \in Pages : AllOk(F[phys[s]].page[g])
  /\ \A p \in S : IsValid(F[p]) => phys[F[p].head[1].id] = p

(* Sector s of the map has a record of t.                                  *)
Carries(F, phys, s, t) ==
  /\ phys[s] # NoSector
  /\ \E g \in Pages : \E i \in DOMAIN F[phys[s]].page[g] : F[phys[s]].page[g][i].tok = t

(* An item leads to a record of its token.                                 *)
Leads(F, S, phys, it) ==
  /\ it.sec \in S /\ phys[it.sec] # NoSector /\ it.page \in Pages
  /\ it.idx \in DOMAIN F[phys[it.sec]].page[it.page]
  /\ F[phys[it.sec]].page[it.page][it.idx].tok = it.tok

(* The table lists the tokens of the pool, each of them once.              *)
ListsIn(F, S, phys, lut) ==
  /\ Unlike(lut)
  /\ \A k \in DOMAIN lut : Leads(F, S, phys, lut[k])
  /\ \A s \in S, t \in Tokens : Carries(F, phys, s, t) => \E k \in DOMAIN lut : lut[k].tok = t

LEMMA ValidIs ==
  ASSUME NEW S, NoSector \notin S, NEW F \in FlashIn(S), NEW p \in S
  PROVE  /\ F[p].head[1] \in HeadersIn(S) /\ F[p].head[2] \in HeadersIn(S)
         /\ IsValid(F[p]) => F[p].head[1].id \in S
         /\ \A g \in Pages : /\ F[p].page[g] \in Seq(Record)
                             /\ \A i \in DOMAIN F[p].page[g] : F[p].page[g][i] \in Record
<1>1. F[p] \in SectorsIn(S)
  BY DEF FlashIn
<1>2. F[p].head[1] \in HeadersIn(S) /\ F[p].head[2] \in HeadersIn(S)
  BY <1>1 DEF SectorsIn, Pages
<1>3. \A g \in Pages : F[p].page[g] \in Seq(Record)
  BY <1>1 DEF SectorsIn
<1>4. \A g \in Pages : \A i \in DOMAIN F[p].page[g] : F[p].page[g][i] \in Record
  BY <1>3, RecordsAreSized
<1> QED BY <1>2, <1>3, <1>4 DEF HeadersIn, IsValid

(* No two sectors of the map are one.                                      *)
LEMMA MapInjective ==
  ASSUME NEW S, NoSector \notin S, NEW F \in FlashIn(S), NEW phys \in MapIn(S), NEW open,
         TidyIn(F, S, phys, open), NEW s \in S, NEW q \in S,
         phys[s] # NoSector, phys[s] = phys[q]
  PROVE  s = q
<1>1. HeadOf(s) = HeadOf(q)
  BY DEF TidyIn
<1> QED BY <1>1 DEF HeadOf

(* The tokens of the flash are those of the pool.                          *)
LEMMA TokensCarried ==
  ASSUME NEW S, NoSector \notin S, NEW F \in FlashIn(S), NEW phys \in MapIn(S), NEW open,
         TidyIn(F, S, phys, open), NEW t
  PROVE  /\ t \in TokensIn(F, S) <=> \E s \in S : Carries(F, phys, s, t)
         /\ t \in TokensIn(F, S) => t \in Tokens
<1>1. ASSUME NEW p \in S, NEW r \in Shown(F[p])
      PROVE  \E s \in S : Carries(F, phys, s, r.tok) /\ r.tok \in Tokens
  <2>1. PICK g \in Pages : r \in Range(GoodRecords(F[p].page[g])) /\ IsValid(F[p])
    BY <1>1 DEF Shown
  <2> DEFINE rs == F[p].page[g]
             s  == F[p].head[1].id
  <2>2. rs \in Seq(Record) /\ s \in S
    BY <2>1, ValidIs
  <2>3. phys[s] = p
    BY <2>1 DEF TidyIn
  <2>4. AllOk(rs)
    BY <2>2, <2>3 DEF TidyIn
  <2>5. GoodRecords(rs) = rs
    BY <2>2, <2>4, GoodIs
  <2>6. PICK i \in DOMAIN rs : rs[i] = r
    BY <2>1, <2>5 DEF Range
  <2>7. Carries(F, phys, s, r.tok)
    BY <2>2, <2>3, <2>6 DEF Carries
  <2>8. r \in Record
    BY <2>2, <2>6, RecordsAreSized
  <2> QED BY <2>2, <2>7, <2>8 DEF Record
<1>2. ASSUME NEW s \in S, Carries(F, phys, s, t)
      PROVE  \E p \in S : \E r \in Shown(F[p]) : r.tok = t
  <2>1. PICK g \in Pages : \E i \in DOMAIN F[phys[s]].page[g] : F[phys[s]].page[g][i].tok = t
    BY <1>2 DEF Carries
  <2> DEFINE rs == F[phys[s]].page[g]
  <2>2. PICK i \in DOMAIN rs : rs[i].tok = t
    BY <2>1
  <2>3. phys[s] \in S /\ AllOk(rs) /\ IsValid(F[phys[s]])
    <3>1. phys[s] \in S
      BY <1>2 DEF Carries, MapIn
    <3>2. F[phys[s]].head[1] = HeadOf(s) /\ AllOk(rs)
      BY <1>2 DEF Carries, TidyIn
    <3>3. IsValid(F[phys[s]])
      BY <3>2 DEF IsValid, HeadOf
    <3> QED BY <3>1, <3>2, <3>3
  <2>4. rs \in Seq(Record)
    BY <2>3, ValidIs
  <2>5. GoodRecords(rs) = rs
    BY <2>3, <2>4, GoodIs
  <2>6. rs[i] \in Shown(F[phys[s]])
    <3>1. rs[i] \in Range(GoodRecords(rs))
      BY <2>5 DEF Range
    <3> QED BY <2>3, <3>1 DEF Shown
  <2> QED BY <2>2, <2>3, <2>6
<1> QED BY <1>1, <1>2, TokensAre

(* A table that lists the pool has as many items as there are tokens.      *)
LEMMA ListLength ==
  ASSUME NEW S, NoSector \notin S, NEW F \in FlashIn(S), NEW phys \in MapIn(S), NEW open,
         TidyIn(F, S, phys, open), NEW lut \in Seq(Items), ListsIn(F, S, phys, lut)
  PROVE  /\ IsFiniteSet(TokensIn(F, S)) /\ Len(lut) = Cardinality(TokensIn(F, S))
         /\ TokensIn(F, S) = {lut[k].tok : k \in DOMAIN lut}
<1> DEFINE T == {lut[k].tok : k \in DOMAIN lut}
<1>1. \A k \in DOMAIN lut : lut[k].tok \in TokensIn(F, S)
  <2> TAKE k \in DOMAIN lut
  <2>1. lut[k].sec \in S /\ Carries(F, phys, lut[k].sec, lut[k].tok)
    BY DEF ListsIn, Leads, Carries
  <2> QED BY <2>1, TokensCarried
<1>2. \A t \in TokensIn(F, S) : t \in T
  <2> TAKE t \in TokensIn(F, S)
  <2>1. t \in Tokens /\ \E s \in S : Carries(F, phys, s, t)
    BY TokensCarried
  <2> QED BY <2>1 DEF ListsIn
<1>3. TokensIn(F, S) = T
  BY <1>1, <1>2
<1>4. IsFiniteSet(T) /\ Cardinality(T) = Len(lut)
  BY UnlikeLength DEF ListsIn
<1> QED BY <1>3, <1>4
-----------------------------------------------------------------------------
(***************************************************************************)
(* Steps of the flash: a record more, a header, a sector erased.           *)
(***************************************************************************)

(* A record is appended to page g of sector x.                             *)
With(x, g, r) == [x EXCEPT !.page[g] = Append(@, r)]

LEMMA WithIs ==
  ASSUME NEW S, NEW x \in SectorsIn(S), NEW g \in Pages, NEW r \in Record
  PROVE  /\ With(x, g, r) \in SectorsIn(S) /\ With(x, g, r).head = x.head
         /\ With(x, g, r).page[g] = Append(x.page[g], r)
         /\ \A h \in Pages \ {g} : With(x, g, r).page[h] = x.page[h]
         /\ x.page[g] \in Seq(Record) /\ Append(x.page[g], r) \in Seq(Record)
<1>1. /\ With(x, g, r) = [x EXCEPT !.page = [x.page EXCEPT ![g] = Append(x.page[g], r)]]
      /\ x.page \in [Pages -> Seq(Record)]
  BY DEF With, SectorsIn
<1>2. x.page[g] \in Seq(Record) /\ Append(x.page[g], r) \in Seq(Record)
  BY <1>1
<1> DEFINE a == Append(x.page[g], r)
           f == [x.page EXCEPT ![g] = a]
<1> HIDE DEF a
<1>3. f \in [Pages -> Seq(Record)] /\ f[g] = a /\ \A h \in Pages \ {g} : f[h] = x.page[h]
  BY <1>1, <1>2 DEF a
<1> HIDE DEF f
<1>4. /\ [x EXCEPT !.page = f] \in SectorsIn(S) /\ [x EXCEPT !.page = f].head = x.head
      /\ [x EXCEPT !.page = f].page = f
  BY <1>3 DEF SectorsIn
<1> QED BY <1>1, <1>2, <1>3, <1>4 DEF a, f

LEMMA AppendElements ==
  ASSUME NEW rs \in Seq(Record), NEW r \in Record
  PROVE  LET qs == Append(rs, r)
         IN  /\ DOMAIN qs = DOMAIN rs \cup {Len(rs) + 1} /\ Len(rs) + 1 \in Nat \ {0}
             /\ Len(rs) + 1 \notin DOMAIN rs
             /\ qs[Len(rs) + 1] = r /\ \A i \in DOMAIN rs : qs[i] = rs[i]
             /\ AllOk(qs) <=> AllOk(rs) /\ r.ok
<1> DEFINE qs == Append(rs, r)
<1>1. /\ DOMAIN qs = DOMAIN rs \cup {Len(rs) + 1} /\ Len(rs) + 1 \in Nat \ {0}
      /\ Len(rs) + 1 \notin DOMAIN rs
      /\ qs[Len(rs) + 1] = r /\ \A i \in DOMAIN rs : qs[i] = rs[i]
  OBVIOUS
<1> HIDE DEF qs
<1>2. AllOk(qs) <=> AllOk(rs) /\ r.ok
  BY <1>1 DEF AllOk
<1> QED BY <1>1, <1>2 DEF qs

LEMMA BrokenIs ==
  ASSUME NEW x PROVE IsBroken(x) <=> x.head[1] # x.head[2] \/ \E g \in Pages : ~AllOk(x.page[g])
BY DEF IsBroken, AllOk

(* What an appended record shows.                                          *)
LEMMA WithShows ==
  ASSUME NEW S, NEW x \in SectorsIn(S), NEW g \in Pages, NEW r \in Record
  PROVE  /\ IsSound(With(x, g, r)) => IsSound(x)
         /\ AllOk(x.page[g]) => \A o \in Shown(With(x, g, r)) : o \in Shown(x) \/ (o = r /\ r.ok)
<1> DEFINE y == With(x, g, r)
<1>1. /\ y.head = x.head /\ y.page[g] = Append(x.page[g], r)
      /\ \A h \in Pages \ {g} : y.page[h] = x.page[h]
      /\ x.page[g] \in Seq(Record)
  BY WithIs
<1> HIDE DEF y
<1>2. IsSound(y) => IsSound(x)
  <2>1. AllOk(y.page[g]) => AllOk(x.page[g])
    BY <1>1, AppendElements
  <2> QED BY <1>1, <2>1, BrokenIs DEF IsSound, IsValid
<1>3. ASSUME AllOk(x.page[g]), NEW o \in Shown(y)
      PROVE  o \in Shown(x) \/ (o = r /\ r.ok)
  <2>1. PICK h \in Pages : o \in Range(GoodRecords(y.page[h])) /\ IsValid(x)
    BY <1>1, <1>3 DEF Shown, IsValid
  <2>2. CASE h # g
    <3>1. o \in Range(GoodRecords(x.page[h]))
      BY <1>1, <2>1, <2>2
    <3> QED BY <2>1, <3>1 DEF Shown
  <2>3. CASE h = g
    <3>1. GoodRecords(y.page[g]) = IF r.ok THEN Append(x.page[g], r) ELSE x.page[g]
      BY <1>1, <1>3, GoodAppend
    <3>2. Range(Append(x.page[g], r)) = Range(x.page[g]) \cup {r}
      BY <1>1, RangeAppend
    <3>3. GoodRecords(x.page[g]) = x.page[g]
      BY <1>1, <1>3, GoodIs
    <3>4. o \in Range(GoodRecords(x.page[g])) \/ (o = r /\ r.ok)
      BY <2>1, <2>3, <3>1, <3>2, <3>3
    <3> QED BY <2>1, <3>4 DEF Shown
  <2> QED BY <2>2, <2>3
<1> QED BY <1>2, <1>3 DEF y

(* A record is written in sector s of the map.                             *)
Stores(F, phys, s, g, r) == [F EXCEPT ![phys[s]] = With(F[phys[s]], g, r)]

LEMMA StoreTidy ==
  ASSUME NEW S, NoSector \notin S, NEW F \in FlashIn(S), NEW phys \in MapIn(S),
         TidyIn(F, S, phys, NoSector), NEW s \in S, phys[s] # NoSector,
         NEW g \in Pages, NEW r \in Record
  PROVE  LET G == Stores(F, phys, s, g, r)
         IN  /\ G \in FlashIn(S)
             /\ G[phys[s]] = With(F[phys[s]], g, r) /\ \A q \in S \ {phys[s]} : G[q] = F[q]
             /\ FlashGood(F, S) => FlashGood(G, S)
             /\ r.ok => TidyIn(G, S, phys, NoSector)
             /\ \A q \in S : \A t : Carries(G, phys, q, t) <=> Carries(F, phys, q, t) \/ (q = s /\ t = r.tok)
             /\ \A it : Leads(F, S, phys, it) => /\ Leads(G, S, phys, it)
                                                 /\ G[phys[it.sec]].page[it.page][it.idx]
                                                      = F[phys[it.sec]].page[it.page][it.idx]
             /\ G[phys[s]].page[g][Len(F[phys[s]].page[g]) + 1] = r
             /\ Len(F[phys[s]].page[g]) + 1 \in DOMAIN G[phys[s]].page[g]
<1> DEFINE p  == phys[s]
           x  == F[p]
           y  == With(x, g, r)
           G  == Stores(F, phys, s, g, r)
           rs == x.page[g]
<1>1. p \in S /\ x \in SectorsIn(S)
  BY DEF MapIn, FlashIn
<1>p. p = phys[s] /\ x = F[phys[s]] /\ rs = F[phys[s]].page[g]
  OBVIOUS
<1>2. /\ y \in SectorsIn(S) /\ y.head = x.head /\ y.page[g] = Append(rs, r)
      /\ \A h \in Pages \ {g} : y.page[h] = x.page[h]
      /\ rs \in Seq(Record)
  <2>1. F[phys[s]] \in SectorsIn(S)
    BY <1>1
  <2>2. /\ With(F[phys[s]], g, r) \in SectorsIn(S) /\ With(F[phys[s]], g, r).head = F[phys[s]].head
        /\ With(F[phys[s]], g, r).page[g] = Append(F[phys[s]].page[g], r)
        /\ \A h \in Pages \ {g} : With(F[phys[s]], g, r).page[h] = F[phys[s]].page[h]
        /\ F[phys[s]].page[g] \in Seq(Record)
    <3>1. \A z \in SectorsIn(S) :
            /\ With(z, g, r) \in SectorsIn(S) /\ With(z, g, r).head = z.head
            /\ With(z, g, r).page[g] = Append(z.page[g], r)
            /\ \A h \in Pages \ {g} : With(z, g, r).page[h] = z.page[h]
            /\ z.page[g] \in Seq(Record)
      BY WithIs
    <3> QED BY <2>1, <3>1
  <2> QED BY <2>2
<1>3. G[p] = y /\ (\A q \in S \ {p} : G[q] = F[q]) /\ G = [F EXCEPT ![p] = y]
  BY <1>1 DEF Stores, FlashIn
<1>y. y = With(x, g, r)
  OBVIOUS
<1> HIDE DEF G, y, p, x, rs
<1>z. x = F[p] /\ rs = x.page[g]
  BY <1>p
<1> USE <1>p, <1>z
<1>4. /\ DOMAIN y.page[g] = DOMAIN rs \cup {Len(rs) + 1}
      /\ y.page[g][Len(rs) + 1] = r /\ \A i \in DOMAIN rs : y.page[g][i] = rs[i]
      /\ AllOk(y.page[g]) <=> AllOk(rs) /\ r.ok
  BY <1>2, AppendElements
<1>5. G \in FlashIn(S) /\ (FlashGood(F, S) => FlashGood(G, S))
  <2>1. G \in FlashIn(S)
    BY <1>1, <1>2, <1>3 DEF FlashIn
  <2>2. ASSUME FlashGood(F, S) PROVE FlashGood(G, S)
    <3>1. ~y.head[2].pending
      BY <1>1, <1>2, <2>2 DEF FlashGood
    <3>2. y.head[1] # NoHeader
      <4>1. F[p].head[1] = HeadOf(s)
        BY DEF TidyIn
      <4> QED BY <1>2, <1>y, <4>1 DEF HeadOf, NoHeader
    <3>3. IsSound(y) => \A q \in S \ {p} : IsSound(F[q]) => F[q].head[1].id # y.head[1].id
      <4>1. IsSound(y) => IsSound(x)
        BY <1>1, WithShows DEF y
      <4> QED BY <1>1, <1>2, <1>y, <2>2, <4>1 DEF FlashGood
    <3>4. FlashGood([F EXCEPT ![p] = y], S)
      BY <1>1, <1>2, <2>2, <3>1, <3>2, <3>3, OneSector
    <3> QED BY <1>3, <3>4
  <2> QED BY <2>1, <2>2
<1>6. \A q \in S : phys[q] = p => q = s
  BY MapInjective
<1>7. \A q \in S : phys[q] # NoSector => phys[q] \in S
  BY DEF MapIn
<1>8. \A q \in S : phys[q] # NoSector /\ q # s => G[phys[q]] = F[phys[q]]
  BY <1>3, <1>6, <1>7
<1>9. ASSUME r.ok PROVE TidyIn(G, S, phys, NoSector)
  <2>1. ASSUME NEW q \in S, phys[q] # NoSector
        PROVE  /\ G[phys[q]].head[1] = HeadOf(q)
               /\ G[phys[q]].head[2] = HeadOf(q)
               /\ \A h \in Pages : AllOk(G[phys[q]].page[h])
               /\ q # NoSector
    <3>1. /\ F[phys[q]].head[1] = HeadOf(q) /\ F[phys[q]].head[2] = HeadOf(q)
          /\ \A h \in Pages : AllOk(F[phys[q]].page[h])
      BY <2>1 DEF TidyIn
    <3>2. CASE q # s
      BY <1>8, <2>1, <3>1, <3>2
    <3>3. CASE q = s
      <4>1. AllOk(rs) /\ \A h \in Pages : AllOk(x.page[h])
        BY <3>1, <3>3
      <4>2. \A h \in Pages : AllOk(y.page[h])
        BY <1>2, <1>4, <1>9, <4>1
      <4>3. y.head[1] = HeadOf(q) /\ y.head[2] = HeadOf(q)
        BY <1>2, <3>1, <3>3
      <4> QED BY <1>3, <3>3, <4>2, <4>3
    <3> QED BY <3>2, <3>3
  <2>2. \A q \in S : IsValid(G[q]) => phys[G[q].head[1].id] = q
    <3> TAKE q \in S
    <3>1. G[q].head = F[q].head
      BY <1>2, <1>3
    <3> QED BY <3>1 DEF TidyIn, IsValid
  <2> QED BY <2>1, <2>2 DEF TidyIn
<1>10. ASSUME NEW q \in S, NEW t
       PROVE  Carries(G, phys, q, t) <=> Carries(F, phys, q, t) \/ (q = s /\ t = r.tok)
  <2>1. CASE q # s
    BY <1>8, <2>1 DEF Carries
  <2>2. CASE q = s
    <3>1. (\E h \in Pages : \E i \in DOMAIN y.page[h] : y.page[h][i].tok = t)
            <=> \/ \E h \in Pages : \E i \in DOMAIN x.page[h] : x.page[h][i].tok = t
                \/ t = r.tok
      <4>1. (\E i \in DOMAIN y.page[g] : y.page[g][i].tok = t)
              <=> (\E i \in DOMAIN rs : rs[i].tok = t) \/ t = r.tok
        BY <1>4
      <4>2. \A h \in Pages : h # g => y.page[h] = x.page[h]
        BY <1>2
      <4> DEFINE Y(h) == \E i \in DOMAIN y.page[h] : y.page[h][i].tok = t
                 X(h) == \E i \in DOMAIN x.page[h] : x.page[h][i].tok = t
      <4>3. \A h \in Pages : h # g => (Y(h) <=> X(h))
        BY <4>2
      <4>4. Y(g) <=> X(g) \/ t = r.tok
        BY <4>1
      <4> HIDE DEF Y, X
      <4>5. (\E h \in Pages : Y(h)) <=> (\E h \in Pages : X(h)) \/ t = r.tok
        BY <4>3, <4>4
      <4> QED BY <4>5 DEF Y, X
    <3> QED BY <1>3, <2>2, <3>1 DEF Carries
  <2> QED BY <2>1, <2>2
<1>11. ASSUME NEW it, Leads(F, S, phys, it)
       PROVE  /\ Leads(G, S, phys, it)
              /\ G[phys[it.sec]].page[it.page][it.idx] = F[phys[it.sec]].page[it.page][it.idx]
  <2>1. CASE it.sec # s
    BY <1>8, <1>11, <2>1 DEF Leads
  <2>2. CASE it.sec = s /\ it.page # g
    <3>1. G[phys[it.sec]].page[it.page] = F[phys[it.sec]].page[it.page]
      BY <1>2, <1>3, <1>11, <2>2 DEF Leads
    <3> QED BY <1>11, <3>1 DEF Leads
  <2>3. CASE it.sec = s /\ it.page = g
    BY <1>3, <1>4, <1>11, <2>3 DEF Leads
  <2> QED BY <2>1, <2>2, <2>3
<1>12. /\ G[phys[s]].page[g][Len(F[phys[s]].page[g]) + 1] = r
       /\ Len(F[phys[s]].page[g]) + 1 \in DOMAIN G[phys[s]].page[g]
  BY <1>3, <1>4
<1>13. G[phys[s]] = With(F[phys[s]], g, r) /\ \A q \in S \ {phys[s]} : G[q] = F[q]
  BY <1>3, <1>y
<1> QED BY <1>5, <1>9, <1>10, <1>11, <1>12, <1>13 DEF G

(* ... and listed.                                                         *)
LEMMA StoreLists ==
  ASSUME NEW S, NoSector \notin S, NEW F \in FlashIn(S), NEW phys \in MapIn(S),
         TidyIn(F, S, phys, NoSector), NEW s \in S, phys[s] # NoSector,
         NEW g \in Pages, NEW r \in Record, S = Sectors,
         NEW lut \in Seq(Items), ListsIn(F, S, phys, lut),
         (\E k \in DOMAIN lut : lut[k].tok = r.tok) \/ Len(lut) < use.names
  PROVE  LET new == ListAt(lut, r.tok, s, g, Len(F[phys[s]].page[g]) + 1)
         IN  /\ new \in Seq(Items) /\ ListsIn(Stores(F, phys, s, g, r), S, phys, new)
             /\ Len(new) = IF \E k \in DOMAIN lut : lut[k].tok = r.tok THEN Len(lut) ELSE Len(lut) + 1
             /\ \A k \in DOMAIN lut : lut[k].tok # r.tok => k \in DOMAIN new /\ new[k] = lut[k]
             /\ \A k \in DOMAIN new : new[k].tok = r.tok => new[k].sec = s
             /\ \A k \in DOMAIN new : k \in DOMAIN lut \/ new[k].tok = r.tok
             /\ \A k \in DOMAIN lut : k \in DOMAIN new /\ new[k].tok = lut[k].tok
<1> DEFINE idx == Len(F[phys[s]].page[g]) + 1
           new == ListAt(lut, r.tok, s, g, idx)
           G   == Stores(F, phys, s, g, r)
<1>1. /\ \A q \in S : \A t : Carries(G, phys, q, t) <=> Carries(F, phys, q, t) \/ (q = s /\ t = r.tok)
      /\ \A it : Leads(F, S, phys, it) => Leads(G, S, phys, it)
      /\ G[phys[s]].page[g][idx] = r /\ idx \in DOMAIN G[phys[s]].page[g]
  BY StoreTidy
<1>2. idx \in Nat \ {0}
  <2>1. phys[s] \in S
    BY DEF MapIn
  <2>2. F[phys[s]].page[g] \in Seq(Record)
    BY <2>1, ValidIs
  <2> QED BY <2>2
<1>3. /\ Unlike(lut) /\ (\A k \in DOMAIN lut : Leads(F, S, phys, lut[k]))
      /\ \A q \in S, t \in Tokens : Carries(F, phys, q, t) => \E k \in DOMAIN lut : lut[k].tok = t
  BY DEF ListsIn
<1>4. r.tok \in Tokens
  BY DEF Record
<1> HIDE DEF G, new, idx
<1>5. ASSUME NEW it, it.tok = r.tok, it.sec = s, it.page = g, it.idx = idx
      PROVE  Leads(G, S, phys, it)
  BY <1>1, <1>5 DEF Leads
<1>6. CASE \E k \in DOMAIN lut : lut[k].tok = r.tok
  <2>1. /\ new \in Seq(Items) /\ Len(new) = Len(lut) /\ DOMAIN new = DOMAIN lut
        /\ \A k \in DOMAIN lut :
             /\ new[k].tok = lut[k].tok
             /\ lut[k].tok # r.tok => new[k] = lut[k]
             /\ lut[k].tok = r.tok => new[k].sec = s /\ new[k].page = g /\ new[k].idx = idx
    <3>1. s \in Sectors
      OBVIOUS
    <3>2. Relisted(lut, r.tok, s, g, idx, ListAt(lut, r.tok, s, g, idx))
      BY <1>2, <1>6, <3>1, ListAtOld
    <3> QED BY <3>2 DEF new, Relisted
  <2>2. Unlike(new)
    BY <1>3, <2>1 DEF Unlike
  <2>3. \A k \in DOMAIN new : Leads(G, S, phys, new[k])
    BY <1>1, <1>3, <1>5, <2>1
  <2>4. \A q \in S, t \in Tokens : Carries(G, phys, q, t) => \E k \in DOMAIN new : new[k].tok = t
    BY <1>1, <1>3, <1>6, <2>1
  <2>5. ListsIn(G, S, phys, new)
    BY <2>2, <2>3, <2>4 DEF ListsIn
  <2> QED BY <1>6, <2>1, <2>5 DEF G, new, idx
<1>7. CASE ~\E k \in DOMAIN lut : lut[k].tok = r.tok
  <2> DEFINE it == [tok |-> r.tok, sec |-> s, page |-> g, idx |-> idx, refs |-> 0]
  <2>1. new = Append(lut, it) /\ it \in Items
    <3>1. s \in Sectors /\ Len(lut) < use.names
      BY <1>7
    <3>2. ListAt(lut, r.tok, s, g, idx) = Append(lut, it)
      BY <1>2, <1>4, <1>7, <3>1, ListAtNew
    <3> QED BY <1>2, <1>4, <3>1, <3>2 DEF new, Items
  <2> HIDE DEF it
  <2>2. /\ new \in Seq(Items) /\ Len(new) = Len(lut) + 1 /\ DOMAIN new = DOMAIN lut \cup {Len(lut) + 1}
        /\ new[Len(lut) + 1] = it /\ \A k \in DOMAIN lut : new[k] = lut[k]
    BY <2>1
  <2>3. it.tok = r.tok /\ it.sec = s /\ it.page = g /\ it.idx = idx
    BY DEF it
  <2>4. Unlike(new)
    BY <1>3, <1>7, <2>2, <2>3 DEF Unlike
  <2>5. \A k \in DOMAIN new : Leads(G, S, phys, new[k])
    BY <1>1, <1>3, <1>5, <2>2, <2>3
  <2>6. \A q \in S, t \in Tokens : Carries(G, phys, q, t) => \E k \in DOMAIN new : new[k].tok = t
    BY <1>1, <1>3, <2>2, <2>3
  <2>7. ListsIn(G, S, phys, new)
    BY <2>4, <2>5, <2>6 DEF ListsIn
  <2> QED BY <1>7, <2>2, <2>3, <2>7 DEF G, new, idx
<1> QED BY <1>6, <1>7
-----------------------------------------------------------------------------
(* A sector is opened, gets its second header, is erased.                  *)

(* The same records in the same places, but for sector s.                  *)
Alike(S, F, phys, G, psys, s) ==
  \A q \in S \ {s} : psys[q] = phys[q]
                     /\ (phys[q] # NoSector => G[phys[q]].page = F[phys[q]].page)

Keeps(S, F, phys, G, psys, s) ==
  /\ \A q \in S : \A t : q # s => (Carries(G, psys, q, t) <=> Carries(F, phys, q, t))
  /\ \A it : Leads(F, S, phys, it) /\ it.sec # s =>
       /\ Leads(G, S, psys, it)
       /\ G[psys[it.sec]].page[it.page][it.idx] = F[phys[it.sec]].page[it.page][it.idx]

LEMMA AlikeKeeps ==
  ASSUME NEW S, NEW F, NEW phys, NEW G, NEW psys, NEW s, Alike(S, F, phys, G, psys, s)
  PROVE  Keeps(S, F, phys, G, psys, s)
<1>1. ASSUME NEW q \in S, NEW t, q # s
      PROVE  Carries(G, psys, q, t) <=> Carries(F, phys, q, t)
  BY <1>1 DEF Carries, Alike
<1>2. ASSUME NEW it, Leads(F, S, phys, it), it.sec # s
      PROVE  /\ Leads(G, S, psys, it)
             /\ G[psys[it.sec]].page[it.page][it.idx] = F[phys[it.sec]].page[it.page][it.idx]
  BY <1>2 DEF Leads, Alike
<1> QED BY <1>1, <1>2 DEF Keeps

LEMMA SamePages ==
  ASSUME NEW S, NoSector \notin S, NEW F, NEW phys \in MapIn(S), NEW G,
         \A p \in S : G[p].page = F[p].page
  PROVE  Keeps(S, F, phys, G, phys, NoSector)
<1>1. \A q \in S : phys[q] # NoSector => G[phys[q]].page = F[phys[q]].page
  BY DEF MapIn
<1>2. Alike(S, F, phys, G, phys, NoSector)
  BY <1>1 DEF Alike
<1> QED BY <1>2, AlikeKeeps

Opened(s) == [head |-> [g \in Pages |-> IF g = 1 THEN HeadOf(s) ELSE NoHeader],
              page |-> [g \in Pages |-> <<>>]]

LEMMA OpenedIs ==
  ASSUME NEW S, NoSector \notin S, NEW s \in S
  PROVE  /\ Opened(s) \in SectorsIn(S) /\ Opened(s).head[1] = HeadOf(s)
         /\ Opened(s).head[2] = NoHeader /\ HeadOf(s) # NoHeader /\ HeadOf(s) \in HeadersIn(S)
         /\ HeadOf(s).id = s /\ ~HeadOf(s).pending /\ ~NoHeader.pending /\ NoHeader.id = NoSector
         /\ \A g \in Pages : Opened(s).page[g] = <<>>
         /\ ~IsSound(Opened(s)) /\ Shown(Opened(s)) = {}
<1>1. HeadOf(s) \in HeadersIn(S) /\ NoHeader \in HeadersIn(S) /\ <<>> \in Seq(Record)
  BY DEF HeadOf, NoHeader, HeadersIn
<1>2. Opened(s) \in SectorsIn(S)
  BY <1>1 DEF Opened, SectorsIn
<1>3. Opened(s).head[1] = HeadOf(s) /\ Opened(s).head[2] = NoHeader
      /\ \A g \in Pages : Opened(s).page[g] = <<>>
  BY DEF Opened, Pages
<1>4. HeadOf(s) # NoHeader /\ HeadOf(s).id = s /\ ~HeadOf(s).pending
      /\ ~NoHeader.pending /\ NoHeader.id = NoSector
  BY DEF HeadOf, NoHeader
<1>5. Shown(Opened(s)) = {}
  <2>1. \A g \in Pages : Range(GoodRecords(Opened(s).page[g])) = {}
    <3>1. <<>> \in Seq(Record) /\ AllOk(<<>>)
      BY DEF AllOk
    <3>2. GoodRecords(<<>>) = <<>>
      BY <3>1, GoodIs
    <3> QED BY <1>3, <3>2 DEF Range
  <2> QED BY <2>1 DEF Shown
<1>6. ~IsSound(Opened(s))
  BY <1>3, <1>4 DEF IsSound, IsBroken
<1> QED BY <1>1, <1>2, <1>3, <1>4, <1>5, <1>6

(* Sector s, that is not mapped, is opened at p, that is blank.            *)
LEMMA OpenTidy ==
  ASSUME NEW S, NoSector \notin S, NEW F \in FlashIn(S), NEW phys \in MapIn(S),
         FlashGood(F, S), TidyIn(F, S, phys, NoSector),
         NEW s \in S, phys[s] = NoSector, NEW p \in S, F[p] = Blank
  PROVE  LET G == [F EXCEPT ![p] = Opened(s)]
             psys == [phys EXCEPT ![s] = p]
         IN  /\ G \in FlashIn(S) /\ psys \in MapIn(S) /\ FlashGood(G, S) /\ TidyIn(G, S, psys, s)
             /\ psys[s] = p /\ G[p] = Opened(s) /\ \A q \in S \ {p} : G[q] = F[q]
             /\ \A q \in S \ {s} : psys[q] = phys[q]
             /\ Keeps(S, F, phys, G, psys, NoSector)
<1> DEFINE x == Opened(s)
           G == [F EXCEPT ![p] = x]
           psys == [phys EXCEPT ![s] = p]
<1>1. /\ x \in SectorsIn(S) /\ x.head[1] = HeadOf(s) /\ x.head[2] = NoHeader
      /\ HeadOf(s) # NoHeader /\ ~NoHeader.pending /\ HeadOf(s).id = s
      /\ (\A g \in Pages : x.page[g] = <<>>) /\ ~IsSound(x)
  BY OpenedIs
<1>2. /\ psys \in MapIn(S) /\ psys[s] = p /\ \A q \in S \ {s} : psys[q] = phys[q]
      /\ \A q \in S : phys[q] # NoSector => phys[q] \in S
  BY DEF MapIn
<1>3. G[p] = x /\ \A q \in S \ {p} : G[q] = F[q]
  BY DEF FlashIn
<1>4. G \in FlashIn(S) /\ FlashGood(G, S)
  <2> HIDE DEF x
  <2> QED BY <1>1, OneSector
<1> HIDE DEF G, psys, x
<1>5. \A q \in S : phys[q] # p /\ (phys[q] # NoSector => phys[q] \in S)
  <2> SUFFICES ASSUME NEW q \in S, phys[q] = p PROVE FALSE
    BY <1>2
  <2>1. F[p].head[1] = HeadOf(q) /\ p # NoSector
    BY DEF TidyIn
  <2>2. F[p].head[1] = NoHeader
    BY BlankIs DEF Pages
  <2> QED BY <2>1, <2>2 DEF HeadOf, NoHeader
<1>6. \A q \in S \ {s} : psys[q] = phys[q] /\ (phys[q] # NoSector => G[phys[q]] = F[phys[q]])
  BY <1>2, <1>3, <1>5
<1>7. TidyIn(G, S, psys, s)
  <2>1. ASSUME NEW q \in S, psys[q] # NoSector
        PROVE  /\ G[psys[q]].head[1] = HeadOf(q)
               /\ q # s => G[psys[q]].head[2] = HeadOf(q)
               /\ q = s => G[psys[q]].head[2] = NoHeader /\ G[psys[q]].page = Blank.page
               /\ \A g \in Pages : AllOk(G[psys[q]].page[g])
    <3>1. CASE q = s
      <4>1. x.page = Blank.page
        BY DEF x, Opened, Blank
      <4>2. \A g \in Pages : AllOk(x.page[g])
        BY <1>1 DEF AllOk
      <4> QED BY <1>1, <1>2, <1>3, <3>1, <4>1, <4>2
    <3>2. CASE q # s
      <4>1. psys[q] = phys[q] /\ G[psys[q]] = F[phys[q]] /\ phys[q] # NoSector /\ q # NoSector
        BY <1>6, <2>1, <3>2
      <4> QED BY <3>2, <4>1 DEF TidyIn
    <3> QED BY <3>1, <3>2
  <2>2. ASSUME NEW q \in S, IsValid(G[q]) PROVE psys[G[q].head[1].id] = q
    <3>1. CASE q = p
      BY <1>1, <1>2, <1>3, <3>1
    <3>2. CASE q # p
      <4>1. G[q] = F[q]
        BY <1>3, <3>2
      <4>2. phys[F[q].head[1].id] = q /\ F[q].head[1].id \in S
        BY <2>2, <4>1, ValidIs DEF TidyIn
      <4>3. F[q].head[1].id # s
        BY <4>2
      <4> QED BY <1>2, <4>1, <4>2, <4>3
    <3> QED BY <3>1, <3>2
  <2> QED BY <2>1, <2>2 DEF TidyIn
<1>8. /\ \A q \in S : \A t : q # s => (Carries(G, psys, q, t) <=> Carries(F, phys, q, t))
      /\ \A it : Leads(F, S, phys, it) /\ it.sec # s =>
           /\ Leads(G, S, psys, it)
           /\ G[psys[it.sec]].page[it.page][it.idx] = F[phys[it.sec]].page[it.page][it.idx]
  <2>1. Alike(S, F, phys, G, psys, s)
    BY <1>6 DEF Alike
  <2> QED BY <2>1, AlikeKeeps DEF Keeps
<1>9. \A t : ~Carries(G, psys, s, t) /\ ~Carries(F, phys, s, t)
  BY <1>1, <1>2, <1>3 DEF Carries
<1>10. \A it : Leads(F, S, phys, it) => it.sec # s
  BY DEF Leads
<1>11. \A q \in S : \A t : Carries(G, psys, q, t) <=> Carries(F, phys, q, t)
  BY <1>8, <1>9
<1>12. \A q \in S \ {s} : psys[q] = phys[q]
  BY <1>6
<1>13. Keeps(S, F, phys, G, psys, NoSector)
  <2>1. \A it : Leads(F, S, phys, it) /\ it.sec # NoSector =>
          /\ Leads(G, S, psys, it)
          /\ G[psys[it.sec]].page[it.page][it.idx] = F[phys[it.sec]].page[it.page][it.idx]
    BY <1>8, <1>10
  <2> QED BY <1>11, <2>1 DEF Keeps
<1> QED BY <1>2, <1>3, <1>4, <1>7, <1>12, <1>13 DEF G, psys, x

(* ... and gets its second header.                                         *)
LEMMA SecondTidy ==
  ASSUME NEW S, NoSector \notin S, NEW F \in FlashIn(S), NEW phys \in MapIn(S),
         FlashGood(F, S), NEW s \in S, TidyIn(F, S, phys, s), phys[s] # NoSector
  PROVE  LET G == [F EXCEPT ![phys[s]].head[2] = HeadOf(s)]
         IN  /\ G \in FlashIn(S) /\ FlashGood(G, S) /\ TidyIn(G, S, phys, NoSector)
             /\ \A p \in S : G[p].page = F[p].page /\ G[p].head[1] = F[p].head[1]
             /\ Keeps(S, F, phys, G, phys, NoSector)
<1> DEFINE p == phys[s]
           x == F[p]
           y == [x EXCEPT !.head[2] = HeadOf(s)]
           G == [F EXCEPT ![p] = y]
<1>1. p \in S /\ x \in SectorsIn(S)
  BY DEF MapIn, FlashIn
<1>2. /\ x.head[1] = HeadOf(s) /\ \A g \in Pages : AllOk(x.page[g])
  BY DEF TidyIn
<1>3. /\ y \in SectorsIn(S) /\ y.head[2] = HeadOf(s) /\ y.head[1] = x.head[1] /\ y.page = x.page
  <2>1. x.head \in [Pages -> HeadersIn(S)] /\ HeadOf(s) \in HeadersIn(S)
    BY <1>1 DEF SectorsIn, HeadersIn, HeadOf
  <2> DEFINE h == [x.head EXCEPT ![2] = HeadOf(s)]
  <2>2. h \in [Pages -> HeadersIn(S)] /\ h[2] = HeadOf(s) /\ h[1] = x.head[1]
    BY <2>1 DEF Pages
  <2>3. y = [x EXCEPT !.head = h]
    OBVIOUS
  <2> HIDE DEF h
  <2>4. [x EXCEPT !.head = h] \in SectorsIn(S) /\ [x EXCEPT !.head = h].head = h
        /\ [x EXCEPT !.head = h].page = x.page
    BY <1>1, <2>2 DEF SectorsIn
  <2> QED BY <2>2, <2>3, <2>4
<1>4. [F EXCEPT ![phys[s]].head[2] = HeadOf(s)] = G
  OBVIOUS
<1>5. G[p] = y /\ \A q \in S \ {p} : G[q] = F[q]
  BY <1>1 DEF FlashIn
<1>6. /\ HeadOf(s) # NoHeader /\ ~HeadOf(s).pending /\ HeadOf(s).id = s
  BY OpenedIs
<1>7. \A q \in S : phys[q] = p => q = s
  BY MapInjective
<1>8. \A q \in S \ {p} : IsSound(F[q]) => F[q].head[1].id # s
  BY DEF TidyIn, IsSound
<1> HIDE DEF y
<1>9. G \in FlashIn(S) /\ FlashGood(G, S)
  BY <1>1, <1>2, <1>3, <1>6, <1>8, OneSector
<1> HIDE DEF G
<1>10. \A q \in S : G[q].page = F[q].page /\ G[q].head[1] = F[q].head[1]
  BY <1>3, <1>5
<1>11. TidyIn(G, S, phys, NoSector)
  <2>1. ASSUME NEW q \in S, phys[q] # NoSector
        PROVE  /\ G[phys[q]].head[1] = HeadOf(q)
               /\ G[phys[q]].head[2] = HeadOf(q)
               /\ \A h \in Pages : AllOk(G[phys[q]].page[h])
               /\ q # NoSector
    <3>1. /\ F[phys[q]].head[1] = HeadOf(q) /\ phys[q] \in S
          /\ \A h \in Pages : AllOk(F[phys[q]].page[h])
      BY <2>1 DEF TidyIn, MapIn
    <3>2. G[phys[q]].head[2] = HeadOf(q)
      <4>1. CASE q = s
        BY <1>3, <1>5, <4>1
      <4>2. CASE q # s
        <5>1. F[phys[q]].head[2] = HeadOf(q)
          BY <2>1, <4>2 DEF TidyIn
        <5>2. G[phys[q]] = F[phys[q]]
          BY <1>5, <1>7, <3>1, <4>2
        <5> QED BY <5>1, <5>2
      <4> QED BY <4>1, <4>2
    <3> QED BY <1>10, <3>1, <3>2
  <2>2. \A q \in S : IsValid(G[q]) => phys[G[q].head[1].id] = q
    BY <1>10 DEF TidyIn, IsValid
  <2> QED BY <2>1, <2>2 DEF TidyIn
<1>12. Keeps(S, F, phys, G, phys, NoSector)
  BY <1>10, SamePages
<1> QED BY <1>4, <1>9, <1>10, <1>11, <1>12

(* Sector s of the map is erased.                                          *)
Erased(F, phys, s) == [F EXCEPT ![phys[s]] = Blank]
Unmapped(phys, s)  == [phys EXCEPT ![s] = NoSector]

LEMMA EraseTidy ==
  ASSUME NEW S, NoSector \notin S, NEW F \in FlashIn(S), NEW phys \in MapIn(S),
         FlashGood(F, S), TidyIn(F, S, phys, NoSector), NEW s \in S, phys[s] # NoSector
  PROVE  LET G == Erased(F, phys, s)
             psys == Unmapped(phys, s)
         IN  /\ G \in FlashIn(S) /\ psys \in MapIn(S) /\ FlashGood(G, S)
             /\ TidyIn(G, S, psys, NoSector)
             /\ G[phys[s]] = Blank /\ \A q \in S \ {phys[s]} : G[q] = F[q]
             /\ Keeps(S, F, phys, G, psys, s) /\ \A t : ~Carries(G, psys, s, t)
<1> DEFINE p == phys[s]
           G == [F EXCEPT ![p] = Blank]
           psys == [phys EXCEPT ![s] = NoSector]
<1>1. p \in S /\ Blank \in SectorsIn(S) /\ ~IsValid(Blank)
      /\ \A g \in Pages : Blank.head[g] = NoHeader /\ Blank.page[g] = <<>>
  BY BlankIs DEF MapIn
<1>2. psys \in MapIn(S) /\ psys[s] = NoSector /\ \A q \in S \ {s} : psys[q] = phys[q]
  BY DEF MapIn
<1>3. G[p] = Blank /\ \A q \in S \ {p} : G[q] = F[q]
  BY <1>1 DEF FlashIn
<1>4. G \in FlashIn(S) /\ FlashGood(G, S)
  <2>1. ~Blank.head[2].pending /\ ~IsSound(Blank)
    BY <1>1 DEF Pages, NoHeader, IsSound
  <2> QED BY <1>1, <2>1, OneSector
<1>5. \A q \in S : (phys[q] = p => q = s) /\ (phys[q] # NoSector => phys[q] \in S)
  BY MapInjective DEF MapIn
<1> HIDE DEF G, psys
<1>6. Alike(S, F, phys, G, psys, s)
  BY <1>2, <1>3, <1>5 DEF Alike
<1>7. Keeps(S, F, phys, G, psys, s)
  BY <1>6, AlikeKeeps
<1>8. TidyIn(G, S, psys, NoSector)
  <2>1. ASSUME NEW q \in S, psys[q] # NoSector
        PROVE  /\ G[psys[q]].head[1] = HeadOf(q)
               /\ G[psys[q]].head[2] = HeadOf(q)
               /\ \A h \in Pages : AllOk(G[psys[q]].page[h])
               /\ q # NoSector
    <3>1. q # s /\ psys[q] = phys[q] /\ G[phys[q]] = F[phys[q]] /\ q # NoSector
      BY <1>2, <1>3, <1>5, <2>1
    <3> QED BY <2>1, <3>1 DEF TidyIn
  <2>2. ASSUME NEW q \in S, IsValid(G[q]) PROVE psys[G[q].head[1].id] = q
    <3>1. q # p /\ G[q] = F[q]
      BY <1>1, <1>3, <2>2
    <3>2. phys[F[q].head[1].id] = q /\ F[q].head[1].id \in S
      BY <2>2, <3>1, ValidIs DEF TidyIn
    <3> QED BY <1>2, <3>1, <3>2
  <2> QED BY <2>1, <2>2 DEF TidyIn
<1>9. \A t : ~Carries(G, psys, s, t)
  BY <1>2 DEF Carries
<1> QED BY <1>2, <1>3, <1>4, <1>7, <1>8, <1>9 DEF G, psys, Erased, Unmapped

(* What an erased sector held is listed elsewhere.                         *)
LEMMA EraseLists ==
  ASSUME NEW S, NoSector \notin S, NEW F, NEW phys, NEW G, NEW psys, NEW s,
         Keeps(S, F, phys, G, psys, s), \A t : ~Carries(G, psys, s, t),
         NEW lut, ListsIn(F, S, phys, lut), \A k \in DOMAIN lut : lut[k].sec # s
  PROVE  ListsIn(G, S, psys, lut)
<1>1. \A k \in DOMAIN lut : Leads(G, S, psys, lut[k])
  BY DEF ListsIn, Keeps
<1>2. \A q \in S, t \in Tokens : Carries(G, psys, q, t) => \E k \in DOMAIN lut : lut[k].tok = t
  BY DEF ListsIn, Keeps
<1> QED BY <1>1, <1>2 DEF ListsIn

LEMMA KeepLists ==
  ASSUME NEW S, NoSector \notin S, NEW F, NEW phys, NEW G, NEW psys,
         Keeps(S, F, phys, G, psys, NoSector), NEW lut, ListsIn(F, S, phys, lut)
  PROVE  ListsIn(G, S, psys, lut)
<1>1. \A k \in DOMAIN lut : lut[k].sec # NoSector
  BY DEF ListsIn, Leads
<1>2. \A k \in DOMAIN lut : Leads(G, S, psys, lut[k])
  BY <1>1 DEF ListsIn, Keeps
<1>3. \A q \in S, t \in Tokens : Carries(G, psys, q, t) => \E k \in DOMAIN lut : lut[k].tok = t
  BY DEF ListsIn, Keeps
<1> QED BY <1>2, <1>3 DEF ListsIn
-----------------------------------------------------------------------------
(***************************************************************************)
(* Which numbers the extremes put in the order in which they were given.   *)
(***************************************************************************)

(* The bounds of the quarters, the extremes and what they unmask, in terms *)
(* of a quarter of the range.                                              *)
LEMMA ComparedAs ==
  ASSUME NEW S \in SUBSET (Numbers \X Nat), S # {}
  PROVE  LET q == ExtremesOf(S)
             ns == NumbersOf(S)
         IN  \E k \in Nat :
               /\ k >= 1 /\ SeqMax = 4 * k + 3 /\ SeqMax \div 2 = 2 * k + 1
               /\ \A n \in ns : n \in Int /\ 0 <= n /\ n <= 4 * k + 3
               /\ \A n : InUpperQuarter(n) <=> n > 3 * k + 2
               /\ \A n : InLowerQuarter(n) <=> n <= k
               /\ \A n : Unmask(q, n) = IF Wrapping(q) /\ n <= 2 * k + 1 THEN 4 * k + 4 + n ELSE n
               /\ Wrapping(q) => /\ q.upLow \in ns /\ q.upLow > 3 * k + 2
                                 /\ q.loHigh \in ns /\ q.loHigh <= k
                                 /\ \A n \in ns : n > 2 * k + 1 => n > 3 * k + 2
                                 /\ \A n \in ns : n <= 2 * k + 1 => n <= q.loHigh
               /\ (\E n \in ns : n > 3 * k + 2) /\ (\E n \in ns : n <= k)
                    /\ (\A n \in ns : n > 3 * k + 2 \/ n <= k) => Wrapping(q)
               /\ q.high \in ns \cup {1} /\ q.high >= 1 /\ \A n \in ns : q.high >= n
<1> DEFINE ns == NumbersOf(S)
           q  == ExtremesOf(S)
<1>1. PICK k \in Nat : /\ k >= 1 /\ SeqMax = 4 * k + 3
                       /\ SeqMax \div 2 = 2 * k + 1
                       /\ SeqMax \div 4 = k
                       /\ (3 * SeqMax) \div 4 = 3 * k + 2
  BY Quarters
<1>2. ns \subseteq 0 .. 4 * k + 3
  BY <1>1, ExtremesAre DEF Numbers
<1>3. /\ IF \E n \in ns : n > 2 * k + 1
         THEN /\ q.upLow \in ns /\ q.upLow > 2 * k + 1
              /\ \A n \in ns : n > 2 * k + 1 => q.upLow <= n
         ELSE q.upLow = NoSeq
      /\ IF \E n \in ns : n <= 2 * k + 1
         THEN /\ q.loHigh \in ns /\ q.loHigh <= 2 * k + 1
              /\ \A n \in ns : n <= 2 * k + 1 => q.loHigh >= n
         ELSE q.loHigh = NoSeq
  BY <1>1, ExtremesAre DEF InUpperHalf, InLowerHalf
<1>4. q.high \in ns \cup {1} /\ q.high >= 1 /\ \A n \in ns : q.high >= n
  BY ExtremesAre
<1>5. NoSeq = 8 * k + 7
  BY <1>1 DEF NoSeq
<1>6. Wrapping(q) <=> /\ q.upLow # NoSeq /\ q.loHigh # NoSeq
                      /\ q.upLow > 3 * k + 2 /\ q.loHigh <= k
  BY <1>1 DEF Wrapping, InUpperQuarter, InLowerQuarter
<1>7. \A n : Unmask(q, n) = IF Wrapping(q) /\ n <= 2 * k + 1 THEN 4 * k + 4 + n ELSE n
  BY <1>1 DEF Unmask, InLowerHalf
<1>8. /\ \A n : InUpperQuarter(n) <=> n > 3 * k + 2
      /\ \A n : InLowerQuarter(n) <=> n <= k
  BY <1>1 DEF InUpperQuarter, InLowerQuarter
<1>9. \A n \in ns : n \in Int /\ 0 <= n /\ n <= 4 * k + 3
  BY <1>2
<1> HIDE DEF ns, q
<1>10. Wrapping(q) => /\ q.upLow \in ns /\ q.upLow > 3 * k + 2
                      /\ q.loHigh \in ns /\ q.loHigh <= k
                      /\ \A n \in ns : n > 2 * k + 1 => n > 3 * k + 2
                      /\ \A n \in ns : n <= 2 * k + 1 => n <= q.loHigh
  BY <1>1, <1>3, <1>6, <1>9
<1>11. ASSUME NEW u \in ns, u > 3 * k + 2, NEW l \in ns, l <= k,
              \A n \in ns : n > 3 * k + 2 \/ n <= k
       PROVE  Wrapping(q)
  <2>1. u > 2 * k + 1 /\ l <= 2 * k + 1
    BY <1>1, <1>9, <1>11
  <2>2. q.upLow \in ns /\ q.upLow > 2 * k + 1 /\ q.loHigh \in ns /\ q.loHigh <= 2 * k + 1
    BY <1>3, <1>11, <2>1
  <2>3. q.upLow > 3 * k + 2 /\ q.loHigh <= k
    <3>1. q.upLow > 3 * k + 2 \/ q.upLow <= k
      BY <1>11, <2>2
    <3>2. q.loHigh > 3 * k + 2 \/ q.loHigh <= k
      BY <1>11, <2>2
    <3> QED BY <1>1, <1>9, <2>2, <3>1, <3>2
  <2>4. q.upLow # NoSeq /\ q.loHigh # NoSeq
    BY <1>1, <1>5, <1>9, <2>2
  <2> QED BY <1>6, <2>3, <2>4
<1>12. (\E n \in ns : n > 3 * k + 2) /\ (\E n \in ns : n <= k)
         /\ (\A n \in ns : n > 3 * k + 2 \/ n <= k) => Wrapping(q)
  BY <1>11
<1> QED BY <1>1, <1>4, <1>7, <1>8, <1>9, <1>10, <1>12 DEF ns, q

(* (n - m) % M of two numbers.                                             *)
LEMMA Around ==
  ASSUME NEW M \in Nat, M > 0, NEW n \in Int, NEW m \in Int, 0 <= n, n < M, 0 <= m, m < M
  PROVE  (n - m) % M = IF n >= m THEN n - m ELSE n - m + M
<1>1. CASE n >= m
  <2>1. n - m \in 0 .. 2 * M - 1 /\ n - m < M
    BY <1>1
  <2>2. (n - m) % M = IF n - m < M THEN n - m ELSE n - m - M
    BY <2>1, Residue
  <2> QED BY <1>1, <2>1, <2>2
<1>2. CASE ~(n >= m)
  <2>1. n - m + M \in 0 .. M - 1
    BY <1>2
  <2>2. (n - m) % M = n - m + M
    BY <1>2, <2>1
  <2> QED BY <1>2, <2>2
<1> QED BY <1>1, <1>2

(* Of two comparable numbers the code takes the newer one for newer, and   *)
(* they are no further apart than half the range.                          *)
LEMMA ComparedRightly ==
  ASSUME NEW S \in SUBSET (Numbers \X Nat), S # {}, Comparable(NumbersOf(S)),
         NEW n \in NumbersOf(S), NEW m \in NumbersOf(S)
  PROVE  LET q == ExtremesOf(S)
         IN  /\ Unmask(q, n) >= Unmask(q, m) <=> NotOlder(n, m)
             /\ Unmask(q, n) - Unmask(q, m) <= SeqMax \div 2
<1> DEFINE ns == NumbersOf(S)
           q  == ExtremesOf(S)
<1>1. PICK k \in Nat :
        /\ k >= 1 /\ SeqMax = 4 * k + 3 /\ SeqMax \div 2 = 2 * k + 1
        /\ \A i \in ns : i \in Int /\ 0 <= i /\ i <= 4 * k + 3
        /\ \A i : InUpperQuarter(i) <=> i > 3 * k + 2
        /\ \A i : InLowerQuarter(i) <=> i <= k
        /\ \A i : Unmask(q, i) = IF Wrapping(q) /\ i <= 2 * k + 1 THEN 4 * k + 4 + i ELSE i
        /\ Wrapping(q) => /\ q.upLow \in ns /\ q.upLow > 3 * k + 2
                          /\ q.loHigh \in ns /\ q.loHigh <= k
                          /\ \A i \in ns : i > 2 * k + 1 => i > 3 * k + 2
                          /\ \A i \in ns : i <= 2 * k + 1 => i <= q.loHigh
        /\ (\E i \in ns : i > 3 * k + 2) /\ (\E i \in ns : i <= k)
             /\ (\A i \in ns : i > 3 * k + 2 \/ i <= k) => Wrapping(q)
  BY ComparedAs
<1>2. \/ \A i, j \in ns : i - j <= 2 * k + 1
      \/ \A i \in ns : i > 3 * k + 2 \/ i <= k
  BY <1>1 DEF Comparable
<1>3. n \in ns /\ m \in ns
  OBVIOUS
<1> HIDE DEF ns, q
<1>4. /\ n \in Int /\ 0 <= n /\ n <= 4 * k + 3 /\ m \in Int /\ 0 <= m /\ m <= 4 * k + 3
      /\ k \in Int /\ k >= 1
  BY <1>1, <1>3
<1>5. (n - m) % (SeqMax + 1) = IF n >= m THEN n - m ELSE n - m + 4 * k + 4
  <2>1. SeqMax + 1 = 4 * k + 4 /\ 4 * k + 4 \in Nat /\ 4 * k + 4 > 0 /\ n < 4 * k + 4 /\ m < 4 * k + 4
    BY <1>1, <1>4
  <2>2. (n - m) % (4 * k + 4) = IF n >= m THEN n - m ELSE n - m + (4 * k + 4)
    BY <1>4, <2>1, Around
  <2>3. n - m + (4 * k + 4) = n - m + 4 * k + 4
    BY <1>4
  <2> QED BY <2>1, <2>2, <2>3
<1>6. NotOlder(n, m) <=> IF n >= m THEN n - m <= 2 * k + 1 ELSE n - m + 4 * k + 4 <= 2 * k + 1
  BY <1>1, <1>5 DEF NotOlder
<1> DEFINE Right == /\ Unmask(q, n) >= Unmask(q, m) <=> NotOlder(n, m)
                    /\ Unmask(q, n) - Unmask(q, m) <= 2 * k + 1
<1>7. CASE Wrapping(q)
  <2>1. /\ (n > 3 * k + 2 /\ Unmask(q, n) = n) \/ (n <= k /\ Unmask(q, n) = 4 * k + 4 + n)
        /\ (m > 3 * k + 2 /\ Unmask(q, m) = m) \/ (m <= k /\ Unmask(q, m) = 4 * k + 4 + m)
    <3>1. ASSUME NEW i \in ns
          PROVE  (i > 3 * k + 2 /\ Unmask(q, i) = i) \/ (i <= k /\ Unmask(q, i) = 4 * k + 4 + i)
      <4>1. i \in Int /\ q.loHigh \in Int /\ q.loHigh <= k
        BY <1>1, <1>7
      <4>2. i > 2 * k + 1 => i > 3 * k + 2
        BY <1>1, <1>7
      <4>3. i <= 2 * k + 1 => i <= q.loHigh
        BY <1>1, <1>7
      <4>4. Unmask(q, i) = IF i <= 2 * k + 1 THEN 4 * k + 4 + i ELSE i
        BY <1>1, <1>7
      <4> HIDE DEF Right
      <4> QED BY <4>1, <4>2, <4>3, <4>4, <1>4
    <3> QED BY <1>3, <3>1
  <2>2. Right
    BY <1>4, <1>6, <2>1
  <2> QED BY <1>1, <2>2 DEF q
<1>8. CASE ~Wrapping(q)
  <2>1. Unmask(q, n) = n /\ Unmask(q, m) = m
    BY <1>1, <1>8
  <2>2. n - m <= 2 * k + 1 /\ m - n <= 2 * k + 1
    <3>1. CASE \A i, j \in ns : i - j <= 2 * k + 1
      BY <1>3, <3>1
    <3>2. CASE \A i \in ns : i > 3 * k + 2 \/ i <= k
      <4>1. ~(n > 3 * k + 2 /\ m <= k) /\ ~(m > 3 * k + 2 /\ n <= k)
        BY <1>1, <1>3, <1>8, <3>2
      <4>2. (n > 3 * k + 2 \/ n <= k) /\ (m > 3 * k + 2 \/ m <= k)
        BY <1>3, <3>2
      <4> QED BY <1>4, <4>1, <4>2
    <3> QED BY <1>2, <3>1, <3>2
  <2>3. Right
    BY <1>4, <1>6, <2>1, <2>2
  <2> QED BY <1>1, <2>3 DEF q
<1> QED BY <1>7, <1>8

(* The extremes order the numbers of a pool as they were given, by their   *)
(* distance around the range, exactly when the numbers are comparable      *)
(* (Nvm_Pool_SeqNum_Unmask).                                               *)
THEOREM OrderIsRight ==
  ASSUME NEW S \in SUBSET (Numbers \X Nat), S # {}
  PROVE  LET q == ExtremesOf(S)
         IN  Comparable(NumbersOf(S))
               <=> \A x, y \in S : Unmask(q, x[1]) >= Unmask(q, y[1]) <=> NotOlder(x[1], y[1])
<1> DEFINE ns == NumbersOf(S)
           q  == ExtremesOf(S)
           Right(n, m) == Unmask(q, n) >= Unmask(q, m) <=> NotOlder(n, m)
<1>1. ASSUME Comparable(ns) PROVE \A x, y \in S : Right(x[1], y[1])
  <2>1. \A x \in S : x[1] \in ns
    BY DEF NumbersOf
  <2>2. \A n, m \in ns : Right(n, m)
    BY <1>1, ComparedRightly
  <2> QED BY <2>1, <2>2
<1>2. ASSUME \A x, y \in S : Right(x[1], y[1]) PROVE Comparable(ns)
  <2>1. ASSUME NEW n \in ns, NEW m \in ns PROVE Right(n, m)
    <3>1. PICK x \in S : x[1] = n
      BY InNumbers
    <3>2. PICK y \in S : y[1] = m
      BY InNumbers
    <3> HIDE DEF Right
    <3> QED BY <1>2, <3>1, <3>2
  <2>2. PICK k \in Nat :
        /\ k >= 1 /\ SeqMax = 4 * k + 3 /\ SeqMax \div 2 = 2 * k + 1
        /\ \A i \in ns : i \in Int /\ 0 <= i /\ i <= 4 * k + 3
        /\ \A i : InUpperQuarter(i) <=> i > 3 * k + 2
        /\ \A i : InLowerQuarter(i) <=> i <= k
        /\ \A i : Unmask(q, i) = IF Wrapping(q) /\ i <= 2 * k + 1 THEN 4 * k + 4 + i ELSE i
        /\ Wrapping(q) => /\ q.upLow \in ns /\ q.upLow > 3 * k + 2
                          /\ q.loHigh \in ns /\ q.loHigh <= k
                          /\ \A i \in ns : i > 2 * k + 1 => i > 3 * k + 2
                          /\ \A i \in ns : i <= 2 * k + 1 => i <= q.loHigh
    BY ComparedAs
  <2> HIDE DEF ns, q
  <2>3. CASE Wrapping(q)
    <3>1. \A i \in ns : i > 3 * k + 2 \/ i <= k
      BY <2>2, <2>3
    <3> QED BY <2>2, <3>1 DEF Comparable
  <2>4. CASE ~Wrapping(q)
    <3>1. ASSUME NEW n \in ns, NEW m \in ns PROVE n - m <= SeqMax \div 2
      <4>1. /\ n \in Int /\ 0 <= n /\ n <= 4 * k + 3 /\ m \in Int /\ 0 <= m /\ m <= 4 * k + 3
            /\ k \in Int /\ k >= 1 /\ SeqMax \div 2 = 2 * k + 1
            /\ Unmask(q, n) = n /\ Unmask(q, m) = m
        BY <2>2, <2>4
      <4>2. n >= m <=> NotOlder(n, m)
        BY <2>1, <4>1
      <4>3. SeqMax + 1 = 4 * k + 4 /\ 4 * k + 4 \in Nat /\ 4 * k + 4 > 0 /\ n < 4 * k + 4 /\ m < 4 * k + 4
        BY <2>2, <4>1
      <4>4. (n - m) % (4 * k + 4) = IF n >= m THEN n - m ELSE n - m + (4 * k + 4)
        BY <4>1, <4>3, Around
      <4>5. n >= m => n - m <= SeqMax \div 2
        BY <4>2, <4>3, <4>4 DEF NotOlder
      <4> QED BY <4>1, <4>5
    <3> QED BY <3>1 DEF Comparable
  <2> QED BY <2>3, <2>4
<1> QED BY <1>1, <1>2

(* The next number is none of the pool's, and where it can still be        *)
(* compared with them it is taken for the newest (Nvm_Pool_SeqNum_Next).   *)
LEMMA NextIsNew ==
  ASSUME NEW S \in SUBSET (Numbers \X Nat), S # {}, Comparable(NumbersOf(S)),
         NEW n \in NumbersOf(S)
  PROVE  LET next == NextSeq(ExtremesOf(S))
         IN  /\ next \in Numbers /\ next # n
             /\ Comparable(NumbersOf(S) \cup {next}) => NotOlder(next, n)
<1> DEFINE ns == NumbersOf(S)
           q  == ExtremesOf(S)
           h  == HighestSeq(q)
           next == NextSeq(q)
<1>1. PICK k \in Nat :
        /\ k >= 1 /\ SeqMax = 4 * k + 3 /\ SeqMax \div 2 = 2 * k + 1
        /\ \A i \in ns : i \in Int /\ 0 <= i /\ i <= 4 * k + 3
        /\ \A i : InUpperQuarter(i) <=> i > 3 * k + 2
        /\ \A i : InLowerQuarter(i) <=> i <= k
        /\ \A i : Unmask(q, i) = IF Wrapping(q) /\ i <= 2 * k + 1 THEN 4 * k + 4 + i ELSE i
        /\ Wrapping(q) => /\ q.upLow \in ns /\ q.upLow > 3 * k + 2
                          /\ q.loHigh \in ns /\ q.loHigh <= k
                          /\ \A i \in ns : i > 2 * k + 1 => i > 3 * k + 2
                          /\ \A i \in ns : i <= 2 * k + 1 => i <= q.loHigh
        /\ q.high \in ns \cup {1} /\ q.high >= 1 /\ \A i \in ns : q.high >= i
  BY ComparedAs
<1>2. n \in ns
  OBVIOUS
<1>3. \A i, j \in ns : Unmask(q, i) - Unmask(q, j) <= SeqMax \div 2
  BY ComparedRightly
<1> HIDE DEF ns, q
<1>4. n \in Int /\ 0 <= n /\ n <= 4 * k + 3 /\ k \in Int /\ k >= 1
  BY <1>1, <1>2
<1>5. next = (h + 1) % (4 * k + 4)
  <2>1. SeqMax + 1 = 4 * k + 4
    BY <1>1
  <2> QED BY <2>1 DEF NextSeq
<1>6. h \in Int /\ 1 <= h + 1 /\ h <= 5 * k + 4
      /\ \/ /\ Wrapping(q) /\ q.loHigh \in ns /\ h = 4 * k + 4 + q.loHigh
            /\ 0 <= q.loHigh /\ q.loHigh <= k /\ q.loHigh \in Int
            /\ n > 3 * k + 2 \/ n <= q.loHigh
         \/ /\ ~Wrapping(q) /\ h >= n /\ h - n <= 2 * k + 1 /\ h <= 4 * k + 3 /\ h >= 1
  <2>1. CASE Wrapping(q)
    <3>1. q.loHigh \in ns /\ q.loHigh <= k
      BY <1>1, <2>1
    <3>2. q.loHigh \in Int /\ 0 <= q.loHigh /\ q.loHigh <= k
      BY <1>1, <3>1
    <3>3. Unmask(q, q.loHigh) = 4 * k + 4 + q.loHigh
      <4>1. q.loHigh <= 2 * k + 1
        BY <1>4, <3>2
      <4> QED BY <1>1, <2>1, <4>1
    <3>4. h = 4 * k + 4 + q.loHigh
      BY <2>1, <3>3 DEF HighestSeq
    <3>5. n > 3 * k + 2 \/ n <= q.loHigh
      <4>1. n > 2 * k + 1 => n > 3 * k + 2
        BY <1>1, <1>2, <2>1
      <4>2. n <= 2 * k + 1 => n <= q.loHigh
        BY <1>1, <1>2, <2>1
      <4> QED BY <1>4, <4>1, <4>2
    <3> HIDE DEF h, next
    <3> QED BY <1>4, <2>1, <3>1, <3>2, <3>4, <3>5
  <2>2. CASE ~Wrapping(q)
    <3>1. h = q.high
      BY <2>2 DEF HighestSeq
    <3>2. q.high \in Int /\ q.high >= n /\ q.high >= 1 /\ q.high <= 4 * k + 3
      BY <1>1, <1>2
    <3>3. q.high - n <= 2 * k + 1
      <4>1. CASE q.high \in ns
        <5>1. Unmask(q, q.high) = q.high /\ Unmask(q, n) = n
          BY <1>1, <2>2
        <5>2. Unmask(q, q.high) - Unmask(q, n) <= SeqMax \div 2
          BY <1>2, <1>3, <4>1
        <5> QED BY <1>1, <5>1, <5>2
      <4>2. CASE q.high = 1
        BY <1>4, <4>2
      <4> QED BY <1>1, <4>1, <4>2
    <3> HIDE DEF h, next
    <3> QED BY <1>4, <2>2, <3>1, <3>2, <3>3
  <2> QED BY <2>1, <2>2
<1> HIDE DEF h, next
<1>7. next = IF h + 1 < 4 * k + 4 THEN h + 1 ELSE h + 1 - (4 * k + 4)
  <2> DEFINE M == 4 * k + 4
             e == h + 1
  <2>1. M \in Nat /\ M > 0 /\ e \in 0 .. 2 * M - 1
    BY <1>4, <1>6
  <2> HIDE DEF M, e
  <2>2. e % M = IF e < M THEN e ELSE e - M
    BY <2>1, Residue
  <2>3. next = e % M
    BY <1>5 DEF M, e
  <2>4. next = IF e < M THEN e ELSE e - M
    BY <2>2, <2>3
  <2> QED BY <1>4, <1>6, <2>4 DEF M, e
<1>8. next \in Int /\ 0 <= next /\ next < 4 * k + 4 /\ next # n
  BY <1>4, <1>6, <1>7
<1>9. NotOlder(next, n) <=> IF next >= n THEN next - n <= 2 * k + 1 ELSE next - n + 4 * k + 4 <= 2 * k + 1
  <2>1. SeqMax + 1 = 4 * k + 4 /\ 4 * k + 4 \in Nat /\ 4 * k + 4 > 0 /\ n < 4 * k + 4
    BY <1>1, <1>4
  <2>2. (next - n) % (4 * k + 4) = IF next >= n THEN next - n ELSE next - n + (4 * k + 4)
    BY <1>4, <1>8, <2>1, Around
  <2>3. next - n + (4 * k + 4) = next - n + 4 * k + 4
    BY <1>4, <1>8
  <2> QED BY <1>1, <2>1, <2>2, <2>3 DEF NotOlder
<1>10. ASSUME Comparable(ns \cup {next}) PROVE NotOlder(next, n)
  <2>1. \/ next - n <= 2 * k + 1 /\ n - next <= 2 * k + 1
        \/ (next > 3 * k + 2 \/ next <= k) /\ (n > 3 * k + 2 \/ n <= k)
    BY <1>1, <1>2, <1>10 DEF Comparable
  <2> QED BY <1>4, <1>6, <1>7, <1>8, <1>9, <2>1
<1>11. next \in Numbers
  BY <1>1, <1>8 DEF Numbers
<1> QED BY <1>8, <1>10, <1>11 DEF ns, q, next
-----------------------------------------------------------------------------
(***************************************************************************)
(* The records of the pool and the numbers they carry.                     *)
(***************************************************************************)

(* Sector s of the map has record r.                                       *)
Bears(F, phys, s, r) ==
  /\ phys[s] # NoSector
  /\ \E g \in Pages : \E i \in DOMAIN F[phys[s]].page[g] : F[phys[s]].page[g][i] = r

(* The numbers of the pool, each with the sectors that have it.            *)
Numbered(F, S, phys) ==
  {x \in Numbers \X S : \E r \in Record : Bears(F, phys, x[2], r) /\ r.seq = x[1]}

RecordOf(F, phys, it) == F[phys[it.sec]].page[it.page][it.idx]

(* No record of the pool is newer than the one that its item leads to.     *)
NewestIn(F, S, phys, lut) ==
  \A k \in DOMAIN lut : \A r \in RecordsIn(F, S) :
    r.tok = lut[k].tok => NotOlder(RecordOf(F, phys, lut[k]).seq, r.seq)

OrderIn(F, S, m) ==
  /\ m.seqs = ExtremesOf(Numbered(F, S, m.phys))
  /\ NewestIn(F, S, m.phys, m.lut)

(* A number is in the pool once, or salvage has copied its record.         *)
Distinct(F, S) == \A r, o \in RecordsIn(F, S) : r.seq = o.seq => r = o

SeqsIn(F, S) == {r.seq : r \in RecordsIn(F, S)}

LEMMA RecordsBorne ==
  ASSUME NEW S, NoSector \notin S, NEW F \in FlashIn(S), NEW phys \in MapIn(S), NEW open,
         TidyIn(F, S, phys, open), NEW r
  PROVE  /\ r \in RecordsIn(F, S) <=> \E s \in S : Bears(F, phys, s, r)
         /\ r \in RecordsIn(F, S) => r \in Record
<1>1. ASSUME NEW p \in S, r \in Shown(F[p])
      PROVE  (\E s \in S : Bears(F, phys, s, r)) /\ r \in Record
  <2>1. PICK g \in Pages : r \in Range(GoodRecords(F[p].page[g])) /\ IsValid(F[p])
    BY <1>1 DEF Shown
  <2> DEFINE rs == F[p].page[g]
             s  == F[p].head[1].id
  <2>2. rs \in Seq(Record) /\ s \in S
    BY <2>1, ValidIs
  <2>3. phys[s] = p
    BY <2>1 DEF TidyIn
  <2>4. AllOk(rs)
    BY <2>2, <2>3 DEF TidyIn
  <2>5. GoodRecords(rs) = rs
    BY <2>2, <2>4, GoodIs
  <2>6. PICK i \in DOMAIN rs : rs[i] = r
    BY <2>1, <2>5 DEF Range
  <2>7. Bears(F, phys, s, r)
    BY <2>2, <2>3, <2>6 DEF Bears
  <2>8. r \in Record
    BY <2>2, <2>6, RecordsAreSized
  <2> QED BY <2>2, <2>7, <2>8
<1>2. ASSUME NEW s \in S, Bears(F, phys, s, r)
      PROVE  \E p \in S : r \in Shown(F[p])
  <2>1. PICK g \in Pages : \E i \in DOMAIN F[phys[s]].page[g] : F[phys[s]].page[g][i] = r
    BY <1>2 DEF Bears
  <2> DEFINE rs == F[phys[s]].page[g]
  <2>2. PICK i \in DOMAIN rs : rs[i] = r
    BY <2>1
  <2>3. phys[s] \in S /\ AllOk(rs) /\ IsValid(F[phys[s]])
    <3>1. phys[s] \in S
      BY <1>2 DEF Bears, MapIn
    <3>2. F[phys[s]].head[1] = HeadOf(s) /\ AllOk(rs)
      BY <1>2 DEF Bears, TidyIn
    <3>3. IsValid(F[phys[s]])
      BY <3>2 DEF IsValid, HeadOf
    <3> QED BY <3>1, <3>2, <3>3
  <2>4. rs \in Seq(Record)
    BY <2>3, ValidIs
  <2>5. GoodRecords(rs) = rs
    BY <2>3, <2>4, GoodIs
  <2>6. r \in Shown(F[phys[s]])
    <3>1. r \in Range(GoodRecords(rs))
      BY <2>2, <2>5 DEF Range
    <3> QED BY <2>3, <3>1 DEF Shown
  <2> QED BY <2>3, <2>6
<1>3. r \in RecordsIn(F, S) <=> \E p \in S : r \in Shown(F[p])
  BY DEF RecordsIn
<1> QED BY <1>1, <1>2, <1>3

LEMMA NumberedIs ==
  ASSUME NEW S, NoSector \notin S, S \subseteq Nat, NEW F \in FlashIn(S), NEW phys \in MapIn(S),
         NEW open, TidyIn(F, S, phys, open)
  PROVE  /\ Numbered(F, S, phys) \in SUBSET (Numbers \X Nat)
         /\ NumbersOf(Numbered(F, S, phys)) = SeqsIn(F, S)
<1> DEFINE N == Numbered(F, S, phys)
<1>1. N \in SUBSET (Numbers \X Nat)
  BY DEF Numbered
<1>2. ASSUME NEW x \in N PROVE x[1] \in SeqsIn(F, S)
  <2>1. PICK r \in Record : Bears(F, phys, x[2], r) /\ r.seq = x[1]
    BY DEF Numbered
  <2>2. x[2] \in S
    BY DEF Numbered
  <2>3. r \in RecordsIn(F, S)
    BY <2>1, <2>2, RecordsBorne
  <2> QED BY <2>1, <2>3 DEF SeqsIn
<1>3. ASSUME NEW r \in RecordsIn(F, S) PROVE r.seq \in NumbersOf(N)
  <2>1. PICK s \in S : Bears(F, phys, s, r)
    BY RecordsBorne
  <2>2. r \in Record /\ r.seq \in Numbers
    BY RecordsBorne DEF Record, Numbers
  <2> DEFINE x == <<r.seq, s>>
  <2>3. x \in Numbers \X S /\ x[1] = r.seq /\ x[2] = s
    BY <2>2
  <2>4. x \in N
    BY <2>1, <2>2, <2>3 DEF Numbered
  <2> QED BY <2>3, <2>4 DEF NumbersOf
<1> HIDE DEF N
<1>4. NumbersOf(N) \subseteq SeqsIn(F, S)
  BY <1>2 DEF NumbersOf
<1>5. SeqsIn(F, S) \subseteq NumbersOf(N)
  BY <1>3 DEF SeqsIn
<1> QED BY <1>1, <1>4, <1>5 DEF N

LEMMA ItemRecord ==
  ASSUME NEW S, NoSector \notin S, NEW F \in FlashIn(S), NEW phys \in MapIn(S), NEW open,
         TidyIn(F, S, phys, open), NEW it, Leads(F, S, phys, it)
  PROVE  /\ RecordOf(F, phys, it) \in RecordsIn(F, S) /\ RecordOf(F, phys, it) \in Record
         /\ RecordOf(F, phys, it).tok = it.tok
<1>1. Bears(F, phys, it.sec, RecordOf(F, phys, it)) /\ it.sec \in S
  BY DEF Leads, Bears, RecordOf
<1>2. RecordOf(F, phys, it).tok = it.tok
  BY DEF Leads, RecordOf
<1> QED BY <1>1, <1>2, RecordsBorne

(* The same records in every sector but s, and none in it.                 *)
LEMMA AlikeBears ==
  ASSUME NEW S, NEW F, NEW phys, NEW G, NEW psys, NEW s, Alike(S, F, phys, G, psys, s)
  PROVE  \A q \in S : \A r : q # s => (Bears(G, psys, q, r) <=> Bears(F, phys, q, r))
<1> SUFFICES ASSUME NEW q \in S, NEW r, q # s
             PROVE  Bears(G, psys, q, r) <=> Bears(F, phys, q, r)
  OBVIOUS
<1>1. psys[q] = phys[q] /\ (phys[q] # NoSector => G[phys[q]].page = F[phys[q]].page)
  BY DEF Alike
<1>2. CASE phys[q] = NoSector
  BY <1>1, <1>2 DEF Bears
<1>3. CASE phys[q] # NoSector
  BY <1>1, <1>3 DEF Bears
<1> QED BY <1>2, <1>3

LEMMA NumberedSame ==
  ASSUME NEW S, NEW F, NEW phys, NEW G, NEW psys,
         \A q \in S : \A r : Bears(G, psys, q, r) <=> Bears(F, phys, q, r)
  PROVE  Numbered(G, S, psys) = Numbered(F, S, phys)
<1>1. \A x \in Numbers \X S : x[2] \in S
  OBVIOUS
<1> QED BY <1>1 DEF Numbered

LEMMA FewerShown ==
  ASSUME NEW S, NEW F, NEW G, \A p \in S : Shown(G[p]) \subseteq RecordsIn(F, S), Distinct(F, S)
  PROVE  Distinct(G, S) /\ RecordsIn(G, S) \subseteq RecordsIn(F, S)
<1>1. RecordsIn(G, S) \subseteq RecordsIn(F, S)
  BY DEF RecordsIn
<1> QED BY <1>1 DEF Distinct

LEMMA OneChanged ==
  ASSUME NEW S, NEW F \in FlashIn(S), NEW p, NEW x, Shown(x) \subseteq RecordsIn(F, S),
         Distinct(F, S)
  PROVE  /\ Distinct([F EXCEPT ![p] = x], S)
         /\ RecordsIn([F EXCEPT ![p] = x], S) \subseteq RecordsIn(F, S)
<1> DEFINE G == [F EXCEPT ![p] = x]
<1>1. ASSUME NEW q \in S PROVE Shown(G[q]) \subseteq RecordsIn(F, S)
  <2>1. G[q] = x \/ G[q] = F[q]
    BY DEF FlashIn
  <2>2. Shown(F[q]) \subseteq RecordsIn(F, S)
    BY DEF RecordsIn
  <2> QED BY <2>1, <2>2
<1> HIDE DEF G
<1>2. Distinct(G, S) /\ RecordsIn(G, S) \subseteq RecordsIn(F, S)
  BY <1>1, FewerShown
<1> QED BY <1>2 DEF G

(* The order stays when the records of the pool become fewer but the       *)
(* extremes and what the items lead to stay.                               *)
LEMMA OrderStays ==
  ASSUME NEW S, NEW F, NEW m, NEW G, NEW j, OrderIn(F, S, m),
         RecordsIn(G, S) \subseteq RecordsIn(F, S), j.seqs = m.seqs, j.lut = m.lut,
         ExtremesOf(Numbered(G, S, j.phys)) = ExtremesOf(Numbered(F, S, m.phys)),
         \A k \in DOMAIN m.lut : RecordOf(G, j.phys, m.lut[k]) = RecordOf(F, m.phys, m.lut[k])
  PROVE  OrderIn(G, S, j)
<1>1. NewestIn(G, S, j.phys, m.lut)
  BY DEF NewestIn, OrderIn
<1> QED BY <1>1 DEF OrderIn
-----------------------------------------------------------------------------
(***************************************************************************)
(* The extremes do not change when numbers between them go.                *)
(***************************************************************************)

LEMMA MinSame ==
  ASSUME NEW R \in SUBSET Nat, R # {}, NEW T \in SUBSET R, Min(R) \in T
  PROVE  T # {} /\ Min(T) = Min(R)
<1>1. Min(R) \in R /\ \A y \in R : Min(R) <= y
  BY MinIs
<1>2. T \in SUBSET Nat /\ T # {}
  OBVIOUS
<1>3. Min(T) \in T /\ \A y \in T : Min(T) <= y
  BY <1>2, MinIs
<1>4. Min(T) \in Nat /\ Min(R) \in Nat /\ Min(T) <= Min(R) /\ Min(R) <= Min(T)
  BY <1>1, <1>3
<1>5. \A a, b \in Nat : a <= b /\ b <= a => a = b
  OBVIOUS
<1> QED BY <1>2, <1>4, <1>5

LEMMA MaxSame ==
  ASSUME NEW R \in SUBSET Numbers, R # {}, NEW T \in SUBSET R, Max(R) \in T
  PROVE  T # {} /\ Max(T) = Max(R)
<1>1. Max(R) \in R /\ \A y \in R : Max(R) >= y
  BY MaxIs
<1>2. T \in SUBSET Numbers /\ T # {}
  OBVIOUS
<1>3. Max(T) \in T /\ \A y \in T : Max(T) >= y
  BY <1>2, MaxIs
<1>4. Max(T) \in Nat /\ Max(R) \in Nat /\ Max(T) >= Max(R) /\ Max(R) >= Max(T)
  <2>1. Numbers \subseteq Nat
    BY SeqAssumption DEF Numbers
  <2> QED BY <1>1, <1>3, <2>1
<1>5. \A a, b \in Nat : a >= b /\ b >= a => a = b
  OBVIOUS
<1> QED BY <1>2, <1>4, <1>5

(* The extremes stay when numbers go that are none of them (the check of   *)
(* Nvm_LogSector_RelocateActiveData before the sector is erased).          *)
LEMMA ExtremesStay ==
  ASSUME NEW U \in SUBSET (Numbers \X Nat), NEW V \in SUBSET U,
         \A x \in U \ V : x[1] \notin Extremes(ExtremesOf(U))
  PROVE  ExtremesOf(V) = ExtremesOf(U)
<1> DEFINE ns(A) == {x[1] : x \in A}
           up(A) == {n \in ns(A) : InUpperHalf(n)}
           lo(A) == {n \in ns(A) : InLowerHalf(n)}
           sec(A, n) == Min({x[2] : x \in {y \in A : y[1] = n}})
           q == ExtremesOf(U)
<1>1. \A A : ExtremesOf(A) =
        [high   |-> Max(ns(A) \cup {NoExtremes.high}),
         low    |-> IF ns(A) = {} THEN NoSeq ELSE Min(ns(A)),
         lowSec |-> IF ns(A) = {} THEN 0 ELSE sec(A, Min(ns(A))),
         upLow  |-> IF up(A) = {} THEN NoSeq ELSE Min(up(A)),
         upSec  |-> IF up(A) = {} THEN 0 ELSE sec(A, Min(up(A))),
         loHigh |-> IF lo(A) = {} THEN NoSeq ELSE Max(lo(A))]
  BY DEF ExtremesOf
<1>2. /\ ns(U) \in SUBSET Numbers /\ ns(U) \in SUBSET Nat
      /\ ns(V) \subseteq ns(U) /\ up(V) \subseteq up(U) /\ lo(V) \subseteq lo(U)
      /\ up(U) \in SUBSET Nat /\ lo(U) \in SUBSET Numbers
  <2>1. Numbers \subseteq Nat
    BY SeqAssumption DEF Numbers
  <2>2. ns(U) \in SUBSET Numbers
    OBVIOUS
  <2> QED BY <2>1, <2>2
<1>3. ASSUME NEW n \in Extremes(q)
      PROVE  /\ n \in ns(U) => n \in ns(V)
             /\ sec(V, n) = sec(U, n)
  <2>1. {y \in V : y[1] = n} = {y \in U : y[1] = n}
    BY <1>3
  <2>2. n \in ns(U) => n \in ns(V)
    BY <1>3
  <2> HIDE DEF q
  <2> QED BY <2>1, <2>2
<1>4. /\ q.high \in Extremes(q) /\ q.low \in Extremes(q)
      /\ q.upLow \in Extremes(q) /\ q.loHigh \in Extremes(q)
  BY DEF Extremes
<1>5. /\ q.high = Max(ns(U) \cup {NoExtremes.high})
      /\ ns(U) # {} => q.low = Min(ns(U))
      /\ up(U) # {} => q.upLow = Min(up(U))
      /\ lo(U) # {} => q.loHigh = Max(lo(U))
  BY <1>1
<1> HIDE DEF q
<1>6. Max(ns(V) \cup {NoExtremes.high}) = Max(ns(U) \cup {NoExtremes.high})
  <2> DEFINE R == ns(U) \cup {NoExtremes.high}
             T == ns(V) \cup {NoExtremes.high}
  <2>1. NoExtremes.high \in Numbers
    BY SeqAssumption DEF NoExtremes, Numbers
  <2>2. R \in SUBSET Numbers /\ R # {} /\ T \in SUBSET R
    BY <1>2, <2>1
  <2>3. Max(R) \in R
    BY <2>2, MaxIs
  <2>4. Max(R) \in T
    BY <1>3, <1>4, <1>5, <2>3
  <2> HIDE DEF R, T
  <2>5. Max(T) = Max(R)
    BY <2>2, <2>4, MaxSame
  <2> QED BY <2>5 DEF R, T
<1>7. /\ ns(V) = {} <=> ns(U) = {}
      /\ ns(U) # {} => Min(ns(V)) = Min(ns(U)) /\ sec(V, Min(ns(V))) = sec(U, Min(ns(U)))
  <2>1. CASE ns(U) = {}
    BY <1>2, <2>1
  <2>2. CASE ns(U) # {}
    <3> HIDE DEF ns, sec
    <3>1. Min(ns(U)) \in ns(U) /\ Min(ns(U)) \in Extremes(q)
      BY <1>2, <1>4, <1>5, <2>2, MinIs
    <3>2. Min(ns(U)) \in ns(V) /\ sec(V, Min(ns(U))) = sec(U, Min(ns(U)))
      BY <1>3, <3>1
    <3>3. ns(V) # {} /\ Min(ns(V)) = Min(ns(U))
      BY <1>2, <2>2, <3>2, MinSame
    <3> QED BY <2>2, <3>2, <3>3
  <2> QED BY <2>1, <2>2
<1>8. /\ up(V) = {} <=> up(U) = {}
      /\ up(U) # {} => Min(up(V)) = Min(up(U)) /\ sec(V, Min(up(V))) = sec(U, Min(up(U)))
  <2>1. CASE up(U) = {}
    BY <1>2, <2>1
  <2>2. CASE up(U) # {}
    <3> HIDE DEF ns, sec
    <3>1. Min(up(U)) \in up(U) /\ Min(up(U)) \in Extremes(q)
      <4> HIDE DEF up
      <4> QED BY <1>2, <1>4, <1>5, <2>2, MinIs
    <3>2. Min(up(U)) \in ns(U) /\ InUpperHalf(Min(up(U)))
      BY <3>1
    <3>3. Min(up(U)) \in ns(V) /\ sec(V, Min(up(U))) = sec(U, Min(up(U)))
      BY <1>3, <3>1, <3>2
    <3>4. Min(up(U)) \in up(V)
      BY <3>2, <3>3
    <3> HIDE DEF up
    <3>5. up(V) # {} /\ Min(up(V)) = Min(up(U))
      BY <1>2, <2>2, <3>4, MinSame
    <3> QED BY <2>2, <3>3, <3>5
  <2> QED BY <2>1, <2>2
<1>9. /\ lo(V) = {} <=> lo(U) = {}
      /\ lo(U) # {} => Max(lo(V)) = Max(lo(U))
  <2>1. CASE lo(U) = {}
    BY <1>2, <2>1
  <2>2. CASE lo(U) # {}
    <3> HIDE DEF ns, sec
    <3>1. Max(lo(U)) \in lo(U) /\ Max(lo(U)) \in Extremes(q)
      <4> HIDE DEF lo
      <4> QED BY <1>2, <1>4, <1>5, <2>2, MaxIs
    <3>2. Max(lo(U)) \in ns(U) /\ InLowerHalf(Max(lo(U)))
      BY <3>1
    <3>3. Max(lo(U)) \in ns(V)
      BY <1>3, <3>1, <3>2
    <3>4. Max(lo(U)) \in lo(V)
      BY <3>2, <3>3
    <3> HIDE DEF lo
    <3>5. lo(V) # {} /\ Max(lo(V)) = Max(lo(U))
      BY <1>2, <2>2, <3>4, MaxSame
    <3> QED BY <2>2, <3>5
  <2> QED BY <2>1, <2>2
<1>10. /\ ExtremesOf(U) =
            [high   |-> Max(ns(U) \cup {NoExtremes.high}),
             low    |-> IF ns(U) = {} THEN NoSeq ELSE Min(ns(U)),
             lowSec |-> IF ns(U) = {} THEN 0 ELSE sec(U, Min(ns(U))),
             upLow  |-> IF up(U) = {} THEN NoSeq ELSE Min(up(U)),
             upSec  |-> IF up(U) = {} THEN 0 ELSE sec(U, Min(up(U))),
             loHigh |-> IF lo(U) = {} THEN NoSeq ELSE Max(lo(U))]
       /\ ExtremesOf(V) =
            [high   |-> Max(ns(V) \cup {NoExtremes.high}),
             low    |-> IF ns(V) = {} THEN NoSeq ELSE Min(ns(V)),
             lowSec |-> IF ns(V) = {} THEN 0 ELSE sec(V, Min(ns(V))),
             upLow  |-> IF up(V) = {} THEN NoSeq ELSE Min(up(V)),
             upSec  |-> IF up(V) = {} THEN 0 ELSE sec(V, Min(up(V))),
             loHigh |-> IF lo(V) = {} THEN NoSeq ELSE Max(lo(V))]
  BY <1>1
<1> HIDE DEF ns, up, lo, sec
<1> QED BY <1>6, <1>7, <1>8, <1>9, <1>10
-----------------------------------------------------------------------------
(***************************************************************************)
(* A record more keeps the extremes and the items right.                   *)
(***************************************************************************)

LEMMA ListAtPlace ==
  ASSUME NEW lut \in Seq(Items), NEW t \in Tokens, NEW sec \in Sectors, NEW page \in Pages,
         NEW idx \in Nat \ {0}, (\E k \in DOMAIN lut : lut[k].tok = t) \/ Len(lut) < use.names
  PROVE  LET new == ListAt(lut, t, sec, page, idx)
         IN  \A k \in DOMAIN new :
               IF new[k].tok = t THEN new[k].sec = sec /\ new[k].page = page /\ new[k].idx = idx
                                 ELSE k \in DOMAIN lut /\ new[k] = lut[k]
<1> DEFINE new == ListAt(lut, t, sec, page, idx)
<1>1. CASE \E k \in DOMAIN lut : lut[k].tok = t
  <2>1. Relisted(lut, t, sec, page, idx, new)
    BY <1>1, ListAtOld
  <2> HIDE DEF new
  <2>2. ASSUME NEW k \in DOMAIN new
        PROVE  IF new[k].tok = t THEN new[k].sec = sec /\ new[k].page = page /\ new[k].idx = idx
                                 ELSE k \in DOMAIN lut /\ new[k] = lut[k]
    BY <2>1 DEF Relisted
  <2> QED BY <2>2 DEF new
<1>2. CASE ~\E k \in DOMAIN lut : lut[k].tok = t
  <2> DEFINE it == [tok |-> t, sec |-> sec, page |-> page, idx |-> idx, refs |-> 0]
  <2>1. new = Append(lut, it)
    BY <1>2, ListAtNew
  <2>2. it.tok = t /\ it.sec = sec /\ it.page = page /\ it.idx = idx
    OBVIOUS
  <2> HIDE DEF new, it
  <2>3. /\ DOMAIN new = 1 .. Len(lut) + 1 /\ DOMAIN lut = 1 .. Len(lut) /\ Len(lut) \in Nat
        /\ new[Len(lut) + 1] = it /\ \A k \in 1 .. Len(lut) : new[k] = lut[k]
    BY <2>1
  <2>4. ASSUME NEW k \in DOMAIN new
        PROVE  IF new[k].tok = t THEN new[k].sec = sec /\ new[k].page = page /\ new[k].idx = idx
                                 ELSE k \in DOMAIN lut /\ new[k] = lut[k]
    <3>1. CASE k = Len(lut) + 1
      BY <2>2, <2>3, <3>1
    <3>2. CASE k # Len(lut) + 1
      <4>1. k \in DOMAIN lut /\ new[k] = lut[k]
        BY <2>3, <3>2
      <4> QED BY <1>2, <4>1
    <3> QED BY <3>1, <3>2
  <2> QED BY <2>4 DEF new
<1> QED BY <1>1, <1>2

LEMMA StoreBears ==
  ASSUME NEW S, NoSector \notin S, NEW F \in FlashIn(S), NEW phys \in MapIn(S),
         TidyIn(F, S, phys, NoSector), NEW s \in S, phys[s] # NoSector,
         NEW g \in Pages, NEW r \in Record
  PROVE  LET G == Stores(F, phys, s, g, r)
         IN  \A q \in S : \A o : Bears(G, phys, q, o) <=> Bears(F, phys, q, o) \/ (q = s /\ o = r)
<1> DEFINE G == Stores(F, phys, s, g, r)
           x == F[phys[s]]
           y == With(x, g, r)
<1>1. G[phys[s]] = y /\ \A q \in S \ {phys[s]} : G[q] = F[q]
  BY StoreTidy
<1>2. phys[s] \in S /\ x \in SectorsIn(S)
  BY DEF MapIn, FlashIn
<1>3. /\ y.page[g] = Append(x.page[g], r) /\ x.page[g] \in Seq(Record)
      /\ \A h \in Pages \ {g} : y.page[h] = x.page[h]
  BY <1>2, WithIs
<1>4. /\ DOMAIN y.page[g] = DOMAIN x.page[g] \cup {Len(x.page[g]) + 1}
      /\ y.page[g][Len(x.page[g]) + 1] = r
      /\ \A i \in DOMAIN x.page[g] : y.page[g][i] = x.page[g][i]
  BY <1>3, AppendElements
<1> HIDE DEF G, x, y
<1>5. ASSUME NEW o PROVE Bears(G, phys, s, o) <=> Bears(F, phys, s, o) \/ o = r
  <2>1. Bears(G, phys, s, o) <=> \E h \in Pages : \E i \in DOMAIN y.page[h] : y.page[h][i] = o
    BY <1>1 DEF Bears
  <2>2. Bears(F, phys, s, o) <=> \E h \in Pages : \E i \in DOMAIN x.page[h] : x.page[h][i] = o
    BY DEF Bears, x
  <2>3. ASSUME NEW h \in Pages, NEW i \in DOMAIN y.page[h], y.page[h][i] = o
        PROVE  o = r \/ \E k \in DOMAIN x.page[h] : x.page[h][k] = o
    BY <1>3, <1>4, <2>3
  <2>4. ASSUME NEW h \in Pages, NEW i \in DOMAIN x.page[h], x.page[h][i] = o
        PROVE  \E k \in DOMAIN y.page[h] : y.page[h][k] = o
    BY <1>3, <1>4, <2>4
  <2>5. \E k \in DOMAIN y.page[g] : y.page[g][k] = r
    BY <1>4
  <2> QED BY <2>1, <2>2, <2>3, <2>4, <2>5
<1>6. ASSUME NEW q \in S, q # s, NEW o PROVE Bears(G, phys, q, o) <=> Bears(F, phys, q, o)
  <2>1. CASE phys[q] = NoSector
    BY <2>1 DEF Bears
  <2>2. CASE phys[q] # NoSector
    <3>1. phys[q] # phys[s]
      BY <1>6, <2>2, MapInjective
    <3>2. phys[q] \in S
      BY <2>2 DEF MapIn
    <3>3. G[phys[q]] = F[phys[q]]
      BY <1>1, <3>1, <3>2
    <3> QED BY <3>3 DEF Bears
  <2> QED BY <2>1, <2>2
<1> QED BY <1>5, <1>6 DEF G

LEMMA NotOlderSame ==
  ASSUME NEW n \in Int PROVE NotOlder(n, n)
<1>1. PICK k \in Nat : SeqMax = 4 * k + 3 /\ SeqMax \div 2 = 2 * k + 1
  BY Quarters
<1>2. 0 % (4 * k + 4) = 0
  OBVIOUS
<1>3. n - n = 0 /\ SeqMax + 1 = 4 * k + 4
  BY <1>1
<1> QED BY <1>1, <1>2, <1>3 DEF NotOlder

(* The number of a record that is added.                                   *)
LEMMA NextOfPool ==
  ASSUME NEW U \in SUBSET (Numbers \X Nat), Comparable(NumbersOf(U)),
         NEW n, n = NextSeq(ExtremesOf(U)), n \in Numbers, Comparable(NumbersOf(U) \cup {n})
  PROVE  n \notin NumbersOf(U) /\ \A i \in NumbersOf(U) : NotOlder(n, i)
<1>1. CASE U = {}
  BY <1>1 DEF NumbersOf
<1>2. CASE U # {}
  <2>1. ASSUME NEW i \in NumbersOf(U) PROVE n # i /\ NotOlder(n, i)
    BY <1>2, NextIsNew
  <2> QED BY <2>1
<1> QED BY <1>1, <1>2

(* The order once record r has been put into sector s.                     *)
Sorts(F, S, phys, s, r, G, new) ==
  /\ Distinct(G, S) /\ NewestIn(G, S, phys, new)
  /\ Register(ExtremesOf(Numbered(F, S, phys)), r.seq, s) = ExtremesOf(Numbered(G, S, phys))

LEMMA StoreOrders ==
  ASSUME NEW S, NoSector \notin S, S \subseteq Nat, S = Sectors,
         NEW F \in FlashIn(S), NEW phys \in MapIn(S),
         TidyIn(F, S, phys, NoSector), NEW s \in S, phys[s] # NoSector,
         NEW g \in Pages, NEW r \in Record, r.ok,
         NEW lut \in Seq(Items), ListsIn(F, S, phys, lut),
         (\E k \in DOMAIN lut : lut[k].tok = r.tok) \/ Len(lut) < use.names,
         Distinct(F, S), NewestIn(F, S, phys, lut), Comparable(SeqsIn(F, S)),
         r.seq = NextSeq(ExtremesOf(Numbered(F, S, phys))),
         NEW G, G = Stores(F, phys, s, g, r), Comparable(SeqsIn(G, S)),
         NEW new, new = ListAt(lut, r.tok, s, g, Len(F[phys[s]].page[g]) + 1)
  PROVE  Sorts(F, S, phys, s, r, G, new)
<1> DEFINE U == Numbered(F, S, phys)
           V == Numbered(G, S, phys)
           i == Len(F[phys[s]].page[g]) + 1
<1>1. /\ G \in FlashIn(S) /\ TidyIn(G, S, phys, NoSector)
      /\ \A it : Leads(F, S, phys, it) => RecordOf(G, phys, it) = RecordOf(F, phys, it)
      /\ G[phys[s]].page[g][i] = r
  <2> DEFINE H == Stores(F, phys, s, g, r)
  <2>1. /\ H \in FlashIn(S) /\ TidyIn(H, S, phys, NoSector)
        /\ \A it : Leads(F, S, phys, it) =>
             H[phys[it.sec]].page[it.page][it.idx] = F[phys[it.sec]].page[it.page][it.idx]
        /\ H[phys[s]].page[g][Len(F[phys[s]].page[g]) + 1] = r
    <3>1. H \in FlashIn(S)
      BY StoreTidy
    <3>2. TidyIn(H, S, phys, NoSector)
      BY StoreTidy
    <3>3. \A it : Leads(F, S, phys, it) =>
             H[phys[it.sec]].page[it.page][it.idx] = F[phys[it.sec]].page[it.page][it.idx]
      BY StoreTidy
    <3>4. H[phys[s]].page[g][Len(F[phys[s]].page[g]) + 1] = r
      BY StoreTidy
    <3> QED BY <3>1, <3>2, <3>3, <3>4
  <2>2. G = H
    OBVIOUS
  <2>3. \A it : RecordOf(H, phys, it) = H[phys[it.sec]].page[it.page][it.idx]
                /\ RecordOf(F, phys, it) = F[phys[it.sec]].page[it.page][it.idx]
    BY DEF RecordOf
  <2>4. \A it : Leads(F, S, phys, it) => RecordOf(H, phys, it) = RecordOf(F, phys, it)
    <3> HIDE DEF H
    <3> QED BY <2>1, <2>3
  <2> HIDE DEF H
  <2>5. H[phys[s]].page[g][i] = r
    BY <2>1
  <2> QED BY <2>1, <2>2, <2>4, <2>5
<1>2. \A q \in S : \A o : Bears(G, phys, q, o) <=> Bears(F, phys, q, o) \/ (q = s /\ o = r)
  BY StoreBears
<1>3. \A o : o \in RecordsIn(F, S) <=> \E q \in S : Bears(F, phys, q, o)
  BY RecordsBorne
<1>4. \A o : o \in RecordsIn(G, S) <=> \E q \in S : Bears(G, phys, q, o)
  BY <1>1, RecordsBorne
<1>5. RecordsIn(G, S) = RecordsIn(F, S) \cup {r}
  BY <1>2, <1>3, <1>4
<1>6. SeqsIn(G, S) = SeqsIn(F, S) \cup {r.seq}
  BY <1>5 DEF SeqsIn
<1>7. r.seq \in Numbers
  BY DEF Record, Numbers
<1>8. U \in SUBSET (Numbers \X Nat) /\ NumbersOf(U) = SeqsIn(F, S)
  BY NumberedIs
<1>9. V = U \cup {<<r.seq, s>>}
  <2>1. ASSUME NEW x \in Numbers \X S
        PROVE  x \in V <=> x \in U \/ x = <<r.seq, s>>
    <3>1. x = <<x[1], x[2]>> /\ x[2] \in S
      OBVIOUS
    <3>2. x \in U <=> \E o \in Record : Bears(F, phys, x[2], o) /\ o.seq = x[1]
      BY DEF Numbered
    <3>3. x \in V <=> \E o \in Record : Bears(G, phys, x[2], o) /\ o.seq = x[1]
      BY DEF Numbered
    <3>4. x = <<r.seq, s>> <=> x[2] = s /\ r.seq = x[1]
      BY <3>1
    <3> HIDE DEF U, V
    <3> QED BY <1>2, <3>1, <3>2, <3>3, <3>4
  <2>2. <<r.seq, s>> \in Numbers \X S
    BY <1>7
  <2>3. U \subseteq Numbers \X S /\ V \subseteq Numbers \X S
    BY DEF Numbered
  <2> HIDE DEF U, V
  <2> QED BY <2>1, <2>2, <2>3
<1> HIDE DEF U, V
<1>10. r.seq \notin SeqsIn(F, S) /\ \A n \in SeqsIn(F, S) : NotOlder(r.seq, n)
  <2>1. Comparable(NumbersOf(U)) /\ Comparable(NumbersOf(U) \cup {r.seq}) /\ r.seq = NextSeq(ExtremesOf(U))
    BY <1>6, <1>8 DEF U
  <2> QED BY <1>7, <1>8, <2>1, NextOfPool
<1>11. Distinct(G, S)
  BY <1>5, <1>10 DEF Distinct, SeqsIn
<1>12. Register(ExtremesOf(U), r.seq, s) = ExtremesOf(V)
  BY <1>7, <1>8, <1>9, <1>10, KeptAsRecomputed
<1>13. \A o \in RecordsIn(G, S) : NotOlder(r.seq, o.seq)
  <2>1. NotOlder(r.seq, r.seq)
    BY <1>7, NotOlderSame, SeqAssumption DEF Numbers
  <2> QED BY <1>5, <1>10, <2>1 DEF SeqsIn
<1>14. ASSUME NEW k \in DOMAIN new, NEW o \in RecordsIn(G, S), o.tok = new[k].tok
       PROVE  NotOlder(RecordOf(G, phys, new[k]).seq, o.seq)
  <2>1. i \in Nat \ {0}
    <3>1. F[phys[s]].page[g] \in Seq(Record)
      BY ValidIs DEF MapIn
    <3> QED BY <3>1
  <2>2. r.tok \in Tokens
    BY DEF Record
  <2>3. IF new[k].tok = r.tok THEN new[k].sec = s /\ new[k].page = g /\ new[k].idx = i
                              ELSE k \in DOMAIN lut /\ new[k] = lut[k]
    <3>1. new = ListAt(lut, r.tok, s, g, i)
      OBVIOUS
    <3> HIDE DEF i
    <3> QED BY <2>1, <2>2, <3>1, ListAtPlace
  <2> HIDE DEF i
  <2>4. CASE new[k].tok = r.tok
    <3>1. RecordOf(G, phys, new[k]) = r
      BY <1>1, <2>3, <2>4 DEF RecordOf
    <3> QED BY <1>13, <3>1
  <2>5. CASE new[k].tok # r.tok
    <3>1. k \in DOMAIN lut /\ new[k] = lut[k]
      BY <2>3, <2>5
    <3>2. RecordOf(G, phys, new[k]) = RecordOf(F, phys, lut[k])
      BY <1>1, <3>1 DEF ListsIn
    <3>3. o \in RecordsIn(F, S)
      BY <1>5, <1>14, <2>5
    <3> QED BY <1>14, <3>1, <3>2, <3>3 DEF NewestIn
  <2> QED BY <2>4, <2>5
<1>15. NewestIn(G, S, phys, new)
  BY <1>14 DEF NewestIn
<1> QED BY <1>11, <1>12, <1>15 DEF Sorts, U, V
-----------------------------------------------------------------------------
(***************************************************************************)
(* What is stored, by the records and by a table that leads to the newest  *)
(* of them.                                                                *)
(***************************************************************************)

(* Of two numbers one is newer.                                            *)
LEMMA OneIsNewer ==
  ASSUME NEW n \in Numbers, NEW m \in Numbers, NotOlder(n, m), NotOlder(m, n)
  PROVE  n = m
<1>1. PICK k \in Nat : k >= 1 /\ SeqMax = 4 * k + 3 /\ SeqMax \div 2 = 2 * k + 1
  BY Quarters
<1>2. SeqMax + 1 \in Nat /\ SeqMax + 1 > 0 /\ n \in Int /\ m \in Int
      /\ 0 <= n /\ n < SeqMax + 1 /\ 0 <= m /\ m < SeqMax + 1
  BY <1>1 DEF Numbers
<1>3. /\ (n - m) % (SeqMax + 1) = IF n >= m THEN n - m ELSE n - m + (SeqMax + 1)
      /\ (m - n) % (SeqMax + 1) = IF m >= n THEN m - n ELSE m - n + (SeqMax + 1)
  BY <1>2, Around
<1> QED BY <1>1, <1>2, <1>3 DEF NotOlder

(* A token's value is that of its record that none of the token is newer   *)
(* than.                                                                   *)
LEMMA NewestStored ==
  ASSUME NEW R \in SUBSET Record, \A r, o \in R : r.seq = o.seq => r = o,
         NEW c \in R, \A o \in R : o.tok = c.tok => NotOlder(c.seq, o.seq)
  PROVE  StoredIn(R)[c.tok] = c.val
<1> DEFINE of == {r \in R : r.tok = c.tok}
           b == CHOOSE r \in of : \A o \in of : NotOlder(r.seq, o.seq)
<1>1. c \in Record /\ c.tok \in Tokens
  BY DEF Record
<1>2. StoredIn(R)[c.tok] = IF of = {} THEN Removed ELSE b.val
  BY <1>1 DEF StoredIn
<1>3. c \in of /\ \A o \in of : NotOlder(c.seq, o.seq)
  OBVIOUS
<1>4. b \in of /\ \A o \in of : NotOlder(b.seq, o.seq)
  BY <1>3
<1> HIDE DEF b
<1>5. b \in R /\ b.seq \in Numbers /\ c.seq \in Numbers
  BY <1>1, <1>4 DEF Record, Numbers
<1>6. b.seq = c.seq
  BY <1>3, <1>4, <1>5, OneIsNewer
<1>7. b = c
  BY <1>5, <1>6
<1> QED BY <1>2, <1>3, <1>7

LEMMA NoneStored ==
  ASSUME NEW R, NEW t \in Tokens, \A r \in R : r.tok # t
  PROVE  StoredIn(R)[t] = Removed
BY DEF StoredIn

LEMMA SameStored ==
  ASSUME NEW R, NEW Q, \A t \in Tokens : StoredIn(R)[t] = StoredIn(Q)[t]
  PROVE  StoredIn(R) = StoredIn(Q)
BY DEF StoredIn

LEMMA OthersStored ==
  ASSUME NEW R, NEW r, NEW t \in Tokens, t # r.tok
  PROVE  StoredIn(R \cup {r})[t] = StoredIn(R)[t]
<1> DEFINE Q == R \cup {r}
           V(of) == IF of = {} THEN Removed
                    ELSE (CHOOSE a \in of : \A o \in of : NotOlder(a.seq, o.seq)).val
<1>1. {o \in Q : o.tok = t} = {o \in R : o.tok = t}
  OBVIOUS
<1>2. StoredIn(Q)[t] = V({o \in Q : o.tok = t}) /\ StoredIn(R)[t] = V({o \in R : o.tok = t})
  BY DEF StoredIn
<1> HIDE DEF V
<1> QED BY <1>1, <1>2

(* A record that none of its token is newer than changes its token.        *)
LEMMA StoredMore ==
  ASSUME NEW R \in SUBSET Record, NEW r \in Record,
         \A a, b \in R \cup {r} : a.seq = b.seq => a = b,
         \A o \in R : o.tok = r.tok => NotOlder(r.seq, o.seq)
  PROVE  StoredIn(R \cup {r}) = [StoredIn(R) EXCEPT ![r.tok] = r.val]
<1>1. r.tok \in Tokens /\ r.seq \in Int
  BY SeqAssumption DEF Record
<1>2. NotOlder(r.seq, r.seq)
  BY <1>1, NotOlderSame
<1>3. StoredIn(R \cup {r})[r.tok] = r.val
  BY <1>2, NewestStored
<1>4. \A t \in Tokens \ {r.tok} : StoredIn(R \cup {r})[t] = StoredIn(R)[t]
  BY OthersStored
<1>5. /\ StoredIn(R \cup {r}) = [t \in Tokens |-> StoredIn(R \cup {r})[t]]
      /\ StoredIn(R) = [t \in Tokens |-> StoredIn(R)[t]]
  BY DEF StoredIn
<1> QED BY <1>1, <1>3, <1>4, <1>5

(* What the items lead to is what is stored.                               *)
LEMMA ReadsFrom ==
  ASSUME NEW S, NoSector \notin S, NEW F \in FlashIn(S), NEW phys \in MapIn(S), NEW open,
         TidyIn(F, S, phys, open), NEW lut, ListsIn(F, S, phys, lut),
         NewestIn(F, S, phys, lut), Distinct(F, S)
  PROVE  /\ \A k \in DOMAIN lut :
              StoredIn(RecordsIn(F, S))[lut[k].tok] = RecordOf(F, phys, lut[k]).val
         /\ \A t \in Tokens : (\A k \in DOMAIN lut : lut[k].tok # t) =>
              /\ StoredIn(RecordsIn(F, S))[t] = Removed
              /\ \A r \in RecordsIn(F, S) : r.tok # t
<1> DEFINE R == RecordsIn(F, S)
<1>1. R \in SUBSET Record /\ \A r, o \in R : r.seq = o.seq => r = o
  BY RecordsBorne DEF Distinct
<1>2. ASSUME NEW k \in DOMAIN lut PROVE StoredIn(R)[lut[k].tok] = RecordOf(F, phys, lut[k]).val
  <2> DEFINE c == RecordOf(F, phys, lut[k])
  <2>1. Leads(F, S, phys, lut[k])
    BY DEF ListsIn
  <2>2. c \in R /\ c.tok = lut[k].tok
    BY <2>1, ItemRecord
  <2>3. \A o \in R : o.tok = c.tok => NotOlder(c.seq, o.seq)
    BY <2>2 DEF NewestIn
  <2> HIDE DEF c, R
  <2>4. StoredIn(R)[c.tok] = c.val
    BY <1>1, <2>2, <2>3, NewestStored
  <2> QED BY <2>2, <2>4 DEF c
<1>3. ASSUME NEW t \in Tokens, \A k \in DOMAIN lut : lut[k].tok # t
      PROVE  \A r \in R : r.tok # t
  <2> SUFFICES ASSUME NEW r \in R, r.tok = t PROVE FALSE
    OBVIOUS
  <2>1. t \in TokensIn(F, S)
    BY DEF TokensIn
  <2>2. \E s \in S : Carries(F, phys, s, t)
    BY <2>1, TokensCarried
  <2> QED BY <1>3, <2>2 DEF ListsIn
<1>4. ASSUME NEW t \in Tokens, \A k \in DOMAIN lut : lut[k].tok # t
      PROVE  StoredIn(R)[t] = Removed
  BY <1>3, <1>4, NoneStored
<1> QED BY <1>2, <1>3, <1>4

(* A sector with a record more, whole or cut short.                        *)
LEMMA WithShowsAll ==
  ASSUME NEW S, NEW x \in SectorsIn(S), NEW g \in Pages, AllOk(x.page[g]), NEW r \in Record
  PROVE  Shown(With(x, g, r)) = IF r.ok /\ IsValid(x) THEN Shown(x) \cup {r} ELSE Shown(x)
<1> DEFINE y == With(x, g, r)
<1>1. /\ y.head = x.head /\ y.page[g] = Append(x.page[g], r) /\ x.page[g] \in Seq(Record)
      /\ \A h \in Pages \ {g} : y.page[h] = x.page[h]
  BY WithIs
<1>2. GoodRecords(y.page[g]) = IF r.ok THEN Append(x.page[g], r) ELSE x.page[g]
  BY <1>1, GoodAppend
<1>3. GoodRecords(x.page[g]) = x.page[g]
  BY <1>1, GoodIs
<1>4. Range(Append(x.page[g], r)) = Range(x.page[g]) \cup {r}
  BY <1>1, RangeAppend
<1>5. Range(GoodRecords(y.page[g])) = IF r.ok THEN Range(GoodRecords(x.page[g])) \cup {r}
                                      ELSE Range(GoodRecords(x.page[g]))
  BY <1>2, <1>3, <1>4
<1>6. \A h \in Pages \ {g} : Range(GoodRecords(y.page[h])) = Range(GoodRecords(x.page[h]))
  BY <1>1
<1>7. IsValid(y) <=> IsValid(x)
  BY <1>1 DEF IsValid
<1> HIDE DEF y
<1>8. \A o : o \in Shown(y) <=> IsValid(y) /\ \E h \in Pages : o \in Range(GoodRecords(y.page[h]))
  BY DEF Shown
<1>9. \A o : o \in Shown(x) <=> IsValid(x) /\ \E h \in Pages : o \in Range(GoodRecords(x.page[h]))
  BY DEF Shown
<1>10. CASE r.ok /\ IsValid(x)
  <2>1. \A o : o \in Shown(y) <=> o \in Shown(x) \/ o = r
    BY <1>5, <1>6, <1>7, <1>8, <1>9, <1>10
  <2> QED BY <1>10, <2>1 DEF y
<1>11. CASE ~(r.ok /\ IsValid(x))
  <2>1. \A o : o \in Shown(y) <=> o \in Shown(x)
    BY <1>5, <1>6, <1>7, <1>8, <1>9, <1>11
  <2> QED BY <1>11, <2>1 DEF y
<1> QED BY <1>10, <1>11

LEMMA RecordsPut ==
  ASSUME NEW S, NEW F \in FlashIn(S), NEW p \in S, NEW x
  PROVE  \A r : r \in RecordsIn([F EXCEPT ![p] = x], S)
                  <=> r \in Shown(x) \/ \E q \in S \ {p} : r \in Shown(F[q])
<1> DEFINE G == [F EXCEPT ![p] = x]
<1>1. G[p] = x /\ \A q \in S \ {p} : G[q] = F[q]
  BY DEF FlashIn
<1> HIDE DEF G
<1>2. \A r : r \in RecordsIn(G, S) <=> \E q \in S : r \in Shown(G[q])
  BY DEF RecordsIn
<1>3. \A r : r \in RecordsIn(G, S) <=> r \in Shown(x) \/ \E q \in S \ {p} : r \in Shown(F[q])
  BY <1>1, <1>2
<1> QED BY <1>3 DEF G

LEMMA OneMore ==
  ASSUME NEW S, NEW F \in FlashIn(S), NEW p \in S, NEW g \in Pages, AllOk(F[p].page[g]),
         NEW r \in Record
  PROVE  RecordsIn([F EXCEPT ![p] = With(F[p], g, r)], S)
           = IF r.ok /\ IsValid(F[p]) THEN RecordsIn(F, S) \cup {r} ELSE RecordsIn(F, S)
<1> DEFINE y == With(F[p], g, r)
           G == [F EXCEPT ![p] = y]
<1>1. F[p] \in SectorsIn(S)
  BY DEF FlashIn
<1>2. Shown(y) = IF r.ok /\ IsValid(F[p]) THEN Shown(F[p]) \cup {r} ELSE Shown(F[p])
  BY <1>1, WithShowsAll
<1> HIDE DEF y
<1>3. \A o : o \in RecordsIn(G, S) <=> o \in Shown(y) \/ \E q \in S \ {p} : o \in Shown(F[q])
  BY RecordsPut
<1> HIDE DEF G
<1>4. \A o : o \in RecordsIn(F, S) <=> o \in Shown(F[p]) \/ \E q \in S \ {p} : o \in Shown(F[q])
  BY DEF RecordsIn
<1>5. \A o : o \in RecordsIn(G, S)
               <=> o \in (IF r.ok /\ IsValid(F[p]) THEN RecordsIn(F, S) \cup {r} ELSE RecordsIn(F, S))
  BY <1>2, <1>3, <1>4
<1>6. RecordsIn(G, S) = IF r.ok /\ IsValid(F[p]) THEN RecordsIn(F, S) \cup {r} ELSE RecordsIn(F, S)
  BY <1>5
<1> QED BY <1>6 DEF G, y

LEMMA SameShown ==
  ASSUME NEW S, NEW F, NEW G, \A p \in S : Shown(G[p]) = Shown(F[p])
  PROVE  RecordsIn(G, S) = RecordsIn(F, S)
BY DEF RecordsIn

LEMMA HeadedShown ==
  ASSUME NEW x, NEW y, y.page = x.page, IsValid(y) <=> IsValid(x)
  PROVE  Shown(y) = Shown(x)
BY DEF Shown
=============================================================================
