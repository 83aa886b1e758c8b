------------------------------- MODULE NvmSeq -------------------------------
(***************************************************************************)
(* The sequence numbers of gpNvm_RW_Kx_SubpagedFlash_v2.  A record carries *)
(* a number of SeqMax + 1 values that starts over at 0; which of two       *)
(* records is the newer one is decided from the extremes of the numbers in *)
(* the pool.                                                               *)
(***************************************************************************)
EXTENDS Integers, FiniteSetsExt

CONSTANT SeqMax   \* NVM_MASKED_SEQNUM_MAX: 2^15 - 1 in the code

ASSUME SeqAssumption == SeqMax \in Nat /\ SeqMax >= 7 /\ SeqMax % 4 = 3

NoSeq == 2 * (SeqMax + 1) - 1   \* NVM_SEQNUM_INVALID, 0xFFFF in the code

InLowerHalf(n)    == n <= SeqMax \div 2
InUpperHalf(n)    == n > SeqMax \div 2
InLowerQuarter(n) == n <= SeqMax \div 4
InUpperQuarter(n) == n > (3 * SeqMax) \div 4

MaxSpread == SeqMax \div 4

(* The extremes that are kept: Highest, Lowest and its sector,             *)
(* LowestInUpperHalf and its sector, HighestInLowerHalf.                   *)
NoExtremes == [high |-> 1, low |-> NoSeq, lowSec |-> 0, upLow |-> NoSeq, upSec |-> 0,
               loHigh |-> NoSeq]

(* ... of a set of pairs of a number and its sector, sectors in ascending  *)
(* order.                                                                  *)
ExtremesOf(S) ==
  LET ns     == {x[1] : x \in S}
      up     == {n \in ns : InUpperHalf(n)}
      lo     == {n \in ns : InLowerHalf(n)}
      sec(n) == Min({x[2] : x \in {y \in S : y[1] = n}})
      low    == Min(ns)
      upLow  == Min(up)
  IN  [high   |-> Max(ns \cup {NoExtremes.high}),
       low    |-> IF ns = {} THEN NoSeq ELSE low,
       lowSec |-> IF ns = {} THEN 0 ELSE sec(low),
       upLow  |-> IF up = {} THEN NoSeq ELSE upLow,
       upSec  |-> IF up = {} THEN 0 ELSE sec(upLow),
       loHigh |-> IF lo = {} THEN NoSeq ELSE Max(lo)]

Register(q, n, sec) ==
  LET above(m) == n > m \/ m = NoSeq
      below(m) == n < m \/ m = NoSeq
      isLow    == below(q.low)
      isUpLow  == InUpperHalf(n) /\ below(q.upLow)
  IN  [high   |-> IF above(q.high) THEN n ELSE q.high,
       low    |-> IF isLow THEN n ELSE q.low,
       lowSec |-> IF isLow THEN sec ELSE q.lowSec,
       upLow  |-> IF isUpLow THEN n ELSE q.upLow,
       upSec  |-> IF isUpLow THEN sec ELSE q.upSec,
       loHigh |-> IF InLowerHalf(n) /\ above(q.loHigh) THEN n ELSE q.loHigh]

(* Fault: the extremes of the halves are not looked at.                    *)
ExtremesPlain(q) == {q.high, q.low}

(* The numbers whose going makes the extremes unknown.                     *)
Extremes(q) == {q.high, q.low, q.upLow, q.loHigh}

Wrapping(q) ==
  /\ q.upLow # NoSeq
  /\ q.loHigh # NoSeq
  /\ InUpperQuarter(q.upLow)
  /\ InLowerQuarter(q.loHigh)

Unmask(q, n) ==
  IF Wrapping(q) /\ InLowerHalf(n) THEN SeqMax + 1 + n ELSE n

HighestSeq(q) == IF Wrapping(q) THEN Unmask(q, q.loHigh) ELSE q.high
LowestSeq(q)  == IF Wrapping(q) THEN q.upLow ELSE q.low

OldestSec(q)  == IF Wrapping(q) THEN q.upSec ELSE q.lowSec

(* Fault: the number does not start over.                                  *)
NextSeqUnmasked(q) == HighestSeq(q) + 1

NextSeq(q) == (HighestSeq(q) + 1) % (SeqMax + 1)

(* EvaluateSpread: the oldest records have to get new numbers.             *)
TooSpread(q) == HighestSeq(q) # NoSeq /\ HighestSeq(q) - LowestSeq(q) > MaxSpread

(* What the flash alone says of two numbers: the newer one is less than    *)
(* half way round from the other.                                          *)
NotOlder(n, m) == (n - m) % (SeqMax + 1) <= SeqMax \div 2

(* Numbers that the extremes put in the order in which they were given: no *)
(* two are further apart than half the range, or all of them are in the    *)
(* quarters before and after the point where they start over.              *)
Comparable(ns) ==
  \/ \A n, m \in ns : n - m <= SeqMax \div 2
  \/ \A n \in ns : InUpperQuarter(n) \/ InLowerQuarter(n)
=============================================================================
