------------------------------ MODULE MCSched ------------------------------
(* Instances of Sched for TLC.                                             *)
EXTENDS Sched

CONSTANTS e1, e2, e3, e4, c1, c2, a1

(* The instances are inside the range that Sched_RescheduleEvent asks for. *)
ASSUME MCAssumption == DelaysFit /\ PoolSuffices

(* Elements are interchangeable: the code never orders their addresses.    *)
MCSymmetry == Permutations(Elem)

(* One order of the pool: liveness is checked without symmetry reduction.  *)
MCInit == Init /\ free = SetToSeq(Elem)
MCFairSpec == MCInit /\ [][Next]_vars /\ Fairness
=============================================================================
