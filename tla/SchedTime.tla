----------------------------- MODULE SchedTime -----------------------------
(***************************************************************************)
(* The free-running microsecond clock the scheduler lives on and the four  *)
(* modular comparisons of gpSched_defs.h.  In the code a time is a UInt32: *)
(* Half is 2^31 and Modulus 2^32; a model keeps the wrap-around and makes  *)
(* Half small.                                                             *)
(***************************************************************************)
EXTENDS Integers

CONSTANT Half            \* half of the clock's range

ASSUME HalfAssumption == Half \in Nat /\ Half >= 4

Modulus == 2 * Half

Time == 0 .. Modulus - 1

(* Fault: a sum computed without the wrap-around.                          *)
PlusNoWrap(a, b) == a + b

(* UInt32 addition and subtraction of two times.                           *)
Plus(a, b)  == IF a + b >= Modulus THEN a + b - Modulus ELSE a + b
Minus(a, b) == IF a >= b THEN a - b ELSE a - b + Modulus

(* GP_SCHED_EVENT_TIME_MAX and GP_SCHED_EVENT_TIME_NOW.                    *)
EVENT_TIME_MAX == Half - 1
EVENT_TIME_NOW == Modulus - 1

TIME_COMPARE_BIGGER(t1, t2)       == ~ (Minus(t2, t1) <= Half)
TIME_COMPARE_BIGGER_EQUAL(t1, t2) == Minus(t1, t2) < Half
TIME_COMPARE_LOWER_EQUAL(t1, t2)  == Minus(t2, t1) <= Half

(* The signed distance from b to a: how far a lies ahead of b.             *)
Ahead(a, b) == IF Minus(a, b) < Half THEN Minus(a, b) ELSE Minus(a, b) - Modulus
=============================================================================
