------------------------------- MODULE MCKvs -------------------------------
(* Instances of Kvs for TLC: two keys and two versions, interchangeable.   *)
EXTENDS Kvs, TLC

CONSTANTS k1, k2, v1, v2

MCSymmetry == Permutations({k1, k2}) \cup Permutations({v1, v2})

(* Nothing goes wrong and nothing is stored twice; the rest are variants.  *)
PlainUse == [sizes |-> {1, 2}, indices |-> 3, overwrites |-> FALSE,
             roomy |-> FALSE, writeFails |-> FALSE, checks |-> TRUE,
             erases |-> TRUE, resetIn |-> {}, marks |-> {Zero, Junk}]

(* Stores of one and two data elements over each other, with room.         *)
StoreUse == [PlainUse EXCEPT !.indices = 5, !.overwrites = TRUE, !.roomy = TRUE]

(* Indices run out in the middle of a store, writes fail.                  *)
FullUse == [PlainUse EXCEPT !.writeFails = TRUE]

(* Resets during stores of new keys and removals.                          *)
ResetUse == [PlainUse EXCEPT !.sizes = {0, 1}, !.checks = FALSE,
                             !.resetIn = {"put", "delete"}]

(* Resets during stores of new keys, and checks that collect the rest.     *)
RecoverUse == [PlainUse EXCEPT !.resetIn = {"put", "check"}]

(* Resets during removals and checks, with values that fit in the head.    *)
MarkedUse == [PlainUse EXCEPT !.sizes = {0}, !.overwrites = TRUE,
                              !.resetIn = {"put", "delete", "check"},
                              !.marks = {Zero}]

GoodUses == {StoreUse, FullUse, ResetUse, RecoverUse, MarkedUse}

(* Each is one of those that the code is made for.                         *)
ASSUME MCKvsAssumption ==
  \A u \in GoodUses : RemovesSafely(u) /\ MarksZero(u) /\ StoresSafely(u)

(* Resets anywhere, whatever they leave behind.                            *)
AnyResetUses == {[PlainUse EXCEPT !.sizes = {0, 1}, !.indices = 2,
                                  !.overwrites = TRUE,
                                  !.resetIn = {"put", "delete", "check"}]}

(* A value that fits in the head stored over one that does not.            *)
ShrinkUses == {[StoreUse EXCEPT !.sizes = {0, 1}]}
=============================================================================
