------------------------------- MODULE MCNvm -------------------------------
(***************************************************************************)
(* Instances of Nvm: the uses of the store that the runs consider.         *)
(***************************************************************************)
EXTENDS Nvm, TLC

CONSTANTS t1, t2, t3, v1, v2

MCLength == [v \in Values |-> 1] @@ (Removed :> 0)

MCSymmetry == Permutations(Tokens) \cup Permutations(Values)

(* Sectors fill up and are relocated, by calls and by the scheduled event. *)
FullUse == [sectors |-> 3, cached |-> TRUE, removes |-> FALSE, erases |-> FALSE,
            names |-> 3, start |-> <<>>, calls |-> 6, resets |-> 1]

(* ... with removal records to drop, and a table made for every call.      *)
RemoveUse == [FullUse EXCEPT !.cached = FALSE, !.removes = TRUE]

(* A sector more, so that the pool is short of space and then is not.      *)
SmallUse == [FullUse EXCEPT !.sectors = 4, !.calls = 5]

(* Fewer names than tokens.                                                *)
NamesUse == [SmallUse EXCEPT !.cached = FALSE, !.removes = TRUE, !.names = 2]

(* The numbers start over, and the oldest records get new ones.            *)
WrapUse == [SmallUse EXCEPT !.start = <<24, 30>>, !.calls = 4]

(* Removals whose old values are in other sectors.                         *)
DropUse == [NamesUse EXCEPT !.sectors = 5, !.start = <<2, 3>>, !.calls = 5, !.resets = 0]

EraseUse == [SmallUse EXCEPT !.erases = TRUE, !.calls = 3]

(* A reset, and another one while the boot mends what the first one left.  *)
CrashUse == [SmallUse EXCEPT !.calls = 3, !.resets = 2]

GoodUses == {DropUse, FullUse, RemoveUse, SmallUse, NamesUse, WrapUse, EraseUse, CrashUse}

(* Removals where the lookup table of all tokens is kept.                  *)
StaleUses == {[FullUse EXCEPT !.sectors = 5, !.removes = TRUE, !.start = <<2, 3>>,
                              !.calls = 7, !.resets = 0]}
=============================================================================
