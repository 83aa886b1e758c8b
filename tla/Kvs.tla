-------------------------------- MODULE Kvs --------------------------------
(***************************************************************************)
(* qvCHIP_KVS, the key-value store of the Matter glue layer, on gpNvm.     *)
(*                                                                         *)
(* A key is one head element (key hash, indices of the data elements, the  *)
(* first bytes of the value); the rest of the value is in data elements.   *)
(* One gpNvm write or removal is atomic, so it is one action; the public   *)
(* functions hold one mutex, so one operation runs at a time; a reset can  *)
(* come between any two elements.                                          *)
(*                                                                         *)
(* A value is its version (what the bytes are) and its number of data      *)
(* elements: 0 when it fits in the head.                                   *)
(***************************************************************************)
EXTENDS Integers, Sequences, FiniteSets

CONSTANTS
  Keys,         \* key hashes that callers use
  NoKey,        \* no head element at an index
  Zero,         \* the all-zeroes hash that marks a removal in progress
  Junk,         \* the hash that the copy from a NULL pointer leaves
  Versions,     \* contents of values
  NoVersion,    \* no data element at an index
  Uses          \* the uses of the store considered

(* How the store is used and what can happen to it, fixed for a behaviour. *)
Use == [sizes      : SUBSET Nat,       \* numbers of data elements stored
        indices    : Nat \ {0},        \* bound: 255 in the code
        overwrites : BOOLEAN,          \* callers store to a key that exists
        roomy      : BOOLEAN,          \* ... and only what there is room for
        writeFails : BOOLEAN,          \* a gpNvm write can fail
        checks     : BOOLEAN,          \* the consistency check is called
        erases     : BOOLEAN,          \* the partition is erased
        resetIn    : SUBSET {"put", "delete", "check"}, \* a reset can come
        marks      : SUBSET {Zero, Junk}]  \* outcomes of the copy from NULL

ASSUME KvsAssumption ==
  /\ NoKey \notin Keys \cup {Zero, Junk} /\ Keys \cap {Zero, Junk} = {}
  /\ NoVersion \notin Versions
  /\ \A u \in Uses :
       /\ DOMAIN u = {"sizes", "indices", "overwrites", "roomy", "writeFails",
                      "checks", "erases", "resetIn", "marks"}
       /\ u.sizes \subseteq Nat /\ u.indices \in Nat \ {0} /\ u.marks # {}
       /\ u.resetIn \subseteq {"put", "delete", "check"}
       /\ u.marks \subseteq {Zero, Junk}

VARIABLES
  use,     \* a member of Uses
  heads,   \* head elements by index
  datas,   \* data elements by index
  op,      \* the operation that holds the mutex, and where it is
  before,  \* ghost: what every key read as when op started
  fault    \* a failed GP_ASSERT_DEV_INT of the consistency check

vars == <<use, heads, datas, op, before, fault>>
rest == <<use, before, fault>>

Idx     == 0 .. use.indices - 1
NoHead  == [key |-> NoKey, parts |-> <<>>, v |-> NoVersion]
NoData  == [v |-> NoVersion, i |-> 0]
NoValue == [v |-> NoVersion, n |-> 0]
Idle    == [kind |-> "idle", pc |-> "idle", key |-> NoKey, val |-> NoValue,
            idx |-> 0, parts |-> <<>>, i |-> 1, todo |-> {}]

UsedHeads == {h \in Idx : heads[h] # NoHead}
UsedDatas == {d \in Idx : datas[d] # NoData}

Values == {[v |-> v, n |-> n] : v \in Versions, n \in use.sizes}

(* qvCHIPVS_FindKeyHeadInfo: the head elements with that hash; the first   *)
(* of the lookup table's order is any of them.                             *)
HeadsOf(k) == {h \in Idx : heads[h].key = k}

(* Fault: an index is free when no head element has it, whatever the type. *)
FreeIndexOfHeads(used) == {i \in Idx \ UsedHeads : \A j \in Idx \ UsedHeads : i <= j}

(* Fault: the search does not end at the last index.                       *)
FreeIndexUnbounded(used) == {CHOOSE i \in 0 .. use.indices : i \notin used
                               /\ \A j \in 0 .. i - 1 : j \in used}

(* qvCHIPKvs_FindFreeIndex: the first index not in use, as a set that is   *)
(* empty when there is none.                                               *)
FreeIndex(used) == {i \in Idx \ used : \A j \in Idx \ used : i <= j}

(* qvCHIP_KvsGet of a whole value: the bytes of the head element, then the *)
(* data elements in the order of the indices.  A missing one fails.        *)
Nothing == <<>>
Failure == <<"fails">>

ReadHead(h) ==
  LET ps == heads[h].parts IN
  IF \E i \in 1 .. Len(ps) : datas[ps[i]] = NoData
    THEN Failure
    ELSE <<heads[h].v>> \o [i \in 1 .. Len(ps) |-> datas[ps[i]]]

Read(k) ==
  IF HeadsOf(k) = {} THEN Nothing ELSE ReadHead(CHOOSE h \in HeadsOf(k) : TRUE)

(* What reading a value gives when every byte of it is there, in place.    *)
Whole(val) == <<val.v>> \o [i \in 1 .. val.n |-> [v |-> val.v, i |-> i]]
-----------------------------------------------------------------------------
IsIdle == op.kind = "idle" /\ fault = FALSE

Begin(o) == op' = o /\ before' = [k \in Keys |-> Read(k)] /\ UNCHANGED <<use, fault>>

Goto(pc) == op' = [op EXCEPT !.pc = pc] /\ UNCHANGED rest

Done == op' = Idle /\ UNCHANGED rest

(* The bounds on what callers store.                                       *)
MayPut(k, val) ==
  /\ use.overwrites \/ HeadsOf(k) = {}
  /\ use.roomy => Cardinality(Idx \ UsedDatas) >= val.n

(* Fault: a key that exists is given another head element.                 *)
PutAnew(k, val) ==
  /\ IsIdle
  /\ MayPut(k, val)
  /\ \E h \in FreeIndex(UsedHeads) :
       Begin([Idle EXCEPT !.kind = "put", !.pc = IF val.n > 0 THEN "data" ELSE "head",
                          !.key = k, !.val = val, !.idx = h])
  /\ UNCHANGED <<heads, datas>>

(* qvCHIP_KvsPut: find the head element of the key, or an index for a new  *)
(* one; a value that does not fit in it needs data elements first.         *)
Put(k, val) ==
  /\ IsIdle
  /\ MayPut(k, val)
  /\ LET start == [Idle EXCEPT !.kind = "put", !.key = k, !.val = val,
                               !.pc = IF val.n > 0 THEN "data" ELSE "head"]
     IN  \/ \E h \in HeadsOf(k) :
              Begin([start EXCEPT !.idx = h, !.parts = heads[h].parts])
         \/ /\ HeadsOf(k) = {}
            /\ \E h \in FreeIndex(UsedHeads) : Begin([start EXCEPT !.idx = h])
  /\ UNCHANGED <<heads, datas>>

(* Fault: a failed write of a data element is not noticed.                 *)
AddDataElementUnchecked ==
  /\ op.pc = "data"
  /\ \E d \in IF op.i <= Len(op.parts) THEN {op.parts[op.i]}
                                       ELSE FreeIndex(UsedDatas) :
       /\ datas' \in {[datas EXCEPT ![d] = [v |-> op.val.v, i |-> op.i]]}
                       \cup (IF use.writeFails THEN {datas} ELSE {})
       /\ op' = [op EXCEPT !.parts = IF op.i <= Len(@) THEN @ ELSE Append(@, d),
                           !.i = @ + 1,
                           !.pc = IF op.i = op.val.n THEN "head" ELSE "data"]
  /\ UNCHANGED <<heads, rest>>

(* qvCHIP_KvsAddDataElements, one iteration: the index that the key had    *)
(* for this piece, or a free one, is written.                              *)
AddDataElement ==
  /\ op.pc = "data"
  /\ \E d \in IF op.i <= Len(op.parts) THEN {op.parts[op.i]}
                                       ELSE FreeIndex(UsedDatas) :
       /\ datas' = [datas EXCEPT ![d] = [v |-> op.val.v, i |-> op.i]]
       /\ op' = [op EXCEPT !.parts = IF op.i <= Len(@) THEN @ ELSE Append(@, d),
                           !.i = @ + 1,
                           !.pc = IF op.i = op.val.n THEN "head" ELSE "data"]
  /\ UNCHANGED <<heads, rest>>

(* ... or there is no free index, or the write fails: QV_STATUS_NVM_ERROR. *)
AddDataElementFails ==
  /\ op.pc = "data"
  /\ use.writeFails \/ (op.i > Len(op.parts) /\ FreeIndex(UsedDatas) = {})
  /\ Done
  /\ UNCHANGED <<heads, datas>>

(* The indices that follow the last piece are reset at the end of          *)
(* AddDataElements, which a value that fits in the head does not reach.    *)
Indices == IF op.val.n > 0 THEN SubSeq(op.parts, 1, op.val.n) ELSE op.parts

(* qvCHIP_KvsAddHeadElement at the end of qvCHIP_KvsPut.                   *)
AddHeadElement ==
  /\ op.pc = "head"
  /\ \/ heads' = [heads EXCEPT ![op.idx] = [key |-> op.key, parts |-> Indices,
                                            v |-> op.val.v]]
     \/ use.writeFails /\ UNCHANGED heads
  /\ Done
  /\ UNCHANGED datas
-----------------------------------------------------------------------------
(* qvCHIP_KvsDelete of a key that exists: qvCHIP_KvsDeleteInternal.        *)
Delete(k) ==
  /\ IsIdle
  /\ \E h \in HeadsOf(k) :
       Begin([Idle EXCEPT !.kind = "delete", !.key = k, !.pc = "mark", !.idx = h,
                          !.parts = heads[h].parts])
  /\ UNCHANGED <<heads, datas>>

(* Fault: the removal starts without marking the head element.             *)
MarkNothing == op.pc = "mark" /\ Goto("remove") /\ UNCHANGED <<heads, datas>>

(* The head element is written again with a NULL hash: zeroes, which the   *)
(* copy that follows replaces by whatever is read through the NULL pointer *)
(* (undefined behaviour).  Its status is not looked at.                    *)
MarkDelete ==
  /\ op.pc = "mark"
  /\ \/ \E m \in use.marks :
          heads' = [heads EXCEPT ![op.idx] = [key |-> m, parts |-> op.parts,
                                              v |-> NoVersion]]
     \/ use.writeFails /\ UNCHANGED heads
  /\ Goto("remove")
  /\ UNCHANGED datas

(* What follows DeleteInternal in its two callers: the check repeats it    *)
(* until it returns QV_STATUS_INVALID_DATA.                                *)
Return(invalid) ==
  IF op.kind = "check" THEN Goto(IF invalid THEN "scan" ELSE "zero") ELSE Done

(* The data elements go one by one; gpNvm_Remove of one that is not there  *)
(* fails and ends the removal.                                             *)
RemoveDataElement ==
  /\ op.pc = "remove" /\ op.i <= Len(op.parts)
  /\ LET d == op.parts[op.i] IN
     IF datas[d] = NoData
       THEN Return(TRUE) /\ UNCHANGED datas
       ELSE /\ datas' = [datas EXCEPT ![d] = NoData]
            /\ op' = [op EXCEPT !.i = @ + 1]
            /\ UNCHANGED rest
  /\ UNCHANGED heads

(* Fault: the head element is left.                                        *)
RemoveNoHeadElement ==
  /\ op.pc = "remove" /\ op.i > Len(op.parts)
  /\ Return(FALSE)
  /\ UNCHANGED <<heads, datas>>

(* The head element goes last.                                             *)
RemoveHeadElement ==
  /\ op.pc = "remove" /\ op.i > Len(op.parts)
  /\ heads' = [heads EXCEPT ![op.idx] = NoHead]
  /\ Return(FALSE)
  /\ UNCHANGED datas
-----------------------------------------------------------------------------
(* qvCHIP_KvsConsistencyCheck.                                             *)
ConsistencyCheck ==
  /\ IsIdle /\ use.checks
  /\ Begin([Idle EXCEPT !.kind = "check", !.pc = "zero"])
  /\ UNCHANGED <<heads, datas>>

(* Fault: the loop over interrupted removals is skipped.                   *)
SkipMarked == op.pc = "zero" /\ Goto("scan") /\ UNCHANGED <<heads, datas>>

(* First the removals that were interrupted: heads with the zero hash.     *)
CheckMarked ==
  /\ op.pc = "zero"
  /\ IF HeadsOf(Zero) = {}
       THEN Goto("scan")
       ELSE /\ \E h \in HeadsOf(Zero) :
                 op' = [op EXCEPT !.pc = "mark", !.idx = h, !.i = 1,
                                  !.parts = heads[h].parts]
            /\ UNCHANGED rest
  /\ UNCHANGED <<heads, datas>>

(* The data elements the heads refer to, and whether each reference finds  *)
(* one that no other reference has found.                                  *)
References == UNION {{h} \X (1 .. Len(heads[h].parts)) : h \in UsedHeads}
Target(r)  == heads[r[1]].parts[r[2]]
Referenced == {Target(r) : r \in References}

EachFound ==
  /\ Referenced \subseteq UsedDatas
  /\ \A r, s \in References : Target(r) = Target(s) => r = s

(* Fault: nothing is taken for an orphan.                                  *)
CheckNoOrphans ==
  /\ op.pc = "scan"
  /\ IF EachFound
       THEN Goto("orphans")
       ELSE fault' = TRUE /\ op' = Idle /\ UNCHANGED <<use, before>>
  /\ UNCHANGED <<heads, datas>>

(* Then a pass over all elements: references without an element of their   *)
(* own fail an assertion, elements without a reference are orphans.        *)
CheckReferences ==
  /\ op.pc = "scan"
  /\ IF EachFound
       THEN /\ op' = [op EXCEPT !.pc = "orphans", !.todo = UsedDatas \ Referenced]
            /\ UNCHANGED rest
       ELSE fault' = TRUE /\ op' = Idle /\ UNCHANGED <<use, before>>
  /\ UNCHANGED <<heads, datas>>

RemoveOrphan ==
  /\ op.pc = "orphans"
  /\ \/ \E d \in op.todo :
          /\ datas' = [datas EXCEPT ![d] = NoData]
          /\ op' = [op EXCEPT !.todo = @ \ {d}]
          /\ UNCHANGED rest
     \/ op.todo = {} /\ Done /\ UNCHANGED datas
  /\ UNCHANGED heads

(* qvCHIP_KvsErasePartition: every element in turn, in table order.        *)
ErasePartition ==
  /\ IsIdle /\ use.erases
  /\ Begin([Idle EXCEPT !.kind = "erase", !.pc = "erase"])
  /\ UNCHANGED <<heads, datas>>

EraseElement ==
  /\ op.pc = "erase"
  /\ \/ /\ \E h \in UsedHeads : heads' = [heads EXCEPT ![h] = NoHead]
        /\ UNCHANGED <<datas, op, rest>>
     \/ /\ \E d \in UsedDatas : datas' = [datas EXCEPT ![d] = NoData]
        /\ UNCHANGED <<heads, op, rest>>
     \/ UsedHeads \cup UsedDatas = {} /\ Done /\ UNCHANGED <<heads, datas>>

(* A reset: what is in RAM is lost, the NVM stays as it is.                *)
Reset ==
  /\ op.kind \in use.resetIn
  /\ Done
  /\ UNCHANGED <<heads, datas>>
-----------------------------------------------------------------------------
Init ==
  /\ use \in Uses
  /\ heads = [h \in Idx |-> NoHead]
  /\ datas = [d \in Idx |-> NoData]
  /\ op = Idle /\ before = [k \in Keys |-> Nothing] /\ fault = FALSE

Call == \/ \E k \in Keys : Delete(k) \/ \E val \in Values : Put(k, val)
        \/ ConsistencyCheck \/ ErasePartition

Step == \/ AddDataElement \/ AddDataElementFails \/ AddHeadElement
        \/ MarkDelete \/ RemoveDataElement \/ RemoveHeadElement
        \/ CheckMarked \/ CheckReferences \/ RemoveOrphan \/ EraseElement

Next == Call \/ Step \/ Reset

Spec == Init /\ [][Next]_vars

(* The task that is in an operation goes on with it.                       *)
FairSpec == Spec /\ WF_vars(Step)
-----------------------------------------------------------------------------
(* The uses that the code is made for; the others are in the findings and  *)
(* the README.  A reset in a removal: the values have no data elements, or *)
(* the mark is written and no check comes upon what the removal has left.  *)
RemovesSafely(u) ==
  "delete" \in u.resetIn => u.sizes \subseteq {0} \/ ~ (u.writeFails \/ u.checks)

(* The check finds every mark.                                             *)
MarksZero(u) == "delete" \in u.resetIn /\ u.checks => Junk \notin u.marks

(* Overwriting values with data elements: none becomes too short for them, *)
(* and none of these stores fails or is cut off.                           *)
StoresSafely(u) ==
  u.overwrites =>
    \/ u.sizes \subseteq {0}
    \/ 0 \notin u.sizes /\ u.roomy /\ ~ u.writeFails /\ "put" \notin u.resetIn

Hashes == Keys \cup {NoKey} \cup use.marks
Piece  == [v : Versions \cup {NoVersion}, i : Nat]
Stored == [v : Versions \cup {NoVersion}, n : Nat]
Ops    == [kind : {"idle", "put", "delete", "check", "erase"},
           pc : {"idle", "data", "head", "mark", "remove", "zero", "scan",
                 "orphans", "erase"},
           key : Keys \cup {NoKey}, val : Stored, idx : Idx, parts : Seq(Idx),
           i : Nat \ {0}, todo : SUBSET Idx]

(* Every variable holds a value of its type.                               *)
TypeOK ==
  /\ use \in Uses
  /\ heads \in [Idx -> [key : Hashes, parts : Seq(Idx),
                        v : Versions \cup {NoVersion}]]
  /\ datas \in [Idx -> Piece]
  /\ op \in Ops
  /\ DOMAIN before = Keys
  /\ fault \in BOOLEAN

(* Between operations every reference of a key's head finds a data element *)
(* and no data element belongs to two keys, whatever stores, failures and  *)
(* resets came before: FindFreeIndex, asked while a store is half done,    *)
(* must not hand out an index that another key still uses.                 *)
ElementsConsistent ==
  LET ofKeys == {r \in References : heads[r[1]].key \in Keys} IN
  op.kind = "idle" =>
    /\ {Target(r) : r \in ofKeys} \subseteq UsedDatas
    /\ \A r, s \in ofKeys : Target(r) = Target(s) => r = s

(* What a key reads as between operations is nothing or one whole value:   *)
(* never pieces of two values, never a value with pieces missing.          *)
ReadsWhole ==
  op.kind = "idle" =>
    \A k \in Keys : Read(k) \in {Nothing} \cup {Whole(val) : val \in Values}

(* A key has one head element.                                             *)
OneHeadPerKey == \A k \in Keys : Cardinality(HeadsOf(k)) <= 1

(* The promise of KvsAbs: a call takes effect in one step, when the head   *)
(* element is written, marked or gone, and only on the key it was given;   *)
(* until then, readers being shut out, the key reads as before.            *)
Settled(k) == \/ op.kind \in {"idle", "check"}
              \/ op.kind # "erase" /\ (op.key # k \/ HeadsOf(k) = {})

CallOf(o) == CASE o.kind = "idle"   -> <<>>
               [] o.kind = "put"    -> <<"put", o.key, Whole(o.val)>>
               [] o.kind = "delete" -> <<"delete", o.key>>
               [] OTHER             -> <<o.kind>>

Abs == INSTANCE KvsAbs WITH
         map      <- [k \in Keys |-> IF Settled(k) THEN Read(k) ELSE before[k]],
         call     <- CallOf(op),
         Contents <- {Whole([v |-> v, n |-> n]) :
                        v \in Versions, n \in UNION {u.sizes : u \in Uses}}

Promise == Abs!AbsSpec

(* A completed consistency check leaves no data element that no head       *)
(* refers to, whatever stores were interrupted or failed before it.        *)
CheckClears ==
  [][op.pc = "orphans" /\ op'.kind = "idle" /\ op.todo = {}
       => UsedDatas \subseteq Referenced]_vars

(* The assertions of the consistency check never fail.                     *)
NoAssertion == ~ fault

(* A completed consistency check leaves no removal half done.              *)
RemovalsCompleted ==
  [][op.pc = "orphans" /\ op'.kind = "idle" /\ op.todo = {}
       => HeadsOf(Zero) \cup HeadsOf(Junk) = {}]_vars

(* Every operation comes to an end and gives the mutex back: the loop of   *)
(* the consistency check over interrupted removals does too, whatever the  *)
(* removals before it have left.                                           *)
OperationsEnd == op.kind # "idle" ~> op.kind = "idle"
=============================================================================
