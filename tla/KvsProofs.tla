----------------------------- MODULE KvsProofs -----------------------------
(***************************************************************************)
(* What holds of the key-value store for any keys, versions, sizes and     *)
(* numbers of indices, and every use: types, one head element per key,     *)
(* what a check leaves.  For the uses that the code is made for            *)
(* (RemovesSafely, StoresSafely): no element is lost or shared, and the    *)
(* store implements KvsAbs.                                                *)
(***************************************************************************)
EXTENDS Kvs, SeqLemmas

HeadType == [key : Hashes, parts : Seq(Idx), v : Versions \cup {NoVersion}]

(* A head element that is a key's, and one whose removal was begun.        *)
Live   == {h \in Idx : heads[h].key \in Keys}
Marked == {h \in Idx : heads[h].key \in {Zero, Junk}}

(* What an operation has in hand, and the heads it must leave alone.       *)
Storing  == op.pc \in {"data", "head"}
Removing == op.pc \in {"mark", "remove"}
Working  == Storing \/ Removing
Others   == IF Working THEN Live \ {op.idx} ELSE Live

(* What holds in every use.                                                *)
PcOfKind ==
  /\ op.kind = "idle" <=> op.pc = "idle"
  /\ op.kind = "put" <=> Storing
  /\ op.kind = "delete" => Removing
  /\ op.kind = "check" => Removing \/ op.pc \in {"zero", "scan", "orphans"}
  /\ op.kind = "erase" <=> op.pc = "erase"
  /\ op.kind = "check" => use.checks
  /\ op.kind = "put" => op.val \in Values /\ op.key \in Keys
  /\ op.kind = "delete" => op.key \in Keys

Progress ==
  /\ op.pc = "data" => op.i <= op.val.n /\ op.i <= Len(op.parts) + 1
  /\ op.pc = "head" => op.i = op.val.n + 1 /\ op.val.n <= Len(op.parts)
  /\ op.pc = "mark" => op.i = 1

KeyedHeads == \A h \in Idx : heads[h].key = NoKey => heads[h] = NoHead

PutsToItsHead == op.kind = "put" => HeadsOf(op.key) \subseteq {op.idx}

OneEach == \A h, g \in Live : heads[h].key = heads[g].key => h = g

OrphansListed == op.pc = "orphans" => op.todo = UsedDatas \ Referenced

(* The data elements that ps names are named once, and those that come at  *)
(* from or later are in ds.                                                *)
AllThere(ds, ps, from) ==
  /\ \A i, j \in 1 .. Len(ps) : ps[i] = ps[j] => i = j
  /\ \A i \in 1 .. Len(ps) : from <= i => ds[ps[i]] # NoData

Apart(ps, qs) == \A i \in 1 .. Len(ps), j \in 1 .. Len(qs) : ps[i] # qs[j]

BeginsWith(ps, qs) ==
  Len(qs) <= Len(ps) /\ \A i \in 1 .. Len(qs) : qs[i] = ps[i]

(* The other heads have their data elements, each its own; so has the      *)
(* operation, those that it has not removed yet.                           *)
EachItsOwn ==
  op.kind # "erase" =>
    /\ \A h \in Others : AllThere(datas, heads[h].parts, 1)
    /\ \A h, g \in Others : h # g => Apart(heads[h].parts, heads[g].parts)
    /\ Working =>
         /\ AllThere(datas, op.parts, IF op.pc = "remove" THEN op.i ELSE 1)
         /\ \A h \in Others : Apart(op.parts, heads[h].parts)

(* What the head that the operation works on is to it.                     *)
WorksOnItsHead ==
  Working =>
    /\ op.idx \in Live =>
         /\ heads[op.idx].key = op.key /\ BeginsWith(op.parts, heads[op.idx].parts)
         /\ op.pc = "remove" => use.writeFails
    /\ op.kind = "check" => op.idx \in Marked

(* Only a reset leaves a mark.                                             *)
MarksAreLeft ==
  \A h \in Marked : "delete" \in use.resetIn \/ (op.kind = "delete" /\ h = op.idx)

SizedParts ==
  use.sizes \subseteq {0} =>
    (\A h \in Idx : heads[h].parts = <<>>) /\ op.parts = <<>>
-----------------------------------------------------------------------------
(* What KvsAssumption says of the use of a behaviour.                      *)
LEMMA UseTypes ==
  ASSUME use \in Uses
  PROVE  /\ use.indices \in Nat \ {0} /\ 0 \in Idx /\ Idx \subseteq Nat
         /\ use.sizes \subseteq Nat /\ use.marks \subseteq {Zero, Junk}
         /\ NoKey \notin Keys \cup {Zero, Junk} /\ Keys \cap {Zero, Junk} = {}
         /\ NoVersion \notin Versions /\ use.resetIn \subseteq {"put", "delete", "check"}
  BY KvsAssumption DEF Idx

(* The types of the parts of the state.                                    *)
LEMMA PartTypes ==
  ASSUME TypeOK
  PROVE  /\ use \in Uses /\ op \in Ops /\ heads \in [Idx -> HeadType]
         /\ datas \in [Idx -> Piece]
         /\ op.kind \in {"idle", "put", "delete", "check", "erase"}
         /\ op.pc \in {"idle", "data", "head", "mark", "remove", "zero", "scan",
                       "orphans", "erase"}
         /\ op.key \in Keys \cup {NoKey} /\ op.val \in Stored /\ op.idx \in Idx
         /\ op.parts \in Seq(Idx) /\ op.i \in Nat \ {0} /\ op.todo \in SUBSET Idx
         /\ op.val.n \in Nat
         /\ \A h \in Idx : /\ heads[h].parts \in Seq(Idx) /\ Len(heads[h].parts) \in Nat
                           /\ heads[h].key \in Hashes
                           /\ \A i \in 1 .. Len(heads[h].parts) : heads[h].parts[i] \in Idx
         /\ Len(op.parts) \in Nat /\ \A i \in 1 .. Len(op.parts) : op.parts[i] \in Idx
<1>1. use \in Uses /\ op \in Ops /\ heads \in [Idx -> HeadType] /\ datas \in [Idx -> Piece]
  BY DEF TypeOK, HeadType
<1>2. /\ op.kind \in {"idle", "put", "delete", "check", "erase"}
      /\ op.pc \in {"idle", "data", "head", "mark", "remove", "zero", "scan",
                    "orphans", "erase"}
      /\ op.key \in Keys \cup {NoKey} /\ op.val \in Stored /\ op.idx \in Idx
      /\ op.parts \in Seq(Idx) /\ op.i \in Nat \ {0} /\ op.todo \in SUBSET Idx
  BY <1>1 DEF Ops
<1>3. \A h \in Idx : heads[h].parts \in Seq(Idx) /\ heads[h].key \in Hashes
  BY <1>1 DEF HeadType
<1> QED
  BY <1>1, <1>2, <1>3 DEF Stored

(* An index that FreeIndex gives is one of the indices and not in use.     *)
LEMMA FreeIndexTypes ==
  ASSUME NEW used, NEW i \in FreeIndex(used)
  PROVE  i \in Idx /\ i \notin used
  BY DEF FreeIndex

(* use does not change, and with it neither do the indices and the types.  *)
LEMMA UseIsFixed ==
  ASSUME [Next]_vars
  PROVE  use' = use /\ Idx' = Idx /\ Hashes' = Hashes /\ Ops' = Ops /\ Values' = Values
<1>1. use' = use
  BY DEF Next, Call, Step, vars, rest, Begin, Goto, Done, Delete, Put, ConsistencyCheck,
         ErasePartition, AddDataElement, AddDataElementFails, AddHeadElement, MarkDelete,
         Return, RemoveDataElement, RemoveHeadElement, CheckMarked, CheckReferences,
         RemoveOrphan, EraseElement, Reset
<1> QED
  BY <1>1 DEF Idx, Hashes, Ops, Values

LEMMA IdleFields ==
  ASSUME TypeOK
  PROVE  /\ Idle \in Ops /\ Idle.kind = "idle" /\ Idle.pc = "idle" /\ Idle.parts = <<>>
         /\ Idle.key = NoKey /\ Idle.val = NoValue /\ Idle.i = 1 /\ Idle.todo = {}
  BY UseTypes DEF TypeOK, Ops, Idle, Stored, NoValue
-----------------------------------------------------------------------------
(* What each step makes of op.                                             *)
StartsAt(kind, pc, k, h, ps) ==
  /\ op' \in Ops /\ op'.kind = kind /\ op'.pc = pc /\ op'.key = k /\ op'.idx = h
  /\ op'.parts = ps /\ op'.i = 1

Becomes(pc, ps, i) ==
  /\ op' \in Ops /\ op'.kind = op.kind /\ op'.pc = pc /\ op'.key = op.key
  /\ op'.val = op.val /\ op'.idx = op.idx /\ op'.parts = ps /\ op'.i = i

IsDone == op' = Idle /\ op'.kind = "idle" /\ op'.pc = "idle" /\ op'.parts = <<>>
            /\ op' \in Ops

LEMMA DeleteShape ==
  ASSUME TypeOK, NEW k \in Keys, Delete(k)
  PROVE  /\ op.kind = "idle" /\ heads' = heads /\ datas' = datas
         /\ \E h \in HeadsOf(k) : StartsAt("delete", "mark", k, h, heads[h].parts)
<1>1. PICK h \in HeadsOf(k) :
        op' = [Idle EXCEPT !.kind = "delete", !.key = k, !.pc = "mark", !.idx = h,
                           !.parts = heads[h].parts]
  BY DEF Delete, Begin
<1>2. op' = [kind |-> "delete", pc |-> "mark", key |-> k, val |-> NoValue,
             idx |-> h, parts |-> heads[h].parts, i |-> 1, todo |-> {}]
  BY <1>1 DEF Idle
<1>3. h \in Idx /\ heads[h].parts \in Seq(Idx) /\ NoValue \in Stored
  BY PartTypes DEF HeadsOf, NoValue, Stored
<1>4. op' \in Ops
  BY <1>2, <1>3 DEF Ops
<1>5. StartsAt("delete", "mark", k, h, heads[h].parts)
  BY <1>2, <1>4 DEF StartsAt
<1> QED
  BY <1>5 DEF Delete, IsIdle

LEMMA PutShape ==
  ASSUME TypeOK, NEW k \in Keys, NEW val \in Values, Put(k, val)
  PROVE  /\ op.kind = "idle" /\ heads' = heads /\ datas' = datas /\ op'.val = val
         /\ \E h \in Idx, ps \in Seq(Idx) :
              /\ StartsAt("put", IF val.n > 0 THEN "data" ELSE "head", k, h, ps)
              /\ \/ h \in HeadsOf(k) /\ ps = heads[h].parts
                 \/ HeadsOf(k) = {} /\ h \notin UsedHeads /\ ps = <<>>
<1> DEFINE pc == IF val.n > 0 THEN "data" ELSE "head"
<1>1. ASSUME NEW h, op' = [Idle EXCEPT !.kind = "put", !.key = k, !.val = val, !.pc = pc,
                                       !.idx = h]
      PROVE  op' = [kind |-> "put", pc |-> pc, key |-> k, val |-> val,
                    idx |-> h, parts |-> <<>>, i |-> 1, todo |-> {}]
  BY <1>1 DEF Idle
<1>2. PICK h \in Idx, ps \in Seq(Idx) :
        /\ op' = [kind |-> "put", pc |-> pc, key |-> k, val |-> val,
                  idx |-> h, parts |-> ps, i |-> 1, todo |-> {}]
        /\ \/ h \in HeadsOf(k) /\ ps = heads[h].parts
           \/ HeadsOf(k) = {} /\ h \notin UsedHeads /\ ps = <<>>
  <2>1. CASE \E h \in HeadsOf(k) :
               op' = [Idle EXCEPT !.kind = "put", !.key = k, !.val = val, !.pc = pc,
                                  !.idx = h, !.parts = heads[h].parts]
    <3>1. PICK h \in HeadsOf(k) :
            op' = [Idle EXCEPT !.kind = "put", !.key = k, !.val = val, !.pc = pc,
                               !.idx = h, !.parts = heads[h].parts]
      BY <2>1
    <3>2. op' = [kind |-> "put", pc |-> pc, key |-> k, val |-> val,
                 idx |-> h, parts |-> heads[h].parts, i |-> 1, todo |-> {}]
      BY <3>1 DEF Idle
    <3>3. h \in Idx /\ heads[h].parts \in Seq(Idx)
      BY PartTypes DEF HeadsOf
    <3> QED
      BY <3>2, <3>3
  <2>2. CASE /\ HeadsOf(k) = {}
             /\ \E h \in FreeIndex(UsedHeads) :
                  op' = [Idle EXCEPT !.kind = "put", !.key = k, !.val = val, !.pc = pc,
                                     !.idx = h]
    <3>1. <<>> \in Seq(Idx)
      OBVIOUS
    <3> QED
      BY <1>1, <2>2, <3>1, FreeIndexTypes
  <2> QED
    BY <2>1, <2>2 DEF Put, Begin
<1>3. val \in Stored
  BY UseTypes, PartTypes DEF Values, Stored
<1>4. op' \in Ops
  BY <1>2, <1>3 DEF Ops
<1>5. StartsAt("put", pc, k, h, ps) /\ op'.val = val
  BY <1>2, <1>4 DEF StartsAt
<1> QED
  BY <1>2, <1>5 DEF Put, IsIdle

LEMMA WholeStoreShape ==
  ASSUME TypeOK, ConsistencyCheck \/ ErasePartition
  PROVE  /\ op.kind = "idle" /\ heads' = heads /\ datas' = datas
         /\ \/ use.checks /\ StartsAt("check", "zero", NoKey, 0, <<>>)
            \/ StartsAt("erase", "erase", NoKey, 0, <<>>)
<1>1. CASE ConsistencyCheck
  <2>1. op' = [kind |-> "check", pc |-> "zero", key |-> NoKey, val |-> NoValue,
               idx |-> 0, parts |-> <<>>, i |-> 1, todo |-> {}]
    BY <1>1 DEF ConsistencyCheck, Begin, Idle
  <2>2. op' \in Ops
    BY <2>1, UseTypes, PartTypes DEF Ops, NoValue, Stored
  <2> QED
    BY <1>1, <2>1, <2>2 DEF ConsistencyCheck, IsIdle, StartsAt
<1>2. CASE ErasePartition
  <2>1. op' = [kind |-> "erase", pc |-> "erase", key |-> NoKey, val |-> NoValue,
               idx |-> 0, parts |-> <<>>, i |-> 1, todo |-> {}]
    BY <1>2 DEF ErasePartition, Begin, Idle
  <2>2. op' \in Ops
    BY <2>1, UseTypes, PartTypes DEF Ops, NoValue, Stored
  <2> QED
    BY <1>2, <2>1, <2>2 DEF ErasePartition, IsIdle, StartsAt
<1> QED
  BY <1>1, <1>2

LEMMA AddDataShape ==
  ASSUME TypeOK, AddDataElement
  PROVE  /\ op.pc = "data" /\ heads' = heads
         /\ \E d \in Idx, ps \in Seq(Idx) :
              /\ datas' = [datas EXCEPT ![d] = [v |-> op.val.v, i |-> op.i]]
              /\ Becomes(IF op.i = op.val.n THEN "head" ELSE "data", ps, op.i + 1)
              /\ \/ op.i <= Len(op.parts) /\ d = op.parts[op.i] /\ ps = op.parts
                 \/ op.i > Len(op.parts) /\ d \notin UsedDatas /\ ps = Append(op.parts, d)
<1> DEFINE pc == IF op.i = op.val.n THEN "head" ELSE "data"
<1>1. PICK d \in IF op.i <= Len(op.parts) THEN {op.parts[op.i]} ELSE FreeIndex(UsedDatas) :
        /\ datas' = [datas EXCEPT ![d] = [v |-> op.val.v, i |-> op.i]]
        /\ op' = [op EXCEPT !.parts = IF op.i <= Len(@) THEN @ ELSE Append(@, d),
                            !.i = @ + 1,
                            !.pc = IF op.i = op.val.n THEN "head" ELSE "data"]
  BY DEF AddDataElement
<1> DEFINE ps == IF op.i <= Len(op.parts) THEN op.parts ELSE Append(op.parts, d)
<1>2. op' = [op EXCEPT !.parts = ps, !.i = op.i + 1, !.pc = pc]
  BY <1>1
<1>3. d \in Idx /\ ps \in Seq(Idx) /\ op.i + 1 \in Nat \ {0} /\ pc \in {"data", "head"}
  BY <1>1, PartTypes, FreeIndexTypes
<1>4. \/ op.i <= Len(op.parts) /\ d = op.parts[op.i] /\ ps = op.parts
      \/ op.i > Len(op.parts) /\ d \notin UsedDatas /\ ps = Append(op.parts, d)
  BY <1>1, PartTypes, FreeIndexTypes
<1> HIDE DEF pc, ps
<1>5. Becomes(pc, ps, op.i + 1)
  BY <1>2, <1>3, PartTypes DEF Ops, Becomes
<1> USE DEF pc
<1> QED
  BY <1>1, <1>3, <1>4, <1>5 DEF AddDataElement

LEMMA DoneShape ==
  ASSUME TypeOK, Done
  PROVE  IsDone
  BY IdleFields DEF Done, IsDone

LEMMA GotoShape ==
  ASSUME TypeOK, NEW pc \in {"remove", "scan", "zero"}, Goto(pc)
  PROVE  Becomes(pc, op.parts, op.i)
  BY PartTypes DEF Goto, Becomes, Ops

LEMMA ReturnShape ==
  ASSUME TypeOK, NEW b \in BOOLEAN, Return(b)
  PROVE  \/ op.kind = "check" /\ Becomes(IF b THEN "scan" ELSE "zero", op.parts, op.i)
         \/ op.kind # "check" /\ IsDone
  BY GotoShape, DoneShape DEF Return

LEMMA RemoveDataShape ==
  ASSUME TypeOK, RemoveDataElement
  PROVE  /\ op.pc = "remove" /\ op.i \in 1 .. Len(op.parts) /\ heads' = heads
         /\ op.parts[op.i] \in Idx
         /\ \/ datas[op.parts[op.i]] = NoData /\ datas' = datas /\ Return(TRUE)
            \/ /\ datas' = [datas EXCEPT ![op.parts[op.i]] = NoData]
               /\ Becomes("remove", op.parts, op.i + 1)
<1>1. op.i \in 1 .. Len(op.parts) /\ op.parts[op.i] \in Idx /\ op.i + 1 \in Nat \ {0}
  BY PartTypes DEF RemoveDataElement
<1>2. ASSUME op.pc = "remove", op' = [op EXCEPT !.i = @ + 1]
      PROVE  Becomes("remove", op.parts, op.i + 1)
  BY <1>1, <1>2, PartTypes DEF Ops, Becomes
<1> QED
  BY <1>1, <1>2 DEF RemoveDataElement

LEMMA CheckMarkedShape ==
  ASSUME TypeOK, CheckMarked
  PROVE  /\ op.pc = "zero" /\ heads' = heads /\ datas' = datas
         /\ \/ HeadsOf(Zero) = {} /\ Becomes("scan", op.parts, op.i)
            \/ \E h \in HeadsOf(Zero) :
                 /\ op' \in Ops /\ op'.kind = op.kind /\ op'.pc = "mark" /\ op'.idx = h
                 /\ op'.parts = heads[h].parts /\ op'.i = 1 /\ op'.key = op.key
                 /\ op'.val = op.val
<1>1. ASSUME NEW h \in HeadsOf(Zero),
             op' = [op EXCEPT !.pc = "mark", !.idx = h, !.i = 1, !.parts = heads[h].parts]
      PROVE  /\ op' \in Ops /\ op'.kind = op.kind /\ op'.pc = "mark" /\ op'.idx = h
             /\ op'.parts = heads[h].parts /\ op'.i = 1 /\ op'.key = op.key
             /\ op'.val = op.val
  <2>1. h \in Idx /\ heads[h].parts \in Seq(Idx)
    BY PartTypes DEF HeadsOf
  <2>2. op \in Ops
    BY PartTypes
  <2>3. op' = [kind |-> op.kind, pc |-> "mark", key |-> op.key, val |-> op.val,
               idx |-> h, parts |-> heads[h].parts, i |-> 1, todo |-> op.todo]
    BY <1>1, <2>2 DEF Ops
  <2>4. op' \in Ops
    BY <2>1, <2>2, <2>3 DEF Ops
  <2> QED
    BY <2>3, <2>4
<1> QED
  BY <1>1, GotoShape DEF CheckMarked

LEMMA CheckReferencesShape ==
  ASSUME TypeOK, CheckReferences
  PROVE  /\ op.pc = "scan" /\ heads' = heads /\ datas' = datas
         /\ \/ /\ EachFound /\ fault' = fault /\ Becomes("orphans", op.parts, op.i)
               /\ op'.todo = UsedDatas \ Referenced
            \/ ~ EachFound /\ fault' = TRUE /\ IsDone
<1>1. ASSUME op' = [op EXCEPT !.pc = "orphans", !.todo = UsedDatas \ Referenced]
      PROVE  Becomes("orphans", op.parts, op.i) /\ op'.todo = UsedDatas \ Referenced
  <2>1. UsedDatas \ Referenced \in SUBSET Idx
    BY DEF UsedDatas
  <2> HIDE DEF UsedDatas, Referenced
  <2> QED
    BY <1>1, <2>1, PartTypes DEF Ops, Becomes
<1> QED
  BY <1>1, IdleFields DEF CheckReferences, rest, IsDone

LEMMA RemoveOrphanShape ==
  ASSUME TypeOK, RemoveOrphan
  PROVE  /\ op.pc = "orphans" /\ heads' = heads
         /\ \/ \E d \in op.todo : /\ datas' = [datas EXCEPT ![d] = NoData]
                                  /\ Becomes("orphans", op.parts, op.i)
                                  /\ op'.todo = op.todo \ {d}
            \/ op.todo = {} /\ datas' = datas /\ IsDone
<1>1. ASSUME op.pc = "orphans", NEW d \in op.todo, op' = [op EXCEPT !.todo = @ \ {d}]
      PROVE  Becomes("orphans", op.parts, op.i) /\ op'.todo = op.todo \ {d}
  BY <1>1, PartTypes DEF Ops, Becomes
<1> QED
  BY <1>1, DoneShape DEF RemoveOrphan
-----------------------------------------------------------------------------
(* Types, and how far an operation has come.                               *)
TypeInv == TypeOK /\ PcOfKind /\ Progress

(* The head element that a store writes, and the elements that go.         *)
LEMMA NewHeadType ==
  ASSUME TypeInv, op.pc = "head"
  PROVE  /\ Indices \in Seq(Idx) /\ Len(Indices) <= Len(op.parts)
         /\ \A i \in 1 .. Len(Indices) : Indices[i] = op.parts[i]
         /\ op.val.n > 0 => Len(Indices) = op.val.n
         /\ op.val.n = 0 => Indices = op.parts
         /\ op.val \in Values /\ op.key \in Keys /\ op.val.v \in Versions
         /\ [key |-> op.key, parts |-> Indices, v |-> op.val.v] \in HeadType
<1>1. op.parts \in Seq(Idx) /\ Len(op.parts) \in Nat /\ op.val.n \in Nat
      /\ op.val.n <= Len(op.parts)
  BY PartTypes DEF TypeInv, Progress
<1>2. op.val \in Values /\ op.key \in Keys /\ op.val.v \in Versions
  BY DEF TypeInv, PcOfKind, Storing, Values
<1>3. CASE op.val.n > 0
  <2> DEFINE n == op.val.n
  <2>1. /\ SubSeq(op.parts, 1, n) \in Seq(Idx) /\ Len(SubSeq(op.parts, 1, n)) = n
        /\ \A i \in 1 .. n : SubSeq(op.parts, 1, n)[i] = op.parts[i]
    <3>1. n \in 1 .. Len(op.parts) + 1 - 1 /\ 1 \in 1 .. n + 1 /\ n \in 1 - 1 .. Len(op.parts)
      BY <1>1, <1>3
    <3> HIDE DEF n
    <3> QED
      BY <1>1, <3>1, SubSeqProperties
  <2>2. Indices = SubSeq(op.parts, 1, n)
    BY <1>3 DEF Indices
  <2> QED
    BY <1>1, <1>2, <1>3, <2>1, <2>2 DEF HeadType, Hashes
<1>4. CASE op.val.n = 0
  BY <1>1, <1>2, <1>4 DEF Indices, HeadType, Hashes
<1> QED
  BY <1>1, <1>3, <1>4

LEMMA TypeStep ==
  ASSUME TypeInv, [Next]_vars
  PROVE  TypeOK'
<1> USE DEF TypeInv
<1>1. /\ use \in Uses /\ op \in Ops /\ heads \in [Idx -> HeadType]
      /\ datas \in [Idx -> Piece] /\ op.val \in Stored /\ op.i \in Nat \ {0}
      /\ op.idx \in Idx /\ op.parts \in Seq(Idx) /\ op.todo \subseteq Idx
  BY PartTypes
<1>2. use' = use /\ Idx' = Idx /\ Hashes' = Hashes /\ Ops' = Ops
  BY UseIsFixed
<1>3. NoHead \in HeadType /\ NoData \in Piece /\ use.marks \subseteq Hashes
  BY DEF NoHead, NoData, HeadType, Hashes, Piece
<1>4. DOMAIN before = Keys /\ fault \in BOOLEAN
  BY DEF TypeOK
<1> DEFINE T == op' \in Ops /\ DOMAIN before' = Keys /\ fault' \in BOOLEAN
           H == heads' \in [Idx -> HeadType]
           D == datas' \in [Idx -> Piece]
<1>5. SUFFICES T /\ H /\ D
  BY <1>1, <1>2 DEF TypeOK, HeadType
<1>6. ASSUME NEW k \in Keys, Delete(k) PROVE T /\ H /\ D
  BY <1>1, <1>4, <1>6, DeleteShape DEF Delete, Begin, StartsAt
<1>7. ASSUME NEW k \in Keys, NEW val \in Values, Put(k, val) PROVE T /\ H /\ D
  BY <1>1, <1>4, <1>7, PutShape DEF Put, Begin, StartsAt
<1>8. CASE ConsistencyCheck \/ ErasePartition
  BY <1>1, <1>4, <1>8, WholeStoreShape DEF ConsistencyCheck, ErasePartition, Begin, StartsAt
<1>9. CASE AddDataElement
  <2>1. [v |-> op.val.v, i |-> op.i] \in Piece
    BY <1>1 DEF Piece, Stored
  <2> QED
    BY <1>1, <1>4, <1>9, <2>1, AddDataShape DEF AddDataElement, rest, Becomes
<1>10. CASE AddDataElementFails \/ Reset
  BY <1>1, <1>4, <1>10, DoneShape DEF AddDataElementFails, Reset, Done, rest, IsDone
<1>11. CASE AddHeadElement
  <2>1. heads' \in [Idx -> HeadType]
    BY <1>1, <1>11, NewHeadType DEF AddHeadElement
  <2> QED
    BY <1>1, <1>4, <1>11, <2>1, DoneShape DEF AddHeadElement, Done, rest, IsDone
<1>12. CASE MarkDelete
  <2>1. \A m \in use.marks : [key |-> m, parts |-> op.parts, v |-> NoVersion] \in HeadType
    BY <1>1, <1>3 DEF HeadType
  <2> QED
    BY <1>1, <1>4, <1>12, <2>1, GotoShape DEF MarkDelete, Goto, rest, Becomes
<1>13. ASSUME NEW b \in BOOLEAN, Return(b)
       PROVE  T
  BY <1>1, <1>4, <1>13, ReturnShape DEF Return, Goto, Done, rest, IsDone, Becomes
<1>14. CASE RemoveDataElement
  <2>1. H /\ D
    BY <1>1, <1>3, <1>14, RemoveDataShape DEF Return, Done, Goto
  <2>2. CASE Return(TRUE)
    BY <1>13, <2>1, <2>2
  <2>3. CASE Becomes("remove", op.parts, op.i + 1) /\ UNCHANGED rest
    BY <1>4, <2>1, <2>3 DEF Becomes, rest
  <2> QED
    BY <1>14, <2>2, <2>3, RemoveDataShape DEF RemoveDataElement
<1>15. CASE RemoveHeadElement
  BY <1>1, <1>3, <1>13, <1>15 DEF RemoveHeadElement
<1>16. CASE CheckMarked
  BY <1>1, <1>4, <1>16, CheckMarkedShape DEF CheckMarked, Goto, rest, Becomes
<1>17. CASE CheckReferences
  BY <1>1, <1>4, <1>17, CheckReferencesShape DEF CheckReferences, rest, Becomes, IsDone
<1>18. CASE RemoveOrphan
  BY <1>1, <1>3, <1>4, <1>18, RemoveOrphanShape DEF RemoveOrphan, Done, rest, Becomes, IsDone
<1>19. CASE EraseElement
  BY <1>1, <1>3, <1>4, <1>19, DoneShape
     DEF EraseElement, Done, rest, UsedHeads, UsedDatas, IsDone
<1>20. CASE UNCHANGED vars
  BY <1>1, <1>4, <1>20 DEF vars
<1> QED
  BY <1>6, <1>7, <1>8, <1>9, <1>10, <1>11, <1>12, <1>14, <1>15, <1>16, <1>17, <1>18,
     <1>19, <1>20 DEF Next, Call, Step

LEMMA ProgressStep ==
  ASSUME TypeInv, [Next]_vars
  PROVE  PcOfKind' /\ Progress'
<1> USE DEF TypeInv
<1>1. /\ use' = use /\ Values' = Values /\ op.i \in Nat \ {0} /\ op.val.n \in Nat
      /\ op.parts \in Seq(Idx) /\ Len(op.parts) \in Nat
  BY UseIsFixed, PartTypes
<1> DEFINE P == PcOfKind' /\ Progress'
<1>2. ASSUME IsDone PROVE P
  BY <1>2 DEF IsDone, PcOfKind, Progress, Storing, Removing
<1>3. ASSUME NEW k \in Keys, Delete(k) PROVE P
  BY <1>3, DeleteShape DEF StartsAt, PcOfKind, Progress, Storing, Removing
<1>4. ASSUME NEW k \in Keys, NEW val \in Values, Put(k, val) PROVE P
  <2>1. PICK h \in Idx, ps \in Seq(Idx) :
          StartsAt("put", IF val.n > 0 THEN "data" ELSE "head", k, h, ps)
    BY <1>4, PutShape
  <2>2. op'.val = val /\ val.n \in Nat
    BY <1>4, PutShape, UseTypes, PartTypes DEF Values
  <2>3. Progress'
    BY <2>1, <2>2 DEF StartsAt, Progress
  <2>4. PcOfKind'
    BY <1>1, <2>1, <2>2 DEF StartsAt, PcOfKind, Storing, Removing
  <2> QED
    BY <2>3, <2>4
<1>5. CASE ConsistencyCheck \/ ErasePartition
  BY <1>1, <1>5, WholeStoreShape DEF StartsAt, PcOfKind, Progress, Storing, Removing
<1>6. CASE AddDataElement
  <2>1. PICK d \in Idx, ps \in Seq(Idx) :
          /\ Becomes(IF op.i = op.val.n THEN "head" ELSE "data", ps, op.i + 1)
          /\ \/ op.i <= Len(op.parts) /\ ps = op.parts
             \/ op.i > Len(op.parts) /\ ps = Append(op.parts, d)
    BY <1>6, AddDataShape
  <2>2. op.i <= op.val.n /\ op.i <= Len(op.parts) + 1 /\ op.pc = "data"
    BY <1>6 DEF AddDataElement, Progress
  <2>3. op.i <= Len(ps) /\ Len(ps) \in Nat
    BY <1>1, <2>1, <2>2
  <2>4. Progress'
    BY <1>1, <2>1, <2>2, <2>3 DEF Becomes, Progress
  <2>5. PcOfKind'
    BY <1>1, <2>1, <2>2 DEF Becomes, PcOfKind, Storing, Removing
  <2> QED
    BY <2>4, <2>5
<1>7. CASE AddDataElementFails \/ AddHeadElement \/ Reset
  BY <1>2, <1>7, DoneShape DEF AddDataElementFails, AddHeadElement, Reset
<1>8. CASE MarkDelete
  BY <1>1, <1>8, GotoShape DEF MarkDelete, Becomes, PcOfKind, Progress, Storing, Removing
<1>9. ASSUME NEW b \in BOOLEAN, Return(b), op.pc = "remove" PROVE P
  <2>1. CASE op.kind = "check" /\ Becomes(IF b THEN "scan" ELSE "zero", op.parts, op.i)
    BY <1>1, <2>1 DEF Becomes, PcOfKind, Progress, Storing, Removing
  <2> QED
    BY <1>2, <1>9, <2>1, ReturnShape
<1>10. CASE RemoveDataElement
  <2>1. CASE Becomes("remove", op.parts, op.i + 1) /\ op.pc = "remove"
    BY <1>1, <2>1 DEF Becomes, PcOfKind, Progress, Storing, Removing
  <2> QED
    BY <1>9, <1>10, <2>1, RemoveDataShape
<1>11. CASE RemoveHeadElement
  BY <1>9, <1>11 DEF RemoveHeadElement
<1>12. CASE CheckMarked
  BY <1>1, <1>12, CheckMarkedShape DEF Becomes, PcOfKind, Progress, Storing, Removing
<1>13. CASE CheckReferences
  <2>1. CASE Becomes("orphans", op.parts, op.i) /\ op.pc = "scan"
    BY <1>1, <2>1 DEF Becomes, PcOfKind, Progress, Storing, Removing
  <2> QED
    BY <1>2, <1>13, <2>1, CheckReferencesShape
<1>14. CASE RemoveOrphan
  <2>1. CASE Becomes("orphans", op.parts, op.i) /\ op.pc = "orphans"
    BY <1>1, <2>1 DEF Becomes, PcOfKind, Progress, Storing, Removing
  <2> QED
    BY <1>2, <1>14, <2>1, RemoveOrphanShape
<1>15. CASE EraseElement
  <2>1. CASE op' = op
    BY <1>1, <2>1 DEF PcOfKind, Progress, Storing, Removing
  <2> QED
    BY <1>2, <1>15, <2>1, DoneShape DEF EraseElement
<1>16. CASE UNCHANGED vars
  BY <1>1, <1>16 DEF vars, PcOfKind, Progress, Storing, Removing
<1> QED
  BY <1>3, <1>4, <1>5, <1>6, <1>7, <1>8, <1>10, <1>11, <1>12, <1>13, <1>14, <1>15,
     <1>16 DEF Next, Call, Step

LEMMA TypeInvInit ==
  ASSUME Init
  PROVE  TypeInv
<1>1. use \in Uses
  BY DEF Init
<1>2. NoHead \in HeadType /\ NoData \in Piece
  BY DEF NoHead, NoData, HeadType, Hashes, Piece
<1>3. op \in Ops
  BY <1>1, UseTypes DEF Init, Idle, Ops, NoValue, Stored
<1> QED
  BY <1>1, <1>2, <1>3 DEF Init, TypeInv, TypeOK, HeadType, Idle, PcOfKind, Progress,
                          Storing, Removing

LEMMA TypeInvStep ==
  ASSUME TypeInv, [Next]_vars
  PROVE  TypeInv'
  BY TypeStep, ProgressStep DEF TypeInv

(* Every variable holds a value of its type, whatever the use: the indices *)
(* a store keeps are as many as the value has data elements, so that the   *)
(* part of the array that AddDataElements leaves is there.                 *)
THEOREM KvsTypeCorrect == Spec => []TypeOK
<1>1. Init => TypeInv
  BY TypeInvInit
<1>2. TypeInv /\ [Next]_vars => TypeInv'
  BY TypeInvStep
<1>3. TypeInv => TypeOK
  BY DEF TypeInv
<1> QED
  BY <1>1, <1>2, <1>3, PTL DEF Spec
-----------------------------------------------------------------------------
(* One head element per key.                                               *)
HeadInv == TypeInv /\ KeyedHeads /\ PutsToItsHead /\ OneEach

(* How a step changes the head elements.                                   *)
LEMMA HeadsChange ==
  ASSUME TypeInv, [Next]_vars
  PROVE  \/ heads' = heads
         \/ \E h \in Idx : /\ heads' = [heads EXCEPT ![h] = NoHead]
                           /\ op.pc = "erase" \/ (op.pc = "remove" /\ h = op.idx)
         \/ /\ op.pc = "mark"
            /\ \E m \in use.marks :
                 heads' = [heads EXCEPT ![op.idx] = [key |-> m, parts |-> op.parts,
                                                     v |-> NoVersion]]
         \/ /\ op.pc = "head"
            /\ heads' = [heads EXCEPT ![op.idx] = [key |-> op.key, parts |-> Indices,
                                                   v |-> op.val.v]]
<1> USE DEF TypeInv
<1>1. op.idx \in Idx
  BY PartTypes
<1>2. CASE RemoveHeadElement
  BY <1>1, <1>2 DEF RemoveHeadElement
<1>3. CASE EraseElement
  BY <1>3 DEF EraseElement, UsedHeads
<1>4. CASE MarkDelete
  BY <1>4 DEF MarkDelete
<1>5. CASE AddHeadElement
  BY <1>5 DEF AddHeadElement
<1> QED
  BY <1>2, <1>3, <1>4, <1>5 DEF Next, Call, Step, vars, Delete, Put, ConsistencyCheck,
     ErasePartition, AddDataElement, AddDataElementFails, RemoveDataElement, CheckMarked,
     CheckReferences, RemoveOrphan, Reset

(* An operation keeps its kind, its key, its head and its value, except    *)
(* that the check goes from head to head.                                  *)
LEMMA OpChange ==
  ASSUME TypeInv, [Next]_vars
  PROVE  \/ /\ op.kind = "idle" /\ heads' = heads /\ datas' = datas
            /\ \/ \E k \in Keys : Delete(k) \/ \E val \in Values : Put(k, val)
               \/ ConsistencyCheck \/ ErasePartition
         \/ IsDone
         \/ /\ op'.kind = op.kind /\ op'.key = op.key /\ op'.val = op.val
            /\ op'.idx = op.idx \/ CheckMarked
<1> USE DEF TypeInv
<1>1. ASSUME NEW pc, NEW ps, NEW i, Becomes(pc, ps, i)
      PROVE  /\ op'.kind = op.kind /\ op'.key = op.key /\ op'.val = op.val
             /\ op'.idx = op.idx
  BY <1>1 DEF Becomes
<1>2. CASE Call
  BY <1>2, DeleteShape, PutShape, WholeStoreShape DEF Call
<1>3. CASE AddDataElement
  BY <1>1, <1>3, AddDataShape
<1>4. CASE AddDataElementFails \/ AddHeadElement \/ Reset
  BY <1>4, DoneShape DEF AddDataElementFails, AddHeadElement, Reset
<1>5. CASE MarkDelete
  BY <1>1, <1>5, GotoShape DEF MarkDelete
<1>6. ASSUME NEW b \in BOOLEAN, Return(b)
      PROVE  IsDone \/ /\ op'.kind = op.kind /\ op'.key = op.key /\ op'.val = op.val
                       /\ op'.idx = op.idx
  BY <1>1, <1>6, ReturnShape
<1>7. CASE RemoveDataElement
  BY <1>1, <1>6, <1>7, RemoveDataShape
<1>8. CASE RemoveHeadElement
  BY <1>6, <1>8 DEF RemoveHeadElement
<1>9. CASE CheckMarked
  BY <1>1, <1>9, CheckMarkedShape
<1>10. CASE CheckReferences
  BY <1>1, <1>10, CheckReferencesShape
<1>11. CASE RemoveOrphan
  BY <1>1, <1>11, RemoveOrphanShape
<1>12. CASE EraseElement
  BY <1>12, DoneShape DEF EraseElement
<1>13. CASE UNCHANGED vars
  BY <1>13 DEF vars
<1> QED
  BY <1>2, <1>3, <1>4, <1>5, <1>7, <1>8, <1>9, <1>10, <1>11, <1>12, <1>13 DEF Next, Step

(* A store that goes on leaves the heads alone.                            *)
LEMMA PutChange ==
  ASSUME TypeInv, [Next]_vars, op'.kind = "put"
  PROVE  /\ heads' = heads
         /\ \/ \E k \in Keys, val \in Values : Put(k, val)
            \/ op.kind = "put" /\ op'.key = op.key /\ op'.idx = op.idx /\ op'.val = op.val
<1>1. \/ \E k \in Keys, val \in Values : Put(k, val)
      \/ op.kind = "put" /\ op'.key = op.key /\ op'.idx = op.idx /\ op'.val = op.val
  <2>1. ~ IsDone /\ (op.kind = "idle" => ~ ConsistencyCheck /\ ~ ErasePartition
                                         /\ \A k \in Keys : ~ Delete(k))
    BY WholeStoreShape, DeleteShape DEF IsDone, StartsAt, TypeInv
  <2>2. CheckMarked => op.kind # "put"
    BY DEF CheckMarked, TypeInv, PcOfKind, Storing
  <2> QED
    BY <2>1, <2>2, OpChange
<1>2. CASE \E k \in Keys, val \in Values : Put(k, val)
  BY <1>1, <1>2, PutShape DEF TypeInv
<1>3. CASE op.kind = "put" /\ op'.key = op.key /\ op'.idx = op.idx /\ op'.val = op.val
  <2>1. op.pc \in {"data", "head"}
    BY <1>3 DEF TypeInv, PcOfKind, Storing
  <2>2. AddHeadElement => op'.kind = "idle"
    BY DoneShape DEF AddHeadElement, IsDone, TypeInv
  <2>3. AddDataElement \/ AddDataElementFails \/ Reset \/ UNCHANGED vars
    BY <1>3, <2>1, <2>2 DEF Next, Call, Step, MarkDelete, RemoveDataElement,
       RemoveHeadElement, CheckMarked, CheckReferences, RemoveOrphan, EraseElement,
       Delete, Put, ConsistencyCheck, ErasePartition, IsIdle
  <2> QED
    BY <1>3, <2>3 DEF AddDataElement, AddDataElementFails, Reset, vars
<1> QED
  BY <1>1, <1>2, <1>3

LEMMA HeadInvStep ==
  ASSUME HeadInv, [Next]_vars
  PROVE  HeadInv'
<1> USE DEF HeadInv
<1>1. TypeInv' /\ Idx' = Idx /\ heads \in [Idx -> HeadType] /\ op.idx \in Idx
  BY TypeInvStep, UseIsFixed, PartTypes DEF TypeInv
<1>2. use.marks \subseteq {Zero, Junk} /\ NoKey \notin Keys \cup {Zero, Junk}
      /\ Keys \cap {Zero, Junk} = {}
  BY UseTypes, PartTypes DEF TypeInv
<1>3. op.pc = "head" => op.kind = "put" /\ op.key \in Keys
  BY DEF TypeInv, PcOfKind, Storing
<1>4. \A h \in Idx : h \in Live' <=> heads'[h].key \in Keys
  BY <1>1 DEF Live
<1>5. KeyedHeads' /\ OneEach'
  <2>1. CASE heads' = heads
    BY <1>1, <2>1 DEF KeyedHeads, OneEach, Live
  <2>2. ASSUME NEW h \in Idx, NEW x, heads' = [heads EXCEPT ![h] = x],
               x = NoHead \/ x.key \in use.marks
        PROVE  KeyedHeads' /\ OneEach'
    <3>1. \A g \in Idx : heads'[g] = IF g = h THEN x ELSE heads[g]
      BY <1>1, <2>2
    <3>2. x.key \notin Keys /\ (x.key = NoKey => x = NoHead)
      BY <1>2, <2>2 DEF NoHead
    <3> QED
      BY <1>1, <1>4, <3>1, <3>2 DEF KeyedHeads, OneEach, Live
  <2>3. ASSUME NEW x, heads' = [heads EXCEPT ![op.idx] = x], x.key = op.key, op.pc = "head"
        PROVE  KeyedHeads' /\ OneEach'
    <3>1. \A g \in Idx : heads'[g] = IF g = op.idx THEN x ELSE heads[g]
      BY <1>1, <2>3
    <3>2. \A g \in Idx : heads[g].key = op.key => g = op.idx
      BY <1>3, <2>3 DEF PutsToItsHead, HeadsOf
    <3> QED
      BY <1>1, <1>2, <1>3, <1>4, <2>3, <3>1, <3>2 DEF KeyedHeads, OneEach, Live
  <2>4. CASE \E h \in Idx : heads' = [heads EXCEPT ![h] = NoHead]
    BY <2>2, <2>4
  <2>5. CASE \E m \in use.marks :
               heads' = [heads EXCEPT ![op.idx] = [key |-> m, parts |-> op.parts,
                                                   v |-> NoVersion]]
    BY <1>1, <2>2, <2>5
  <2>6. CASE /\ op.pc = "head"
             /\ heads' = [heads EXCEPT ![op.idx] = [key |-> op.key, parts |-> Indices,
                                                    v |-> op.val.v]]
    <3> DEFINE new == [key |-> op.key, parts |-> Indices, v |-> op.val.v]
    <3>1. new.key = op.key /\ heads' = [heads EXCEPT ![op.idx] = new]
      BY <2>6
    <3> HIDE DEF new
    <3> QED
      BY <2>3, <2>6, <3>1
  <2> QED
    BY <2>1, <2>4, <2>5, <2>6, HeadsChange
<1>6. PutsToItsHead'
  <2>1. SUFFICES ASSUME op'.kind = "put", NEW h \in Idx, heads[h].key = op'.key
                 PROVE  h = op'.idx
    <3>1. op'.kind = "put" => heads' = heads
      BY PutChange
    <3> QED
      BY <1>1, <3>1 DEF PutsToItsHead, HeadsOf
  <2>2. CASE op.kind = "put" /\ op'.key = op.key /\ op'.idx = op.idx
    BY <2>1, <2>2 DEF PutsToItsHead, HeadsOf
  <2>3. ASSUME NEW k \in Keys, NEW val \in Values, Put(k, val)
        PROVE  h = op'.idx
    <3>1. op'.key = k /\ (op'.idx \in HeadsOf(k) \/ HeadsOf(k) = {})
      BY <2>3, PutShape DEF StartsAt, TypeInv
    <3>2. \A g \in HeadsOf(k) : h = g
      BY <2>1, <3>1 DEF HeadsOf, OneEach, Live
    <3> QED
      BY <2>1, <3>1, <3>2 DEF HeadsOf
  <2> QED
    BY <2>1, <2>2, <2>3, PutChange
<1> QED
  BY <1>1, <1>5, <1>6

LEMMA HeadInvInit ==
  ASSUME Init
  PROVE  HeadInv
<1>1. TypeInv
  BY TypeInvInit
<1>2. NoKey \notin Keys /\ \A h \in Idx : heads[h] = NoHead
  BY UseTypes DEF Init
<1> QED
  BY <1>1, <1>2 DEF Init, HeadInv, KeyedHeads, PutsToItsHead, OneEach, Live, NoHead, Idle

LEMMA OneHead ==
  ASSUME HeadInv
  PROVE  OneHeadPerKey
<1> SUFFICES ASSUME NEW k \in Keys PROVE Cardinality(HeadsOf(k)) <= 1
  BY DEF OneHeadPerKey
<1>1. \A h, g \in HeadsOf(k) : h = g
  BY DEF HeadInv, HeadsOf, OneEach, Live
<1>2. CASE HeadsOf(k) = {}
  BY <1>2, FS_EmptySet
<1>3. CASE HeadsOf(k) # {}
  <2>1. PICK h \in HeadsOf(k) : TRUE
    BY <1>3
  <2>2. HeadsOf(k) = {h}
    BY <1>1, <2>1
  <2> QED
    BY <2>2, FS_Singleton
<1> QED
  BY <1>2, <1>3

(* A key never gets a second head element, whatever fails or is reset: the *)
(* index that qvCHIP_KvsPut chose at its start is still the key's, or      *)
(* still no other's, when the head is written.                             *)
THEOREM KeysHaveOneHead == Spec => []OneHeadPerKey
<1>1. Init => HeadInv
  BY HeadInvInit
<1>2. HeadInv /\ [Next]_vars => HeadInv'
  BY HeadInvStep
<1>3. HeadInv => OneHeadPerKey
  BY OneHead
<1> QED
  BY <1>1, <1>2, <1>3, PTL DEF Spec
-----------------------------------------------------------------------------
(* Orphans.                                                                *)
LEMMA InReferences ==
  ASSUME TypeOK
  PROVE  /\ \A r \in References : /\ r[1] \in UsedHeads
                                  /\ r[2] \in 1 .. Len(heads[r[1]].parts)
                                  /\ r = <<r[1], r[2]>> /\ Target(r) \in Idx
         /\ \A h \in UsedHeads : \A i \in 1 .. Len(heads[h].parts) :
              <<h, i>> \in References /\ Target(<<h, i>>) = heads[h].parts[i]
<1>1. ASSUME NEW r \in References
      PROVE  /\ r[1] \in UsedHeads /\ r[2] \in 1 .. Len(heads[r[1]].parts)
             /\ r = <<r[1], r[2]>> /\ Target(r) \in Idx
  <2>1. PICK h \in UsedHeads : r \in {h} \X (1 .. Len(heads[h].parts))
    BY DEF References
  <2>2. r[1] = h /\ r[2] \in 1 .. Len(heads[h].parts) /\ r = <<r[1], r[2]>> /\ h \in Idx
    BY <2>1 DEF UsedHeads
  <2> QED
    BY <2>1, <2>2, PartTypes DEF Target
<1>2. ASSUME NEW h \in UsedHeads, NEW i \in 1 .. Len(heads[h].parts)
      PROVE  <<h, i>> \in References /\ Target(<<h, i>>) = heads[h].parts[i]
  <2>1. <<h, i>> \in {h} \X (1 .. Len(heads[h].parts))
    OBVIOUS
  <2> QED
    BY <2>1 DEF References, Target
<1> QED
  BY <1>1, <1>2

LEMMA ReferencesFixed ==
  ASSUME heads' = heads, Idx' = Idx
  PROVE  Referenced' = Referenced /\ UsedHeads' = UsedHeads /\ References' = References
<1>1. UsedHeads' = UsedHeads
  BY DEF UsedHeads
<1>2. References' = References
  BY <1>1 DEF References
<1>3. \A r : Target(r)' = Target(r)
  BY DEF Target
<1> QED
  BY <1>1, <1>2, <1>3 DEF Referenced

(* How an operation comes to remove orphans.                               *)
LEMMA OrphansChange ==
  ASSUME TypeInv, [Next]_vars, op'.pc = "orphans"
  PROVE  CheckReferences \/ RemoveOrphan \/ (op' = op /\ heads' = heads /\ datas' = datas)
<1> USE DEF TypeInv
<1>1. ~ IsDone /\ \A ps, i : \A pc \in {"data", "head", "remove", "scan", "zero"} :
                    ~ Becomes(pc, ps, i)
  BY DEF IsDone, Becomes
<1>2. ~ \E b \in BOOLEAN : Return(b)
  BY <1>1, ReturnShape
<1>3. ~ Call
  BY DeleteShape, PutShape, WholeStoreShape DEF StartsAt, Call
<1>4. ~ AddDataElement /\ ~ AddDataElementFails /\ ~ AddHeadElement /\ ~ Reset
      /\ ~ MarkDelete
  BY <1>1, AddDataShape, DoneShape, GotoShape
     DEF AddDataElementFails, AddHeadElement, Reset, MarkDelete
<1>5. ~ RemoveDataElement /\ ~ RemoveHeadElement /\ ~ CheckMarked
  BY <1>1, <1>2, RemoveDataShape, CheckMarkedShape DEF RemoveHeadElement
<1>6. EraseElement => op.pc = "erase" /\ op' = op
  BY <1>1, DoneShape DEF EraseElement
<1>7. ~ EraseElement
  BY <1>6
<1> QED
  BY <1>3, <1>4, <1>5, <1>7 DEF Next, Step, vars

LEMMA OrphansStep ==
  ASSUME TypeInv, OrphansListed, [Next]_vars
  PROVE  OrphansListed'
<1> USE DEF TypeInv
<1>1. SUFFICES ASSUME op'.pc = "orphans"
               PROVE  op'.todo = UsedDatas' \ Referenced'
  BY DEF OrphansListed
<1>2. Idx' = Idx /\ heads' = heads /\ Referenced' = Referenced
  <2>1. Idx' = Idx
    BY UseIsFixed
  <2>2. heads' = heads
    BY <1>1, OrphansChange DEF CheckReferences, RemoveOrphan
  <2> QED
    BY <2>1, <2>2, ReferencesFixed
<1>3. \A d \in Idx : d \in UsedDatas' <=> datas'[d] # NoData
  BY <1>2 DEF UsedDatas, NoData
<1>4. CASE CheckReferences
  BY <1>1, <1>2, <1>4, CheckReferencesShape DEF IsDone, UsedDatas
<1>5. CASE RemoveOrphan
  <2>1. PICK d \in op.todo : /\ datas' = [datas EXCEPT ![d] = NoData]
                             /\ op'.todo = op.todo \ {d}
    BY <1>1, <1>5, RemoveOrphanShape DEF IsDone
  <2>2. op.todo = UsedDatas \ Referenced /\ datas \in [Idx -> Piece]
    BY <1>5, PartTypes DEF RemoveOrphan, OrphansListed
  <2>3. UsedDatas' = UsedDatas \ {d}
    BY <1>2, <2>1, <2>2 DEF UsedDatas, NoData
  <2> QED
    BY <1>2, <2>1, <2>2, <2>3
<1>6. CASE op' = op /\ heads' = heads /\ datas' = datas
  BY <1>1, <1>2, <1>6 DEF OrphansListed, UsedDatas
<1> QED
  BY <1>1, <1>4, <1>5, <1>6, OrphansChange

(* A completed check leaves no orphan, in any use: between the pass over   *)
(* all elements and the last removal nothing else can write.               *)
THEOREM ChecksClear == Spec => CheckClears
<1>1. Init => TypeInv /\ OrphansListed
  <2>1. Init => op.pc = "idle"
    BY DEF Init, Idle
  <2> QED
    BY <2>1, TypeInvInit DEF OrphansListed
<1>2. TypeInv /\ OrphansListed /\ [Next]_vars => (TypeInv /\ OrphansListed)'
  BY TypeInvStep, OrphansStep
<1>3. OrphansListed =>
        [op.pc = "orphans" /\ op'.kind = "idle" /\ op.todo = {}
           => UsedDatas \subseteq Referenced]_vars
  BY DEF OrphansListed
<1> QED
  BY <1>1, <1>2, <1>3, PTL DEF Spec, CheckClears
-----------------------------------------------------------------------------
(* Data elements, for the uses in which removals are safe.                 *)
ItsOwnInv == /\ TypeInv /\ KeyedHeads /\ PutsToItsHead /\ OneEach /\ OrphansListed
             /\ SizedParts /\ EachItsOwn /\ WorksOnItsHead /\ MarksAreLeft

LEMMA MarkedOrLive ==
  ASSUME TypeInv, KeyedHeads
  PROVE  /\ Live \cap Marked = {} /\ UsedHeads \subseteq Live \cup Marked
         /\ Live \subseteq UsedHeads
<1> USE DEF TypeInv
<1>1. use.marks \subseteq {Zero, Junk} /\ NoKey \notin Keys /\ Keys \cap {Zero, Junk} = {}
  BY UseTypes, PartTypes
<1>2. \A h \in Idx : heads[h].key \in Keys \cup {NoKey} \cup use.marks
  BY PartTypes DEF Hashes
<1>3. NoHead.key = NoKey
  BY DEF NoHead
<1> QED
  BY <1>1, <1>2, <1>3 DEF Live, Marked, UsedHeads, KeyedHeads

(* A check that comes upon a mark is one of a store without data elements. *)
LEMMA MarksInChecks ==
  ASSUME ItsOwnInv, RemovesSafely(use), op.kind = "check", Marked # {}
  PROVE  use.sizes \subseteq {0} /\ (\A h \in Idx : heads[h].parts = <<>>)
           /\ op.parts = <<>>
<1>1. "delete" \in use.resetIn /\ use.checks
  BY DEF ItsOwnInv, MarksAreLeft, TypeInv, PcOfKind
<1> QED
  BY <1>1 DEF RemovesSafely, ItsOwnInv, SizedParts

LEMMA SizedStep ==
  ASSUME TypeInv, SizedParts, [Next]_vars
  PROVE  SizedParts'
<1> USE DEF TypeInv
<1>1. Idx' = Idx /\ use' = use /\ heads \in [Idx -> HeadType] /\ op.idx \in Idx
      /\ op.i \in Nat \ {0}
  BY UseIsFixed, PartTypes
<1>2. SUFFICES ASSUME use.sizes \subseteq {0}
               PROVE  (\A h \in Idx : heads'[h].parts = <<>>) /\ op'.parts = <<>>
  BY <1>1 DEF SizedParts
<1>3. op.parts = <<>> /\ \A h \in Idx : heads[h].parts = <<>>
  BY <1>2 DEF SizedParts
<1>4. op.kind = "put" => op.val.n = 0
  BY <1>2 DEF PcOfKind, Values
<1>5. op.pc # "data"
  BY <1>1, <1>4 DEF PcOfKind, Progress, Storing
<1>6. \A h \in Idx : heads'[h].parts = <<>>
  <2>1. op.pc = "head" => Indices = <<>>
    BY <1>3, <1>4, NewHeadType DEF PcOfKind, Storing
  <2>2. ASSUME NEW g \in Idx, NEW x, heads' = [heads EXCEPT ![g] = x], x.parts = <<>>
        PROVE  \A h \in Idx : heads'[h].parts = <<>>
    BY <1>1, <1>3, <2>2
  <2>3. NoHead.parts = <<>> /\ \A k, v, ps : [key |-> k, parts |-> ps, v |-> v].parts = ps
    BY DEF NoHead
  <2>4. CASE heads' = heads
    BY <1>3, <2>4
  <2>5. CASE \E h \in Idx : heads' = [heads EXCEPT ![h] = NoHead]
    BY <2>2, <2>3, <2>5
  <2>6. CASE \E m \in use.marks :
               heads' = [heads EXCEPT ![op.idx] = [key |-> m, parts |-> op.parts,
                                                   v |-> NoVersion]]
    BY <1>1, <1>3, <2>2, <2>3, <2>6
  <2>7. CASE /\ op.pc = "head"
             /\ heads' = [heads EXCEPT ![op.idx] = [key |-> op.key, parts |-> Indices,
                                                    v |-> op.val.v]]
    <3> DEFINE new == [key |-> op.key, parts |-> Indices, v |-> op.val.v]
    <3>1. new.parts = <<>> /\ heads' = [heads EXCEPT ![op.idx] = new]
      BY <2>1, <2>7
    <3> HIDE DEF new
    <3> QED
      BY <1>1, <2>2, <3>1
  <2> QED
    BY <2>4, <2>5, <2>6, <2>7, HeadsChange
<1>7. op'.parts = <<>>
  <2>1. CASE Call
    BY <1>3, <2>1, DeleteShape, PutShape, WholeStoreShape DEF StartsAt, Call, HeadsOf
  <2>2. CASE AddDataElementFails \/ AddHeadElement \/ Reset
    BY <2>2, DoneShape DEF AddDataElementFails, AddHeadElement, Reset, IsDone
  <2>3. CASE MarkDelete
    BY <1>3, <2>3, GotoShape DEF MarkDelete, Becomes
  <2>4. ASSUME NEW b \in BOOLEAN, Return(b) PROVE op'.parts = <<>>
    BY <1>3, <2>4, ReturnShape DEF Becomes, IsDone
  <2>5. CASE RemoveDataElement \/ RemoveHeadElement
    BY <1>3, <2>4, <2>5, RemoveDataShape DEF RemoveHeadElement, Becomes
  <2>6. CASE CheckMarked \/ CheckReferences \/ RemoveOrphan
    BY <1>3, <2>6, CheckMarkedShape, CheckReferencesShape, RemoveOrphanShape
       DEF Becomes, IsDone, HeadsOf
  <2>7. CASE EraseElement
    BY <1>3, <2>7, DoneShape DEF EraseElement, IsDone
  <2> QED
    BY <1>3, <1>5, <2>1, <2>2, <2>3, <2>5, <2>6, <2>7
       DEF Next, Step, AddDataElement, vars
<1> QED
  BY <1>6, <1>7

(* No data element is missing when a removal comes to it.                  *)
LEMMA RemovalFinds ==
  ASSUME ItsOwnInv, RemoveDataElement
  PROVE  /\ op.pc = "remove" /\ op.i \in 1 .. Len(op.parts) /\ heads' = heads
         /\ op.parts[op.i] \in Idx
         /\ datas' = [datas EXCEPT ![op.parts[op.i]] = NoData]
         /\ Becomes("remove", op.parts, op.i + 1)
<1> USE DEF ItsOwnInv, TypeInv
<1>1. op.pc = "remove" /\ op.i \in 1 .. Len(op.parts)
  BY RemoveDataShape
<1>2. op.kind # "erase" /\ Working
  BY <1>1 DEF PcOfKind, Working, Removing
<1>3. datas[op.parts[op.i]] # NoData
  BY <1>1, <1>2, PartTypes DEF EachItsOwn, AllThere
<1> QED
  BY <1>3, RemoveDataShape

LEMMA MarksStep ==
  ASSUME ItsOwnInv, [Next]_vars
  PROVE  MarksAreLeft'
<1> USE DEF ItsOwnInv, TypeInv
<1>1. Idx' = Idx /\ use' = use /\ heads \in [Idx -> HeadType] /\ op.idx \in Idx
  BY UseIsFixed, PartTypes
<1>2. use.marks \subseteq {Zero, Junk} /\ NoKey \notin Keys \cup {Zero, Junk}
      /\ Keys \cap {Zero, Junk} = {} /\ NoHead.key = NoKey
  BY UseTypes, PartTypes DEF NoHead
<1>3. SUFFICES ASSUME NEW h \in Idx, heads'[h].key \in {Zero, Junk},
                      "delete" \notin use.resetIn
               PROVE  op'.kind = "delete" /\ h = op'.idx
  BY <1>1 DEF MarksAreLeft, Marked
<1>4. heads[h].key \in {Zero, Junk} => op.kind = "delete" /\ h = op.idx
  BY <1>3 DEF MarksAreLeft, Marked
<1>5. op.pc = "head" => op.kind = "put" /\ op.key \in Keys
  BY DEF PcOfKind, Storing
<1>6. heads[h].key \in {Zero, Junk} \/ (op.pc = "mark" /\ h = op.idx)
  <2>1. ASSUME NEW g \in Idx, NEW x, heads' = [heads EXCEPT ![g] = x],
               x.key \notin {Zero, Junk}
        PROVE  heads[h].key \in {Zero, Junk}
    BY <1>1, <1>3, <2>1
  <2>2. CASE \E g \in Idx : heads' = [heads EXCEPT ![g] = NoHead]
    BY <1>2, <2>1, <2>2
  <2>3. CASE /\ op.pc = "head"
             /\ heads' = [heads EXCEPT ![op.idx] = [key |-> op.key, parts |-> Indices,
                                                    v |-> op.val.v]]
    <3> DEFINE new == [key |-> op.key, parts |-> Indices, v |-> op.val.v]
    <3>1. new.key = op.key /\ heads' = [heads EXCEPT ![op.idx] = new]
      BY <2>3
    <3> HIDE DEF new
    <3> QED
      BY <1>1, <1>2, <1>5, <2>1, <2>3, <3>1
  <2>4. CASE \E m \in use.marks : op.pc = "mark" /\
               heads' = [heads EXCEPT ![op.idx] = [key |-> m, parts |-> op.parts,
                                                   v |-> NoVersion]]
    BY <1>1, <1>3, <2>4
  <2> QED
    BY <1>3, <2>2, <2>3, <2>4, HeadsChange
<1>7. op.kind = "delete" /\ h = op.idx
  <2>1. CASE op.pc = "mark" /\ h = op.idx
    <3>1. op.kind = "delete" \/ op.kind = "check"
      BY <2>1, PartTypes DEF PcOfKind, Storing
    <3>2. op.kind = "check" => heads[h].key \in {Zero, Junk}
      BY <2>1 DEF WorksOnItsHead, Working, Removing, Marked
    <3> QED
      BY <1>4, <2>1, <3>1, <3>2
  <2> QED
    BY <1>4, <1>6, <2>1
<1>8. ~ IsDone
  <2>1. ~ Reset
    BY <1>3, <1>7 DEF Reset
  <2>2. RemoveDataElement => op'.kind = "delete"
    BY <1>7, RemovalFinds DEF Becomes
  <2>3. RemoveHeadElement => heads'[h] = NoHead
    BY <1>1, <1>7 DEF RemoveHeadElement
  <2>4. MarkDelete => op'.kind = "delete"
    BY <1>7, GotoShape DEF MarkDelete, Becomes
  <2>5. RemoveDataElement \/ RemoveHeadElement \/ MarkDelete \/ op' = op
    BY <1>7, <2>1 DEF Next, Call, Step, vars, Delete, Put, ConsistencyCheck, IsIdle,
       ErasePartition, AddDataElement, AddDataElementFails, AddHeadElement, CheckMarked,
       CheckReferences, RemoveOrphan, EraseElement, PcOfKind, Storing, Removing
  <2>6. NoHead.key \notin {Zero, Junk}
    BY <1>2
  <2> QED
    BY <1>3, <1>7, <2>2, <2>3, <2>4, <2>5, <2>6 DEF IsDone
<1>9. ~ CheckMarked
  BY <1>7 DEF CheckMarked, PcOfKind, Removing
<1> QED
  BY <1>7, <1>8, <1>9, OpChange

LEMMA WorksStep ==
  ASSUME ItsOwnInv, [Next]_vars
  PROVE  WorksOnItsHead'
<1> USE DEF ItsOwnInv, TypeInv
<1>1. /\ Idx' = Idx /\ use' = use /\ heads \in [Idx -> HeadType] /\ op.idx \in Idx
      /\ op.parts \in Seq(Idx) /\ Len(op.parts) \in Nat
      /\ \A h \in Idx : Len(heads[h].parts) \in Nat
  BY UseIsFixed, PartTypes
<1>2. use.marks \subseteq {Zero, Junk} /\ NoKey \notin Keys /\ Keys \cap {Zero, Junk} = {}
  BY UseTypes, PartTypes
<1>3. ASSUME op'.pc \notin {"data", "head", "mark", "remove"} PROVE WorksOnItsHead'
  BY <1>3 DEF WorksOnItsHead, Working, Storing, Removing
<1>4. ASSUME IsDone PROVE WorksOnItsHead'
  BY <1>3, <1>4 DEF IsDone
<1>5. ASSUME NEW k \in Keys, Delete(k) PROVE WorksOnItsHead'
  <2>1. PICK h \in HeadsOf(k) : StartsAt("delete", "mark", k, h, heads[h].parts)
    BY <1>5, DeleteShape
  <2>2. heads' = heads /\ h \in Idx /\ heads[h].key = k
    BY <1>5, <2>1, DeleteShape DEF HeadsOf
  <2> QED
    BY <1>1, <2>1, <2>2 DEF StartsAt, WorksOnItsHead, BeginsWith
<1>6. ASSUME NEW k \in Keys, NEW val \in Values, Put(k, val) PROVE WorksOnItsHead'
  <2>1. PICK h \in Idx, ps \in Seq(Idx) :
          /\ StartsAt("put", IF val.n > 0 THEN "data" ELSE "head", k, h, ps)
          /\ \/ h \in HeadsOf(k) /\ ps = heads[h].parts
             \/ HeadsOf(k) = {} /\ h \notin UsedHeads /\ ps = <<>>
    BY <1>6, PutShape
  <2>2. heads' = heads
    BY <1>6, PutShape
  <2>3. h \in HeadsOf(k) \/ h \notin Live
    BY <2>1, MarkedOrLive
  <2> QED
    BY <1>1, <2>1, <2>2, <2>3 DEF StartsAt, WorksOnItsHead, BeginsWith, HeadsOf, Live
<1>7. CASE ConsistencyCheck \/ ErasePartition
  BY <1>3, <1>7, WholeStoreShape DEF StartsAt
<1>8. CASE AddDataElement
  <2>1. PICK d \in Idx, ps \in Seq(Idx) :
          /\ Becomes(IF op.i = op.val.n THEN "head" ELSE "data", ps, op.i + 1)
          /\ \/ ps = op.parts
             \/ ps = Append(op.parts, d)
    BY <1>8, AddDataShape
  <2>2. heads' = heads /\ op.pc = "data" /\ op.kind = "put"
    BY <1>8, AddDataShape DEF PcOfKind, Storing
  <2>3. BeginsWith(ps, op.parts)
    BY <1>1, <2>1 DEF BeginsWith
  <2>4. op.idx \in Live => heads[op.idx].key = op.key
                             /\ BeginsWith(op.parts, heads[op.idx].parts)
    BY <2>2 DEF WorksOnItsHead, Working, Storing
  <2>5. op.idx \in Live => BeginsWith(ps, heads[op.idx].parts)
    BY <1>1, <2>1, <2>3, <2>4 DEF BeginsWith
  <2> QED
    BY <1>1, <2>1, <2>2, <2>4, <2>5 DEF Becomes, WorksOnItsHead, Live
<1>9. CASE AddDataElementFails \/ AddHeadElement \/ Reset
  BY <1>4, <1>9, DoneShape DEF AddDataElementFails, AddHeadElement, Reset
<1>10. CASE MarkDelete
  <2>1. Becomes("remove", op.parts, op.i) /\ op.pc = "mark"
    BY <1>10, GotoShape DEF MarkDelete
  <2>2. /\ op.idx \in Live => heads[op.idx].key = op.key
                                /\ BeginsWith(op.parts, heads[op.idx].parts)
        /\ op.kind = "check" => op.idx \in Marked
    BY <2>1 DEF WorksOnItsHead, Working, Removing
  <2>3. CASE use.writeFails /\ heads' = heads
    BY <1>1, <2>1, <2>2, <2>3 DEF Becomes, WorksOnItsHead, Live, Marked
  <2>4. ASSUME NEW m \in use.marks,
               heads' = [heads EXCEPT ![op.idx] = [key |-> m, parts |-> op.parts,
                                                   v |-> NoVersion]]
        PROVE  WorksOnItsHead'
    <3>1. heads'[op.idx].key = m
      BY <1>1, <2>4
    <3>2. op'.idx \notin Live' /\ op'.idx \in Marked'
      BY <1>1, <1>2, <2>1, <3>1 DEF Becomes, Live, Marked
    <3> QED
      BY <3>2 DEF WorksOnItsHead
  <2> QED
    BY <1>10, <2>3, <2>4 DEF MarkDelete
<1>11. CASE RemoveDataElement
  <2>1. op.pc = "remove" /\ heads' = heads /\ Becomes("remove", op.parts, op.i + 1)
    BY <1>11, RemovalFinds
  <2> QED
    BY <1>1, <2>1 DEF Becomes, WorksOnItsHead, Live, Marked, Working, Removing
<1>12. CASE RemoveHeadElement
  BY <1>3, <1>4, <1>12, ReturnShape DEF RemoveHeadElement, Becomes
<1>13. CASE CheckMarked
  <2>1. CASE HeadsOf(Zero) = {} /\ Becomes("scan", op.parts, op.i)
    BY <1>3, <2>1 DEF Becomes
  <2>2. CASE heads' = heads /\ op'.idx \in HeadsOf(Zero)
    <3>1. op'.idx \in Marked' /\ op'.idx \notin Live'
      BY <1>1, <1>2, <2>2 DEF HeadsOf, Live, Marked
    <3> QED
      BY <3>1 DEF WorksOnItsHead
  <2> QED
    BY <1>13, <2>1, <2>2, CheckMarkedShape
<1>14. CASE CheckReferences \/ RemoveOrphan
  BY <1>3, <1>4, <1>14, CheckReferencesShape, RemoveOrphanShape DEF Becomes
<1>15. CASE EraseElement
  BY <1>3, <1>4, <1>15, DoneShape DEF EraseElement
<1>16. CASE UNCHANGED vars
  BY <1>1, <1>16 DEF vars, WorksOnItsHead, Working, Storing, Removing, Live, Marked
<1> QED
  BY <1>5, <1>6, <1>7, <1>8, <1>9, <1>10, <1>11, <1>12, <1>13, <1>14, <1>15, <1>16
     DEF Next, Call, Step

(* What the other heads have stays theirs when a step leaves it alone.     *)
LEMMA OthersKeep ==
  ASSUME EachItsOwn, op.kind # "erase",
         \A h \in Others' : h \in Others /\ heads'[h] = heads[h],
         \A h \in Others : \A i \in 1 .. Len(heads[h].parts) :
           datas[heads[h].parts[i]] # NoData => datas'[heads[h].parts[i]] # NoData,
         op'.pc \in {"data", "head", "mark", "remove"} =>
           /\ AllThere(datas', op'.parts, IF op'.pc = "remove" THEN op'.i ELSE 1)
           /\ \A h \in Others' : Apart(op'.parts, heads[h].parts)
  PROVE  EachItsOwn'
<1>1. /\ \A h \in Others : AllThere(datas, heads[h].parts, 1)
      /\ \A h, g \in Others : h # g => Apart(heads[h].parts, heads[g].parts)
  BY DEF EachItsOwn
<1>2. NoData' = NoData /\ (Working' <=> op'.pc \in {"data", "head", "mark", "remove"})
  BY DEF NoData, Working, Storing, Removing
<1>3. ASSUME NEW h \in Others' PROVE AllThere(datas', heads'[h].parts, 1)
  BY <1>1, <1>3 DEF AllThere
<1>4. ASSUME NEW h \in Others', NEW g \in Others', h # g
      PROVE  Apart(heads'[h].parts, heads'[g].parts)
  BY <1>1, <1>4
<1>5. \A h \in Others' : Apart(op'.parts, heads[h].parts) => Apart(op'.parts, heads'[h].parts)
  OBVIOUS
<1> HIDE DEF AllThere, Apart
<1>6. \A ps, from : AllThere(datas, ps, from)' <=> AllThere(datas', ps, from)
  BY <1>2 DEF AllThere
<1> QED
  BY <1>2, <1>3, <1>4, <1>5 DEF EachItsOwn

(* An operation that lets go of its head leaves it with what it has        *)
(* itself, when the head is a key's.                                       *)
LEMMA HeadReleased ==
  ASSUME ItsOwnInv, Working, Idx' = Idx, datas' = datas,
         op'.pc \notin {"data", "head", "mark", "remove"},
         \A h \in Idx \ {op.idx} : heads'[h] = heads[h],
         op.idx \in Live' =>
           /\ BeginsWith(op.parts, heads'[op.idx].parts)
           /\ AllThere(datas, op.parts, 1)
           /\ Len(heads'[op.idx].parts) \in Nat
  PROVE  EachItsOwn'
<1> USE DEF ItsOwnInv, TypeInv
<1> DEFINE mine == heads'[op.idx].parts
<1>1. op.kind # "erase" /\ Others = Live \ {op.idx} /\ Len(op.parts) \in Nat
  BY PartTypes DEF Working, Storing, Removing, PcOfKind, Others
<1>2. ~ Working' /\ Others' = Live'
  BY DEF Working, Storing, Removing, Others
<1>3. \A h \in Live' : h # op.idx => h \in Others /\ heads'[h] = heads[h]
  BY <1>1 DEF Live
<1>4. /\ \A h \in Others : AllThere(datas, heads[h].parts, 1)
      /\ \A h, g \in Others : h # g => Apart(heads[h].parts, heads[g].parts)
      /\ \A h \in Others : Apart(op.parts, heads[h].parts)
  BY <1>1 DEF EachItsOwn
<1>5. op.idx \in Live' => /\ AllThere(datas, mine, 1)
                          /\ \A h \in Others : Apart(mine, heads[h].parts)
  <2>1. SUFFICES ASSUME op.idx \in Live'
                 PROVE  /\ AllThere(datas, mine, 1)
                        /\ \A h \in Others : Apart(mine, heads[h].parts)
    OBVIOUS
  <2>2. \A i \in 1 .. Len(mine) : i \in 1 .. Len(op.parts) /\ mine[i] = op.parts[i]
    BY <1>1, <2>1 DEF BeginsWith
  <2>3. AllThere(datas, mine, 1)
    BY <2>1, <2>2 DEF AllThere
  <2>4. \A h \in Others : Apart(mine, heads[h].parts)
    BY <1>4, <2>2 DEF Apart
  <2> QED
    BY <2>3, <2>4
<1>6. \A ps, qs : Apart(ps, qs) => Apart(qs, ps)
  BY DEF Apart
<1>7. ASSUME NEW h \in Live' PROVE AllThere(datas', heads'[h].parts, 1)
  BY <1>3, <1>4, <1>5, <1>7
<1>8. ASSUME NEW h \in Live', NEW g \in Live', h # g
      PROVE  Apart(heads'[h].parts, heads'[g].parts)
  <2>1. CASE h # op.idx /\ g # op.idx
    BY <1>3, <1>4, <1>8, <2>1
  <2>2. CASE h = op.idx
    BY <1>3, <1>5, <1>8, <2>2
  <2>3. CASE g = op.idx
    BY <1>3, <1>5, <1>6, <1>8, <2>3
  <2> QED
    BY <2>1, <2>2, <2>3
<1>9. NoData' = NoData
  BY DEF NoData
<1>10. \A ps, from : AllThere(datas, ps, from)' <=> AllThere(datas', ps, from)
  BY <1>9 DEF AllThere
<1> HIDE DEF AllThere, Apart, ItsOwnInv
<1> QED
  BY <1>2, <1>7, <1>8, <1>10 DEF EachItsOwn

LEMMA OwnStep ==
  ASSUME ItsOwnInv, RemovesSafely(use), [Next]_vars
  PROVE  EachItsOwn'
<1> USE DEF ItsOwnInv, TypeInv
<1>1. /\ Idx' = Idx /\ use' = use /\ heads \in [Idx -> HeadType] /\ op.idx \in Idx
      /\ op.parts \in Seq(Idx) /\ Len(op.parts) \in Nat /\ datas \in [Idx -> Piece]
      /\ op.i \in Nat \ {0}
      /\ \A h \in Idx : /\ Len(heads[h].parts) \in Nat
                        /\ \A i \in 1 .. Len(heads[h].parts) : heads[h].parts[i] \in Idx
      /\ \A i \in 1 .. Len(op.parts) : op.parts[i] \in Idx
  BY UseIsFixed, PartTypes
<1>2. use.marks \subseteq {Zero, Junk} /\ NoKey \notin Keys /\ Keys \cap {Zero, Junk} = {}
      /\ NoVersion \notin Versions
  BY UseTypes, PartTypes
<1>3. NoData' = NoData /\ NoHead' = NoHead
  BY DEF NoData, NoHead
<1>4. op.kind # "erase" =>
        /\ \A h \in Others : AllThere(datas, heads[h].parts, 1)
        /\ \A h, g \in Others : h # g => Apart(heads[h].parts, heads[g].parts)
        /\ Working => \A h \in Others : Apart(op.parts, heads[h].parts)
  BY DEF EachItsOwn
<1>5. \A h \in Others : h \in Idx
  BY DEF Others, Live
<1>6. ASSUME op.kind = "idle", heads' = heads, datas' = datas,
             op'.pc \in {"data", "head", "mark", "remove"} =>
               /\ op'.pc # "remove"
               /\ \/ op'.idx \in Live /\ op'.parts = heads[op'.idx].parts
                  \/ op'.parts = <<>>
      PROVE  EachItsOwn'
  <2>1. Others = Live
    BY <1>6 DEF PcOfKind, Others, Working, Storing, Removing
  <2>2. Live' = Live /\ Others' \subseteq Live
    BY <1>1, <1>6 DEF Others, Live
  <2>3. op'.pc \in {"data", "head", "mark", "remove"} =>
          /\ AllThere(datas', op'.parts, 1)
          /\ \A h \in Others' : Apart(op'.parts, heads[h].parts)
    <3>1. SUFFICES ASSUME op'.pc \in {"data", "head", "mark", "remove"}
                   PROVE  /\ AllThere(datas', op'.parts, 1)
                          /\ \A h \in Others' : Apart(op'.parts, heads[h].parts)
      OBVIOUS
    <3>2. Others' = Live \ {op'.idx}
      BY <2>2, <3>1 DEF Others, Working, Storing, Removing
    <3>3. CASE op'.parts = <<>>
      BY <1>6, <3>3 DEF AllThere, Apart
    <3>4. CASE op'.idx \in Live /\ op'.parts = heads[op'.idx].parts
      BY <1>4, <1>6, <2>1, <3>2, <3>4
    <3> QED
      BY <1>6, <3>1, <3>3, <3>4
  <2> QED
    BY <1>6, <2>1, <2>2, <2>3, OthersKeep
<1>7. ASSUME NEW k \in Keys, Delete(k) PROVE EachItsOwn'
  <2>1. /\ op.kind = "idle" /\ heads' = heads /\ datas' = datas
        /\ \E h \in HeadsOf(k) : StartsAt("delete", "mark", k, h, heads[h].parts)
    BY <1>7, DeleteShape
  <2> QED
    BY <1>6, <2>1 DEF StartsAt, HeadsOf, Live
<1>8. ASSUME NEW k \in Keys, NEW val \in Values, Put(k, val) PROVE EachItsOwn'
  <2>1. /\ op.kind = "idle" /\ heads' = heads /\ datas' = datas
        /\ \E h \in Idx, ps \in Seq(Idx) :
             /\ StartsAt("put", IF val.n > 0 THEN "data" ELSE "head", k, h, ps)
             /\ \/ h \in HeadsOf(k) /\ ps = heads[h].parts
                \/ ps = <<>>
    BY <1>8, PutShape
  <2> QED
    BY <1>6, <2>1 DEF StartsAt, HeadsOf, Live
<1>9. CASE ConsistencyCheck \/ ErasePartition
  BY <1>6, <1>9, WholeStoreShape DEF StartsAt
<1>10. CASE AddDataElement
  <2>1. PICK d \in Idx, ps \in Seq(Idx) :
          /\ datas' = [datas EXCEPT ![d] = [v |-> op.val.v, i |-> op.i]]
          /\ Becomes(IF op.i = op.val.n THEN "head" ELSE "data", ps, op.i + 1)
          /\ \/ op.i <= Len(op.parts) /\ d = op.parts[op.i] /\ ps = op.parts
             \/ op.i > Len(op.parts) /\ d \notin UsedDatas /\ ps = Append(op.parts, d)
    BY <1>10, AddDataShape
  <2>2. heads' = heads /\ op.pc = "data" /\ op.kind = "put" /\ op.val.v \in Versions
    BY <1>10, AddDataShape DEF PcOfKind, Storing, Values
  <2>3. Others' = Others
    BY <1>1, <2>1, <2>2 DEF Others, Working, Storing, Removing, Live, Becomes
  <2>4. \A e \in Idx : datas'[e] # NoData <=> (datas[e] # NoData \/ e = d)
    <3>1. [v |-> op.val.v, i |-> op.i] # NoData
      BY <1>2, <2>2 DEF NoData
    <3> QED
      BY <1>1, <2>1, <3>1
  <2>5. AllThere(datas, op.parts, 1) /\ \A h \in Others : Apart(op.parts, heads[h].parts)
    BY <2>2 DEF EachItsOwn, Working, Storing
  <2>6. AllThere(datas', ps, 1) /\ \A h \in Others : Apart(ps, heads[h].parts)
    <3>1. CASE ps = op.parts
      BY <1>1, <2>4, <2>5, <3>1 DEF AllThere
    <3>2. CASE d \notin UsedDatas /\ ps = Append(op.parts, d)
      <4> DEFINE n == Len(op.parts)
      <4>1. Len(ps) = n + 1 /\ ps[n + 1] = d /\ \A i \in 1 .. n : ps[i] = op.parts[i]
        BY <1>1, <3>2
      <4>2. datas[d] = NoData /\ n \in Nat
        BY <1>1, <3>2 DEF UsedDatas
      <4>3. \A i \in 1 .. n : op.parts[i] # d
        BY <1>1, <2>5, <4>2 DEF AllThere
      <4> HIDE DEF n
      <4>4. \A i \in 1 .. Len(ps) : i \in 1 .. n \/ i = n + 1
        BY <4>1, <4>2
      <4>5. \A i, j \in 1 .. n : op.parts[i] = op.parts[j] => i = j
        BY <2>5 DEF AllThere, n
      <4>6. AllThere(datas', ps, 1)
        <5>1. ASSUME NEW i \in 1 .. Len(ps), NEW j \in 1 .. Len(ps), ps[i] = ps[j]
              PROVE  i = j
          BY <4>1, <4>3, <4>4, <4>5, <5>1
        <5>2. ASSUME NEW i \in 1 .. Len(ps) PROVE datas'[ps[i]] # NoData
          BY <1>1, <2>1, <2>4, <2>5, <4>1, <4>4 DEF AllThere, n
        <5> QED
          BY <5>1, <5>2 DEF AllThere
      <4>7. ASSUME NEW h \in Others PROVE Apart(ps, heads[h].parts)
        <5>1. AllThere(datas, heads[h].parts, 1) /\ Apart(op.parts, heads[h].parts)
          BY <1>4, <2>2, <2>5
        <5>2. ASSUME NEW i \in 1 .. Len(ps), NEW j \in 1 .. Len(heads[h].parts)
              PROVE  ps[i] # heads[h].parts[j]
          BY <4>1, <4>2, <4>4, <5>1 DEF AllThere, Apart, n
        <5> QED
          BY <5>2 DEF Apart
      <4> QED
        BY <4>6, <4>7
    <3> QED
      BY <2>1, <3>1, <3>2
  <2>7. op'.parts = ps /\ op'.pc # "remove" /\ op.kind # "erase"
    BY <2>1, <2>2 DEF Becomes
  <2>8. \A h \in Others : \A i \in 1 .. Len(heads[h].parts) :
          datas[heads[h].parts[i]] # NoData => datas'[heads[h].parts[i]] # NoData
    BY <1>1, <1>5, <2>4
  <2> QED
    BY <2>2, <2>3, <2>6, <2>7, <2>8, OthersKeep
<1>11. ASSUME Storing, IsDone, datas' = datas, heads' = heads PROVE EachItsOwn'
  <2>1. Working /\ AllThere(datas, op.parts, 1)
    BY <1>11, <1>1 DEF Working, Storing, EachItsOwn, PcOfKind
  <2>2. op.idx \in Live' => BeginsWith(op.parts, heads[op.idx].parts)
    BY <1>1, <1>11, <2>1 DEF Live, WorksOnItsHead
  <2> QED
    BY <1>1, <1>11, <2>1, <2>2, HeadReleased DEF IsDone
<1>12. CASE AddDataElementFails
  BY <1>11, <1>12, DoneShape DEF AddDataElementFails, Storing
<1>13. CASE AddHeadElement
  <2> DEFINE new == [key |-> op.key, parts |-> Indices, v |-> op.val.v]
  <2>1. op.pc = "head" /\ IsDone /\ datas' = datas
    BY <1>13, DoneShape DEF AddHeadElement
  <2>2. CASE heads' = heads
    BY <1>11, <2>1, <2>2 DEF Storing
  <2>3. CASE heads' = [heads EXCEPT ![op.idx] = new]
    <3>1. new.parts = Indices
      OBVIOUS
    <3> HIDE DEF new
    <3>2. heads'[op.idx] = new /\ \A h \in Idx \ {op.idx} : heads'[h] = heads[h]
      BY <1>1, <2>3
    <3>3. /\ Indices \in Seq(Idx) /\ Len(Indices) <= Len(op.parts)
          /\ \A i \in 1 .. Len(Indices) : Indices[i] = op.parts[i]
      BY <2>1, NewHeadType
    <3>4. BeginsWith(op.parts, heads'[op.idx].parts) /\ Len(heads'[op.idx].parts) \in Nat
      BY <3>1, <3>2, <3>3 DEF BeginsWith
    <3>5. Working /\ AllThere(datas, op.parts, 1)
      BY <2>1 DEF Working, Storing, EachItsOwn, PcOfKind
    <3> QED
      BY <1>1, <2>1, <3>2, <3>4, <3>5, HeadReleased DEF IsDone
  <2> QED
    BY <1>13, <2>2, <2>3 DEF AddHeadElement
<1>14. CASE MarkDelete
  <2>1. op.pc = "mark" /\ datas' = datas /\ Becomes("remove", op.parts, op.i) /\ op.i = 1
    BY <1>14, GotoShape DEF MarkDelete, Progress
  <2>2. Working /\ op.kind # "erase" /\ AllThere(datas, op.parts, 1)
    BY <2>1 DEF Working, Removing, EachItsOwn, PcOfKind
  <2>3. \A h \in Idx \ {op.idx} : heads'[h] = heads[h]
    BY <1>1, <1>14 DEF MarkDelete
  <2>4. \A h \in Others' : h \in Others /\ heads'[h] = heads[h]
    BY <1>1, <2>1, <2>2, <2>3 DEF Others, Live, Working, Removing, Becomes
  <2> QED
    BY <1>4, <2>1, <2>2, <2>4, OthersKeep DEF Becomes
<1>15. CASE RemoveDataElement
  <2> DEFINE d == op.parts[op.i]
  <2>1. /\ op.pc = "remove" /\ op.i \in 1 .. Len(op.parts) /\ heads' = heads
        /\ d \in Idx /\ datas' = [datas EXCEPT ![d] = NoData]
        /\ Becomes("remove", op.parts, op.i + 1)
    BY <1>15, RemovalFinds
  <2>2. Working /\ op.kind # "erase" /\ AllThere(datas, op.parts, op.i)
    BY <2>1 DEF Working, Removing, EachItsOwn, PcOfKind
  <2>3. Others' = Others
    BY <1>1, <2>1 DEF Others, Live, Working, Removing, Becomes
  <2>4. \A e \in Idx : e # d => datas'[e] = datas[e]
    BY <1>1, <2>1
  <2>5. \A h \in Others : \A i \in 1 .. Len(heads[h].parts) :
          heads[h].parts[i] # d /\ heads[h].parts[i] \in Idx
    BY <1>1, <1>4, <1>5, <2>1, <2>2 DEF Apart
  <2>6. AllThere(datas', op.parts, op.i + 1)
    <3>1. \A i \in 1 .. Len(op.parts) : op.i + 1 <= i => op.parts[i] # d /\ op.i <= i
      BY <1>1, <2>1, <2>2 DEF AllThere
    <3> QED
      BY <1>1, <2>2, <2>4, <3>1 DEF AllThere
  <2> HIDE DEF d
  <2> QED
    BY <1>4, <2>1, <2>2, <2>3, <2>4, <2>5, <2>6, OthersKeep DEF Becomes
<1>16. CASE RemoveHeadElement
  <2>1. op.pc = "remove" /\ datas' = datas /\ heads' = [heads EXCEPT ![op.idx] = NoHead]
        /\ op'.pc \in {"idle", "zero", "scan"}
    BY <1>16, ReturnShape DEF RemoveHeadElement, IsDone, Becomes
  <2>2. heads'[op.idx].key = NoKey /\ \A h \in Idx \ {op.idx} : heads'[h] = heads[h]
    BY <1>1, <2>1 DEF NoHead
  <2>3. op.idx \notin Live' /\ Working
    BY <1>2, <2>1, <2>2 DEF Live, Working, Removing
  <2> QED
    BY <1>1, <2>1, <2>2, <2>3, HeadReleased
<1>17. CASE CheckMarked
  <2>1. op.pc = "zero" /\ op.kind = "check" /\ heads' = heads /\ datas' = datas
    BY <1>17, PartTypes, CheckMarkedShape DEF PcOfKind, Storing, Removing
  <2>2. Others = Live /\ Live' = Live
    BY <1>1, <2>1 DEF Others, Working, Storing, Removing, Live
  <2>3. CASE Becomes("scan", op.parts, op.i)
    BY <2>1, <2>2, <2>3, OthersKeep DEF Others, Working, Storing, Removing, Becomes
  <2>4. ASSUME NEW h \in HeadsOf(Zero), op'.pc = "mark", op'.parts = heads[h].parts
        PROVE  EachItsOwn'
    <3>1. h \in Marked
      BY <2>4 DEF HeadsOf, Marked
    <3>2. op'.parts = <<>>
      BY <2>1, <2>4, <3>1, MarksInChecks DEF Marked
    <3>3. Others' \subseteq Others
      BY <2>2 DEF Others
    <3>4. AllThere(datas', op'.parts, 1) /\ \A ps : Apart(op'.parts, ps)
      BY <3>2 DEF AllThere, Apart
    <3> QED
      BY <2>1, <2>4, <3>3, <3>4, OthersKeep
  <2> QED
    BY <1>17, <2>3, <2>4, CheckMarkedShape
<1>18. CASE CheckReferences
  <2>1. op.pc = "scan" /\ heads' = heads /\ datas' = datas /\ op'.pc \in {"orphans", "idle"}
    BY <1>18, CheckReferencesShape DEF IsDone, Becomes
  <2>2. op.kind # "erase" /\ Others' = Live /\ Others = Live
    BY <1>1, <2>1 DEF Others, Working, Storing, Removing, Live, PcOfKind
  <2> QED
    BY <2>1, <2>2, OthersKeep
<1>19. CASE RemoveOrphan
  <2>1. op.pc = "orphans" /\ heads' = heads /\ op'.pc \in {"orphans", "idle"}
    BY <1>19, RemoveOrphanShape DEF IsDone, Becomes
  <2>2. op.kind # "erase" /\ Others' = Live /\ Others = Live
    BY <1>1, <2>1 DEF Others, Working, Storing, Removing, Live, PcOfKind
  <2>3. CASE datas' = datas
    BY <2>1, <2>2, <2>3, OthersKeep
  <2>4. ASSUME NEW d \in op.todo, datas' = [datas EXCEPT ![d] = NoData] PROVE EachItsOwn'
    <3>1. op.todo = UsedDatas \ Referenced /\ Live \subseteq UsedHeads
      BY <2>1, MarkedOrLive DEF OrphansListed
    <3>2. ASSUME NEW h \in Live, NEW i \in 1 .. Len(heads[h].parts)
          PROVE  heads[h].parts[i] # d /\ heads[h].parts[i] \in Idx
      <4>1. <<h, i>> \in References /\ Target(<<h, i>>) = heads[h].parts[i]
        BY <3>1, InReferences
      <4>2. heads[h].parts[i] \in Referenced
        BY <4>1 DEF Referenced
      <4> QED
        BY <1>1, <2>4, <3>1, <4>2 DEF Live
    <3>3. \A e \in Idx : e # d => datas'[e] = datas[e]
      BY <1>1, <2>4
    <3> QED
      BY <2>1, <2>2, <3>2, <3>3, OthersKeep
  <2> QED
    BY <1>19, <2>3, <2>4, RemoveOrphanShape
<1>20. CASE EraseElement
  <2>1. CASE op' = op
    BY <1>20, <2>1 DEF EraseElement, PcOfKind, EachItsOwn
  <2>2. CASE UsedHeads \cup UsedDatas = {} /\ Done /\ UNCHANGED <<heads, datas>>
    <3>1. IsDone
      BY <2>2, DoneShape
    <3>2. Live' = {}
      BY <1>1, <2>2, MarkedOrLive DEF Live
    <3> QED
      BY <3>1, <3>2 DEF EachItsOwn, IsDone, Working, Storing, Removing, Others
  <2> QED
    BY <1>20, <2>1, <2>2 DEF EraseElement
<1>21. CASE Reset
  <2>1. IsDone /\ heads' = heads /\ datas' = datas /\ op.kind \in use.resetIn
    BY <1>21, DoneShape DEF Reset
  <2>2. op.kind # "erase" /\ op.kind # "idle"
    BY <2>1, UseTypes, PartTypes
  <2>3. CASE Storing
    BY <1>11, <2>1, <2>3
  <2>4. CASE Removing
    <3>1. Working /\ AllThere(datas, op.parts, IF op.pc = "remove" THEN op.i ELSE 1)
      BY <2>2, <2>4 DEF Working, EachItsOwn
    <3>2. op.idx \in Live' => op.idx \in Live
      BY <1>1, <2>1 DEF Live
    <3>3. ASSUME op.idx \in Live, op.pc = "remove"
          PROVE  op.parts = <<>>
      <4>1. use.writeFails
        BY <3>1, <3>3 DEF WorksOnItsHead
      <4>2. op.kind = "delete"
        BY <2>2, <2>4, <3>1, <3>3, PartTypes, MarkedOrLive DEF WorksOnItsHead, PcOfKind,
           Storing, Removing
      <4>3. use.sizes \subseteq {0}
        BY <2>1, <4>1, <4>2 DEF RemovesSafely
      <4> QED
        BY <4>3 DEF SizedParts
    <3>4. ASSUME op.idx \in Live
          PROVE  BeginsWith(op.parts, heads[op.idx].parts) /\ AllThere(datas, op.parts, 1)
      <4>1. BeginsWith(op.parts, heads[op.idx].parts)
        BY <3>1, <3>4 DEF WorksOnItsHead
      <4>2. op.pc = "remove" => AllThere(datas, op.parts, 1)
        BY <3>3, <3>4 DEF AllThere
      <4> QED
        BY <3>1, <4>1, <4>2
    <3> QED
      BY <1>1, <2>1, <3>1, <3>2, <3>4, HeadReleased DEF IsDone
  <2>5. CASE ~ Storing /\ ~ Removing
    <3>1. Others = Live /\ Others' = Live
      BY <1>1, <2>1, <2>5 DEF Others, Working, Live, IsDone, Storing, Removing
    <3> QED
      BY <2>1, <2>2, <3>1, OthersKeep DEF IsDone
  <2> QED
    BY <2>3, <2>4, <2>5
<1>22. CASE UNCHANGED vars
  BY <1>1, <1>3, <1>22
     DEF vars, EachItsOwn, Others, Working, Storing, Removing, Live, AllThere, Apart
<1> QED
  BY <1>7, <1>8, <1>9, <1>10, <1>12, <1>13, <1>14, <1>15, <1>16, <1>17, <1>18, <1>19,
     <1>20, <1>21, <1>22 DEF Next, Call, Step

SafeRemovals == \A u \in Uses : RemovesSafely(u)

LEMMA ItsOwnInit ==
  ASSUME Init
  PROVE  ItsOwnInv
<1>1. TypeInv /\ HeadInv
  BY HeadInvInit DEF HeadInv
<1>2. /\ NoKey \notin Keys \cup {Zero, Junk} /\ \A h \in Idx : heads[h] = NoHead
      /\ op.pc = "idle" /\ op.kind = "idle" /\ op.parts = <<>>
  BY UseTypes DEF Init, Idle
<1>3. NoHead.key = NoKey /\ NoHead.parts = <<>>
  BY DEF NoHead
<1>4. Live = {} /\ Marked = {} /\ ~ Working
  BY <1>2, <1>3 DEF Live, Marked, Working, Storing, Removing
<1> QED
  BY <1>1, <1>2, <1>3, <1>4 DEF HeadInv, ItsOwnInv, OrphansListed, SizedParts, EachItsOwn,
     Others, WorksOnItsHead, MarksAreLeft

LEMMA ItsOwnStep ==
  ASSUME SafeRemovals, ItsOwnInv, [Next]_vars
  PROVE  ItsOwnInv'
<1>1. HeadInv' /\ RemovesSafely(use)
  BY HeadInvStep, PartTypes DEF ItsOwnInv, HeadInv, TypeInv, SafeRemovals
<1>2. OrphansListed' /\ SizedParts'
  BY OrphansStep, SizedStep DEF ItsOwnInv
<1>3. EachItsOwn' /\ WorksOnItsHead' /\ MarksAreLeft'
  BY <1>1, OwnStep, WorksStep, MarksStep
<1> QED
  BY <1>1, <1>2, <1>3 DEF ItsOwnInv, HeadInv

(* The pass over all elements finds one for every reference.               *)
LEMMA ScanFinds ==
  ASSUME ItsOwnInv, RemovesSafely(use), op.pc = "scan"
  PROVE  EachFound
<1> USE DEF ItsOwnInv, TypeInv
<1>1. op.kind = "check" /\ Others = Live
  BY PartTypes DEF PcOfKind, Storing, Removing, Others, Working, Progress
<1>2. CASE Marked # {}
  <2>1. \A h \in Idx : heads[h].parts = <<>>
    BY <1>1, <1>2, MarksInChecks
  <2>2. References = {}
    <3>1. ASSUME NEW r \in References PROVE FALSE
      <4>1. r[1] \in Idx /\ r[2] \in 1 .. Len(heads[r[1]].parts)
        BY InReferences DEF UsedHeads
      <4>2. heads[r[1]].parts = <<>>
        BY <2>1, <4>1
      <4> QED
        BY <4>1, <4>2
    <3> QED
      BY <3>1
  <2> QED
    BY <2>2 DEF EachFound, Referenced
<1>3. CASE Marked = {}
  <2>1. UsedHeads \subseteq Live
    BY <1>3, MarkedOrLive
  <2>2. \A r \in References : /\ r[1] \in Live /\ r[2] \in 1 .. Len(heads[r[1]].parts)
                              /\ Target(r) = heads[r[1]].parts[r[2]] /\ Target(r) \in Idx
                              /\ r = <<r[1], r[2]>>
    BY <2>1, InReferences DEF Target
  <2>3. /\ \A h \in Live : AllThere(datas, heads[h].parts, 1)
        /\ \A h, g \in Live : h # g => Apart(heads[h].parts, heads[g].parts)
    BY <1>1 DEF EachItsOwn
  <2>4. Referenced \subseteq UsedDatas
    BY <2>2, <2>3 DEF Referenced, UsedDatas, AllThere
  <2>5. ASSUME NEW r \in References, NEW s \in References, Target(r) = Target(s)
        PROVE  r = s
    <3>1. r[1] = s[1]
      BY <2>2, <2>3, <2>5 DEF Apart
    <3>2. r[2] = s[2]
      BY <2>2, <2>3, <2>5, <3>1 DEF AllThere
    <3> QED
      BY <2>2, <3>1, <3>2
  <2> QED
    BY <2>4, <2>5 DEF EachFound
<1> QED
  BY <1>2, <1>3

LEMMA ConsistentWhenIdle ==
  ASSUME ItsOwnInv
  PROVE  ElementsConsistent
<1> USE DEF ItsOwnInv, TypeInv
<1> DEFINE ofKeys == {r \in References : heads[r[1]].key \in Keys}
<1>1. SUFFICES ASSUME op.kind = "idle"
               PROVE  /\ {Target(r) : r \in ofKeys} \subseteq UsedDatas
                      /\ \A r, s \in ofKeys : Target(r) = Target(s) => r = s
  BY DEF ElementsConsistent
<1>2. Others = Live
  BY <1>1 DEF Others, Working, Storing, Removing, PcOfKind
<1>3. \A r \in ofKeys : /\ r[1] \in Live /\ r[2] \in 1 .. Len(heads[r[1]].parts)
                        /\ Target(r) = heads[r[1]].parts[r[2]] /\ Target(r) \in Idx
                        /\ r = <<r[1], r[2]>>
  BY InReferences DEF Target, Live, UsedHeads
<1>4. /\ \A h \in Live : AllThere(datas, heads[h].parts, 1)
      /\ \A h, g \in Live : h # g => Apart(heads[h].parts, heads[g].parts)
  BY <1>1, <1>2 DEF EachItsOwn
<1> HIDE DEF ofKeys
<1>5. {Target(r) : r \in ofKeys} \subseteq UsedDatas
  BY <1>3, <1>4 DEF UsedDatas, AllThere
<1>6. ASSUME NEW r \in ofKeys, NEW s \in ofKeys, Target(r) = Target(s)
      PROVE  r = s
  <2>1. r[1] = s[1]
    BY <1>3, <1>4, <1>6 DEF Apart
  <2>2. r[2] = s[2]
    BY <1>3, <1>4, <1>6, <2>1 DEF AllThere
  <2> QED
    BY <1>3, <2>1, <2>2
<1> QED
  BY <1>5, <1>6

(* Between operations every key has its data elements and shares none,     *)
(* whatever stores failed or were cut off: an index that FindFreeIndex     *)
(* hands out in the middle of a store is no other key's.                   *)
THEOREM ElementsStayConsistent ==
  ASSUME SafeRemovals
  PROVE  Spec => []ElementsConsistent
<1>1. Init => ItsOwnInv
  BY ItsOwnInit
<1>2. ItsOwnInv /\ [Next]_vars => ItsOwnInv'
  BY ItsOwnStep
<1>3. ItsOwnInv => ElementsConsistent
  BY ConsistentWhenIdle
<1> QED
  BY <1>1, <1>2, <1>3, PTL DEF Spec

LEMMA FaultStep ==
  ASSUME SafeRemovals, ItsOwnInv, NoAssertion, [Next]_vars
  PROVE  NoAssertion'
<1>1. RemovesSafely(use) /\ TypeOK
  BY PartTypes DEF ItsOwnInv, TypeInv, SafeRemovals
<1>2. CASE CheckReferences
  BY <1>1, <1>2, ScanFinds DEF CheckReferences, NoAssertion, rest
<1>3. fault' = fault \/ CheckReferences
  BY DEF Next, Call, Step, vars, rest, Begin, Goto, Done, Return, Delete, Put,
     ConsistencyCheck, ErasePartition, AddDataElement, AddDataElementFails, AddHeadElement,
     MarkDelete, RemoveDataElement, RemoveHeadElement, CheckMarked, RemoveOrphan,
     EraseElement, Reset
<1> QED
  BY <1>2, <1>3 DEF NoAssertion

(* The assertions of the consistency check never fail: no reference is     *)
(* without an element of its own when all elements are gone through.       *)
THEOREM ChecksAssertNothing ==
  ASSUME SafeRemovals
  PROVE  Spec => []NoAssertion
<1>1. Init => ItsOwnInv /\ NoAssertion
  BY ItsOwnInit DEF Init, NoAssertion
<1>2. ItsOwnInv /\ NoAssertion /\ [Next]_vars => (ItsOwnInv /\ NoAssertion)'
  BY ItsOwnStep, FaultStep
<1> QED
  BY <1>1, <1>2, PTL DEF Spec
-----------------------------------------------------------------------------
(* Removals that a check completes.                                        *)
ZeroesGone == op.pc \in {"scan", "orphans"} => HeadsOf(Zero) = {}

LEMMA ZeroesStep ==
  ASSUME ItsOwnInv, ZeroesGone, [Next]_vars
  PROVE  ZeroesGone'
<1> USE DEF ItsOwnInv, TypeInv
<1>1. Idx' = Idx
  BY UseIsFixed
<1>2. ASSUME op'.pc \notin {"scan", "orphans"} PROVE ZeroesGone'
  BY <1>2 DEF ZeroesGone
<1>3. ASSUME heads' = heads, HeadsOf(Zero) = {} PROVE ZeroesGone'
  BY <1>1, <1>3 DEF ZeroesGone, HeadsOf
<1>4. CASE Call
  BY <1>2, <1>4, DeleteShape, PutShape, WholeStoreShape DEF StartsAt, Call
<1>5. CASE AddDataElement
  BY <1>2, <1>5, AddDataShape DEF Becomes
<1>6. CASE AddDataElementFails \/ AddHeadElement \/ Reset
  BY <1>2, <1>6, DoneShape DEF AddDataElementFails, AddHeadElement, Reset, IsDone
<1>7. CASE MarkDelete
  BY <1>2, <1>7, GotoShape DEF MarkDelete, Becomes
<1>8. CASE RemoveDataElement
  BY <1>2, <1>8, RemovalFinds DEF Becomes
<1>9. CASE RemoveHeadElement
  BY <1>2, <1>9, ReturnShape DEF RemoveHeadElement, Becomes, IsDone
<1>10. CASE CheckMarked
  BY <1>2, <1>3, <1>10, CheckMarkedShape
<1>11. CASE CheckReferences
  BY <1>3, <1>11, CheckReferencesShape DEF ZeroesGone
<1>12. CASE RemoveOrphan
  BY <1>3, <1>12, RemoveOrphanShape DEF ZeroesGone
<1>13. CASE EraseElement
  BY <1>2, <1>13, DoneShape DEF EraseElement, IsDone
<1>14. CASE UNCHANGED vars
  BY <1>1, <1>14 DEF vars, ZeroesGone, HeadsOf
<1> QED
  BY <1>4, <1>5, <1>6, <1>7, <1>8, <1>9, <1>10, <1>11, <1>12, <1>13, <1>14 DEF Next, Step

(* A completed check leaves no mark: it goes on with removals until no     *)
(* head has the zero hash, and where the mark is found at all, no head     *)
(* has the other one.                                                      *)
THEOREM ChecksCompleteRemovals ==
  ASSUME SafeRemovals, \A u \in Uses : MarksZero(u)
  PROVE  Spec => RemovalsCompleted
<1>1. Init => ItsOwnInv /\ ZeroesGone
  <2>1. Init => op.pc = "idle"
    BY DEF Init, Idle
  <2> QED
    BY <2>1, ItsOwnInit DEF ZeroesGone
<1>2. ItsOwnInv /\ ZeroesGone /\ [Next]_vars => (ItsOwnInv /\ ZeroesGone)'
  BY ItsOwnStep, ZeroesStep
<1>3. ASSUME ItsOwnInv, ZeroesGone, op.pc = "orphans"
      PROVE  HeadsOf(Zero) \cup HeadsOf(Junk) = {}
  <2> USE <1>3 DEF ItsOwnInv, TypeInv
  <2>1. HeadsOf(Zero) = {} /\ op.kind = "check" /\ use.checks /\ MarksZero(use)
    BY PartTypes DEF ZeroesGone, PcOfKind, Storing, Removing
  <2>2. HeadsOf(Junk) \subseteq Marked
    BY DEF HeadsOf, Marked
  <2>3. CASE "delete" \notin use.resetIn
    BY <2>1, <2>2, <2>3 DEF MarksAreLeft
  <2>4. CASE Junk \notin use.marks
    BY <2>1, <2>4, UseTypes, PartTypes DEF HeadsOf, Hashes
  <2> QED
    BY <2>1, <2>3, <2>4 DEF MarksZero
<1>4. ItsOwnInv /\ ZeroesGone =>
        [op.pc = "orphans" /\ op'.kind = "idle" /\ op.todo = {}
           => HeadsOf(Zero) \cup HeadsOf(Junk) = {}]_vars
  BY <1>3
<1> QED
  BY <1>1, <1>2, <1>4, PTL DEF Spec, RemovalsCompleted
-----------------------------------------------------------------------------
(* What keys read as.                                                      *)
Content(hd, ds) ==
  IF \E i \in 1 .. Len(hd.parts) : ds[hd.parts[i]] = NoData
    THEN Failure
    ELSE <<hd.v>> \o [i \in 1 .. Len(hd.parts) |-> ds[hd.parts[i]]]

LEMMA ReadContent ==
  ASSUME NEW k, NEW h
  PROVE  /\ HeadsOf(k) = {h} => Read(k) = Content(heads[h], datas)
         /\ HeadsOf(k)' = {h} => Read(k)' = Content(heads'[h], datas')
         /\ HeadsOf(k) = {} => Read(k) = Nothing
         /\ HeadsOf(k)' = {} => Read(k)' = Nothing
<1>1. (CHOOSE x \in {h} : TRUE) = h
  OBVIOUS
<1>2. ReadHead(h) = Content(heads[h], datas)
  BY DEF ReadHead, Content
<1>3. ReadHead(h)' = Content(heads'[h], datas')
  BY DEF ReadHead, Content, NoData, Failure
<1>4. ASSUME HeadsOf(k) = {h} PROVE Read(k) = ReadHead(h)
  BY <1>1, <1>4 DEF Read
<1>5. ASSUME HeadsOf(k)' = {h} PROVE Read(k)' = ReadHead(h)'
  BY <1>1, <1>5 DEF Read
<1>6. HeadsOf(k) = {} => Read(k) = Nothing
  BY DEF Read
<1>7. HeadsOf(k)' = {} => Read(k)' = Nothing
  BY DEF Read, Nothing
<1> QED
  BY <1>2, <1>3, <1>4, <1>5, <1>6, <1>7

LEMMA SameContent ==
  ASSUME NEW hd, NEW ds, NEW es,
         \A i \in 1 .. Len(hd.parts) : ds[hd.parts[i]] = es[hd.parts[i]]
  PROVE  Content(hd, ds) = Content(hd, es)
<1>1. [i \in 1 .. Len(hd.parts) |-> ds[hd.parts[i]]]
        = [i \in 1 .. Len(hd.parts) |-> es[hd.parts[i]]]
  OBVIOUS
<1> QED
  BY <1>1 DEF Content

(* Outside an erasure, no data element of another head changes ...         *)
LEMMA DatasKept ==
  ASSUME ItsOwnInv, [Next]_vars, op.kind # "erase",
         NEW h \in Others, NEW i \in 1 .. Len(heads[h].parts)
  PROVE  datas'[heads[h].parts[i]] = datas[heads[h].parts[i]]
<1> USE DEF ItsOwnInv, TypeInv
<1> DEFINE e == heads[h].parts[i]
<1>1. h \in Live /\ h \in Idx /\ e \in Idx /\ datas \in [Idx -> Piece]
      /\ \A j \in 1 .. Len(op.parts) : op.parts[j] \in Idx
  BY PartTypes DEF Others, Live
<1>2. datas[e] # NoData
  BY DEF EachItsOwn, AllThere
<1>3. Working => \A j \in 1 .. Len(op.parts) : op.parts[j] # e
  BY DEF EachItsOwn, Apart
<1> HIDE DEF e
<1>4. CASE AddDataElement
  <2>1. PICK d \in Idx, ps \in Seq(Idx) :
          /\ datas' = [datas EXCEPT ![d] = [v |-> op.val.v, i |-> op.i]]
          /\ \/ op.i <= Len(op.parts) /\ d = op.parts[op.i]
             \/ d \notin UsedDatas
    BY <1>4, AddDataShape
  <2>2. Working /\ op.i \in Nat \ {0} /\ Len(op.parts) \in Nat
    BY <1>4, PartTypes DEF AddDataElement, Working, Storing
  <2>3. d # e
    BY <1>1, <1>2, <1>3, <2>1, <2>2 DEF UsedDatas
  <2> QED
    BY <1>1, <2>1, <2>3 DEF e
<1>5. CASE RemoveDataElement
  <2>1. op.pc = "remove" /\ op.i \in 1 .. Len(op.parts)
        /\ datas' = [datas EXCEPT ![op.parts[op.i]] = NoData]
    BY <1>5, RemovalFinds
  <2> QED
    BY <1>1, <1>3, <2>1 DEF Working, Removing, e
<1>6. CASE RemoveOrphan
  <2>1. ASSUME NEW d \in op.todo, datas' = [datas EXCEPT ![d] = NoData]
        PROVE  datas'[e] = datas[e]
    <3>1. d \notin Referenced
      BY <1>6, <2>1 DEF RemoveOrphan, OrphansListed
    <3>2. h \in UsedHeads
      BY <1>1, MarkedOrLive
    <3>3. <<h, i>> \in References /\ Target(<<h, i>>) = e
      BY <3>2, InReferences DEF e
    <3> QED
      BY <1>1, <2>1, <3>1, <3>3 DEF Referenced
  <2> QED
    BY <1>6, <2>1, RemoveOrphanShape DEF e
<1>7. op.pc # "erase"
  BY DEF PcOfKind
<1> QED
  BY <1>4, <1>5, <1>6, <1>7 DEF Next, Call, Step, vars, Delete, Put, ConsistencyCheck,
     ErasePartition, AddDataElementFails, AddHeadElement, MarkDelete, RemoveHeadElement,
     CheckMarked, CheckReferences, EraseElement, Reset

(* ... and the key of such a head reads as before.                         *)
LEMMA ReadKept ==
  ASSUME ItsOwnInv, [Next]_vars, op.kind # "erase", NEW k \in Keys,
         op.kind \in {"put", "delete"} => k # op.key
  PROVE  Read(k)' = Read(k) /\ HeadsOf(k)' = HeadsOf(k)
<1> USE DEF ItsOwnInv, TypeInv
<1>1. Idx' = Idx /\ heads \in [Idx -> HeadType] /\ op.idx \in Idx
  BY UseIsFixed, PartTypes
<1>2. use.marks \subseteq {Zero, Junk} /\ NoKey \notin Keys /\ Keys \cap {Zero, Junk} = {}
      /\ NoHead.key = NoKey
  BY UseTypes, PartTypes DEF NoHead
<1>3. Working => heads[op.idx].key # k
  <2>1. CASE op.idx \in Live
    BY <2>1, PartTypes, MarkedOrLive DEF WorksOnItsHead, PcOfKind, Working, Storing, Removing
  <2>2. CASE op.idx \notin Live
    BY <1>1, <2>2 DEF Live
  <2> QED
    BY <2>1, <2>2
<1>4. \A h \in HeadsOf(k) : h \in Others
  BY <1>3 DEF HeadsOf, Others, Live
<1>5. /\ \A h \in HeadsOf(k) : heads'[h] = heads[h]
      /\ HeadsOf(k)' = HeadsOf(k)
  <2>1. ASSUME NEW x, heads' = [heads EXCEPT ![op.idx] = x], x.key # k, Working
        PROVE  <1>5!1 /\ <1>5!2
    <3>1. \A h \in Idx : heads'[h] = IF h = op.idx THEN x ELSE heads[h]
      BY <1>1, <2>1
    <3> QED
      BY <1>1, <1>3, <2>1, <3>1 DEF HeadsOf
  <2>2. CASE heads' = heads
    BY <1>1, <2>2 DEF HeadsOf
  <2>3. CASE \E h \in Idx : /\ heads' = [heads EXCEPT ![h] = NoHead]
                            /\ op.pc = "erase" \/ (op.pc = "remove" /\ h = op.idx)
    BY <1>2, <2>1, <2>3 DEF PcOfKind, Working, Removing
  <2>4. ASSUME NEW m \in use.marks, op.pc = "mark",
               heads' = [heads EXCEPT ![op.idx] = [key |-> m, parts |-> op.parts,
                                                   v |-> NoVersion]]
        PROVE  <1>5!1 /\ <1>5!2
    <3> DEFINE new == [key |-> m, parts |-> op.parts, v |-> NoVersion]
    <3>1. new.key # k /\ heads' = [heads EXCEPT ![op.idx] = new] /\ Working
      BY <1>2, <2>4 DEF Working, Removing
    <3> HIDE DEF new
    <3> QED
      BY <2>1, <3>1
  <2>5. CASE /\ op.pc = "head"
             /\ heads' = [heads EXCEPT ![op.idx] = [key |-> op.key, parts |-> Indices,
                                                    v |-> op.val.v]]
    <3> DEFINE new == [key |-> op.key, parts |-> Indices, v |-> op.val.v]
    <3>1. new.key # k /\ heads' = [heads EXCEPT ![op.idx] = new] /\ Working
      BY <2>5 DEF Working, Storing, PcOfKind
    <3> HIDE DEF new
    <3> QED
      BY <2>1, <3>1
  <2> QED
    BY <2>2, <2>3, <2>4, <2>5, HeadsChange
<1>6. CASE HeadsOf(k) = {}
  BY <1>5, <1>6, ReadContent
<1>7. ASSUME NEW h \in HeadsOf(k) PROVE Read(k)' = Read(k)
  <2>1. HeadsOf(k) = {h}
    BY DEF HeadsOf, OneEach, Live
  <2>2. \A i \in 1 .. Len(heads[h].parts) :
          datas'[heads[h].parts[i]] = datas[heads[h].parts[i]]
    BY <1>4, DatasKept
  <2>3. Content(heads[h], datas') = Content(heads[h], datas)
    BY <2>2, SameContent
  <2> QED
    BY <1>5, <2>1, <2>3, ReadContent
<1> QED
  BY <1>5, <1>6, <1>7
-----------------------------------------------------------------------------
(* Stores that are whole, for the uses in which stores are safe too.       *)
SafeStores == \A u \in Uses : StoresSafely(u)

StoresWhole ==
  op.kind = "put" =>
    /\ \A j \in 1 .. op.i - 1 : datas[op.parts[j]] = [v |-> op.val.v, i |-> j]
    /\ op.val.n = 0 => op.parts = <<>>
    /\ HeadsOf(op.key) # {} => use.overwrites
    /\ use.roomy => Cardinality(Idx \ UsedDatas) >= op.val.n - op.i + 1

(* Where an operation can still fail, its key reads as it did.             *)
ReadsAsBefore ==
  /\ op.kind = "put" /\ use.sizes \subseteq {0} => Read(op.key) = before[op.key]
  /\ op.kind = "delete" /\ op.idx \in Live /\ (op.pc = "mark" \/ use.sizes \subseteq {0})
       => Read(op.key) = before[op.key]

DeletesItsHead == op.kind = "delete" => HeadsOf(op.key) \subseteq {op.idx}

KeepInv == ItsOwnInv /\ StoresWhole /\ ReadsAsBefore /\ DeletesItsHead

LEMMA PutSteps ==
  ASSUME TypeInv, [Next]_vars, op.kind = "put"
  PROVE  /\ AddDataElement \/ AddDataElementFails \/ AddHeadElement \/ Reset
              \/ UNCHANGED vars
         /\ before' = before
<1>1. op.pc \in {"data", "head"}
  BY DEF TypeInv, PcOfKind, Storing
<1>2. AddDataElement \/ AddDataElementFails \/ AddHeadElement \/ Reset \/ UNCHANGED vars
  BY <1>1 DEF Next, Call, Step, MarkDelete, RemoveDataElement,
     RemoveHeadElement, CheckMarked, CheckReferences, RemoveOrphan, EraseElement,
     Delete, Put, ConsistencyCheck, ErasePartition, IsIdle
<1> QED
  BY <1>2 DEF AddDataElement, AddDataElementFails, AddHeadElement, Reset, Done, rest, vars

LEMMA DeleteSteps ==
  ASSUME TypeInv, [Next]_vars, op.kind = "delete"
  PROVE  /\ MarkDelete \/ RemoveDataElement \/ RemoveHeadElement \/ Reset \/ UNCHANGED vars
         /\ before' = before
<1>1. op.pc \in {"mark", "remove"}
  BY DEF TypeInv, PcOfKind, Removing
<1>2. MarkDelete \/ RemoveDataElement \/ RemoveHeadElement \/ Reset \/ UNCHANGED vars
  BY <1>1 DEF Next, Call, Step, AddDataElement, AddDataElementFails, AddHeadElement,
     CheckMarked, CheckReferences, RemoveOrphan, EraseElement,
     Delete, Put, ConsistencyCheck, ErasePartition, IsIdle
<1> QED
  BY <1>2 DEF MarkDelete, RemoveDataElement, RemoveHeadElement, Reset, Return, Goto, Done,
     rest, vars

LEMMA ReadSame ==
  ASSUME HeadInv, NEW k \in Keys, Idx' = Idx, heads' = heads, datas' = datas
  PROVE  Read(k)' = Read(k) /\ HeadsOf(k)' = HeadsOf(k)
<1>1. HeadsOf(k)' = HeadsOf(k)
  BY DEF HeadsOf
<1>2. CASE HeadsOf(k) = {}
  BY <1>1, <1>2, ReadContent
<1>3. ASSUME NEW h \in HeadsOf(k) PROVE Read(k)' = Read(k)
  <2>1. HeadsOf(k) = {h}
    BY DEF HeadsOf, HeadInv, OneEach, Live
  <2> QED
    BY <1>1, <2>1, ReadContent
<1> QED
  BY <1>1, <1>2, <1>3

(* Every call notes what the keys read as.                                 *)
LEMMA CallNotes ==
  ASSUME Call
  PROVE  before' = [k \in Keys |-> Read(k)]
  BY DEF Call, Delete, Put, ConsistencyCheck, ErasePartition, Begin

(* The piece that is written is the one that the parts name at its place.  *)
LEMMA PieceWritten ==
  ASSUME ItsOwnInv, AddDataElement
  PROVE  \E d \in Idx, ps \in Seq(Idx) :
           /\ datas' = [datas EXCEPT ![d] = [v |-> op.val.v, i |-> op.i]]
           /\ Becomes(IF op.i = op.val.n THEN "head" ELSE "data", ps, op.i + 1)
           /\ ps[op.i] = d /\ datas'[d] = [v |-> op.val.v, i |-> op.i]
           /\ \A j \in 1 .. op.i - 1 : ps[j] = op.parts[j] /\ ps[j] \in Idx /\ ps[j] # d
           /\ [v |-> op.val.v, i |-> op.i] # NoData
<1> USE DEF ItsOwnInv, TypeInv
<1>1. PICK d \in Idx, ps \in Seq(Idx) :
        /\ datas' = [datas EXCEPT ![d] = [v |-> op.val.v, i |-> op.i]]
        /\ Becomes(IF op.i = op.val.n THEN "head" ELSE "data", ps, op.i + 1)
        /\ \/ op.i <= Len(op.parts) /\ d = op.parts[op.i] /\ ps = op.parts
           \/ op.i > Len(op.parts) /\ d \notin UsedDatas /\ ps = Append(op.parts, d)
  BY AddDataShape
<1>2. op.pc = "data" /\ op.i \in Nat \ {0} /\ op.i <= Len(op.parts) + 1
      /\ op.parts \in Seq(Idx) /\ Len(op.parts) \in Nat /\ datas \in [Idx -> Piece]
      /\ \A j \in 1 .. Len(op.parts) : op.parts[j] \in Idx
  BY PartTypes DEF AddDataElement, Progress
<1>3. AllThere(datas, op.parts, 1)
  BY <1>2 DEF EachItsOwn, Working, Storing, PcOfKind
<1>4. ASSUME op.i <= Len(op.parts) /\ d = op.parts[op.i] /\ ps = op.parts
      PROVE  ps[op.i] = d
             /\ \A j \in 1 .. op.i - 1 : ps[j] = op.parts[j] /\ ps[j] \in Idx /\ ps[j] # d
  <2>1. \A j \in 1 .. op.i - 1 : ps[j] = op.parts[j] /\ ps[j] \in Idx /\ ps[j] # d
    BY <1>2, <1>3, <1>4 DEF AllThere
  <2> QED
    BY <1>4, <2>1
<1>5. ASSUME op.i > Len(op.parts) /\ d \notin UsedDatas /\ ps = Append(op.parts, d)
      PROVE  ps[op.i] = d
             /\ \A j \in 1 .. op.i - 1 : ps[j] = op.parts[j] /\ ps[j] \in Idx /\ ps[j] # d
  <2>1. op.i = Len(op.parts) + 1 /\ datas[d] = NoData
    BY <1>1, <1>2, <1>5 DEF UsedDatas
  <2>2. ps[op.i] = d /\ \A j \in 1 .. op.i - 1 : ps[j] = op.parts[j] /\ ps[j] \in Idx
    BY <1>2, <1>5, <2>1
  <2>3. \A j \in 1 .. op.i - 1 : ps[j] # d
    BY <1>2, <1>3, <2>1, <2>2 DEF AllThere
  <2> QED
    BY <2>2, <2>3
<1>6. [v |-> op.val.v, i |-> op.i] # NoData
  BY <1>2 DEF NoData
<1>7. datas'[d] = [v |-> op.val.v, i |-> op.i]
  BY <1>1, <1>2
<1> QED
  BY <1>1, <1>4, <1>5, <1>6, <1>7

LEMMA IdxFinite == ASSUME TypeOK PROVE IsFiniteSet(Idx)
<1>1. 0 \in Int /\ use.indices - 1 \in Int
  BY UseTypes DEF TypeOK
<1> QED
  BY <1>1, FS_Interval DEF Idx

LEMMA WholeStep ==
  ASSUME ItsOwnInv, StoresWhole, SafeStores, [Next]_vars
  PROVE  StoresWhole'
<1> USE DEF ItsOwnInv, TypeInv
<1>1. Idx' = Idx /\ use' = use /\ op.val.n \in Nat /\ op.i \in Nat \ {0}
      /\ datas \in [Idx -> Piece] /\ use \in Uses /\ Values' = Values
  BY UseIsFixed, PartTypes
<1>2. ASSUME op'.kind # "put" PROVE StoresWhole'
  BY <1>2 DEF StoresWhole
<1>3. ASSUME NEW k \in Keys, NEW val \in Values, Put(k, val) PROVE StoresWhole'
  <2>1. PICK h \in Idx, ps \in Seq(Idx) :
          /\ StartsAt("put", IF val.n > 0 THEN "data" ELSE "head", k, h, ps)
          /\ \/ h \in HeadsOf(k) /\ ps = heads[h].parts
             \/ HeadsOf(k) = {} /\ ps = <<>>
    BY <1>3, PutShape
  <2>2. heads' = heads /\ datas' = datas /\ op'.val = val /\ MayPut(k, val)
    BY <1>3, PutShape DEF Put
  <2>3. HeadsOf(k)' = HeadsOf(k) /\ UsedDatas' = UsedDatas
    BY <1>1, <2>2 DEF HeadsOf, UsedDatas, NoData
  <2>4. op'.key = k /\ op'.parts = ps /\ op'.i = 1
    BY <2>1 DEF StartsAt
  <2>5. val.n = 0 => ps = <<>>
    <3>1. ASSUME val.n = 0, HeadsOf(k) # {}, h \in HeadsOf(k), ps = heads[h].parts
          PROVE  ps = <<>>
      <4>1. 0 \in use.sizes /\ use.overwrites
        BY <2>2, <3>1 DEF Values, MayPut
      <4>2. use.sizes \subseteq {0}
        BY <1>1, <4>1 DEF SafeStores, StoresSafely
      <4> QED
        BY <3>1, <4>2 DEF SizedParts, HeadsOf
    <3> QED
      BY <2>1, <3>1
  <2>6. HeadsOf(k) # {} => use.overwrites
    BY <2>2 DEF MayPut
  <2>7. use.roomy => Cardinality(Idx \ UsedDatas) >= val.n - 1 + 1
    <3>1. val.n \in Nat
      BY UseTypes, PartTypes DEF Values
    <3> QED
      BY <2>2, <3>1 DEF MayPut
  <2>8. HeadsOf(op'.key) # {} <=> \E g \in Idx : heads[g].key = k
    BY <2>4 DEF HeadsOf
  <2>9. HeadsOf(op.key)' # {} <=> \E g \in Idx : heads[g].key = k
    BY <1>1, <2>2, <2>4 DEF HeadsOf
  <2> QED
    BY <1>1, <2>2, <2>3, <2>4, <2>5, <2>6, <2>7, <2>8, <2>9 DEF StoresWhole
<1>4. ASSUME op.kind = "put", AddDataElement PROVE StoresWhole'
  <2>1. PICK d \in Idx, ps \in Seq(Idx) :
          /\ datas' = [datas EXCEPT ![d] = [v |-> op.val.v, i |-> op.i]]
          /\ Becomes(IF op.i = op.val.n THEN "head" ELSE "data", ps, op.i + 1)
          /\ ps[op.i] = d /\ datas'[d] = [v |-> op.val.v, i |-> op.i]
          /\ \A j \in 1 .. op.i - 1 : ps[j] = op.parts[j] /\ ps[j] \in Idx /\ ps[j] # d
          /\ [v |-> op.val.v, i |-> op.i] # NoData
    BY <1>4, PieceWritten
  <2>2. op'.parts = ps /\ op'.i = op.i + 1 /\ op'.val = op.val /\ op'.key = op.key
    BY <2>1 DEF Becomes
  <2>3. heads' = heads /\ op.i <= op.val.n
    BY <1>4 DEF AddDataElement, Progress
  <2>4. \A j \in 1 .. op.i : datas'[ps[j]] = [v |-> op.val.v, i |-> j]
    <3>1. ASSUME NEW j \in 1 .. op.i - 1 PROVE datas'[ps[j]] = [v |-> op.val.v, i |-> j]
      BY <1>1, <1>4, <2>1, <3>1 DEF StoresWhole
    <3> QED
      BY <1>1, <2>1, <3>1
  <2>5. HeadsOf(op.key)' # {} => use.overwrites
    BY <1>1, <1>4, <2>2, <2>3 DEF StoresWhole, HeadsOf
  <2>6. use.roomy => Cardinality((Idx \ UsedDatas)') >= op.val.n - (op.i + 1) + 1
    <3> DEFINE F == Idx \ UsedDatas
    <3>1. F' = F \ {d}
      <4>1. \A e \in Idx : datas'[e] # NoData <=> (datas[e] # NoData \/ e = d)
        BY <1>1, <2>1
      <4>2. NoData' = NoData
        BY DEF NoData
      <4> QED
        BY <1>1, <4>1, <4>2 DEF UsedDatas
    <3>2. IsFiniteSet(F) /\ Cardinality(F) \in Nat
      BY IdxFinite, FS_Subset, FS_CardinalityType
    <3>3. use.roomy => Cardinality(F) >= op.val.n - op.i + 1
      BY <1>4 DEF StoresWhole
    <3> HIDE DEF F
    <3>4. Cardinality(F') >= Cardinality(F) - 1 /\ Cardinality(F') \in Nat
      <4>1. Cardinality(F \ {d}) = IF d \in F THEN Cardinality(F) - 1 ELSE Cardinality(F)
        BY <3>2, FS_RemoveElement
      <4>2. Cardinality(F \ {d}) \in Nat
        BY <3>2, FS_RemoveElement, FS_CardinalityType
      <4> QED
        BY <3>1, <3>2, <4>1, <4>2
    <3>5. use.roomy => Cardinality(F') >= op.val.n - (op.i + 1) + 1
      BY <1>1, <3>2, <3>3, <3>4
    <3> QED
      BY <3>5 DEF F
  <2>7. op.i + 1 - 1 = op.i /\ op'.val.n # 0
    BY <1>1, <2>2, <2>3
  <2> QED
    BY <1>1, <2>2, <2>4, <2>5, <2>6, <2>7 DEF StoresWhole
<1>5. CASE UNCHANGED vars
  <2>1. HeadsOf(op.key)' = HeadsOf(op.key) /\ UsedDatas' = UsedDatas
    BY <1>1, <1>5 DEF vars, HeadsOf, UsedDatas, NoData
  <2> QED
    BY <1>1, <1>5, <2>1 DEF vars, StoresWhole
<1>6. CASE AddDataElementFails \/ AddHeadElement \/ Reset
  BY <1>2, <1>6, DoneShape DEF AddDataElementFails, AddHeadElement, Reset, IsDone
<1> QED
  BY <1>2, <1>3, <1>4, <1>5, <1>6, PutChange, PutSteps

(* What a removal does to its own head.                                    *)
LEMMA DeletesStep ==
  ASSUME ItsOwnInv, DeletesItsHead, [Next]_vars
  PROVE  DeletesItsHead'
<1> USE DEF ItsOwnInv, TypeInv
<1>1. Idx' = Idx /\ heads \in [Idx -> HeadType] /\ op.idx \in Idx
  BY UseIsFixed, PartTypes
<1>2. SUFFICES ASSUME op'.kind = "delete", NEW g \in Idx, heads'[g].key = op'.key
               PROVE  g = op'.idx
  BY <1>1 DEF DeletesItsHead, HeadsOf
<1>3. ASSUME NEW k \in Keys, Delete(k) PROVE g = op'.idx
  <2>1. PICK h \in HeadsOf(k) : op'.idx = h /\ op'.key = k
    BY <1>3, DeleteShape DEF StartsAt
  <2>2. heads[g].key = k /\ heads[h].key = k /\ h \in Idx
    BY <1>2, <1>3, <2>1, DeleteShape DEF HeadsOf
  <2> QED
    BY <2>1, <2>2 DEF OneEach, Live
<1>4. ASSUME op.kind = "delete", op'.key = op.key, op'.idx = op.idx PROVE g = op'.idx
  <2>1. \A h \in Idx \ {op.idx} : heads'[h] = heads[h]
    BY <1>1, <1>4, DeleteSteps
       DEF MarkDelete, RemoveDataElement, RemoveHeadElement, Reset, vars
  <2> QED
    BY <1>2, <1>4, <2>1 DEF DeletesItsHead, HeadsOf
<1>5. (\E k \in Keys : Delete(k))
        \/ (op.kind = "delete" /\ op'.key = op.key /\ op'.idx = op.idx)
  <2>1. ~ IsDone /\ ~ ConsistencyCheck /\ ~ ErasePartition
    BY <1>2, WholeStoreShape DEF IsDone, StartsAt
  <2>2. \A k \in Keys, val \in Values : ~ Put(k, val)
    BY <1>2, PutShape DEF StartsAt
  <2>3. op.kind = "delete" => ~ CheckMarked
    BY DEF CheckMarked, PcOfKind, Removing
  <2> QED
    BY <1>2, <2>1, <2>2, <2>3, OpChange
<1> QED
  BY <1>3, <1>4, <1>5

LEMMA BeforeStep ==
  ASSUME ItsOwnInv, ReadsAsBefore, [Next]_vars
  PROVE  ReadsAsBefore'
<1> USE DEF ItsOwnInv, TypeInv
<1>1. /\ Idx' = Idx /\ use' = use /\ op.val.n \in Nat /\ op.i \in Nat \ {0}
      /\ heads \in [Idx -> HeadType] /\ op.idx \in Idx /\ HeadInv
  BY UseIsFixed, PartTypes DEF HeadInv
<1>2. use.marks \subseteq {Zero, Junk} /\ Keys \cap {Zero, Junk} = {}
  BY UseTypes, PartTypes
<1>3. ASSUME op'.kind \notin {"put", "delete"} PROVE ReadsAsBefore'
  BY <1>3 DEF ReadsAsBefore
<1>4. CASE Call
  <2>1. op.kind = "idle"
    BY <1>4 DEF Call, Delete, Put, ConsistencyCheck, ErasePartition, IsIdle
  <2>2. op'.kind \in {"put", "delete"} => op'.key \in Keys
    BY <1>4, DeleteShape, PutShape, WholeStoreShape DEF Call, StartsAt
  <2>3. \A k \in Keys : Read(k)' = Read(k) /\ before'[k] = Read(k)
    BY <1>4, <2>1, CallNotes, ReadKept
  <2>4. op'.kind \in {"put", "delete"} => Read(op.key)' = before'[op'.key]
    <3>1. ASSUME NEW k \in Keys, op'.key = k PROVE Read(op.key)' = Read(k)'
      BY <3>1 DEF Read, HeadsOf
    <3> QED
      BY <2>2, <2>3, <3>1
  <2> QED
    BY <2>4 DEF ReadsAsBefore
<1>5. CASE op.kind = "put"
  <2>1. op.key \in Keys /\ op.val \in Values
    BY <1>5 DEF PcOfKind
  <2>2. CASE AddDataElement
    <3>1. op'.kind = "put"
      BY <1>5, <2>2, AddDataShape DEF Becomes
    <3>2. ~ (use.sizes \subseteq {0})
      BY <1>1, <2>1, <2>2 DEF AddDataElement, Progress, Values
    <3> QED
      BY <1>1, <3>1, <3>2 DEF ReadsAsBefore
  <2>3. CASE AddDataElementFails \/ AddHeadElement \/ Reset
    BY <1>3, <2>3, DoneShape DEF AddDataElementFails, AddHeadElement, Reset, IsDone
  <2>4. CASE UNCHANGED vars
    <3>1. Read(op.key)' = Read(op.key)
      <4>1. \A k \in Keys : Read(k)' = Read(k)
        BY <1>1, <2>4, ReadSame DEF vars
      <4>2. ASSUME NEW k \in Keys, op.key = k PROVE Read(op.key)' = Read(k)'
        BY <2>4, <4>2 DEF Read, HeadsOf, vars
      <4> QED
        BY <2>1, <4>1, <4>2
    <3> QED
      BY <1>1, <1>5, <2>4, <3>1 DEF ReadsAsBefore, vars
  <2> QED
    BY <1>5, <2>2, <2>3, <2>4, PutSteps
<1>6. CASE op.kind = "delete"
  <2>1. op.key \in Keys /\ before' = before /\ Working
    BY <1>6, DeleteSteps DEF PcOfKind, Working
  <2>2. ASSUME op' = op \/ Becomes("remove", op.parts, op.i), heads' = heads, datas' = datas,
               op.pc = "mark" \/ op' = op
        PROVE  ReadsAsBefore'
    <3>1. op'.key = op.key /\ op'.idx = op.idx /\ op'.kind = "delete"
          /\ (op'.pc = "mark" => op.pc = "mark") /\ Live' = Live
      BY <1>1, <1>6, <2>2 DEF Becomes, Live
    <3>2. Read(op.key)' = Read(op.key)
      <4>1. \A k \in Keys : Read(k)' = Read(k)
        BY <1>1, <2>2, ReadSame
      <4>2. ASSUME NEW k \in Keys, op.key = k PROVE Read(op.key)' = Read(k)'
        BY <3>1, <4>2 DEF Read, HeadsOf
      <4> QED
        BY <2>1, <4>1, <4>2
    <3> QED
      BY <1>1, <1>6, <2>1, <2>2, <3>1, <3>2 DEF ReadsAsBefore
  <2>3. CASE MarkDelete
    <3>1. op.pc = "mark" /\ datas' = datas /\ Becomes("remove", op.parts, op.i)
      BY <2>3, GotoShape DEF MarkDelete
    <3>2. CASE heads' = heads
      BY <2>2, <3>1, <3>2
    <3>3. ASSUME NEW m \in use.marks,
                 heads' = [heads EXCEPT ![op.idx] = [key |-> m, parts |-> op.parts,
                                                     v |-> NoVersion]]
          PROVE  ReadsAsBefore'
      <4>1. heads'[op.idx].key = m
        BY <1>1, <3>3
      <4>2. op'.idx \notin Live' /\ op'.kind = "delete"
        BY <1>1, <1>2, <1>6, <3>1, <4>1 DEF Live, Becomes
      <4> QED
        BY <4>2 DEF ReadsAsBefore
    <3> QED
      BY <2>3, <3>2, <3>3 DEF MarkDelete
  <2>4. CASE RemoveDataElement
    <3>1. op.pc = "remove" /\ Becomes("remove", op.parts, op.i + 1) /\ op.parts # <<>>
      BY <2>4, RemovalFinds
    <3>2. ~ (use.sizes \subseteq {0})
      BY <3>1 DEF SizedParts
    <3> QED
      BY <1>1, <1>6, <3>1, <3>2 DEF ReadsAsBefore, Becomes
  <2>5. CASE RemoveHeadElement \/ Reset
    BY <1>3, <1>6, <2>5, ReturnShape, DoneShape DEF RemoveHeadElement, Reset, IsDone
  <2>6. CASE UNCHANGED vars
    BY <2>2, <2>6 DEF vars
  <2> QED
    BY <1>6, <2>3, <2>4, <2>5, <2>6, DeleteSteps
<1>7. CASE op.kind \notin {"put", "delete"} /\ ~ Call
  <2>1. op'.kind \notin {"put", "delete"}
    BY <1>7, OpChange DEF IsDone, Call
  <2> QED
    BY <1>3, <2>1
<1> QED
  BY <1>4, <1>5, <1>6, <1>7

LEMMA KeepStep ==
  ASSUME SafeRemovals, SafeStores, KeepInv, [Next]_vars
  PROVE  KeepInv'
  BY ItsOwnStep, WholeStep, BeforeStep, DeletesStep DEF KeepInv

LEMMA KeepInit ==
  ASSUME Init
  PROVE  KeepInv
<1>1. op.kind = "idle"
  BY DEF Init, Idle
<1> QED
  BY <1>1, ItsOwnInit DEF KeepInv, StoresWhole, ReadsAsBefore, DeletesItsHead
-----------------------------------------------------------------------------
(* The store implements KvsAbs.  The map of the promise, key by key:       *)
MapAt(k) == IF Settled(k) THEN Read(k) ELSE before[k]

AbsMap == [k \in Keys |-> MapAt(k)]

SameMap == \A k \in Keys : MapAt(k)' = MapAt(k)

(* The promise's contents and calls.                                       *)
Contents == {Whole([v |-> v, n |-> n]) : v \in Versions, n \in UNION {u.sizes : u \in Uses}}

Requests == ({"put"} \X Keys \X Contents) \cup ({"delete"} \X Keys)
              \cup {<<"check">>, <<"erase">>}

(* In the middle of an operation, the keys that it was not given.          *)
LEMMA OtherKeysSame ==
  ASSUME ItsOwnInv, [Next]_vars, op.kind \notin {"idle", "erase"}, NEW k \in Keys,
         op.kind \in {"put", "delete"} => k # op.key
  PROVE  MapAt(k)' = MapAt(k)
<1>1. op.kind \in {"put", "delete", "check"}
  BY PartTypes DEF ItsOwnInv, TypeInv
<1>2. Settled(k)
  BY <1>1 DEF Settled
<1>3. Settled(k)'
  BY <1>1, OpChange DEF Settled, IsDone, ItsOwnInv
<1> QED
  BY <1>1, <1>2, <1>3, ReadKept DEF MapAt

(* The key that an operation was given, as long as its head stays.         *)
LEMMA OwnKeySame ==
  ASSUME KeepInv, [Next]_vars, op.kind \in {"put", "delete"}, heads' = heads,
         op'.kind = op.kind, NEW k \in Keys, k = op.key
  PROVE  MapAt(k)' = MapAt(k) /\ CallOf(op') = CallOf(op)
<1>1. Idx' = Idx /\ op'.key = op.key /\ before' = before /\ op'.val = op.val
      /\ op.key \in Keys
  <2>1. ~ CheckMarked /\ ~ IsDone
    BY PartTypes DEF CheckMarked, IsDone, KeepInv, ItsOwnInv, TypeInv, PcOfKind, Storing,
       Removing
  <2> QED
    BY <2>1, UseIsFixed, OpChange, PutSteps, DeleteSteps
       DEF KeepInv, ItsOwnInv, TypeInv, PcOfKind
<1>2. HeadsOf(k)' = HeadsOf(k)
  BY <1>1 DEF HeadsOf
<1>3. (Settled(k) <=> HeadsOf(k) = {}) /\ (Settled(k)' <=> HeadsOf(k) = {})
  BY <1>1, <1>2 DEF Settled
<1>4. ASSUME HeadsOf(k) = {} PROVE MapAt(k)' = MapAt(k)
  BY <1>2, <1>3, <1>4, ReadContent DEF MapAt
<1>5. ASSUME HeadsOf(k) # {} PROVE MapAt(k)' = MapAt(k)
  BY <1>1, <1>3, <1>5 DEF MapAt
<1>6. CallOf(op') = CallOf(op)
  BY <1>1 DEF CallOf
<1> QED
  BY <1>4, <1>5, <1>6

(* An operation that fails, where it can, leaves its key as it was.        *)
LEMMA OwnKeyFails ==
  ASSUME KeepInv, [Next]_vars, op.kind \in {"put", "delete"}, heads' = heads,
         datas' = datas, IsDone, NEW k \in Keys, k = op.key,
         HeadsOf(k) # {} => Read(k) = before[k]
  PROVE  MapAt(k)' = MapAt(k)
<1>1. Idx' = Idx /\ HeadInv
  BY UseIsFixed DEF KeepInv, ItsOwnInv, HeadInv
<1>2. Read(k)' = Read(k)
  BY <1>1, ReadSame
<1>3. Settled(k)' /\ (Settled(k) <=> HeadsOf(k) = {})
  BY DEF Settled, IsDone
<1> QED
  BY <1>2, <1>3 DEF MapAt

(* A store over a value with data elements finds room for all of them.     *)
LEMMA RoomLeft ==
  ASSUME TypeInv, StoresWhole, op.pc = "data", use.roomy
  PROVE  FreeIndex(UsedDatas) # {}
<1> USE DEF TypeInv
<1>1. op.kind = "put" /\ op.i <= op.val.n /\ op.i \in Nat /\ op.val.n \in Nat
  BY PartTypes DEF PcOfKind, Storing, Progress
<1>2. IsFiniteSet(Idx \ UsedDatas) /\ Cardinality(Idx \ UsedDatas) \in Nat
  BY IdxFinite, FS_Subset, FS_CardinalityType
<1>3. Cardinality(Idx \ UsedDatas) >= op.val.n - op.i + 1
  BY <1>1 DEF StoresWhole
<1>4. Cardinality(Idx \ UsedDatas) # 0
  BY <1>1, <1>2, <1>3
<1>5. Idx \ UsedDatas # {}
  BY <1>4, FS_EmptySet
<1>6. Idx \ UsedDatas \in SUBSET Nat
  BY UseTypes, PartTypes
<1>7. PICK m \in Idx \ UsedDatas : \A j \in Idx \ UsedDatas : m <= j
  BY <1>5, <1>6, LeastElement
<1> QED
  BY <1>7 DEF FreeIndex

LEMMA PutStores ==
  ASSUME KeepInv, SafeStores, [Next]_vars, op.kind = "put", NEW k \in Keys, k = op.key
  PROVE  \/ MapAt(k)' = MapAt(k) /\ CallOf(op') \in {CallOf(op), <<>>}
         \/ MapAt(k)' = Whole(op.val) /\ CallOf(op') = <<>>
<1> USE DEF KeepInv, ItsOwnInv, TypeInv
<1>1. /\ Idx' = Idx /\ use \in Uses /\ heads \in [Idx -> HeadType] /\ op.idx \in Idx
      /\ op.val.n \in Nat
  BY UseIsFixed, PartTypes
<1>2. IsDone => CallOf(op') = <<>>
  BY DEF IsDone, CallOf
<1>3. ASSUME IsDone, heads' = heads, datas' = datas,
             use.writeFails \/ "put" \in use.resetIn \/ ~ use.roomy
      PROVE  MapAt(k)' = MapAt(k) /\ CallOf(op') = <<>>
  <2>1. ASSUME HeadsOf(k) # {} PROVE Read(k) = before[k]
    <3>1. use.sizes \subseteq {0}
      BY <1>1, <1>3, <2>1 DEF StoresWhole, SafeStores, StoresSafely
    <3> QED
      BY <3>1 DEF ReadsAsBefore
  <2> QED
    BY <1>2, <1>3, <2>1, OwnKeyFails
<1>4. CASE AddDataElement
  <2>1. heads' = heads /\ op'.kind = op.kind
    BY <1>4, AddDataShape DEF Becomes
  <2> QED
    BY <2>1, OwnKeySame
<1>5. CASE AddDataElementFails
  <2>1. use.writeFails \/ ~ use.roomy
    BY <1>5, RoomLeft DEF AddDataElementFails
  <2> QED
    BY <1>3, <1>5, <2>1, DoneShape DEF AddDataElementFails
<1>6. CASE Reset
  BY <1>3, <1>6, DoneShape DEF Reset
<1>7. CASE AddHeadElement
  <2>1. IsDone /\ op.pc = "head" /\ datas' = datas
    BY <1>7, DoneShape DEF AddHeadElement
  <2>2. CASE use.writeFails /\ heads' = heads
    BY <1>3, <2>1, <2>2
  <2> DEFINE new == [key |-> op.key, parts |-> Indices, v |-> op.val.v]
  <2>3. ASSUME heads' = [heads EXCEPT ![op.idx] = new]
        PROVE  MapAt(k)' = Whole(op.val)
    <3>1. new.key = k /\ new.parts = Indices /\ new.v = op.val.v
      OBVIOUS
    <3> HIDE DEF new
    <3>2. \A h \in Idx : heads'[h] = IF h = op.idx THEN new ELSE heads[h]
      BY <1>1, <2>3
    <3>3. HeadsOf(k)' = {op.idx}
      BY <1>1, <3>1, <3>2 DEF HeadsOf, PutsToItsHead
    <3>4. Read(k)' = Content(new, datas)
      BY <1>1, <2>1, <3>2, <3>3, ReadContent
    <3>5. /\ \A j \in 1 .. Len(Indices) : Indices[j] = op.parts[j]
          /\ op.val.n > 0 => Len(Indices) = op.val.n
          /\ op.val.n = 0 => Indices = op.parts
          /\ op.val.v \in Versions
      BY <2>1, NewHeadType
    <3>6. Len(Indices) = op.val.n
      <4>1. op.val.n = 0 => op.parts = <<>>
        BY DEF StoresWhole
      <4> QED
        BY <1>1, <3>5, <4>1
    <3>7. \A j \in 1 .. op.val.n : datas[Indices[j]] = [v |-> op.val.v, i |-> j]
      <4>1. op.i - 1 = op.val.n
        BY <1>1, <2>1 DEF Progress
      <4> QED
        BY <3>5, <3>6, <4>1 DEF StoresWhole
    <3>8. ASSUME NEW j \in 1 .. op.val.n PROVE datas[Indices[j]] # NoData
      <4>1. datas[Indices[j]] = [v |-> op.val.v, i |-> j]
        BY <3>7
      <4>2. op.val.v # NoVersion
        BY <1>1, <3>5, UseTypes
      <4> QED
        BY <4>1, <4>2 DEF NoData
    <3>9. [j \in 1 .. op.val.n |-> datas[Indices[j]]]
            = [j \in 1 .. op.val.n |-> [v |-> op.val.v, i |-> j]]
      BY <3>7
    <3>10. Content(new, datas) = <<new.v>> \o [j \in 1 .. op.val.n |-> datas[Indices[j]]]
      BY <3>1, <3>6, <3>8 DEF Content
    <3>11. Content(new, datas) = Whole(op.val)
      BY <3>1, <3>9, <3>10 DEF Whole
    <3>12. Settled(k)'
      BY <2>1 DEF Settled, IsDone
    <3> QED
      BY <3>4, <3>11, <3>12 DEF MapAt
  <2> QED
    BY <1>2, <1>7, <2>1, <2>2, <2>3 DEF AddHeadElement
<1>8. CASE UNCHANGED vars
  BY <1>8, OwnKeySame DEF vars
<1> QED
  BY <1>4, <1>5, <1>6, <1>7, <1>8, PutSteps

LEMMA DeleteDeletes ==
  ASSUME KeepInv, SafeRemovals, [Next]_vars, op.kind = "delete",
         NEW k \in Keys, k = op.key
  PROVE  \/ MapAt(k)' = MapAt(k) /\ CallOf(op') \in {CallOf(op), <<>>}
         \/ MapAt(k)' = Nothing /\ CallOf(op') \in {CallOf(op), <<>>}
<1> USE DEF KeepInv, ItsOwnInv, TypeInv
<1>1. /\ Idx' = Idx /\ use \in Uses /\ heads \in [Idx -> HeadType] /\ op.idx \in Idx
      /\ Working
  BY UseIsFixed, PartTypes DEF PcOfKind, Working
<1>2. use.marks \subseteq {Zero, Junk} /\ Keys \cap {Zero, Junk} = {} /\ NoKey \notin Keys
      /\ NoHead.key = NoKey
  BY UseTypes, PartTypes DEF NoHead
<1>3. IsDone => CallOf(op') = <<>>
  BY DEF IsDone, CallOf
<1>4. ASSUME NEW x, heads' = [heads EXCEPT ![op.idx] = x], x.key \notin Keys
      PROVE  HeadsOf(k)' = {}
  <2>1. \A h \in Idx : heads'[h] = IF h = op.idx THEN x ELSE heads[h]
    BY <1>1, <1>4
  <2> QED
    BY <1>1, <1>4, <2>1 DEF HeadsOf, DeletesItsHead
<1>5. ASSUME HeadsOf(k)' = {}, IsDone \/ (op'.kind = "delete" /\ op'.key = k)
      PROVE  MapAt(k)' = Nothing
  <2>1. Read(k)' = Nothing /\ Settled(k)'
    BY <1>5, ReadContent DEF Settled, IsDone
  <2> QED
    BY <2>1 DEF MapAt
<1>6. CASE MarkDelete
  <2>1. Becomes("remove", op.parts, op.i) /\ op'.kind = "delete" /\ op'.key = k
        /\ CallOf(op') = CallOf(op)
    BY <1>6, GotoShape DEF MarkDelete, Becomes, CallOf
  <2>2. CASE heads' = heads
    BY <2>1, <2>2, OwnKeySame
  <2>3. ASSUME NEW m \in use.marks,
               heads' = [heads EXCEPT ![op.idx] = [key |-> m, parts |-> op.parts,
                                                   v |-> NoVersion]]
        PROVE  HeadsOf(k)' = {}
    <3> DEFINE new == [key |-> m, parts |-> op.parts, v |-> NoVersion]
    <3>1. new.key \notin Keys /\ heads' = [heads EXCEPT ![op.idx] = new]
      BY <1>2, <2>3
    <3> HIDE DEF new
    <3> QED
      BY <1>4, <3>1
  <2> QED
    BY <1>5, <1>6, <2>1, <2>2, <2>3 DEF MarkDelete
<1>7. CASE RemoveDataElement
  <2>1. heads' = heads /\ op'.kind = op.kind
    BY <1>7, RemovalFinds DEF Becomes
  <2> QED
    BY <2>1, OwnKeySame
<1>8. CASE RemoveHeadElement
  <2>1. IsDone /\ heads' = [heads EXCEPT ![op.idx] = NoHead]
    BY <1>8, ReturnShape DEF RemoveHeadElement
  <2>2. HeadsOf(k)' = {}
    BY <1>2, <1>4, <2>1
  <2> QED
    BY <1>3, <1>5, <2>1, <2>2
<1>9. CASE Reset
  <2>1. IsDone /\ heads' = heads /\ datas' = datas /\ "delete" \in use.resetIn
    BY <1>9, DoneShape DEF Reset
  <2>2. ASSUME HeadsOf(k) # {} PROVE Read(k) = before[k]
    <3>1. op.idx \in Live
      BY <1>1, <2>2 DEF DeletesItsHead, HeadsOf, Live
    <3>2. op.pc = "mark" \/ use.writeFails
      BY <1>1, <3>1 DEF WorksOnItsHead, PcOfKind, Removing
    <3>3. op.pc = "mark" \/ use.sizes \subseteq {0}
      BY <1>1, <2>1, <3>2 DEF SafeRemovals, RemovesSafely
    <3> QED
      BY <3>1, <3>3 DEF ReadsAsBefore
  <2> QED
    BY <1>3, <2>1, <2>2, OwnKeyFails
<1>10. CASE UNCHANGED vars
  BY <1>10, OwnKeySame DEF vars
<1> QED
  BY <1>6, <1>7, <1>8, <1>9, <1>10, DeleteSteps

LEMMA EraseErases ==
  ASSUME KeepInv, [Next]_vars, op.kind = "erase"
  PROVE  \/ SameMap /\ CallOf(op') = CallOf(op)
         \/ (\A k \in Keys : MapAt(k)' = Nothing) /\ CallOf(op') = <<>>
<1> USE DEF KeepInv, ItsOwnInv, TypeInv
<1>1. op.pc = "erase" /\ Idx' = Idx /\ NoKey \notin Keys /\ NoHead.key = NoKey
      /\ "erase" \notin use.resetIn
  BY UseIsFixed, UseTypes, PartTypes DEF PcOfKind, NoHead
<1>2. EraseElement \/ UNCHANGED vars
  BY <1>1 DEF Next, Call, Step, AddDataElement, AddDataElementFails, AddHeadElement,
     MarkDelete, RemoveDataElement, RemoveHeadElement, CheckMarked, CheckReferences,
     RemoveOrphan, Delete, Put, ConsistencyCheck, ErasePartition, IsIdle, Reset
<1>3. ASSUME op' = op, before' = before PROVE SameMap /\ CallOf(op') = CallOf(op)
  BY <1>3 DEF SameMap, MapAt, Settled
<1>4. ASSUME UsedHeads \cup UsedDatas = {}, Done, heads' = heads
      PROVE  (\A k \in Keys : MapAt(k)' = Nothing) /\ CallOf(op') = <<>>
  <2>1. IsDone
    BY <1>4, DoneShape
  <2>2. \A h \in Idx : heads[h] = NoHead
    BY <1>4 DEF UsedHeads
  <2>3. ASSUME NEW k \in Keys PROVE MapAt(k)' = Nothing
    <3>1. HeadsOf(k)' = {}
      BY <1>1, <1>4, <2>2 DEF HeadsOf
    <3>2. Read(k)' = Nothing /\ Settled(k)'
      BY <2>1, <3>1, ReadContent DEF Settled, IsDone
    <3> QED
      BY <3>2 DEF MapAt
  <2> QED
    BY <2>1, <2>3 DEF IsDone, CallOf
<1> QED
  BY <1>2, <1>3, <1>4 DEF EraseElement, rest, vars

LEMMA CallBegins ==
  ASSUME KeepInv, [Next]_vars, op.kind = "idle"
  PROVE  SameMap /\ CallOf(op) = <<>>
           /\ (CallOf(op') \in Requests \/ CallOf(op') = CallOf(op))
<1> USE DEF KeepInv, ItsOwnInv, TypeInv
<1>1. op.pc = "idle" /\ CallOf(op) = <<>>
  BY DEF PcOfKind, CallOf
<1>2. Call \/ UNCHANGED vars
  <2>1. op.kind \notin use.resetIn
    BY UseTypes, PartTypes
  <2> QED
    BY <1>1, <2>1 DEF Next, Step, AddDataElement, AddDataElementFails, AddHeadElement,
       MarkDelete, RemoveDataElement, RemoveHeadElement, CheckMarked, CheckReferences,
       RemoveOrphan, EraseElement, Reset
<1>3. \A k \in Keys : Settled(k) /\ Read(k)' = Read(k)
  BY ReadKept DEF Settled
<1>4. SameMap
  <2>1. CASE Call
    BY <1>3, <2>1, CallNotes DEF SameMap, MapAt
  <2>2. CASE UNCHANGED vars
    <3>1. \A k \in Keys : Settled(k)'
      BY <2>2 DEF Settled, vars
    <3> QED
      BY <1>3, <3>1 DEF SameMap, MapAt
  <2> QED
    BY <1>2, <2>1, <2>2
<1>5. CASE Call
  <2>1. ASSUME NEW k \in Keys, Delete(k) PROVE CallOf(op') \in Requests
    <3>1. op'.kind = "delete" /\ op'.key = k
      BY <2>1, DeleteShape DEF StartsAt
    <3>2. CallOf(op') = <<"delete", k>>
      BY <3>1 DEF CallOf
    <3> QED
      BY <3>2 DEF Requests
  <2>2. ASSUME NEW k \in Keys, NEW val \in Values, Put(k, val)
        PROVE  CallOf(op') \in Requests
    <3>1. op'.kind = "put" /\ op'.key = k /\ op'.val = val
      BY <2>2, PutShape DEF StartsAt
    <3>2. CallOf(op') = <<"put", k, Whole(val)>>
      BY <3>1 DEF CallOf
    <3>3. Whole(val) \in Contents
      <4>1. PICK v \in Versions, n \in use.sizes : val = [v |-> v, n |-> n]
        BY DEF Values
      <4>2. n \in UNION {u.sizes : u \in Uses}
        BY PartTypes
      <4> QED
        BY <4>1, <4>2 DEF Contents
    <3> QED
      BY <3>2, <3>3 DEF Requests
  <2>3. ASSUME ConsistencyCheck \/ ErasePartition PROVE CallOf(op') \in Requests
    <3>1. op'.kind \in {"check", "erase"}
      BY <2>3, WholeStoreShape DEF StartsAt
    <3>2. CallOf(op') \in {<<"check">>, <<"erase">>}
      BY <3>1 DEF CallOf
    <3> QED
      BY <3>2 DEF Requests
  <2> QED
    BY <1>1, <1>4, <1>5, <2>1, <2>2, <2>3 DEF Call
<1> QED
  BY <1>1, <1>2, <1>4, <1>5 DEF vars

LEMMA CheckKeeps ==
  ASSUME KeepInv, [Next]_vars, op.kind = "check"
  PROVE  SameMap /\ CallOf(op') \in {CallOf(op), <<>>}
<1> USE DEF KeepInv, ItsOwnInv, TypeInv
<1>1. SameMap
  BY OtherKeysSame DEF SameMap
<1>2. op'.kind = "check" => CallOf(op') = CallOf(op)
  BY DEF CallOf
<1>3. op'.kind \in {"check", "idle"}
  BY OpChange DEF IsDone
<1>4. op'.kind = "idle" => CallOf(op') = <<>>
  BY DEF CallOf
<1> QED
  BY <1>1, <1>2, <1>3, <1>4

(* Every step is one of the promise's, or none.                            *)
LEMMA MapStep ==
  ASSUME KeepInv, SafeRemovals, SafeStores, [Next]_vars
  PROVE  \/ AbsMap' = AbsMap /\ CallOf(op') = CallOf(op)
         \/ AbsMap' = AbsMap /\ CallOf(op) = <<>> /\ CallOf(op') \in Requests
         \/ AbsMap' = AbsMap /\ CallOf(op) # <<>> /\ CallOf(op') = <<>>
         \/ \E k \in Keys, c \in Contents :
              /\ CallOf(op) = <<"put", k, c>> /\ CallOf(op') = <<>>
              /\ AbsMap' = [AbsMap EXCEPT ![k] = c]
         \/ \E k \in Keys :
              /\ CallOf(op) = <<"delete", k>> /\ CallOf(op') \in {CallOf(op), <<>>}
              /\ AbsMap' = [AbsMap EXCEPT ![k] = Nothing]
         \/ /\ CallOf(op) = <<"erase">> /\ CallOf(op') = <<>>
            /\ AbsMap' = [k \in Keys |-> Nothing]
<1> USE DEF KeepInv, ItsOwnInv, TypeInv
<1>1. SameMap => AbsMap' = AbsMap
  BY DEF SameMap, AbsMap
<1>2. ASSUME op.kind \in {"put", "delete"}, NEW k \in Keys, k = op.key,
             NEW c, MapAt(k)' = c
      PROVE  AbsMap' = [AbsMap EXCEPT ![k] = c]
  <2>1. \A j \in Keys : j # k => MapAt(j)' = MapAt(j)
    BY <1>2, OtherKeysSame
  <2>2. AbsMap' = [j \in Keys |-> IF j = k THEN c ELSE MapAt(j)]
    BY <1>2, <2>1 DEF AbsMap
  <2>3. [AbsMap EXCEPT ![k] = c] = [j \in Keys |-> IF j = k THEN c ELSE MapAt(j)]
    BY DEF AbsMap
  <2> QED
    BY <2>2, <2>3
<1>3. ASSUME op.kind \in {"put", "delete"}, NEW k \in Keys, k = op.key,
             MapAt(k)' = MapAt(k)
      PROVE  AbsMap' = AbsMap
  <2>1. \A j \in Keys : j # k => MapAt(j)' = MapAt(j)
    BY <1>3, OtherKeysSame
  <2> QED
    BY <1>1, <1>3, <2>1 DEF SameMap
<1>4. CASE op.kind = "idle"
  BY <1>1, <1>4, CallBegins
<1>5. CASE op.kind = "check"
  <2>1. CallOf(op) = <<"check">>
    BY <1>5 DEF CallOf
  <2> QED
    BY <1>1, <1>5, <2>1, CheckKeeps
<1>6. CASE op.kind = "erase"
  <2>1. CallOf(op) = <<"erase">>
    BY <1>6 DEF CallOf
  <2>2. (\A k \in Keys : MapAt(k)' = Nothing) => AbsMap' = [k \in Keys |-> Nothing]
    BY DEF AbsMap
  <2> QED
    BY <1>1, <1>6, <2>1, <2>2, EraseErases
<1>7. CASE op.kind = "put"
  <2>1. PICK k \in Keys : k = op.key
    BY <1>7 DEF PcOfKind
  <2>2. CallOf(op) = <<"put", k, Whole(op.val)>> /\ CallOf(op) # <<>>
    BY <1>7, <2>1 DEF CallOf
  <2>3. Whole(op.val) \in Contents
    <3>1. PICK v \in Versions, n \in use.sizes : op.val = [v |-> v, n |-> n]
      BY <1>7 DEF Values, PcOfKind
    <3>2. n \in UNION {u.sizes : u \in Uses}
      BY PartTypes
    <3> QED
      BY <3>1, <3>2 DEF Contents
  <2>4. CASE MapAt(k)' = MapAt(k) /\ CallOf(op') \in {CallOf(op), <<>>}
    BY <1>3, <1>7, <2>1, <2>2, <2>4
  <2>5. CASE MapAt(k)' = Whole(op.val) /\ CallOf(op') = <<>>
    BY <1>2, <1>7, <2>1, <2>2, <2>3, <2>5
  <2> QED
    BY <1>7, <2>1, <2>4, <2>5, PutStores
<1>8. CASE op.kind = "delete"
  <2>1. PICK k \in Keys : k = op.key
    BY <1>8 DEF PcOfKind
  <2>2. CallOf(op) = <<"delete", k>> /\ CallOf(op) # <<>>
    BY <1>8, <2>1 DEF CallOf
  <2>3. CASE MapAt(k)' = MapAt(k) /\ CallOf(op') \in {CallOf(op), <<>>}
    BY <1>3, <1>8, <2>1, <2>2, <2>3
  <2>4. CASE MapAt(k)' = Nothing /\ CallOf(op') \in {CallOf(op), <<>>}
    BY <1>2, <1>8, <2>1, <2>2, <2>4
  <2> QED
    BY <1>8, <2>1, <2>3, <2>4, DeleteDeletes
<1> QED
  BY <1>4, <1>5, <1>6, <1>7, <1>8, PartTypes

(* The store does what qvCHIP_KVS.h promises: a call takes effect in one   *)
(* step and on the key it was given, or not at all, whatever writes fail   *)
(* and wherever a reset comes between two elements.                        *)
THEOREM StoreKeepsPromise ==
  ASSUME SafeRemovals, SafeStores
  PROVE  Spec => Promise
<1>1. Init => KeepInv
  BY KeepInit
<1>2. KeepInv /\ [Next]_vars => KeepInv'
  BY KeepStep
<1>3. Init => Abs!AbsInit
  <2>1. ASSUME Init, NEW k \in Keys
        PROVE  (IF Settled(k) THEN Read(k) ELSE before[k]) = Nothing
    <3>1. HeadsOf(k) = {}
      <4>1. NoKey \notin Keys /\ \A h \in Idx : heads[h].key = NoKey
        BY <2>1, UseTypes DEF Init, NoHead
      <4> QED
        BY <4>1 DEF HeadsOf
    <3> QED
      BY <2>1, <3>1, ReadContent DEF Init
  <2>2. Init => CallOf(op) = <<>>
    BY DEF Init, Idle, CallOf
  <2> QED
    BY <2>1, <2>2 DEF Abs!AbsInit, Abs!NoCall
<1>4. KeepInv /\ [Next]_vars =>
        [Abs!AbsNext]_<<[k \in Keys |-> IF Settled(k) THEN Read(k) ELSE before[k]],
                        CallOf(op)>>
  <2> SUFFICES ASSUME KeepInv, [Next]_vars
               PROVE  \/ Abs!AbsNext
                      \/ AbsMap' = AbsMap /\ CallOf(op') = CallOf(op)
    BY DEF AbsMap, MapAt
  <2>1. CallOf(op) = <<>> /\ CallOf(op') \in Requests /\ AbsMap' = AbsMap => Abs!Begin
    BY DEF Abs!Begin, Abs!NoCall, Abs!Calls, AbsMap, MapAt, Requests, Contents
  <2>2. CallOf(op) # <<>> /\ CallOf(op') = <<>> /\ AbsMap' = AbsMap => Abs!End
    BY DEF Abs!End, Abs!NoCall, AbsMap, MapAt
  <2>3. CallOf(op) # <<>> /\ CallOf(op') \in {CallOf(op), <<>>}
          /\ AbsMap' = Abs!Outcome(CallOf(op)) => Abs!Effect
    BY DEF Abs!Effect, Abs!NoCall, AbsMap, MapAt
  <2>4. ASSUME NEW k \in Keys, NEW c, CallOf(op) = <<"put", k, c>>
        PROVE  Abs!Outcome(CallOf(op)) = [AbsMap EXCEPT ![k] = c]
    BY <2>4 DEF Abs!Outcome, AbsMap, MapAt
  <2>5. ASSUME NEW k \in Keys, CallOf(op) = <<"delete", k>>
        PROVE  Abs!Outcome(CallOf(op)) = [AbsMap EXCEPT ![k] = Nothing]
    BY <2>5 DEF Abs!Outcome, AbsMap, MapAt
  <2>6. CallOf(op) = <<"erase">> => Abs!Outcome(CallOf(op)) = [k \in Keys |-> Nothing]
    BY DEF Abs!Outcome
  <2> HIDE DEF AbsMap
  <2>7. \A k, c : <<"put", k, c>> # <<>> /\ <<"delete", k>> # <<>> /\ <<"erase">> # <<>>
    OBVIOUS
  <2> QED
    BY <2>1, <2>2, <2>3, <2>4, <2>5, <2>6, <2>7, MapStep DEF Abs!AbsNext
<1> QED
  BY <1>1, <1>2, <1>3, <1>4, PTL DEF Spec, Promise, Abs!AbsSpec
=============================================================================
