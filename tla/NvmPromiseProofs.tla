-------------------------- MODULE NvmPromiseProofs --------------------------
(***************************************************************************)
(* That the table leads to the newest record of every token, and that      *)
(* every step of gpNvm is a step of what it promises (NvmAbs) or none, as  *)
(* long as the numbers of the records can be compared.                     *)
(***************************************************************************)
EXTENDS NvmProofs

(***************************************************************************)
(* What the items lead to is the newest, in tables that are made from the  *)
(* flash.                                                                  *)
(***************************************************************************)

LEMMA BearsSpot ==
  ASSUME use \in Uses, flash \in FlashIn(Sectors), NEW m, m.phys \in MapIn(Sectors),
         NEW s \in Sectors, NEW r
  PROVE  Bears(flash, m.phys, s, r)
           <=> \E w \in Places : IsSpot(m, w) /\ w.sec = s /\ RecordAt(m, w) = r
<1>1. ASSUME Bears(flash, m.phys, s, r)
      PROVE  \E w \in Places : IsSpot(m, w) /\ w.sec = s /\ RecordAt(m, w) = r
  <2>1. PICK g \in Pages : \E i \in DOMAIN flash[m.phys[s]].page[g] :
                             flash[m.phys[s]].page[g][i] = r
    BY <1>1 DEF Bears
  <2>2. PICK i \in DOMAIN flash[m.phys[s]].page[g] : flash[m.phys[s]].page[g][i] = r
    BY <2>1
  <2> DEFINE w == [sec |-> s, page |-> g, idx |-> i]
  <2>3. s \in InUse(m) /\ m.phys[s] \in Sectors
    BY <1>1 DEF Bears, InUse, MapIn
  <2>4. flash[m.phys[s]].page[g] \in Seq(Record)
    BY <2>3, ValidIs, NumbersOfSectors
  <2>5. i \in Nat \ {0}
    <3>1. i \in 1 .. Len(flash[m.phys[s]].page[g])
      BY <2>4, RecordsAreSized
    <3> QED BY <2>4, <3>1
  <2>6. w \in Places /\ IsSpot(m, w) /\ w.sec = s /\ RecordAt(m, w) = r
    BY <2>2, <2>3, <2>5 DEF Places, IsSpot, PageOf, RecordAt
  <2> QED BY <2>6
<1>2. ASSUME NEW w \in Places, IsSpot(m, w), w.sec = s, RecordAt(m, w) = r
      PROVE  Bears(flash, m.phys, s, r)
  BY <1>2 DEF IsSpot, InUse, PageOf, RecordAt, Bears
<1> QED BY <1>1, <1>2

(* A table made from the flash leads to the newest records.                *)
LEMMA NewestOfPopulates ==
  ASSUME use \in Uses, flash \in FlashIn(Sectors), NEW m, m.phys \in MapIn(Sectors),
         TidyIn(flash, Sectors, m.phys, NoSector), Comparable(SeqsIn(flash, Sectors)),
         m.seqs = ExtremesOf(Numbered(flash, Sectors, m.phys)),
         NEW lut, Populates(m, lut)
  PROVE  NewestIn(flash, Sectors, m.phys, lut)
<1> DEFINE U == Numbered(flash, Sectors, m.phys)
<1>1. NoSector \notin Sectors /\ Sectors \subseteq Nat
  BY NumbersOfSectors
<1>2. U \in SUBSET (Numbers \X Nat) /\ NumbersOf(U) = SeqsIn(flash, Sectors)
  BY <1>1, NumberedIs
<1>3. ListsIn(flash, Sectors, m.phys, lut)
  BY PopulateLists
<1> HIDE DEF U
<1>4. ASSUME NEW k \in DOMAIN lut, NEW r \in RecordsIn(flash, Sectors), r.tok = lut[k].tok
      PROVE  NotOlder(RecordOf(flash, m.phys, lut[k]).seq, r.seq)
  <2> DEFINE o == RecordOf(flash, m.phys, lut[k])
  <2>1. o \in RecordsIn(flash, Sectors)
    BY <1>1, <1>3, ItemRecord DEF ListsIn
  <2>2. PICK s \in Sectors : Bears(flash, m.phys, s, r)
    BY <1>1, RecordsBorne
  <2>3. PICK w \in Places : IsSpot(m, w) /\ RecordAt(m, w) = r
    BY <2>2, BearsSpot
  <2>4. Age(m, w) <= Age(m, lut[k])
    BY <1>4, <2>3 DEF Populates
  <2>5. Age(m, w) = Unmask(m.seqs, r.seq)
    BY <2>3 DEF Age
  <2>6. Age(m, lut[k]) = Unmask(m.seqs, o.seq)
    BY DEF Age, RecordAt, PageOf, RecordOf
  <2> HIDE DEF o
  <2>7. o.seq \in NumbersOf(U) /\ r.seq \in NumbersOf(U)
    BY <1>2, <2>1 DEF SeqsIn
  <2>8. U # {}
    BY <2>7 DEF NumbersOf
  <2>9. Unmask(ExtremesOf(U), o.seq) >= Unmask(ExtremesOf(U), r.seq) <=> NotOlder(o.seq, r.seq)
    <3>1. Comparable(NumbersOf(U))
      BY <1>2
    <3> QED BY <1>2, <2>7, <2>8, <3>1, ComparedRightly
  <2>10. Unmask(m.seqs, o.seq) >= Unmask(m.seqs, r.seq)
    <3>1. Unmask(m.seqs, o.seq) \in Int /\ Unmask(m.seqs, r.seq) \in Int
      <4>1. o.seq \in Int /\ r.seq \in Int /\ SeqMax \in Int
        BY <1>2, <2>7, InNumbers, SeqAssumption DEF Numbers
      <4> QED BY <4>1, UnmaskIs
    <3> QED BY <2>4, <2>5, <2>6, <3>1
  <2> QED BY <2>9, <2>10 DEF U, o
<1> QED BY <1>4 DEF NewestIn

LEMMA FreshOrder ==
  ASSUME use \in Uses, flash \in FlashIn(Sectors), NEW m \in TablesIn(Sectors),
         Kept(flash, Sectors, use.names, m, NoSector), Comparable(SeqsIn(flash, Sectors)),
         OrderIn(flash, Sectors, m)
  PROVE  /\ OrderIn(flash, Sectors, Fresh(m)) /\ OrderIn(flash, Sectors, FreshAll(m))
         /\ \A s : OrderIn(flash, Sectors, Relocating(m, s))
<1> DEFINE j == Fresh(m)
           i == FreshAll(m)
<1>1. m.phys \in MapIn(Sectors) /\ TidyIn(flash, Sectors, m.phys, NoSector)
  BY TablesParts DEF Kept
<1>2. /\ j.phys = m.phys /\ j.seqs = m.seqs /\ (j.lut = m.lut \/ Populates(m, j.lut))
      /\ i.phys = m.phys /\ i.seqs = m.seqs /\ (i.lut = m.lut \/ Populates(m, i.lut))
      /\ i \in TablesIn(Sectors)
  <2>1. Refreshed(m, j) /\ Refreshed(m, i)
    BY FreshIs
  <2>2. CASE use.cached
    BY <2>1, <2>2 DEF Fresh, FreshAll, Refreshed
  <2>3. CASE ~use.cached
    <3>1. Populates(m, Populate(m, Walk(m)))
      BY <1>1, Bridges, PopulateIs DEF PhysTyped, MapIn
    <3> DEFINE lut == Populate(m, Walk(m))
               d   == [m EXCEPT !.lut = lut]
    <3>2. d.lut = lut
      BY DEF TablesIn
    <3>3. j = d /\ i = [d EXCEPT !.unique = Len(d.lut)]
      BY <2>3 DEF Fresh, FreshAll
    <3>4. j.lut = lut /\ i.lut = lut
      BY <3>2, <3>3 DEF TablesIn
    <3> HIDE DEF i, j
    <3> QED BY <2>1, <3>1, <3>4 DEF Refreshed
  <2> QED BY <2>2, <2>3
<1> HIDE DEF i, j
<1>3. ASSUME NEW d, d.phys = m.phys, d.seqs = m.seqs, d.lut = m.lut \/ Populates(m, d.lut)
      PROVE  OrderIn(flash, Sectors, d)
  <2>1. m.seqs = ExtremesOf(Numbered(flash, Sectors, m.phys)) /\ NewestIn(flash, Sectors, m.phys, m.lut)
    BY DEF OrderIn
  <2>2. NewestIn(flash, Sectors, m.phys, d.lut)
    BY <1>1, <1>3, <2>1, NewestOfPopulates
  <2> QED BY <1>3, <2>1, <2>2 DEF OrderIn
<1>4. OrderIn(flash, Sectors, j) /\ OrderIn(flash, Sectors, i)
  BY <1>2, <1>3
<1>5. ASSUME NEW s PROVE OrderIn(flash, Sectors, Relocating(m, s))
  <2> DEFINE d == [i EXCEPT !.locked = m.locked \cup {s}]
  <2>1. d = Relocating(m, s)
    BY DEF Relocating, i
  <2>2. d.phys = i.phys /\ d.seqs = i.seqs /\ d.lut = i.lut
    BY <1>2 DEF TablesIn
  <2> HIDE DEF d
  <2> QED BY <1>4, <2>1, <2>2 DEF OrderIn
<1> QED BY <1>4, <1>5 DEF i, j

(* The tables that are loaded.                                             *)
LEMMA LoadedOrder ==
  ASSUME IInv, Corrupt = {}, Calm(flash, Sectors), Comparable(SeqsIn(flash, Sectors))
  PROVE  OrderIn(flash, Sectors, Loaded(mem))
<1>1. /\ use \in Uses /\ NoSector \notin Sectors /\ flash \in FlashIn(Sectors)
      /\ mem \in TablesIn(Sectors)
  BY InvParts
<1> DEFINE m1 == WithMap(mem)
           w  == Walk(m1)
           q  == LoadedSeqs(m1, w)
           m2 == [m1 EXCEPT !.seqs = q]
           lut == Populate(m2, w)
           m3 == [m2 EXCEPT !.lut = lut]
           sums == [s \in Sectors |-> IF s \in InUse(m3) THEN InactiveSum(m3, s) ELSE 0]
           j  == [m3 EXCEPT !.unique = Len(m3.lut), !.inactive = sums]
<1>2. Loaded(mem) = j
  BY DEF Loaded
<1>3. m1 \in TablesIn(Sectors) /\ TidyIn(flash, Sectors, m1.phys, NoSector)
  BY <1>1, LoadedTidy, WithMapIs
<1> HIDE DEF m1
<1>4. m1.phys \in MapIn(Sectors)
  BY <1>3, TablesParts
<1>5. FlashTyped /\ PhysTyped(m1)
  BY <1>1, <1>4, Bridges DEF PhysTyped, MapIn
<1>6. w \in Seq(Places) /\ Range(w) = {v \in Places : IsSpot(m1, v)}
  BY <1>1, <1>5, WalkIs
<1> HIDE DEF w
<1>7. q = ExtremesOf(Numbered(flash, Sectors, m1.phys))
  <2> DEFINE T == {<<RecordAt(m1, w[i]).seq, w[i].sec>> : i \in DOMAIN w}
             U == Numbered(flash, Sectors, m1.phys)
  <2>1. ASSUME NEW i \in DOMAIN w PROVE <<RecordAt(m1, w[i]).seq, w[i].sec>> \in U
    <3> DEFINE v == w[i]
               r == RecordAt(m1, v)
    <3>1. v \in Places /\ IsSpot(m1, v)
      BY <1>6 DEF Range
    <3> HIDE DEF v
    <3>2. r \in Record
      BY <1>1, <1>5, <3>1, SpotRecord
    <3>3. v.sec \in Sectors
      BY <3>1 DEF Places
    <3>4. Bears(flash, m1.phys, v.sec, r)
      BY <1>1, <1>4, <3>1, <3>3, BearsSpot
    <3> HIDE DEF r
    <3>5. r.seq \in Numbers
      BY <3>2 DEF Record, Numbers
    <3> DEFINE x == <<r.seq, v.sec>>
    <3>6. x \in Numbers \X Sectors /\ x[1] = r.seq /\ x[2] = v.sec
      BY <3>3, <3>5
    <3>7. x \in U
      BY <3>2, <3>4, <3>6 DEF Numbered
    <3> QED BY <3>7 DEF v, r
  <2>2. ASSUME NEW x \in U PROVE x \in T
    <3>1. PICK r \in Record : Bears(flash, m1.phys, x[2], r) /\ r.seq = x[1]
      BY DEF Numbered
    <3>2. x[2] \in Sectors /\ x = <<x[1], x[2]>>
      BY DEF Numbered
    <3>3. PICK v \in Places : IsSpot(m1, v) /\ v.sec = x[2] /\ RecordAt(m1, v) = r
      BY <1>1, <1>4, <3>1, <3>2, BearsSpot
    <3>4. v \in Range(w)
      BY <1>6, <3>3
    <3>5. PICK i \in DOMAIN w : w[i] = v
      BY <3>4 DEF Range
    <3> HIDE DEF U
    <3> QED BY <3>1, <3>2, <3>3, <3>5
  <2>3. q = ExtremesOf(T)
    BY DEF LoadedSeqs
  <2>4. T \subseteq U
    <3> HIDE DEF U
    <3> QED BY <2>1
  <2> HIDE DEF T, U, q
  <2>5. T = U
    BY <2>2, <2>4
  <2> QED BY <2>3, <2>5 DEF U
<1> HIDE DEF q
<1>8. m2.phys = m1.phys /\ m2.seqs = q
  BY <1>3 DEF TablesIn
<1>9. m3.phys = m2.phys /\ m3.seqs = m2.seqs /\ m3.lut = lut
      /\ j.phys = m3.phys /\ j.seqs = m3.seqs /\ j.lut = m3.lut
  <2> HIDE DEF lut, sums
  <2> QED BY <1>3 DEF TablesIn
<1> HIDE DEF m2
<1>10. PhysTyped(m2) /\ Walks(m2, w)
  <2>1. \A v : IsSpot(m1, v) <=> IsSpot(m2, v)
    BY <1>8 DEF IsSpot, InUse, PageOf
  <2>2. PhysTyped(m2)
    BY <1>5, <1>8 DEF PhysTyped
  <2> QED BY <1>6, <2>1, <2>2 DEF Walks
<1>11. Populates(m2, lut)
  BY <1>1, <1>5, <1>10, PopulateOfWalk
<1> HIDE DEF lut, m3, j
<1>12. NewestIn(flash, Sectors, m2.phys, lut)
  <2>1. m2.phys \in MapIn(Sectors) /\ TidyIn(flash, Sectors, m2.phys, NoSector)
        /\ m2.seqs = ExtremesOf(Numbered(flash, Sectors, m2.phys))
    BY <1>3, <1>4, <1>7, <1>8
  <2> QED BY <1>1, <1>11, <2>1, NewestOfPopulates
<1>13. OrderIn(flash, Sectors, j)
  BY <1>7, <1>8, <1>9, <1>12 DEF OrderIn
<1> QED BY <1>2, <1>13
-----------------------------------------------------------------------------
(***************************************************************************)
(* The invariant about the order, and the steps that leave flash and       *)
(* tables in the same order.                                               *)
(***************************************************************************)

(* The calls in progress go by the tables in RAM: no boot and no erase     *)
(* stands between them and the flash.                                      *)
Settles(st) ==
  \/ st = <<>>
  \/ Head(st).op \in {"write", "add", "relocate", "after"}
  \/ Head(st).op = "erase" /\ Head(st).at = "done"

OrdInv ==
  /\ Distinct(flash, Sectors)
  /\ Settles(stack) => OrderIn(flash, Sectors, mem)

LEMMA OrdOn ==
  ASSUME OrdInv, use' = use, Distinct(flash', Sectors),
         Settles(stack') => OrderIn(flash', Sectors, mem')
  PROVE  OrdInv'
BY DEF OrdInv, Sectors, NumSectors

(* Nothing that the order is about changes.                                *)
LEMMA OrdFrom ==
  ASSUME OrdInv, Settles(stack), use' = use, flash' = flash,
         mem'.phys = mem.phys, mem'.seqs = mem.seqs, mem'.lut = mem.lut
  PROVE  OrdInv'
<1>1. OrderIn(flash, Sectors, mem) /\ Distinct(flash, Sectors)
  BY DEF OrdInv
<1>2. OrderIn(flash, Sectors, mem')
  BY <1>1 DEF OrderIn
<1>3. Distinct(flash', Sectors) /\ OrderIn(flash', Sectors, mem')
  BY <1>1, <1>2
<1> QED BY <1>3, OrdOn

LEMMA OrdQuiet ==
  ASSUME OrdInv, Settles(stack), UNCHANGED <<use, flash, mem>>
  PROVE  OrdInv'
BY OrdFrom

LEMMA HeadOnto ==
  ASSUME NEW T, NEW rest \in Seq(T), NEW f
  PROVE  Head(<<f>> \o rest) = f /\ <<f>> \o rest # <<>>
<1> DEFINE A == {f} \cup T
           a == <<f>>
<1>1. a \in Seq(A) /\ rest \in Seq(A) /\ Len(a) = 1 /\ a[1] = f
  OBVIOUS
<1> HIDE DEF a, A
<1> DEFINE c == a \o rest
<1>2. c \in Seq(A) /\ Len(c) = Len(a) + Len(rest) /\ Len(rest) \in Nat
      /\ \A i \in 1 .. Len(a) : c[i] = a[i]
  BY <1>1, ConcatProperties, LenProperties
<1> HIDE DEF c
<1>3. c \in Seq(A) /\ Len(c) >= 1 /\ c[1] = f
  BY <1>1, <1>2
<1>4. c # <<>> /\ Head(c) = f
  BY <1>3
<1> QED BY <1>4 DEF c, a

LEMMA TopTyped ==
  ASSUME IInv, ~Idle
  PROVE  /\ stack # <<>> /\ Head(stack) = Top /\ Top \in FramesIn(Sectors)
         /\ Tail(stack) \in Seq(FramesIn(Sectors))
         /\ \A x : [Top EXCEPT !.at = x].op = Top.op
<1>1. stack \in Seq(FramesIn(Sectors)) /\ stack # <<>>
  BY InvParts, StackTyped DEF Idle
<1>2. Top \in FramesIn(Sectors) /\ Tail(stack) \in Seq(FramesIn(Sectors))
  BY <1>1, HeadTailProperties DEF Top
<1>3. \A x : [Top EXCEPT !.at = x].op = Top.op
  BY <1>2 DEF FramesIn, WriteFrames, AddFrames, RelocateFrames, BootFrames, EraseFrames, AfterFrames
<1> QED BY <1>1, <1>2, <1>3 DEF Top

(* While a boot goes on, the tables do not count.                          *)
LEMMA OrdBoot ==
  ASSUME IInv, OrdInv, use' = use, Distinct(flash', Sectors), ~Idle,
         \/ stack' = stack /\ Top.op = "boot"
         \/ stack' = stack /\ Top.op = "erase" /\ Top.at # "done"
         \/ \E f : stack' = <<f>> \o Tail(stack) /\ f.op = "boot"
         \/ stack' = <<BootFrame>>
         \/ \E b : stack' = <<BootFrame, b>>
         \/ \E f : stack' = <<f>> /\ f.op = "erase" /\ f.at # "done"
  PROVE  OrdInv'
<1>1. Head(stack) = Top /\ stack # <<>> /\ Tail(stack) \in Seq(FramesIn(Sectors))
  BY TopTyped
<1>2. BootFrame.op = "boot"
  BY DEF BootFrame
<1>3. ~Settles(stack')
  <2>1. CASE stack' = stack /\ Top.op = "boot"
    BY <1>1, <2>1 DEF Settles
  <2>2. CASE stack' = stack /\ Top.op = "erase" /\ Top.at # "done"
    BY <1>1, <2>2 DEF Settles
  <2>3. ASSUME NEW f, stack' = <<f>> \o Tail(stack), f.op = "boot" PROVE ~Settles(stack')
    <3>1. Head(stack') = f /\ stack' # <<>>
      BY <1>1, <2>3, HeadOnto
    <3> QED BY <2>3, <3>1 DEF Settles
  <2>4. CASE stack' = <<BootFrame>>
    <3>1. Head(stack') = BootFrame /\ stack' # <<>>
      BY <2>4, Tuples
    <3> QED BY <1>2, <3>1 DEF Settles
  <2>5. ASSUME NEW b, stack' = <<BootFrame, b>> PROVE ~Settles(stack')
    <3>1. Head(stack') = BootFrame /\ stack' # <<>>
      BY <2>5, Tuples
    <3> QED BY <1>2, <3>1 DEF Settles
  <2>6. ASSUME NEW f, stack' = <<f>>, f.op = "erase", f.at # "done" PROVE ~Settles(stack')
    <3>1. Head(stack') = f /\ stack' # <<>>
      BY <2>6, Tuples
    <3> QED BY <2>6, <3>1 DEF Settles
  <2> QED BY <2>1, <2>2, <2>3, <2>4, <2>5, <2>6
<1> QED BY <1>3, OrdOn

LEMMA SettlesAt ==
  /\ Idle => Settles(stack)
  /\ ~Idle /\ Top.op \in {"write", "add", "relocate", "after"} => Settles(stack)
  /\ ~Idle /\ Top.op = "erase" /\ Top.at = "done" => Settles(stack)
BY DEF Idle, Top, Settles

LEMMA OrdBegins ==
  ASSUME IInv, OrdInv,
         \/ \E t \in Tokens : (\E v \in Values : Write(t, v)) \/ Remove(t)
         \/ ErasePool
  PROVE  OrdInv'
<1>1. ASSUME NEW f, Begin(f) PROVE OrdInv'
  <2>1. Idle /\ UNCHANGED <<use, flash, mem>>
    BY <1>1 DEF Begin, CanCall
  <2> QED BY <2>1, SettlesAt, OrdQuiet
<1> QED BY <1>1 DEF Write, Remove, ErasePool

LEMMA OrdEnds ==
  ASSUME IInv, OrdInv,
         EndEvent \/ LowOnSpace \/ AfterNamespace \/ Decide \/ Finish \/ CopyOrDrop \/ EndErase
  PROVE  OrdInv'
<1>1. CASE EndEvent
  BY <1>1, SettlesAt, OrdQuiet DEF EndEvent
<1>2. CASE LowOnSpace
  BY <1>2, SettlesAt, OrdQuiet DEF LowOnSpace, At
<1>3. CASE AfterNamespace
  <2>1. ~Idle /\ Top.op = "write" /\ use' = use /\ flash' = flash
    BY <1>3 DEF AfterNamespace, At
  <2>2. mem' = mem \/ mem' = [mem EXCEPT !.unique = @ + 1]
    BY <1>3 DEF AfterNamespace
  <2>3. mem'.phys = mem.phys /\ mem'.seqs = mem.seqs /\ mem'.lut = mem.lut
    BY <2>2, InvParts DEF TablesIn
  <2> QED BY <2>1, <2>3, SettlesAt, OrdFrom
<1>4. CASE Decide
  BY <1>4, SettlesAt, OrdQuiet DEF Decide, At
<1>5. CASE Finish
  BY <1>5, SettlesAt, OrdQuiet DEF Finish, At
<1>6. CASE CopyOrDrop
  BY <1>6, SettlesAt, OrdQuiet DEF CopyOrDrop, InRelocate
<1>7. CASE EndErase
  BY <1>7, SettlesAt, OrdQuiet DEF EndErase, At
<1> QED BY <1>1, <1>2, <1>3, <1>4, <1>5, <1>6, <1>7

CInv == Comparable(SeqsIn(flash, Sectors))

(* Tables made afresh keep the order.                                      *)
LEMMA OrdFresh ==
  ASSUME IInv, OrdInv, CInv, use' = use, flash' = flash, Settles(stack),
         Kept(flash, Sectors, use.names, mem, NoSector),
         \/ mem' = Fresh(mem) \/ mem' = [Fresh(mem) EXCEPT !.unique = @ + 1]
         \/ mem' = FreshAll(mem)
         \/ \E s : mem' = Relocating(mem, s)
         \/ \E s : mem' = Relocating(FreshAll(mem), s)
  PROVE  OrdInv'
<1>1. use \in Uses /\ flash \in FlashIn(Sectors) /\ mem \in TablesIn(Sectors)
  BY InvParts
<1>2. OrderIn(flash, Sectors, mem) /\ Distinct(flash, Sectors)
  BY DEF OrdInv
<1>3. /\ OrderIn(flash, Sectors, Fresh(mem)) /\ OrderIn(flash, Sectors, FreshAll(mem))
      /\ \A s : OrderIn(flash, Sectors, Relocating(mem, s))
  BY <1>1, <1>2, FreshOrder DEF CInv
<1> DEFINE j == Fresh(mem)
           i == FreshAll(mem)
<1>4. /\ j \in TablesIn(Sectors) /\ i \in TablesIn(Sectors)
      /\ Kept(flash, Sectors, use.names, i, NoSector)
  BY <1>1, FreshIs DEF Refreshed
<1> HIDE DEF j, i
<1>5. \A s : OrderIn(flash, Sectors, Relocating(i, s))
  BY <1>1, <1>3, <1>4, FreshOrder DEF CInv, i
<1>6. OrderIn(flash, Sectors, [j EXCEPT !.unique = @ + 1])
  <2> DEFINE k == [j EXCEPT !.unique = @ + 1]
  <2>1. k.phys = j.phys /\ k.seqs = j.seqs /\ k.lut = j.lut
    BY <1>4 DEF TablesIn
  <2> HIDE DEF k
  <2>2. OrderIn(flash, Sectors, k)
    BY <1>3, <2>1 DEF OrderIn, j
  <2> QED BY <2>2 DEF k
<1>7. OrderIn(flash, Sectors, mem')
  BY <1>3, <1>5, <1>6 DEF i, j
<1> QED BY <1>2, <1>7, OrdOn

LEMMA OrdEvents ==
  ASSUME IInv, OrdInv, CInv, RunRelocate \/ RunDefrag
  PROVE  OrdInv'
<1>1. Idle /\ use' = use /\ flash' = flash
  BY DEF RunRelocate, RunDefrag
<1>2. mem' = mem \/ \E s : mem' = Relocating(mem, s)
  BY DEF RunRelocate, RunDefrag
<1>3. Kept(flash, Sectors, use.names, mem, NoSector)
  BY <1>1, InvParts, StandsShapes DEF Idle
<1>4. CASE mem' = mem
  BY <1>1, <1>4, SettlesAt, OrdQuiet
<1>5. CASE \E s : mem' = Relocating(mem, s)
  BY <1>1, <1>3, <1>5, SettlesAt, OrdFresh
<1> QED BY <1>2, <1>4, <1>5

LEMMA OrdWrites ==
  ASSUME IInv, OrdInv, CInv, Urgent \/ LookupPrevious \/ CleanNamespace
  PROVE  OrdInv'
<1>1. use' = use /\ flash' = flash /\ \E at : At("write", at)
  BY DEF Urgent, LookupPrevious, CleanNamespace
<1>2. ~Idle /\ Top.op = "write"
  BY <1>1 DEF At
<1>3. Settles(stack) /\ Kept(flash, Sectors, use.names, mem, NoSector)
  BY <1>1, <1>2, SettlesAt, WriteOnTop
<1>4. CASE Urgent
  <2>1. mem' = mem \/ \E s : mem' = Relocating(mem, s)
    BY <1>4 DEF Urgent
  <2>2. CASE mem' = mem
    BY <1>1, <1>3, <2>2, OrdQuiet
  <2>3. CASE \E s : mem' = Relocating(mem, s)
    BY <1>1, <1>3, <2>3, OrdFresh
  <2> QED BY <2>1, <2>2, <2>3
<1>5. CASE LookupPrevious
  <2>1. mem' = Fresh(mem) \/ mem' = [Fresh(mem) EXCEPT !.unique = @ + 1]
    BY <1>5 DEF LookupPrevious
  <2> QED BY <1>1, <1>3, <2>1, OrdFresh
<1>6. CASE CleanNamespace
  <2>1. mem' = FreshAll(mem) \/ \E s : mem' = Relocating(FreshAll(mem), s)
    BY <1>6 DEF CleanNamespace
  <2> QED BY <1>1, <1>3, <2>1, OrdFresh
<1> QED BY <1>4, <1>5, <1>6
-----------------------------------------------------------------------------
(***************************************************************************)
(* The order when a record is stored or a sector opened.                   *)
(***************************************************************************)

LEMMA NotedSeqs ==
  ASSUME NEW S, NEW m \in TablesIn(S), NEW q, NEW ina, NEW lut
  PROVE  [m EXCEPT !.seqs = q, !.inactive = ina, !.lut = lut].seqs = q
BY DEF TablesIn

LEMMA OrdStore ==
  ASSUME IInv, OrdInv, CInv, Store, Comparable(SeqsIn(flash', Sectors))
  PROVE  OrdInv'
<1> DEFINE s == Place
           g == PlacePage
           w == Written(TRUE)
           i == Len(PageOf(mem, Place, PlacePage)) + 1
           new == ListAt(mem.lut, Top.tok, Place, PlacePage, i)
           n == NextSeq(mem.seqs)
<1>1. /\ CanStore /\ Appended(TRUE) /\ use' = use
      /\ mem' = Noted(mem, Top.tok, Place, PlacePage, i, n, Top.prev)
  BY DEF Store
<1>2. /\ Top \in AddFrames(Sectors) /\ OpenBy(Top) = NoSector
      /\ s \in Sectors /\ mem.phys[s] \in Sectors /\ g \in Pages
      /\ PageOf(mem, Place, PlacePage) = flash[mem.phys[Place]].page[PlacePage]
  BY <1>1, PlaceIs
<1>3. /\ NoSector \notin Sectors /\ flash \in FlashIn(Sectors) /\ Sectors \subseteq Nat
      /\ mem.phys \in MapIn(Sectors) /\ mem \in TablesIn(Sectors)
      /\ mem.lut \in Seq(Items) /\ mem.unique \in Nat /\ use.names \in Nat
  BY InvParts, Bridges
<1>4. /\ w \in Record /\ Top.tok \in Tokens
      /\ flash' = Stores(flash, mem.phys, s, g, w)
  BY <1>1, AppendedIs
<1> DEFINE t == Top.tok
<1>5. w.tok = t /\ w.ok /\ w.seq = n
  BY DEF Written
<1>6. mem'.phys = mem.phys /\ mem'.lut = new
  BY <1>1, NotedIs
<1>7. mem'.seqs = Register(mem.seqs, n, s)
  BY <1>1, <1>3, NotedSeqs DEF Noted
<1>8. ~Idle /\ Top.op = "add"
  BY <1>1 DEF CanStore, At
<1>9. Kept(flash, Sectors, use.names, mem, NoSector) /\ Joins(mem, t)
  <2>1. Adding(flash, Sectors, use.names, use.cached, mem, Top, Tail(stack))
    BY <1>8, AddOnTop
  <2> QED BY <1>2, <2>1, AddingIs
<1>10. /\ TidyIn(flash, Sectors, mem.phys, NoSector) /\ mem.phys[s] # NoSector
       /\ ListsIn(flash, Sectors, mem.phys, mem.lut)
       /\ Len(mem.lut) <= mem.unique /\ mem.unique <= use.names
  BY <1>2, <1>3, <1>9 DEF Kept
<1> HIDE DEF w, t
<1>11. (\E k \in DOMAIN mem.lut : mem.lut[k].tok = w.tok) \/ Len(mem.lut) < use.names
  <2>1. (\E k \in DOMAIN mem.lut : mem.lut[k].tok = t) \/ Len(mem.lut) < mem.unique
    BY <1>9 DEF Joins
  <2>2. Len(mem.lut) \in Nat
    BY <1>3
  <2> QED BY <1>3, <1>5, <1>10, <2>1, <2>2
<1>12. Settles(stack)
  BY <1>8, SettlesAt
<1>13. /\ Distinct(flash, Sectors) /\ NewestIn(flash, Sectors, mem.phys, mem.lut)
       /\ mem.seqs = ExtremesOf(Numbered(flash, Sectors, mem.phys))
  BY <1>12 DEF OrdInv, OrderIn
<1>14. new = ListAt(mem.lut, w.tok, s, g, Len(flash[mem.phys[s]].page[g]) + 1)
  BY <1>2, <1>5 DEF t
<1>15. w.seq = NextSeq(ExtremesOf(Numbered(flash, Sectors, mem.phys)))
  BY <1>5, <1>13
<1> HIDE DEF s, g, new, n
<1> DEFINE G == flash'
<1>16. Comparable(SeqsIn(flash, Sectors)) /\ Comparable(SeqsIn(G, Sectors))
  BY DEF CInv
<1>17. G = Stores(flash, mem.phys, s, g, w)
  BY <1>4
<1> HIDE DEF G
<1>18. /\ Distinct(G, Sectors) /\ NewestIn(G, Sectors, mem.phys, new)
       /\ Register(ExtremesOf(Numbered(flash, Sectors, mem.phys)), w.seq, s)
            = ExtremesOf(Numbered(G, Sectors, mem.phys))
  <2> DEFINE S == Sectors
             phys == mem.phys
             lut == mem.lut
             F == flash
  <2>1. NoSector \notin S /\ S \subseteq Nat /\ S = Sectors /\ F \in FlashIn(S) /\ phys \in MapIn(S)
    BY <1>3
  <2>2. TidyIn(F, S, phys, NoSector) /\ s \in S /\ phys[s] # NoSector /\ g \in Pages
        /\ w \in Record /\ w.ok /\ lut \in Seq(Items) /\ ListsIn(F, S, phys, lut)
    BY <1>2, <1>3, <1>4, <1>5, <1>10
  <2>3. (\E k \in DOMAIN lut : lut[k].tok = w.tok) \/ Len(lut) < use.names
    BY <1>11
  <2>4. Distinct(F, S) /\ NewestIn(F, S, phys, lut) /\ Comparable(SeqsIn(F, S))
        /\ w.seq = NextSeq(ExtremesOf(Numbered(F, S, phys)))
    BY <1>13, <1>15, <1>16
  <2>5. G = Stores(F, phys, s, g, w) /\ Comparable(SeqsIn(G, S))
        /\ new = ListAt(lut, w.tok, s, g, Len(F[phys[s]].page[g]) + 1)
    BY <1>14, <1>16, <1>17
  <2> HIDE DEF S, phys, lut, F
  <2>6. Sorts(F, S, phys, s, w, G, new)
    BY <2>1, <2>2, <2>3, <2>4, <2>5, StoreOrders
  <2> QED BY <2>6 DEF Sorts, S, phys, lut, F
<1>19. mem'.seqs = ExtremesOf(Numbered(G, Sectors, mem.phys))
  BY <1>5, <1>7, <1>13, <1>18 DEF s, n
<1>20. OrderIn(G, Sectors, mem')
  BY <1>6, <1>18, <1>19 DEF OrderIn
<1> QED BY <1>1, <1>18, <1>20, OrdOn DEF G

(* A sector without records comes or is completed.                         *)
LEMMA SameBorne ==
  ASSUME NEW S, NEW F \in FlashIn(S), NEW G, NEW m, NEW j, OrderIn(F, S, m), Distinct(F, S),
         \A p \in S : Shown(G[p]) \subseteq RecordsIn(F, S),
         j.seqs = m.seqs, j.lut = m.lut,
         \A q \in S : \A r : Bears(G, j.phys, q, r) <=> Bears(F, m.phys, q, r),
         Keeps(S, F, m.phys, G, j.phys, NoSector), NoSector \notin S,
         \A k \in DOMAIN m.lut : Leads(F, S, m.phys, m.lut[k])
  PROVE  Distinct(G, S) /\ OrderIn(G, S, j)
<1>1. Distinct(G, S) /\ RecordsIn(G, S) \subseteq RecordsIn(F, S)
  BY FewerShown
<1>2. Numbered(G, S, j.phys) = Numbered(F, S, m.phys)
  BY NumberedSame
<1>3. ASSUME NEW k \in DOMAIN m.lut
      PROVE  RecordOf(G, j.phys, m.lut[k]) = RecordOf(F, m.phys, m.lut[k])
  <2>1. Leads(F, S, m.phys, m.lut[k])
    OBVIOUS
  <2>2. m.lut[k].sec # NoSector
    BY <2>1 DEF Leads
  <2> QED BY <2>1, <2>2 DEF Keeps, RecordOf
<1>4. OrderIn(G, S, j)
  BY <1>1, <1>2, <1>3, OrderStays
<1> QED BY <1>1, <1>4

LEMMA OpenBears ==
  ASSUME NEW S, NoSector \notin S, NEW F \in FlashIn(S), NEW phys \in MapIn(S),
         FlashGood(F, S), TidyIn(F, S, phys, NoSector),
         NEW s \in S, phys[s] = NoSector, NEW p \in S, F[p] = Blank
  PROVE  LET G == [F EXCEPT ![p] = Opened(s)]
             psys == [phys EXCEPT ![s] = p]
         IN  /\ \A q \in S : \A r : Bears(G, psys, q, r) <=> Bears(F, phys, q, r)
             /\ \A q \in S : Shown(G[q]) \subseteq RecordsIn(F, S)
<1> DEFINE G == [F EXCEPT ![p] = Opened(s)]
           psys == [phys EXCEPT ![s] = p]
<1>1. /\ psys[s] = p /\ G[p] = Opened(s) /\ \A q \in S \ {p} : G[q] = F[q]
      /\ \A q \in S \ {s} : psys[q] = phys[q]
  BY DEF FlashIn, MapIn
<1>2. Shown(Opened(s)) = {} /\ \A g \in Pages : Opened(s).page[g] = <<>>
  BY OpenedIs
<1> HIDE DEF G, psys
<1>3. ASSUME NEW q \in S PROVE Shown(G[q]) \subseteq RecordsIn(F, S)
  BY <1>1, <1>2 DEF RecordsIn
<1>4. ASSUME NEW q \in S, NEW r PROVE Bears(G, psys, q, r) <=> Bears(F, phys, q, r)
  <2>1. CASE q = s
    <3>1. ~Bears(F, phys, q, r)
      BY <2>1 DEF Bears
    <3>2. ~Bears(G, psys, q, r)
      <4>1. \A g \in Pages : G[psys[q]].page[g] = <<>>
        BY <1>1, <1>2, <2>1
      <4>2. \A g \in Pages : \A i \in DOMAIN G[psys[q]].page[g] : FALSE
        BY <4>1
      <4> QED BY <4>2 DEF Bears
    <3> QED BY <3>1, <3>2
  <2>2. CASE q # s
    <3>1. psys[q] = phys[q]
      BY <1>1, <2>2
    <3>2. phys[q] # NoSector => phys[q] \in S \ {p}
      <4> SUFFICES ASSUME phys[q] # NoSector PROVE phys[q] \in S /\ phys[q] # p
        OBVIOUS
      <4>1. phys[q] \in S
        BY DEF MapIn
      <4>2. F[phys[q]].head[1] = HeadOf(q)
        BY DEF TidyIn
      <4>3. F[p].head[1] = NoHeader /\ HeadOf(q) # NoHeader
        BY BlankIs, OpenedIs DEF Pages
      <4> QED BY <4>1, <4>2, <4>3
    <3> QED BY <1>1, <3>1, <3>2 DEF Bears
  <2> QED BY <2>1, <2>2
<1> QED BY <1>3, <1>4 DEF G, psys

LEMMA OrdCreate ==
  ASSUME IInv, OrdInv, Create
  PROVE  OrdInv'
<1>1. ~Idle /\ Top.op = "add" /\ Top.at = "allocate" /\ use' = use
  BY DEF Create, At
<1>2. Kept(flash, Sectors, use.names, mem, NoSector)
  <2>1. OpenBy(Top) = NoSector
    BY <1>1 DEF OpenBy
  <2> QED BY <1>1, <2>1, AddOnTop
<1>3. Settles(stack)
  BY <1>1, SettlesAt
<1>4. CASE ~CanCreate(mem)
  <2>1. flash' = flash /\ mem' = mem
    BY <1>4 DEF Create
  <2> QED BY <1>1, <1>3, <2>1, OrdQuiet
<1>5. CASE CanCreate(mem)
  <2> DEFINE s == FreeLogical(mem)
             p == FreePhysical(mem.last)
             G == [flash EXCEPT ![p] = Opened(s)]
             j == [mem EXCEPT !.phys[s] = p, !.last = p]
             psys == [mem.phys EXCEPT ![s] = p]
  <2>1. /\ flash' = [WriteHeader(p, 1, s) EXCEPT ![p].page = Blank.page] /\ mem' = j
    BY <1>5 DEF Create
  <2>2. /\ use \in Uses /\ NoSector \notin Sectors /\ flash \in FlashIn(Sectors)
        /\ FlashGood(flash, Sectors)
        /\ mem.phys \in MapIn(Sectors) /\ mem \in TablesIn(Sectors) /\ mem.last \in Sectors
    BY InvParts, TablesParts
  <2>3. (\E q \in Sectors : IsFree(q)) /\ InUse(mem) # Sectors
    BY <1>5 DEF CanCreate
  <2>4. s \in Sectors \ InUse(mem)
    BY <2>2, <2>3, FreeLogicalIs
  <2>5. p \in Sectors /\ IsFree(p)
    BY <2>2, <2>3, FreePhysicalIs
  <2> HIDE DEF s, p
  <2>6. mem.phys[s] = NoSector
    BY <2>2, <2>4 DEF InUse
  <2>7. /\ Calm(flash, Sectors) /\ TidyIn(flash, Sectors, mem.phys, NoSector)
        /\ ListsIn(flash, Sectors, mem.phys, mem.lut)
    BY <1>2 DEF Kept
  <2>8. flash[p] = Blank
    <3>1. ~IsValid(flash[p])
      BY <2>5 DEF IsFree, HasValidHeader, IsValid
    <3> QED BY <2>2, <2>5, <2>7, <3>1, FreeIsBlank
  <2>9. flash' = G
    BY <2>1, <2>2, <2>5, <2>8, HeaderOpens
  <2>10. /\ j.phys = psys /\ j.lut = mem.lut /\ j.seqs = mem.seqs
    BY <2>2, <2>4, <2>5 DEF TablesIn
  <2>11. s \in Sectors
    BY <2>4
  <2>12. Keeps(Sectors, flash, mem.phys, G, psys, NoSector)
    BY <2>2, <2>5, <2>6, <2>7, <2>8, <2>11, OpenTidy
  <2>13. /\ \A q \in Sectors : \A r : Bears(G, psys, q, r) <=> Bears(flash, mem.phys, q, r)
         /\ \A q \in Sectors : Shown(G[q]) \subseteq RecordsIn(flash, Sectors)
    BY <2>2, <2>5, <2>6, <2>7, <2>8, <2>11, OpenBears
  <2> HIDE DEF G, psys, j
  <2>14. OrderIn(flash, Sectors, mem) /\ Distinct(flash, Sectors)
    BY <1>3 DEF OrdInv
  <2>15. \A k \in DOMAIN mem.lut : Leads(flash, Sectors, mem.phys, mem.lut[k])
    BY <2>7 DEF ListsIn
  <2>16. Distinct(G, Sectors) /\ OrderIn(G, Sectors, j)
    BY <2>2, <2>10, <2>12, <2>13, <2>14, <2>15, SameBorne
  <2> QED BY <1>1, <2>1, <2>9, <2>16, OrdOn
<1> QED BY <1>4, <1>5

LEMMA OrdSecond ==
  ASSUME IInv, OrdInv, CreateSecond
  PROVE  OrdInv'
<1> DEFINE s == Top.sec
           G == [flash EXCEPT ![mem.phys[s]].head[2] = HeadOf(s)]
<1>1. ~Idle /\ Top.op = "add" /\ Top.at = "header"
  BY DEF CreateSecond, At
<1>2. /\ Top \in AddFrames(Sectors)
      /\ Adding(flash, Sectors, use.names, use.cached, mem, Top, Tail(stack))
      /\ Kept(flash, Sectors, use.names, mem, OpenBy(Top))
  BY <1>1, AddOnTop
<1>3. flash' = G /\ mem' = mem /\ use' = use
  BY DEF CreateSecond, WriteHeader, HeadOf
<1>4. /\ NoSector \notin Sectors /\ flash \in FlashIn(Sectors)
      /\ FlashGood(flash, Sectors) /\ mem.phys \in MapIn(Sectors)
  BY InvParts
<1>5. Adds(flash, Sectors, mem, Top, {})
  BY <1>2, AddingIs
<1>6. s \in Sectors /\ mem.phys[s] # NoSector
  BY <1>1, <1>5 DEF Adds
<1>7. OpenBy(Top) = s
  BY <1>1 DEF OpenBy
<1>8. TidyIn(flash, Sectors, mem.phys, s) /\ ListsIn(flash, Sectors, mem.phys, mem.lut)
  BY <1>2, <1>7 DEF Kept
<1> HIDE DEF s
<1>9. /\ \A q \in Sectors : G[q].page = flash[q].page /\ G[q].head[1] = flash[q].head[1]
      /\ Keeps(Sectors, flash, mem.phys, G, mem.phys, NoSector)
  BY <1>4, <1>6, <1>8, SecondTidy
<1> HIDE DEF G
<1>10. \A q \in Sectors : Shown(G[q]) \subseteq RecordsIn(flash, Sectors)
  <2> TAKE q \in Sectors
  <2>1. Shown(G[q]) = Shown(flash[q])
    BY <1>9 DEF Shown, IsValid
  <2> QED BY <2>1 DEF RecordsIn
<1>11. \A q \in Sectors : \A r : Bears(G, mem.phys, q, r) <=> Bears(flash, mem.phys, q, r)
  <2> TAKE q \in Sectors
  <2>1. mem.phys[q] # NoSector => mem.phys[q] \in Sectors
    BY <1>4 DEF MapIn
  <2>2. mem.phys[q] # NoSector => G[mem.phys[q]].page = flash[mem.phys[q]].page
    BY <1>9, <2>1
  <2> QED BY <2>2 DEF Bears
<1>12. OrderIn(flash, Sectors, mem) /\ Distinct(flash, Sectors)
  BY <1>1, SettlesAt DEF OrdInv
<1>13. \A k \in DOMAIN mem.lut : Leads(flash, Sectors, mem.phys, mem.lut[k])
  BY <1>8 DEF ListsIn
<1>14. Distinct(G, Sectors) /\ OrderIn(G, Sectors, mem)
  BY <1>4, <1>9, <1>10, <1>11, <1>12, <1>13, SameBorne
<1> QED BY <1>3, <1>14, OrdOn
-----------------------------------------------------------------------------
(***************************************************************************)
(* The order when a relocated sector is erased.                            *)
(***************************************************************************)

(* The order when sector s, which no item leads to, goes with numbers that *)
(* are no extremes.                                                        *)
LEMMA GoneOrder ==
  ASSUME NEW S, NoSector \notin S, S \subseteq Nat, NEW F \in FlashIn(S),
         NEW m, m.phys \in MapIn(S), FlashGood(F, S), TidyIn(F, S, m.phys, NoSector),
         ListsIn(F, S, m.phys, m.lut), OrderIn(F, S, m), Distinct(F, S),
         NEW s \in S, m.phys[s] # NoSector, \A k \in DOMAIN m.lut : m.lut[k].sec # s,
         \A r : Bears(F, m.phys, s, r) => r.seq \notin Extremes(m.seqs),
         NEW j, j.phys = Unmapped(m.phys, s), j.lut = m.lut, j.seqs = m.seqs
  PROVE  OrderIn(Erased(F, m.phys, s), S, j)
<1> DEFINE phys == m.phys
           G == Erased(F, phys, s)
           psys == Unmapped(phys, s)
           U == Numbered(F, S, phys)
           V == Numbered(G, S, psys)
<1>0. phys \in MapIn(S) /\ TidyIn(F, S, phys, NoSector) /\ phys[s] # NoSector /\ phys[s] \in S
  BY DEF MapIn
<1> HIDE DEF phys
<1>1. /\ TidyIn(G, S, psys, NoSector) /\ G \in FlashIn(S) /\ psys \in MapIn(S)
      /\ G[phys[s]] = Blank /\ \A q \in S \ {phys[s]} : G[q] = F[q]
      /\ Keeps(S, F, phys, G, psys, s)
  BY <1>0, EraseTidy
<1>2. psys[s] = NoSector /\ \A q \in S \ {s} : psys[q] = phys[q]
  BY <1>0 DEF Unmapped, MapIn
<1> HIDE DEF G, psys
<1>3. RecordsIn(G, S) \subseteq RecordsIn(F, S)
  <2>1. \A q \in S : Shown(G[q]) \subseteq RecordsIn(F, S)
    BY <1>1, BlankIs DEF RecordsIn
  <2> QED BY <2>1, FewerShown
<1>4. ASSUME NEW q \in S, NEW r, q # s
      PROVE  Bears(G, psys, q, r) <=> Bears(F, phys, q, r)
  <2>1. phys[q] # NoSector => phys[q] \in S \ {phys[s]}
    <3>1. phys[q] # NoSector => phys[q] # phys[s]
      BY <1>0, <1>4, MapInjective
    <3> QED BY <1>0, <3>1 DEF MapIn
  <2>2. psys[q] = phys[q]
    BY <1>2, <1>4
  <2>3. phys[q] # NoSector => G[phys[q]] = F[phys[q]]
    BY <1>1, <2>1
  <2>4. CASE phys[q] = NoSector
    BY <2>2, <2>4 DEF Bears
  <2>5. CASE phys[q] # NoSector
    <3>1. G[psys[q]] = F[phys[q]] /\ psys[q] # NoSector
      BY <2>2, <2>3, <2>5
    <3> QED BY <2>5, <3>1 DEF Bears
  <2> QED BY <2>4, <2>5
<1>5. U \in SUBSET (Numbers \X Nat) /\ V \in SUBSET U
  <2>1. U \in SUBSET (Numbers \X Nat)
    BY <1>0, NumberedIs
  <2>2. ASSUME NEW x \in Numbers \X S, \E r \in Record : Bears(G, psys, x[2], r) /\ r.seq = x[1]
        PROVE  \E r \in Record : Bears(F, phys, x[2], r) /\ r.seq = x[1]
    <3>1. x[2] \in S
      OBVIOUS
    <3>2. x[2] # s
      BY <1>2, <2>2 DEF Bears
    <3> QED BY <1>4, <2>2, <3>1, <3>2
  <2>3. V \subseteq U
    BY <2>2 DEF Numbered
  <2> QED BY <2>1, <2>3
<1>6. ASSUME NEW x \in U \ V PROVE x[1] \notin Extremes(ExtremesOf(U))
  <2>1. x \in Numbers \X S /\ x[2] \in S
    BY DEF Numbered
  <2>2. PICK r \in Record : Bears(F, phys, x[2], r) /\ r.seq = x[1]
    BY DEF Numbered
  <2>3. x[2] = s
    <3> SUFFICES ASSUME x[2] # s PROVE FALSE
      OBVIOUS
    <3>1. Bears(G, psys, x[2], r)
      BY <1>4, <2>1, <2>2
    <3> QED BY <2>1, <2>2, <3>1 DEF Numbered
  <2>4. m.seqs = ExtremesOf(U)
    BY DEF OrderIn, phys
  <2> HIDE DEF U
  <2> QED BY <2>2, <2>3, <2>4 DEF phys
<1> HIDE DEF U, V
<1>7. ExtremesOf(V) = ExtremesOf(U)
  BY <1>5, <1>6, ExtremesStay
<1>8. \A k \in DOMAIN m.lut : RecordOf(G, psys, m.lut[k]) = RecordOf(F, phys, m.lut[k])
  <2> TAKE k \in DOMAIN m.lut
  <2>1. Leads(F, S, phys, m.lut[k]) /\ m.lut[k].sec # s
    BY DEF ListsIn, phys
  <2> QED BY <1>1, <2>1 DEF Keeps, RecordOf
<1>9. OrderIn(G, S, j)
  <2>1. j.phys = psys
    BY DEF psys, phys
  <2>2. ExtremesOf(Numbered(G, S, j.phys)) = ExtremesOf(Numbered(F, S, m.phys))
    BY <1>7, <2>1 DEF U, V, phys
  <2>3. \A k \in DOMAIN m.lut : RecordOf(G, j.phys, m.lut[k]) = RecordOf(F, m.phys, m.lut[k])
    BY <1>8, <2>1 DEF phys
  <2> QED BY <1>3, <2>2, <2>3, OrderStays
<1> QED BY <1>9 DEF G, phys

LEMMA BornOn ==
  ASSUME use \in Uses, flash \in FlashIn(Sectors), NEW m, m.phys \in MapIn(Sectors),
         NEW s \in Sectors, NEW r, Bears(flash, m.phys, s, r)
  PROVE  r.seq \in SeqsOn(m.phys[s])
<1>1. NoSector \notin Sectors
  BY NumbersOfSectors
<1>2. PICK g \in Pages : \E i \in DOMAIN flash[m.phys[s]].page[g] : flash[m.phys[s]].page[g][i] = r
  BY DEF Bears
<1>3. r \in Range(flash[m.phys[s]].page[g])
  BY <1>2 DEF Range
<1> QED BY <1>3 DEF SeqsOn

LEMMA OrdErase ==
  ASSUME IInv, OrdInv, EraseRelocated
  PROVE  OrdInv'
<1> DEFINE s == Top.sec
           p == mem.phys[s]
           G == [flash EXCEPT ![p] = Blank]
           j == [mem EXCEPT !.phys[s] = NoSector, !.inactive[s] = 0, !.locked = @ \ {s}]
           again == Top.reset \/ SeqsOn(p) \cap Extremes(mem.seqs) # {}
<1>1. InRelocate /\ Coming = {}
  BY DEF EraseRelocated
<1>2. /\ Top \in RelocateFrames(Sectors) /\ Kept(flash, Sectors, use.names, mem, NoSector)
      /\ Moves(flash, Sectors, use.cached, mem, Top, {})
  BY <1>1, RelocateOnTop
<1>3. /\ flash' = G /\ mem' = j /\ use' = use
      /\ stack' = IF again THEN <<BootFrame>> \o Tail(stack) ELSE Tail(stack)
  BY DEF EraseRelocated
<1>4. /\ NoSector \notin Sectors /\ mem \in TablesIn(Sectors) /\ mem.phys \in MapIn(Sectors)
      /\ flash \in FlashIn(Sectors) /\ FlashGood(flash, Sectors) /\ Sectors \subseteq Nat
      /\ mem.lut \in Seq(ItemsIn(Sectors)) /\ use \in Uses
  BY InvParts
<1>5. s \in Sectors /\ mem.phys[s] # NoSector /\ p \in Sectors
  BY <1>2, <1>4 DEF Moves, MapIn
<1>6. ~Idle /\ Top.op = "relocate"
  BY <1>1 DEF InRelocate
<1>7. OrderIn(flash, Sectors, mem) /\ Distinct(flash, Sectors)
  BY <1>6, SettlesAt DEF OrdInv
<1>8. Distinct(G, Sectors)
  BY <1>4, <1>7, BlankIs, OneChanged
<1>9. CASE again
  <2>1. stack' = <<BootFrame>> \o Tail(stack) /\ BootFrame.op = "boot"
    BY <1>3, <1>9 DEF BootFrame
  <2>2. Distinct(flash', Sectors) /\ use' = use
    BY <1>3, <1>8
  <2> HIDE DEF G, j, again, p, s
  <2> QED BY <1>6, <2>1, <2>2, OrdBoot
<1>10. CASE ~again
  <2>1. ~Top.reset /\ SeqsOn(p) \cap Extremes(mem.seqs) = {}
    BY <1>10
  <2>2. \A k \in DOMAIN mem.lut : mem.lut[k].sec # s
    <3> SUFFICES ASSUME NEW k \in DOMAIN mem.lut, mem.lut[k].sec = s PROVE FALSE
      OBVIOUS
    <3>1. ~(k >= Top.next)
      BY <1>1 DEF Coming
    <3>2. k < Top.next
      BY <1>2, <1>4, <3>1 DEF RelocateFrames
    <3> QED BY <1>2, <2>1, <3>2 DEF Moves
  <2>3. /\ j.phys = Unmapped(mem.phys, s) /\ j.lut = mem.lut /\ j.seqs = mem.seqs
    BY <1>4, <1>5 DEF TablesIn, Unmapped
  <2>4. TidyIn(flash, Sectors, mem.phys, NoSector) /\ ListsIn(flash, Sectors, mem.phys, mem.lut)
    BY <1>2 DEF Kept
  <2> HIDE DEF j, s
  <2>5. \A r : Bears(flash, mem.phys, s, r) => r.seq \notin Extremes(mem.seqs)
    <3> SUFFICES ASSUME NEW r, Bears(flash, mem.phys, s, r) PROVE r.seq \notin Extremes(mem.seqs)
      OBVIOUS
    <3>1. r.seq \in SeqsOn(p)
      BY <1>4, <1>5, BornOn
    <3> QED BY <2>1, <3>1
  <2>6. OrderIn(Erased(flash, mem.phys, s), Sectors, j)
    BY <1>4, <1>5, <1>7, <2>2, <2>3, <2>4, <2>5, GoneOrder
  <2>7. OrderIn(flash', Sectors, mem')
    BY <1>3, <2>6 DEF Erased
  <2>8. Distinct(flash', Sectors) /\ use' = use
    BY <1>3, <1>8
  <2> QED BY <2>7, <2>8, OrdOn
<1> QED BY <1>9, <1>10
-----------------------------------------------------------------------------
(***************************************************************************)
(* The order while the flash is erased, salvaged and loaded.               *)
(***************************************************************************)

LEMMA OrdWipe ==
  ASSUME IInv, OrdInv, Wipe \/ FindPending
  PROVE  OrdInv'
<1>1. ~Idle /\ Top.op \in {"boot", "erase"} /\ use' = use
  BY DEF Wipe, FindPending, At
<1>2. /\ flash \in FlashIn(Sectors) /\ Sectors \subseteq Nat /\ Distinct(flash, Sectors)
  BY InvParts DEF OrdInv
<1>3. \A x : [Top EXCEPT !.at = x].op = Top.op
  BY <1>1, TopTyped
<1>4. ASSUME NEW x, Goto(x), Top.op = "boot", flash' = flash PROVE OrdInv'
  <2> DEFINE f == [Top EXCEPT !.at = x]
  <2>1. stack' = <<f>> \o Tail(stack) /\ f.op = "boot"
    BY <1>3, <1>4 DEF Goto
  <2>2. Distinct(flash', Sectors)
    BY <1>2, <1>4
  <2> HIDE DEF f
  <2> QED BY <1>1, <2>1, <2>2, OrdBoot
<1>5. CASE FindPending
  <2>1. \E x : Goto(x)
    BY <1>5 DEF FindPending
  <2>2. Top.op = "boot" /\ flash' = flash
    BY <1>5 DEF FindPending, At
  <2> QED BY <1>4, <2>1, <2>2
<1>6. CASE Wipe /\ Dirty # {}
  <2>1. flash' = [flash EXCEPT ![Min(Dirty)] = Blank] /\ stack' = stack /\ Top.at = "wipe"
    BY <1>6 DEF Wipe, At
  <2>2. Distinct([flash EXCEPT ![Min(Dirty)] = Blank], Sectors)
    BY <1>2, BlankIs, OneChanged
  <2>3. Distinct(flash', Sectors)
    BY <2>1, <2>2
  <2>4. CASE Top.op = "boot"
    BY <1>1, <2>1, <2>3, <2>4, OrdBoot
  <2>5. CASE Top.op = "erase"
    <3>1. Top.at # "done"
      BY <2>1
    <3> QED BY <1>1, <2>1, <2>3, <2>5, <3>1, OrdBoot
  <2> QED BY <1>1, <2>4, <2>5
<1>7. CASE Wipe /\ Dirty = {}
  <2>1. flash' = flash
    BY <1>7 DEF Wipe
  <2>2. CASE Top.op = "boot"
    <3>1. Goto("corrupt")
      BY <1>7, <2>2 DEF Wipe
    <3> QED BY <1>4, <2>1, <2>2, <3>1
  <2>3. CASE Top.op = "erase"
    <3> DEFINE b == [Top EXCEPT !.at = "done"]
    <3>1. stack' = <<BootFrame, b>> \o Tail(stack)
      BY <1>7, <2>3 DEF Wipe, CallingAt
    <3>2. Tail(stack) = <<>>
      BY <1>1, <2>3, EraseOnTop
    <3> HIDE DEF b
    <3>3. stack' = <<BootFrame, b>>
      BY <3>1, <3>2, TuplesEmpty
    <3>4. Distinct(flash', Sectors)
      BY <1>2, <2>1
    <3> QED BY <1>1, <3>3, <3>4, OrdBoot
  <2> QED BY <1>1, <2>2, <2>3
<1> QED BY <1>5, <1>6, <1>7

LEMMA OrdSalvage ==
  ASSUME IInv, OrdInv, Salvage
  PROVE  OrdInv'
<1> DEFINE m == WithMap(mem)
           s == FreeLogical(m)
           p == FreePhysical(m.last)
           b == Min(Corrupt)
           f == [Top EXCEPT !.at = "header", !.from = b, !.to = p]
<1>1. ~Idle /\ Top.op = "boot" /\ Top.at = "corrupt" /\ use' = use
  BY DEF Salvage, At
<1>2. /\ use \in Uses /\ NoSector \notin Sectors /\ flash \in FlashIn(Sectors)
      /\ FlashGood(flash, Sectors) /\ Sectors \subseteq Nat /\ mem \in TablesIn(Sectors)
      /\ Distinct(flash, Sectors)
  BY InvParts DEF OrdInv
<1>3. CASE ~CanCreate(m)
  <2>1. flash' = flash /\ stack' = stack
    BY <1>3 DEF Salvage
  <2> QED BY <1>1, <1>2, <2>1, OrdBoot
<1>4. CASE CanCreate(m)
  <2>1. flash' = WriteHeader(p, 1, s) /\ stack' = <<f>> \o Tail(stack)
    BY <1>4 DEF Salvage
  <2>2. Top \in BootFrames(Sectors) /\ Calm(flash, Sectors)
    BY <1>1, BootOnTop DEF Boots
  <2>3. m \in TablesIn(Sectors)
    BY <1>2, WithMapIs
  <2> HIDE DEF m
  <2>4. m.last \in Sectors
    BY <2>3, TablesParts
  <2>5. (\E q \in Sectors : IsFree(q)) /\ InUse(m) # Sectors
    BY <1>4 DEF CanCreate
  <2>6. s \in Sectors
    BY <1>2, <2>5, FreeLogicalIs
  <2>7. p \in Sectors /\ IsFree(p)
    BY <1>2, <2>4, <2>5, FreePhysicalIs
  <2> HIDE DEF s, p, b
  <2>8. flash[p] = Blank
    <3>1. ~IsValid(flash[p])
      BY <2>7 DEF IsFree, HasValidHeader, IsValid
    <3> QED BY <1>2, <2>2, <2>7, <3>1, FreeIsBlank
  <2>9. flash' = [flash EXCEPT ![p] = Opened(s)]
    BY <1>2, <2>1, <2>7, <2>8, HeaderOpens
  <2>10. Shown(Opened(s)) = {}
    BY <1>2, <2>6, OpenedIs
  <2>11. Distinct([flash EXCEPT ![p] = Opened(s)], Sectors)
    BY <1>2, <2>10, OneChanged
  <2>12. f.op = "boot"
    BY <2>2 DEF BootFrames
  <2> HIDE DEF f
  <2>13. Distinct(flash', Sectors)
    BY <2>9, <2>11
  <2> QED BY <1>1, <2>1, <2>12, <2>13, OrdBoot
<1> QED BY <1>3, <1>4

LEMMA OrdSalvageSecond ==
  ASSUME IInv, OrdInv, SalvageSecond
  PROVE  OrdInv'
<1> DEFINE p == Top.to
           h == HeadOf(flash[p].head[1].id)
           x == [flash[p] EXCEPT !.head[2] = h]
           f == [Top EXCEPT !.at = "copy"]
<1>1. /\ ~Idle /\ Top.op = "boot" /\ Top.at = "header" /\ use' = use
      /\ flash' = [flash EXCEPT ![p].head[2] = h] /\ stack' = <<f>> \o Tail(stack)
  BY DEF SalvageSecond, WriteHeader, HeadOf, Goto, At
<1>2. Top \in BootFrames(Sectors) /\ p \in Sectors
  BY <1>1, BootOnTop DEF Boots
<1>3. flash \in FlashIn(Sectors) /\ Distinct(flash, Sectors)
  BY InvParts DEF OrdInv
<1>4. f.op = "boot"
  BY <1>2 DEF BootFrames
<1> HIDE DEF f, h, p
<1>5. flash' = [flash EXCEPT ![p] = x]
  BY <1>1, <1>3 DEF FlashIn
<1>6. flash[p] \in SectorsIn(Sectors)
  BY <1>2, <1>3 DEF FlashIn
<1>7. x.page = flash[p].page /\ x.head[1] = flash[p].head[1]
  BY <1>6 DEF SectorsIn, Pages
<1> HIDE DEF x
<1>8. Shown(x) = Shown(flash[p])
  BY <1>7 DEF Shown, IsValid
<1>9. Shown(x) \subseteq RecordsIn(flash, Sectors)
  BY <1>2, <1>8 DEF RecordsIn
<1>10. Distinct([flash EXCEPT ![p] = x], Sectors)
  BY <1>3, <1>9, OneChanged
<1> QED BY <1>1, <1>4, <1>5, <1>10, OrdBoot

(* A copied record is one of those that are there, or not good.            *)
LEMMA CopyShows ==
  ASSUME IInv, Distinct(flash, Sectors), ~Idle, Top.op = "boot", Top.at = "copy",
         Missing # {}, NEW ok \in BOOLEAN, Copied(ok)
  PROVE  Distinct(flash', Sectors)
<1> DEFINE g == Min(Missing)
           from == Top.from
           to == Top.to
           r == Copy(flash, from, to, g, ok)
           x == With(flash[to], g, r)
           a == flash[to].page[g]
           b == GoodRecords(flash[from].page[g])
<1>1. Top \in BootFrames(Sectors) /\ Boots(flash, Sectors, Top)
  BY BootOnTop
<1>2. /\ NoSector \notin Sectors /\ RoomIn(flash, Sectors) /\ flash \in FlashIn(Sectors)
  BY InvParts
<1>3. /\ to \in Sectors /\ from \in Sectors /\ from # to
      /\ IsValid(flash[from]) /\ IsSound(flash[to])
      /\ \A h \in Pages : Begun(flash, from, to, h)
  BY <1>1 DEF Boots, Begun
<1>4. g \in Pages /\ Len(flash[to].page[g]) < Len(GoodRecords(flash[from].page[g]))
  <2>1. Missing \subseteq Nat
    BY DEF Missing, Pages
  <2>2. g \in Missing
    BY <2>1, MinIs
  <2> QED BY <2>2 DEF Missing
<1>5. flash' = [flash EXCEPT ![to] = x]
  BY <1>2, <1>3 DEF Copied, Copy, With, FlashIn
<1> HIDE DEF g, from, to
<1>6. /\ r \in Record /\ r.ok = ok /\ Len(a) + 1 \in DOMAIN b /\ (ok => r = b[Len(a) + 1])
  BY <1>2, <1>3, <1>4, CopyIs
<1> HIDE DEF r
<1>7. flash[to] \in SectorsIn(Sectors) /\ AllOk(flash[to].page[g])
  <2>1. AllOk(flash[to].page[g])
    BY <1>3, <1>4, BrokenIs DEF IsSound
  <2>2. flash[to] \in SectorsIn(Sectors)
    BY <1>2, <1>3 DEF FlashIn
  <2> QED BY <2>1, <2>2
<1>8. \A o \in Shown(x) : o \in Shown(flash[to]) \/ (o = r /\ r.ok)
  BY <1>4, <1>6, <1>7, WithShows
<1> HIDE DEF x
<1>9. ok => r \in Shown(flash[from])
  <2> SUFFICES ASSUME ok PROVE r \in Shown(flash[from])
    OBVIOUS
  <2>1. r \in Range(b)
    BY <1>6 DEF Range
  <2> QED BY <1>3, <1>4, <2>1 DEF Shown
<1>10. Shown(x) \subseteq RecordsIn(flash, Sectors)
  BY <1>3, <1>6, <1>8, <1>9 DEF RecordsIn
<1>11. Distinct([flash EXCEPT ![to] = x], Sectors)
  BY <1>2, <1>10, OneChanged
<1> QED BY <1>5, <1>11

LEMMA OrdCopy ==
  ASSUME IInv, OrdInv, SalvageRecord \/ EraseSalvaged
  PROVE  OrdInv'
<1>1. ~Idle /\ Top.op = "boot" /\ Top.at = "copy" /\ use' = use
  BY DEF SalvageRecord, EraseSalvaged, At
<1>2. flash \in FlashIn(Sectors) /\ Distinct(flash, Sectors)
  BY InvParts DEF OrdInv
<1>3. CASE SalvageRecord
  <2>1. Missing # {} /\ Copied(TRUE) /\ stack' = stack
    BY <1>3 DEF SalvageRecord
  <2>2. Distinct(flash', Sectors)
    BY <1>1, <1>2, <2>1, CopyShows
  <2> QED BY <1>1, <2>1, <2>2, OrdBoot
<1>4. CASE EraseSalvaged
  <2> DEFINE f == [Top EXCEPT !.at = "corrupt"]
  <2>1. flash' = [flash EXCEPT ![Top.from] = Blank] /\ stack' = <<f>> \o Tail(stack)
    BY <1>4 DEF EraseSalvaged, Goto
  <2>2. f.op = "boot"
    BY <1>1, TopTyped
  <2> HIDE DEF f
  <2>3. Distinct([flash EXCEPT ![Top.from] = Blank], Sectors)
    BY <1>2, BlankIs, OneChanged
  <2>4. Distinct(flash', Sectors)
    BY <2>1, <2>3
  <2> QED BY <1>1, <2>1, <2>2, <2>4, OrdBoot
<1> QED BY <1>3, <1>4

LEMMA OrdFlag ==
  ASSUME IInv, OrdInv, FlagSector
  PROVE  OrdInv'
<1> DEFINE p == Top.p
           h == [flash[p].head[1] EXCEPT !.pending = TRUE]
           x == [flash[p] EXCEPT !.head[1] = h]
           q == (Top.p + 1) % NumSectors
           at == IF Top.p = NumSectors - 1 THEN "wipe" ELSE "flag"
           f == [Top EXCEPT !.p = q, !.at = at]
<1>1. ~Idle /\ Top.op = "erase" /\ use' = use
  BY DEF FlagSector, At
<1>2. Top \in EraseFrames(Sectors) /\ p \in Sectors
  BY <1>1, EraseOnTop DEF EraseFrames
<1>3. flash' = [flash EXCEPT ![p].head[1].pending = TRUE] /\ stack' = <<f>>
  <2>1. [Top EXCEPT !.p = (@ + 1) % NumSectors, !.at = at] = f
    BY <1>2 DEF EraseFrames
  <2> QED BY <2>1 DEF FlagSector
<1>4. at # "done"
  OBVIOUS
<1> HIDE DEF q, at, p
<1>5. f.op = "erase" /\ f.at # "done"
  BY <1>2, <1>4 DEF EraseFrames
<1> HIDE DEF f
<1>6. flash \in FlashIn(Sectors) /\ Distinct(flash, Sectors)
  BY InvParts DEF OrdInv
<1>7. flash' = [flash EXCEPT ![p] = x]
  BY <1>3, <1>6 DEF FlashIn
<1>8. flash[p] \in SectorsIn(Sectors)
  BY <1>2, <1>6 DEF FlashIn
<1>9. h.id = flash[p].head[1].id
  BY <1>8 DEF SectorsIn, HeadersIn, Pages
<1> HIDE DEF h
<1>10. x.page = flash[p].page /\ x.head[1] = h
  BY <1>8 DEF SectorsIn, Pages
<1> HIDE DEF x
<1>11. Shown(x) = Shown(flash[p])
  BY <1>9, <1>10 DEF Shown, IsValid
<1>12. Shown(x) \subseteq RecordsIn(flash, Sectors)
  BY <1>2, <1>11 DEF RecordsIn
<1>13. Distinct([flash EXCEPT ![p] = x], Sectors)
  BY <1>6, <1>12, OneChanged
<1>14. Distinct(flash', Sectors)
  BY <1>7, <1>13
<1> QED BY <1>1, <1>3, <1>5, <1>14, OrdBoot

LEMMA OrdReset ==
  ASSUME IInv, OrdInv, ResetBetween \/ ResetInStore \/ ResetInCopy
  PROVE  OrdInv'
<1>1. stack' = <<BootFrame>> /\ use' = use
  BY DEF ResetBetween, ResetInStore, ResetInCopy, PowerUp
<1>2. ~Settles(stack')
  <2>1. Head(stack') = BootFrame /\ stack' # <<>>
    BY <1>1, Tuples
  <2>2. BootFrame.op = "boot"
    BY DEF BootFrame
  <2> QED BY <2>1, <2>2 DEF Settles
<1>3. flash \in FlashIn(Sectors) /\ Distinct(flash, Sectors) /\ NoSector \notin Sectors
  BY InvParts DEF OrdInv
<1>4. Distinct(flash', Sectors)
  <2>1. CASE ResetBetween
    BY <1>3, <2>1 DEF ResetBetween
  <2>2. CASE ResetInCopy
    <3>1. ~Idle /\ Top.op = "boot" /\ Top.at = "copy" /\ Missing # {} /\ Copied(FALSE)
      BY <2>2 DEF ResetInCopy, At
    <3> QED BY <1>3, <3>1, CopyShows
  <2>3. CASE ResetInStore
    <3> DEFINE p == mem.phys[Place]
               g == PlacePage
               w == Written(FALSE)
    <3>1. CanStore /\ Appended(FALSE)
      BY <2>3 DEF ResetInStore
    <3>2. w \in Record /\ flash' = Stores(flash, mem.phys, Place, g, w)
      BY <3>1, AppendedIs
    <3>3. OpenBy(Top) = NoSector /\ Place \in Sectors /\ p \in Sectors /\ g \in Pages
      BY <3>1, PlaceIs
    <3>4. Kept(flash, Sectors, use.names, mem, NoSector)
      <4>1. ~Idle /\ Top.op = "add"
        BY <3>1 DEF CanStore, At
      <4> QED BY <3>3, <4>1, AddOnTop
    <3>5. flash[p] \in SectorsIn(Sectors) /\ AllOk(flash[p].page[g])
      BY <1>3, <3>3, <3>4 DEF FlashIn, Kept, TidyIn
    <3>6. ~w.ok
      BY DEF Written
    <3>7. flash' = [flash EXCEPT ![p] = With(flash[p], g, w)]
      BY <3>2 DEF Stores
    <3> HIDE DEF p, g, w
    <3>8. \A o \in Shown(With(flash[p], g, w)) : o \in Shown(flash[p])
      BY <3>2, <3>3, <3>5, <3>6, WithShows
    <3>9. Shown(With(flash[p], g, w)) \subseteq RecordsIn(flash, Sectors)
      BY <3>3, <3>8 DEF RecordsIn
    <3>10. Distinct([flash EXCEPT ![p] = With(flash[p], g, w)], Sectors)
      BY <1>3, <3>9, OneChanged
    <3> QED BY <3>7, <3>10
  <2> QED BY <2>1, <2>2, <2>3
<1> QED BY <1>1, <1>2, <1>4, OrdOn

LEMMA OrdLoad ==
  ASSUME IInv, OrdInv, CInv, LoadTables
  PROVE  OrdInv'
<1>1. flash' = flash /\ use' = use
  BY DEF LoadTables
<1>2. Calm(flash, Sectors) /\ Corrupt = {} /\ mem' = Loaded(mem)
  BY LoadTablesIs
<1>3. OrderIn(flash, Sectors, Loaded(mem))
  BY <1>2, LoadedOrder DEF CInv
<1>4. Distinct(flash', Sectors) /\ OrderIn(flash', Sectors, mem')
  BY <1>1, <1>2, <1>3 DEF OrdInv
<1> QED BY <1>1, <1>4, OrdOn

LEMMA OrdNext ==
  ASSUME IInv, OrdInv, CInv, Comparable(SeqsIn(flash', Sectors)), [Next]_vars
  PROVE  OrdInv'
<1>1. CASE Environment
  BY <1>1, OrdBegins, OrdReset DEF Environment
<1>2. CASE Progress
  BY <1>2, OrdWrites, OrdEnds, OrdCreate, OrdSecond, OrdStore, OrdErase, OrdWipe, OrdSalvage,
     OrdSalvageSecond, OrdCopy, OrdLoad, OrdFlag DEF Progress
<1>3. CASE RunRelocate \/ RunDefrag
  BY <1>3, OrdEvents
<1>4. CASE UNCHANGED vars
  <2>1. UNCHANGED <<use, flash, mem, stack>>
    BY <1>4 DEF vars
  <2> QED BY <2>1, OrdOn DEF OrdInv
<1> QED BY <1>1, <1>2, <1>3, <1>4 DEF Next

LEMMA OrdInit ==
  ASSUME Init PROVE OrdInv
<1>1. ~Settles(stack)
  <2>1. stack = <<BootFrame>>
    BY DEF Init
  <2>2. Head(stack) = BootFrame /\ stack # <<>>
    BY <2>1, Tuples
  <2>3. BootFrame.op = "boot"
    BY DEF BootFrame
  <2> QED BY <2>2, <2>3 DEF Settles
<1>2. use \in Uses
  BY DEF Init
<1>3. CASE flash = [p \in Sectors |-> Blank]
  <2>1. RecordsIn(flash, Sectors) = {}
    BY <1>3, BlankIs DEF RecordsIn
  <2> QED BY <1>1, <2>1 DEF OrdInv, Distinct
<1>4. ASSUME use.start # <<>>, NEW t \in [Pages -> Tokens], NEW v \in [Pages -> Values],
             flash = [p \in Sectors |-> IF p # 0 THEN Blank ELSE Left(t, v)]
      PROVE  OrdInv
  <2> DEFINE r(g) == [tok |-> t[g], val |-> v[g], seq |-> use.start[g], ok |-> TRUE]
             x == Left(t, v)
  <2>1. use.start[1] # use.start[2]
    BY <1>2, <1>4, NvmAssumption
  <2>2. \A g \in Pages : x.page[g] = <<r(g)>>
    BY DEF Left
  <2>3. \A g \in Pages : Range(GoodRecords(x.page[g])) \subseteq {r(g)}
    <3> TAKE g \in Pages
    <3>1. \A i \in DOMAIN <<r(g)>> : <<r(g)>>[i].ok
      OBVIOUS
    <3>2. GoodRecords(<<r(g)>>) = <<r(g)>>
      BY <3>1 DEF GoodRecords
    <3> HIDE DEF r, x
    <3>3. Range(<<r(g)>>) = {r(g)}
      BY DEF Range
    <3> QED BY <2>2, <3>2, <3>3
  <2>4. \A p \in Sectors : flash[p] = Blank \/ flash[p] = x
    BY <1>4
  <2>5. \A g, h \in Pages : r(g).seq = r(h).seq => r(g) = r(h)
    <3>1. \A g, h \in Pages : use.start[g] = use.start[h] => g = h
      BY <2>1 DEF Pages
    <3> QED BY <3>1
  <2> HIDE DEF x, r
  <2>6. \A o \in RecordsIn(flash, Sectors) : \E g \in Pages : o = r(g)
    <3>1. \A o \in Shown(x) : \E g \in Pages : o = r(g)
      BY <2>3 DEF Shown
    <3> QED BY <2>4, <3>1, BlankIs DEF RecordsIn
  <2>7. Distinct(flash, Sectors)
    BY <2>5, <2>6 DEF Distinct
  <2> QED BY <1>1, <2>7 DEF OrdInv
<1> QED BY <1>3, <1>4 DEF Init, Left
-----------------------------------------------------------------------------
(***************************************************************************)
(* What is read is what is stored.                                         *)
(***************************************************************************)

LEMMA ComparableIs ==
  NumbersComparable <=> CInv
BY Bridges DEF NumbersComparable, CInv, SeqsIn

(* The table that a call goes by leads to the newest record of a token.    *)
LEMMA LookupIs ==
  ASSUME IInv, OrdInv, CInv, Settles(stack),
         Kept(flash, Sectors, use.names, mem, NoSector), NEW t \in Tokens
  PROVE  Lookup(Fresh(mem), t) = StoredIn(RecordsIn(flash, Sectors))[t]
<1> DEFINE j == Fresh(mem)
<1>1. /\ use \in Uses /\ NoSector \notin Sectors /\ flash \in FlashIn(Sectors)
      /\ mem \in TablesIn(Sectors)
  BY InvParts
<1>2. OrderIn(flash, Sectors, mem) /\ Distinct(flash, Sectors)
  BY DEF OrdInv
<1>3. j \in TablesIn(Sectors) /\ Kept(flash, Sectors, use.names, j, NoSector)
  BY <1>1, FreshIs DEF Refreshed
<1>4. OrderIn(flash, Sectors, j)
  BY <1>1, <1>2, FreshOrder DEF CInv
<1> HIDE DEF j
<1>5. /\ TidyIn(flash, Sectors, j.phys, NoSector) /\ ListsIn(flash, Sectors, j.phys, j.lut)
      /\ j.phys \in MapIn(Sectors) /\ NewestIn(flash, Sectors, j.phys, j.lut)
  BY <1>3, <1>4, TablesParts DEF Kept, OrderIn
<1>6. /\ \A k \in DOMAIN j.lut : StoredIn(RecordsIn(flash, Sectors))[j.lut[k].tok]
                                   = RecordOf(flash, j.phys, j.lut[k]).val
      /\ (\A k \in DOMAIN j.lut : j.lut[k].tok # t)
           => StoredIn(RecordsIn(flash, Sectors))[t] = Removed
  BY <1>1, <1>2, <1>5, ReadsFrom
<1>7. CASE ItemOf(j, t) = {}
  BY <1>6, <1>7 DEF ItemOf, Lookup, j
<1>8. CASE ItemOf(j, t) # {}
  <2> DEFINE k == CHOOSE i \in ItemOf(j, t) : TRUE
  <2>1. k \in DOMAIN j.lut /\ j.lut[k].tok = t
    <3>1. k \in ItemOf(j, t)
      BY <1>8
    <3> QED BY <3>1 DEF ItemOf
  <2>2. Lookup(j, t) = RecordOf(flash, j.phys, j.lut[k]).val
    BY <1>8 DEF Lookup, RecordAt, PageOf, RecordOf
  <2> HIDE DEF k
  <2> QED BY <1>6, <2>1, <2>2 DEF j
<1> QED BY <1>7, <1>8

LEMMA ReadsHold ==
  ASSUME IInv, OrdInv, CInv PROVE ReadsStored
<1> SUFFICES ASSUME Idle, NEW t \in Tokens
             PROVE  Lookup(Fresh(mem), t) = Stored[t]
  BY DEF ReadsStored
<1>1. Stands(flash, Sectors, use.names, use.cached, mem, stack)
  BY InvParts
<1>2. Kept(flash, Sectors, use.names, mem, NoSector)
  BY <1>1, StandsShapes DEF Idle
<1>3. Stored = StoredIn(RecordsIn(flash, Sectors))
  BY Bridges DEF Stored
<1> QED BY <1>2, <1>3, SettlesAt, LookupIs

(* The invariants that say so, while the numbers can be compared.          *)
LEMMA OrderHolds == Spec /\ []NumbersComparable => [](IInv /\ OrdInv)
<1>1. Init => OrdInv
  BY OrdInit
<1>2. IInv /\ OrdInv /\ NumbersComparable /\ NumbersComparable' /\ [Next]_vars => OrdInv'
  <2> SUFFICES ASSUME IInv, OrdInv, NumbersComparable, NumbersComparable', [Next]_vars
               PROVE  OrdInv'
    OBVIOUS
  <2>1. IInv'
    BY NextKeeps
  <2>2. CInv /\ CInv'
    BY ComparableIs, PTL
  <2>3. Sectors' = Sectors
    BY UseStays DEF Sectors, NumSectors
  <2>4. Comparable(SeqsIn(flash', Sectors))
    BY <2>2, <2>3 DEF CInv
  <2> QED BY <2>2, <2>4, OrdNext
<1> QED BY <1>1, <1>2, NvmInvariant, PTL DEF Spec

(* What the table leads to is what is stored (lines 1564-1568), for as     *)
(* long as the numbers of the pool can be compared.                        *)
THEOREM NvmReads == Spec /\ []NumbersComparable => []ReadsStored
<1>1. IInv /\ OrdInv /\ NumbersComparable => ReadsStored
  BY ComparableIs, ReadsHold
<1> QED BY <1>1, OrderHolds, PTL

(* The extremes that are kept are those of the flash (lines 1249-1306),    *)
(* for as long.                                                            *)
THEOREM NvmExtremes == Spec /\ []NumbersComparable => []ExtremesKept
<1>1. ASSUME IInv, OrdInv PROVE ExtremesKept
  <2> DEFINE S(s) == {<<n, s>> : n \in SeqsOn(mem.phys[s])}
             U == UNION {S(s) : s \in InUse(mem)}
  <2> SUFFICES ASSUME Idle PROVE mem.seqs = ExtremesOf(U)
    BY DEF ExtremesKept
  <2>1. mem.seqs = ExtremesOf(Numbered(flash, Sectors, mem.phys))
    BY <1>1, SettlesAt DEF OrdInv, OrderIn, Idle
  <2>2. /\ flash \in FlashIn(Sectors) /\ NoSector \notin Sectors
        /\ mem.phys \in [Sectors -> Sectors \cup {NoSector}]
    BY <1>1, InvParts, TablesParts DEF MapIn
  <2>3. ASSUME NEW s \in Sectors, mem.phys[s] # NoSector, NEW n
        PROVE  n \in SeqsOn(mem.phys[s])
                 <=> n \in Numbers /\ \E r \in Record : Bears(flash, mem.phys, s, r) /\ r.seq = n
    <3> DEFINE p == mem.phys[s]
    <3>1. \A g \in Pages : flash[p].page[g] \in Seq(Record)
      <4>1. p \in Sectors
        BY <2>2, <2>3
      <4>2. flash[p] \in SectorsIn(Sectors)
        BY <2>2, <4>1 DEF FlashIn
      <4> QED BY <4>2 DEF SectorsIn
    <3>2. \A r \in Record : r.seq \in Numbers
      BY DEF Record, Numbers
    <3>3. \A g \in Pages : \A i \in DOMAIN flash[p].page[g] : flash[p].page[g][i] \in Record
      BY <3>1
    <3> QED BY <2>3, <3>2, <3>3 DEF SeqsOn, Bears, Range
  <2>4. \A x \in U : x \in Numbered(flash, Sectors, mem.phys)
    BY <2>3 DEF Numbered, InUse
  <2>5. \A x \in Numbered(flash, Sectors, mem.phys) : x \in U
    <3> SUFFICES ASSUME NEW x \in Numbered(flash, Sectors, mem.phys) PROVE x \in U
      OBVIOUS
    <3>1. /\ x \in Numbers \X Sectors /\ x = <<x[1], x[2]>>
          /\ \E r \in Record : Bears(flash, mem.phys, x[2], r) /\ r.seq = x[1]
      BY DEF Numbered
    <3>2. x[2] \in InUse(mem)
      BY <3>1 DEF Bears, InUse
    <3>3. x[1] \in SeqsOn(mem.phys[x[2]])
      BY <2>3, <3>1, <3>2 DEF InUse
    <3> QED BY <3>1, <3>2, <3>3
  <2>6. U = Numbered(flash, Sectors, mem.phys)
    BY <2>4, <2>5
  <2> QED BY <2>1, <2>6
<1> QED BY <1>1, OrderHolds, PTL
-----------------------------------------------------------------------------
(***************************************************************************)
(* What the refinement mapping takes from the flash and from the calls in  *)
(* progress.                                                               *)
(***************************************************************************)

NoCallYet == [op |-> "none"]
CallIn(f, n) ==
  IF f.op = "write" THEN [op |-> "write", tok |-> f.tok, val |-> f.val,
                          done |-> f.at = "stored" /\ n = 1]
  ELSE IF f.op = "erase" THEN [op |-> "erase", done |-> f.p # 0 \/ f.at # "flag"]
  ELSE NoCallYet
CallOf(st) == IF st = <<>> THEN NoCallYet ELSE CallIn(st[Len(st)], Len(st))

Wipes(f)     == f.op \in {"boot", "erase"} /\ f.at = "wipe"
WipingIn(st) == \E i \in DOMAIN st : Wipes(st[i])
Nothing      == [t \in Tokens |-> Removed]
ValueIn(F, S, st) ==
  IF ~Calm(F, S) \/ WipingIn(st) THEN Nothing ELSE StoredIn(RecordsIn(F, S))

(* What the refinement mapping says, of the flash and of the calls.        *)
LEMMA AbsIs ==
  AbsValue = ValueIn(flash, Sectors, stack) /\ AbsCall = CallOf(stack)
<1>1. IsWiping <=> WipingIn(stack)
  BY DEF IsWiping, WipingIn, Wipes
<1>2. IsPending <=> ~Calm(flash, Sectors)
  BY Bridges
<1>3. Stored = StoredIn(RecordsIn(flash, Sectors))
  BY Bridges DEF Stored
<1>4. AbsValue = ValueIn(flash, Sectors, stack)
  BY <1>1, <1>2, <1>3 DEF AbsValue, ValueIn, Nothing
<1>5. AbsCall = CallOf(stack)
  BY DEF AbsCall, CallOf, CallIn, NoCallYet, Idle
<1> QED BY <1>4, <1>5

LEMMA CallsAre ==
  /\ CallOf(<<>>) = NoCallYet
  /\ \A f : CallOf(<<f>>) = CallIn(f, 1)
  /\ \A f, g : CallOf(<<f, g>>) = CallIn(g, 2)
  /\ \A f, g, h : CallOf(<<f, g, h>>) = CallIn(h, 3)
<1>1. CallOf(<<>>) = NoCallYet
  BY DEF CallOf
<1>2. ASSUME NEW f PROVE CallOf(<<f>>) = CallIn(f, 1)
  <2>1. <<f>> # <<>> /\ Len(<<f>>) = 1 /\ <<f>>[1] = f
    OBVIOUS
  <2> QED BY <2>1 DEF CallOf
<1>3. ASSUME NEW f, NEW g PROVE CallOf(<<f, g>>) = CallIn(g, 2)
  <2>1. <<f, g>> # <<>> /\ Len(<<f, g>>) = 2 /\ <<f, g>>[2] = g
    OBVIOUS
  <2> HIDE DEF CallIn
  <2> QED BY <2>1 DEF CallOf
<1>4. ASSUME NEW f, NEW g, NEW h PROVE CallOf(<<f, g, h>>) = CallIn(h, 3)
  <2>1. <<f, g, h>> # <<>> /\ Len(<<f, g, h>>) = 3 /\ <<f, g, h>>[3] = h
    OBVIOUS
  <2> QED BY <2>1 DEF CallOf
<1> QED BY <1>1, <1>2, <1>3, <1>4

LEMMA WipingTuples ==
  /\ ~WipingIn(<<>>)
  /\ \A f : WipingIn(<<f>>) <=> Wipes(f)
  /\ \A f, g : WipingIn(<<f, g>>) <=> Wipes(f) \/ Wipes(g)
  /\ \A f, g, h : WipingIn(<<f, g, h>>) <=> Wipes(f) \/ Wipes(g) \/ Wipes(h)
<1>1. ~WipingIn(<<>>)
  BY DEF WipingIn
<1>2. ASSUME NEW f PROVE WipingIn(<<f>>) <=> Wipes(f)
  <2>1. DOMAIN <<f>> = {1} /\ <<f>>[1] = f
    OBVIOUS
  <2> QED BY <2>1 DEF WipingIn
<1>3. ASSUME NEW f, NEW g PROVE WipingIn(<<f, g>>) <=> Wipes(f) \/ Wipes(g)
  <2>1. DOMAIN <<f, g>> = {1, 2} /\ <<f, g>>[1] = f /\ <<f, g>>[2] = g
    OBVIOUS
  <2> QED BY <2>1 DEF WipingIn
<1>4. ASSUME NEW f, NEW g, NEW h PROVE WipingIn(<<f, g, h>>) <=> Wipes(f) \/ Wipes(g) \/ Wipes(h)
  <2>1. DOMAIN <<f, g, h>> = {1, 2, 3} /\ <<f, g, h>>[1] = f /\ <<f, g, h>>[2] = g /\ <<f, g, h>>[3] = h
    OBVIOUS
  <2> QED BY <2>1 DEF WipingIn
<1> QED BY <1>1, <1>2, <1>3, <1>4

(* Only the innermost call erases the flash.                               *)
LEMMA WipingOnTop ==
  ASSUME NEW F, NEW S, NEW n, NEW c, NEW m, NEW st, Stands(F, S, n, c, m, st)
  PROVE  WipingIn(st) <=> st # <<>> /\ Wipes(Head(st))
<1>1. /\ \A f \in WriteFrames : ~Wipes(f)
      /\ \A f \in AddFrames(S) : ~Wipes(f)
      /\ \A f \in RelocateFrames(S) : ~Wipes(f)
      /\ \A f \in AfterFrames : ~Wipes(f)
      /\ \A f \in Waiting : ~Wipes(f)
      /\ \A f \in EraseFrames(S) : f.at = "done" => ~Wipes(f)
  BY FrameOps DEF Wipes, Waiting
<1>2. CASE st = <<>>
  BY <1>2, WipingTuples
<1>3. ASSUME NEW f, st = <<f>> PROVE WipingIn(st) <=> st # <<>> /\ Wipes(Head(st))
  BY <1>3, WipingTuples, Tuples
<1>4. ASSUME NEW f, NEW b, st = <<f, b>>, ~Wipes(b)
      PROVE  WipingIn(st) <=> st # <<>> /\ Wipes(Head(st))
  BY <1>4, WipingTuples, Tuples
<1>5. ASSUME NEW f, NEW r, NEW b, st = <<f, r, b>>, ~Wipes(b), ~Wipes(r)
      PROVE  WipingIn(st) <=> st # <<>> /\ Wipes(Head(st))
  BY <1>5, WipingTuples, Tuples
<1> QED BY <1>1, <1>2, <1>3, <1>4, <1>5 DEF Stands

(* The calls at the bottom.                                                *)
LEMMA BottomsAre ==
  ASSUME NEW S
  PROVE  /\ \A f \in WriteFrames, n \in Nat :
              CallIn(f, n) = [op |-> "write", tok |-> f.tok, val |-> f.val,
                              done |-> f.at = "stored" /\ n = 1]
         /\ \A f \in EraseFrames(S), n \in Nat :
              CallIn(f, n) = [op |-> "erase", done |-> f.p # 0 \/ f.at # "flag"]
         /\ \A f \in AfterFrames \cup BootFrames(S), n \in Nat : CallIn(f, n) = NoCallYet
         /\ \A f \in Waiting \cup {e \in EraseFrames(S) : e.at = "done"} :
              CallIn(f, 1) = CallIn(f, 2)
<1>1. \A f \in WriteFrames, n \in Nat :
        CallIn(f, n) = [op |-> "write", tok |-> f.tok, val |-> f.val,
                        done |-> f.at = "stored" /\ n = 1]
  BY FrameOps DEF CallIn
<1>2. \A f \in EraseFrames(S), n \in Nat :
        CallIn(f, n) = [op |-> "erase", done |-> f.p # 0 \/ f.at # "flag"]
  BY FrameOps DEF CallIn
<1>3. \A f \in AfterFrames \cup BootFrames(S), n \in Nat : CallIn(f, n) = NoCallYet
  BY FrameOps DEF CallIn
<1>4. \A f \in Waiting : CallIn(f, 1) = CallIn(f, 2)
  <2>1. \A f \in AfterFrames : CallIn(f, 1) = CallIn(f, 2)
    BY <1>3
  <2>2. \A f \in WriteFrames : f.at # "stored" => CallIn(f, 1) = CallIn(f, 2)
    BY <1>1
  <2> QED BY <2>1, <2>2 DEF Waiting
<1>5. \A f \in EraseFrames(S) : CallIn(f, 1) = CallIn(f, 2)
  BY <1>2
<1> QED BY <1>1, <1>2, <1>3, <1>4, <1>5
-----------------------------------------------------------------------------
(***************************************************************************)
(* The invariant of the refinement: an erase under way, and records that   *)
(* relocation has passed over.                                             *)
(***************************************************************************)

(* An item that relocation has passed and that still leads to the sector   *)
(* is a removal, and the last of its token.                                *)
Drains(F, S, m, r, Ts) ==
  \A k \in DOMAIN m.lut : k < r.next /\ m.lut[k].sec = r.sec /\ m.lut[k].tok \notin Ts =>
    /\ RecordOf(F, m.phys, m.lut[k]).val = Removed
    /\ \A q \in S : Carries(F, m.phys, q, m.lut[k].tok) => q = r.sec
DropIn(F, S, m, st) ==
  /\ \A r, b : st = <<r, b>> /\ r.op = "relocate" => Drains(F, S, m, r, {})
  /\ \A f, r, b : st = <<f, r, b>> =>
       Drains(F, S, m, r, {f.tok}) /\ f.val = StoredIn(RecordsIn(F, S))[f.tok]
(* An erase marks the sectors in their order and then erases no other; a   *)
(* boot finds a mark only after a reset.                                   *)
WipeIn(e, F, S, st, n) ==
  st # <<>> =>
    /\ Head(st).op = "erase" /\ Head(st).at # "done" =>
         /\ e
         /\ Head(st).at = "flag" => \A q \in S : q < Head(st).p => F[q].head[1].pending
         /\ Head(st).at = "wipe" => \A q \in S : F[q] # Blank => F[q].head[1].pending
    /\ Head(st).op = "boot" /\ (~Calm(F, S) \/ Head(st).at = "wipe") => e /\ n > 0

AbsInv == WipeIn(use.erases, flash, Sectors, stack, resets) /\ DropIn(flash, Sectors, mem, stack)
Held   == WipeIn(use.erases, flash', Sectors, stack', resets') /\ DropIn(flash', Sectors, mem', stack')

(* What is known of the state after a step.                                *)
Arrives ==
  /\ use' = use /\ Sectors' = Sectors /\ flash' \in FlashIn(Sectors)
  /\ mem' \in TablesIn(Sectors) /\ mem'.lut \in Seq(ItemsIn(Sectors))
  /\ Stands(flash', Sectors, use.names, use.cached, mem', stack')
  /\ AbsValue' = ValueIn(flash', Sectors, stack') /\ AbsCall' = CallOf(stack')

LEMMA NextArrives ==
  ASSUME IInv, [Next]_vars PROVE Arrives
<1>1. use' = use /\ Sectors' = Sectors
  BY UseStays DEF Sectors, NumSectors
<1>2. IInv'
  BY NextKeeps
<1>3. flash' \in FlashIn(Sectors) /\ Stands(flash', Sectors, use.names, use.cached, mem', stack')
  BY <1>1, <1>2 DEF IInv, FlashOk
<1>4. AbsValue' = ValueIn(flash', Sectors', stack') /\ AbsCall' = CallOf(stack')
  <2>1. (AbsValue = ValueIn(flash, Sectors, stack) /\ AbsCall = CallOf(stack))'
    BY AbsIs, PTL
  <2> QED BY <2>1
<1>5. mem' \in TablesIn(Sectors)
  BY <1>1, <1>2 DEF IInv
<1>6. mem'.lut \in Seq(ItemsIn(Sectors))
  BY <1>5, TablesParts
<1> QED BY <1>1, <1>3, <1>4, <1>5, <1>6 DEF Arrives

LEMMA HeldIs ==
  ASSUME Arrives, Held PROVE AbsInv'
BY DEF Arrives, Held, AbsInv

LEMMA TuplesDiffer ==
  /\ \A f, g : <<>> # <<f, g>> /\ \A a, b, c : <<f, g>> # <<a, b, c>>
  /\ \A f, g, h : <<>> # <<f, g, h>>
  /\ \A f, a, b : <<f>> # <<a, b>>
  /\ \A f, a, b, c : <<f>> # <<a, b, c>>
  /\ \A f, g, a, b : <<f, g>> = <<a, b>> => f = a /\ g = b
  /\ \A f, g, h, a, b, c : <<f, g, h>> = <<a, b, c>> => f = a /\ g = b /\ h = c
OBVIOUS

LEMMA DropTuples ==
  ASSUME NEW F, NEW S, NEW m
  PROVE  /\ DropIn(F, S, m, <<>>)
         /\ \A f : DropIn(F, S, m, <<f>>)
         /\ \A f, b : (f.op = "relocate" => Drains(F, S, m, f, {})) => DropIn(F, S, m, <<f, b>>)
         /\ \A f, r, b :
              Drains(F, S, m, r, {f.tok}) /\ f.val = StoredIn(RecordsIn(F, S))[f.tok]
              => DropIn(F, S, m, <<f, r, b>>)
<1>1. DropIn(F, S, m, <<>>)
  BY TuplesDiffer DEF DropIn
<1>2. \A f : DropIn(F, S, m, <<f>>)
  BY TuplesDiffer DEF DropIn
<1>3. \A f, b : (f.op = "relocate" => Drains(F, S, m, f, {})) => DropIn(F, S, m, <<f, b>>)
  BY TuplesDiffer DEF DropIn
<1>4. \A f, r, b :
        Drains(F, S, m, r, {f.tok}) /\ f.val = StoredIn(RecordsIn(F, S))[f.tok]
        => DropIn(F, S, m, <<f, r, b>>)
  BY TuplesDiffer DEF DropIn
<1> QED BY <1>1, <1>2, <1>3, <1>4

LEMMA DrainsFirst ==
  ASSUME NEW F, NEW S, NEW m, m.lut \in Seq(ItemsIn(S)), NEW r, r.next = 1, NEW Ts
  PROVE  Drains(F, S, m, r, Ts)
<1>1. \A k \in DOMAIN m.lut : ~(k < r.next)
  OBVIOUS
<1> QED BY <1>1 DEF Drains

LEMMA SettledIs ==
  ASSUME NEW st, Settles(st)
  PROVE  /\ st # <<>> => ~Wipes(Head(st))
         /\ \A e, F, S, n : WipeIn(e, F, S, st, n)
BY DEF Settles, Wipes, WipeIn

LEMMA ValueStays ==
  ASSUME IInv, Arrives, flash' = flash, stack # <<>> => ~Wipes(Head(stack)),
         stack' # <<>> => ~Wipes(Head(stack'))
  PROVE  AbsValue' = AbsValue
<1>1. AbsValue = ValueIn(flash, Sectors, stack) /\ ~WipingIn(stack)
  BY AbsIs, InvParts, WipingOnTop
<1>2. AbsValue' = ValueIn(flash', Sectors, stack') /\ ~WipingIn(stack')
  BY WipingOnTop DEF Arrives
<1> QED BY <1>1, <1>2 DEF ValueIn

(* Steps that change nothing but the calls in progress and the tables.     *)
Short(st) ==
  \/ st = <<>>
  \/ \E f : /\ st = <<f>> /\ \/ f.op \in {"write", "after"}
                             \/ f.op = "erase" /\ f.at = "done"
  \/ \E f, b : st = <<f, b>> /\ (f.op = "add" \/ (f.op = "relocate" /\ f.next = 1))

LEMMA QuietHolds ==
  ASSUME IInv, Arrives, flash' = flash, Settles(stack), Short(stack')
  PROVE  AbsValue' = AbsValue /\ Held
<1>1. Settles(stack')
  BY Tuples DEF Short, Settles
<1>2. AbsValue' = AbsValue
  BY <1>1, SettledIs, ValueStays
<1>4. DropIn(flash', Sectors, mem', stack')
  <2>1. CASE stack' = <<>>
    BY <2>1, DropTuples
  <2>2. ASSUME NEW f, stack' = <<f>> PROVE DropIn(flash', Sectors, mem', stack')
    BY <2>2, DropTuples
  <2>3. ASSUME NEW f, NEW b, stack' = <<f, b>>, f.op = "add"
        PROVE  DropIn(flash', Sectors, mem', stack')
    BY <2>3, DropTuples
  <2>4. ASSUME NEW f, NEW b, stack' = <<f, b>>, f.op = "relocate", f.next = 1
        PROVE  DropIn(flash', Sectors, mem', stack')
    <3>1. mem'.lut \in Seq(ItemsIn(Sectors))
      BY DEF Arrives
    <3>2. Drains(flash', Sectors, mem', f, {})
      BY <2>4, <3>1, DrainsFirst
    <3> QED BY <2>4, <3>2, DropTuples
  <2> QED BY <2>1, <2>2, <2>3, <2>4 DEF Short
<1> QED BY <1>1, <1>2, <1>4, SettledIs DEF Held
-----------------------------------------------------------------------------
(***************************************************************************)
(* The steps of NvmAbs, and the calls that begin.                          *)
(***************************************************************************)

(* The steps of NvmAbs.                                                    *)
Starts ==
  /\ AbsCall = NoCallYet /\ AbsCall' \in Abs!WriteCall \cup Abs!EraseCall /\ ~AbsCall'.done
  /\ result' = "none" /\ AbsValue' = AbsValue
Takes ==
  /\ AbsCall # NoCallYet /\ ~AbsCall.done /\ AbsCall' = [AbsCall EXCEPT !.done = TRUE]
  /\ AbsValue' = IF AbsCall.op = "write" THEN [AbsValue EXCEPT ![AbsCall.tok] = AbsCall.val]
                 ELSE Nothing
  /\ result' = result
Ends ==
  /\ AbsCall # NoCallYet /\ AbsCall' = NoCallYet /\ AbsValue' = AbsValue
  /\ \/ AbsCall.done /\ result' = "ok"
     \/ ~AbsCall.done /\ result' = "error"
     \/ AbsCall.op = "write" /\ result' = "ok" /\ AbsValue[AbsCall.tok] = AbsCall.val
Cuts  == AbsCall' = NoCallYet /\ result' = "none" /\ AbsValue' = AbsValue
Stays == AbsCall' = AbsCall /\ result' = result /\ AbsValue' = AbsValue

LEMMA AbsSteps ==
  ASSUME Starts \/ Takes \/ Ends \/ Cuts \/ Stays
  PROVE  [Abs!Next]_(Abs!vars)
<1>1. CASE Starts
  BY <1>1 DEF Starts, Abs!Next, Abs!Begin, Abs!NoCall, NoCallYet
<1>2. CASE Takes
  BY <1>2 DEF Takes, Nothing, Abs!Next, Abs!TakeEffect, Abs!NoCall, NoCallYet
<1>3. CASE Ends
  BY <1>3 DEF Ends, Abs!Next, Abs!Return, Abs!NoCall, NoCallYet
<1>4. CASE Cuts
  BY <1>4 DEF Cuts, Abs!Next, Abs!Reset, Abs!NoCall, NoCallYet
<1>5. CASE Stays
  BY <1>5 DEF Stays, Abs!vars
<1> QED BY <1>1, <1>2, <1>3, <1>4, <1>5

LEMMA IdleCall ==
  ASSUME Idle PROVE AbsCall = NoCallYet
BY AbsIs, CallsAre DEF Idle

LEMMA WriteBegins ==
  ASSUME IInv, Arrives, NEW t \in Tokens, NEW v \in Payloads, Begin(WriteOf(t, v))
  PROVE  Held /\ Starts
<1> DEFINE f == WriteOf(t, v)
<1>1. f \in WriteFrames /\ f.op = "write" /\ f.tok = t /\ f.val = v /\ f.at = "urgent"
  BY DEF WriteOf, WriteFrames
<1>2. Idle /\ flash' = flash /\ stack' = <<f>> /\ result' = "none"
  BY DEF Begin, CanCall
<1> HIDE DEF f
<1>3. AbsValue' = AbsValue /\ Held
  BY <1>1, <1>2, SettlesAt, QuietHolds DEF Short
<1>4. AbsCall' = CallIn(f, 1)
  BY <1>2, CallsAre DEF Arrives
<1>5. CallIn(f, 1) = [op |-> "write", tok |-> t, val |-> v, done |-> FALSE]
  BY <1>1, BottomsAre
<1>6. AbsCall' \in Abs!WriteCall /\ ~AbsCall'.done
  <2> DEFINE c == [op |-> "write", tok |-> t, val |-> v, done |-> FALSE]
  <2>1. c \in Abs!WriteCall
    BY DEF Abs!WriteCall, Payloads
  <2>2. ~c.done
    OBVIOUS
  <2> HIDE DEF c
  <2>3. AbsCall' = c
    BY <1>4, <1>5 DEF c
  <2> QED BY <2>1, <2>2, <2>3
<1> QED BY <1>2, <1>3, <1>6, IdleCall DEF Starts

LEMMA EraseBegins ==
  ASSUME IInv, Arrives, ErasePool
  PROVE  Held /\ Starts
<1>1. EraseFrame.op = "erase" /\ EraseFrame.at = "flag" /\ EraseFrame.p = 0
  BY DEF EraseFrame
<1>2. Idle /\ flash' = flash /\ stack' = <<EraseFrame>> /\ result' = "none" /\ use.erases
  BY DEF Begin, CanCall, ErasePool
<1>3. EraseFrame \in EraseFrames(Sectors) /\ Sectors \subseteq Nat
  BY InvParts DEF EraseFrame, EraseFrames
<1>4. AbsValue' = AbsValue
  BY <1>1, <1>2, Tuples, ValueStays DEF Wipes, Idle
<1>5. WipeIn(use.erases, flash', Sectors, stack', resets')
  <2>1. \A q \in Sectors : ~(q < 0)
    BY <1>3
  <2> QED BY <1>1, <1>2, <2>1, Tuples DEF WipeIn
<1>6. Held
  BY <1>2, <1>5, DropTuples DEF Held
<1>7. AbsCall' = CallIn(EraseFrame, 1)
  BY <1>2, CallsAre DEF Arrives
<1>8. CallIn(EraseFrame, 1) = [op |-> "erase", done |-> FALSE]
  BY <1>1, <1>3, BottomsAre
<1>9. AbsCall' \in Abs!EraseCall /\ ~AbsCall'.done
  <2> DEFINE c == [op |-> "erase", done |-> FALSE]
  <2>1. c \in Abs!EraseCall
    BY DEF Abs!EraseCall
  <2>2. ~c.done
    OBVIOUS
  <2> HIDE DEF c
  <2>3. AbsCall' = c
    BY <1>7, <1>8 DEF c
  <2> QED BY <2>1, <2>2, <2>3
<1> QED BY <1>2, <1>4, <1>6, <1>9, IdleCall DEF Starts

LEMMA EventBegins ==
  ASSUME IInv, Arrives, RunRelocate \/ RunDefrag
  PROVE  Held /\ Stays
<1>1. Idle /\ flash' = flash /\ result' = result
  BY DEF RunRelocate, RunDefrag
<1>2. \/ stack' = <<>>
      \/ \E s, ev, more : stack' = <<RelocateOf(s), AfterFrame(ev, more)>>
  BY DEF RunRelocate, RunDefrag, Idle
<1>3. CASE stack' = <<>>
  <2>1. AbsValue' = AbsValue /\ Held
    BY <1>1, <1>3, SettlesAt, QuietHolds DEF Short
  <2>2. AbsCall' = NoCallYet
    BY <1>3, CallsAre DEF Arrives
  <2> QED BY <1>1, <2>1, <2>2, IdleCall DEF Stays
<1>4. ASSUME NEW s, NEW ev, NEW more, stack' = <<RelocateOf(s), AfterFrame(ev, more)>>
      PROVE  Held /\ Stays
  <2>1. RelocateOf(s).op = "relocate" /\ RelocateOf(s).next = 1
    BY DEF RelocateOf
  <2>2. AbsValue' = AbsValue /\ Held
    BY <1>1, <1>4, <2>1, SettlesAt, QuietHolds DEF Short
  <2>3. AbsCall' = CallIn(AfterFrame(ev, more), 2)
    BY <1>4, CallsAre DEF Arrives
  <2>4. CallIn(AfterFrame(ev, more), 2) = NoCallYet
    BY DEF CallIn, AfterFrame
  <2> QED BY <1>1, <2>2, <2>3, <2>4, IdleCall DEF Stays
<1> QED BY <1>2, <1>3, <1>4

LEMMA EventEnds ==
  ASSUME IInv, Arrives, EndEvent
  PROVE  Held /\ Stays
<1>1. ~Idle /\ Top.op = "after" /\ flash' = flash /\ result' = result /\ stack' = Tail(stack)
  BY DEF EndEvent, Return
<1>2. Stands(flash, Sectors, use.names, use.cached, mem, stack) /\ stack # <<>> /\ Top = Head(stack)
  BY <1>1, InvParts DEF Idle, Top
<1>3. Top \in AfterFrames /\ Tail(stack) = <<>>
  BY <1>1, <1>2, StandsShapes
<1>4. stack = <<Top>>
  BY <1>2, <1>3, StandsPut, Tuples
<1>5. AbsValue' = AbsValue /\ Held
  BY <1>1, <1>3, SettlesAt, QuietHolds DEF Short
<1>6. AbsCall = NoCallYet
  <2>1. AbsCall = CallIn(Top, 1)
    BY <1>4, AbsIs, CallsAre
  <2> QED BY <1>3, <2>1, BottomsAre
<1>7. AbsCall' = NoCallYet
  BY <1>1, <1>3, CallsAre DEF Arrives
<1> QED BY <1>1, <1>5, <1>6, <1>7 DEF Stays
-----------------------------------------------------------------------------
LEMMA WriteCallIs ==
  ASSUME IInv, NEW at, At("write", at)
  PROVE  /\ AbsCall = [op |-> "write", tok |-> Top.tok, val |-> Top.val, done |-> at = "stored"]
         /\ AbsCall # NoCallYet /\ Settles(stack)
<1>1. Top \in WriteFrames /\ Top.at = at /\ stack = <<Top>>
  BY WriteOnTop
<1>2. AbsCall = CallIn(Top, 1)
  BY <1>1, AbsIs, CallsAre
<1>3. AbsCall = [op |-> "write", tok |-> Top.tok, val |-> Top.val, done |-> at = "stored"]
  BY <1>1, <1>2, BottomsAre
<1>4. Settles(stack)
  BY SettlesAt DEF At
<1> QED BY <1>3, <1>4 DEF NoCallYet

LEMMA WriteHolds ==
  ASSUME IInv, Arrives, NEW at, At("write", at), at # "stored", flash' = flash, result' = result,
         NEW g \in WriteFrames, g.tok = Top.tok, g.val = Top.val,
         \/ g.at # "stored" /\ stack' = <<g>>
         \/ \E f : (f.op = "add" \/ (f.op = "relocate" /\ f.next = 1)) /\ stack' = <<f, g>>
  PROVE  Held /\ Stays
<1>1. g.op = "write" /\ Settles(stack)
  BY FrameOps, WriteCallIs
<1>2. Short(stack')
  BY <1>1 DEF Short
<1>3. AbsValue' = AbsValue /\ Held
  BY <1>1, <1>2, QuietHolds
<1>4. AbsCall' = [op |-> "write", tok |-> g.tok, val |-> g.val, done |-> FALSE]
  <2>1. CASE g.at # "stored" /\ stack' = <<g>>
    <3>1. AbsCall' = CallIn(g, 1)
      BY <2>1, CallsAre DEF Arrives
    <3> QED BY <2>1, <3>1, BottomsAre
  <2>2. CASE \E f : stack' = <<f, g>>
    <3>1. AbsCall' = CallIn(g, 2)
      BY <2>2, CallsAre DEF Arrives
    <3>2. CallIn(g, 2) = [op |-> "write", tok |-> g.tok, val |-> g.val, done |-> FALSE]
      <4> DEFINE d == g.at = "stored" /\ 2 = 1
      <4>1. d = FALSE
        OBVIOUS
      <4>2. CallIn(g, 2) = [op |-> "write", tok |-> g.tok, val |-> g.val, done |-> d]
        BY <1>1 DEF CallIn
      <4> HIDE DEF d
      <4> QED BY <4>1, <4>2
    <3> QED BY <3>1, <3>2
  <2> QED BY <2>1, <2>2
<1> QED BY <1>3, <1>4, WriteCallIs DEF Stays

LEMMA WriteEnds ==
  ASSUME IInv, Arrives, NEW at, At("write", at), flash' = flash, stack' = <<>>,
         \/ at = "stored" /\ result' = "ok"
         \/ at # "stored" /\ result' = "error"
         \/ result' = "ok" /\ AbsValue[Top.tok] = Top.val
  PROVE  Held /\ Ends
<1>1. AbsValue' = AbsValue /\ Held
  BY WriteCallIs, QuietHolds DEF Short
<1>2. AbsCall' = NoCallYet
  BY CallsAre DEF Arrives
<1>3. /\ AbsCall = [op |-> "write", tok |-> Top.tok, val |-> Top.val, done |-> at = "stored"]
      /\ AbsCall # NoCallYet
  BY WriteCallIs
<1>4. AbsCall.op = "write" /\ AbsCall.tok = Top.tok /\ AbsCall.val = Top.val
      /\ (AbsCall.done <=> at = "stored")
  BY <1>3
<1> QED BY <1>1, <1>2, <1>3, <1>4 DEF Ends
-----------------------------------------------------------------------------
(***************************************************************************)
(* Calls that return.                                                      *)
(***************************************************************************)

Replies == Held /\ (Stays \/ Ends)

LEMMA UrgentReplies ==
  ASSUME IInv, Arrives, Urgent PROVE Replies
<1>1. At("write", "urgent") /\ flash' = flash /\ result' = result
  BY DEF Urgent
<1>2. Top \in WriteFrames
  BY <1>1, WriteOnTop
<1>3. \/ \E low \in BOOLEAN : stack' = <<[Top EXCEPT !.at = "lookup", !.low = low]>>
      \/ \E s, at : /\ at \in {"urgent", "low"}
                    /\ stack' = <<RelocateOf(s), [Top EXCEPT !.low = TRUE, !.at = at]>>
  <2>1. IsUrgent \in BOOLEAN
    BY DEF IsUrgent
  <2> QED BY <2>1 DEF Urgent
<1>4. ASSUME NEW low \in BOOLEAN, stack' = <<[Top EXCEPT !.at = "lookup", !.low = low]>>
      PROVE  Held /\ Stays
  <2> DEFINE g == [Top EXCEPT !.at = "lookup", !.low = low]
  <2>1. g \in WriteFrames /\ g.at = "lookup" /\ g.tok = Top.tok /\ g.val = Top.val
    BY <1>2 DEF WriteFrames
  <2> HIDE DEF g
  <2>2. stack' = <<g>>
    BY <1>4 DEF g
  <2> QED BY <1>1, <2>1, <2>2, WriteHolds
<1>5. ASSUME NEW s, NEW at \in {"urgent", "low"},
             stack' = <<RelocateOf(s), [Top EXCEPT !.low = TRUE, !.at = at]>>
      PROVE  Held /\ Stays
  <2> DEFINE g == [Top EXCEPT !.low = TRUE, !.at = at]
             r == RelocateOf(s)
  <2>1. g \in WriteFrames /\ g.tok = Top.tok /\ g.val = Top.val
    BY <1>2 DEF WriteFrames
  <2>2. r.op = "relocate" /\ r.next = 1
    BY DEF RelocateOf
  <2>3. stack' = <<r, g>>
    BY <1>5
  <2> HIDE DEF g, r
  <2> QED BY <1>1, <2>1, <2>2, <2>3, WriteHolds
<1> QED BY <1>3, <1>4, <1>5 DEF Replies

LEMMA LowReplies ==
  ASSUME IInv, Arrives, LowOnSpace PROVE Replies
<1>1. At("write", "low") /\ flash' = flash /\ result' = result
  BY DEF LowOnSpace
<1>2. Top \in WriteFrames
  BY <1>1, WriteOnTop
<1> DEFINE g == [Top EXCEPT !.at = "lookup", !.low = IsUrgent]
<1>3. g \in WriteFrames /\ g.at = "lookup" /\ g.tok = Top.tok /\ g.val = Top.val
  <2>1. IsUrgent \in BOOLEAN
    BY DEF IsUrgent
  <2> QED BY <1>2, <2>1 DEF WriteFrames
<1>4. stack' = <<g>>
  BY DEF LowOnSpace
<1> HIDE DEF g
<1> QED BY <1>1, <1>3, <1>4, WriteHolds DEF Replies

(* A frame that goes on at another place.                                  *)
LEMMA GoesTo ==
  ASSUME IInv, Arrives, NEW at, At("write", at), at # "stored", flash' = flash, result' = result,
         NEW to \in {"urgent", "low", "lookup", "namespace", "exhausted", "decide", "stored"},
         \/ to # "stored" /\ Goto(to)
         \/ \E f : (f.op = "add" \/ (f.op = "relocate" /\ f.next = 1)) /\ CallingAt(f, to)
  PROVE  Held /\ Stays
<1>1. Top \in WriteFrames /\ stack = <<Top>>
  BY WriteOnTop
<1> DEFINE g == [Top EXCEPT !.at = to]
<1>2. g \in WriteFrames /\ g.at = to /\ g.tok = Top.tok /\ g.val = Top.val
  BY <1>1 DEF WriteFrames
<1>3. (Goto(to) <=> stack' = <<g>>) /\ \A f : CallingAt(f, to) <=> stack' = <<f, g>>
  BY <1>1, GotoIs
<1> HIDE DEF g
<1> QED BY <1>2, <1>3, WriteHolds

LEMMA LookupReplies ==
  ASSUME IInv, OrdInv, CInv, Arrives, LookupPrevious PROVE Replies
<1>1. At("write", "lookup") /\ flash' = flash
  BY DEF LookupPrevious
<1>2. /\ Top \in WriteFrames /\ stack = <<Top>>
      /\ Kept(flash, Sectors, use.names, mem, NoSector) /\ Top.tok \in Tokens
  BY <1>1, WriteOnTop DEF WriteFrames
<1>3. \/ Goto("namespace") /\ result' = result
      \/ Goto("decide") /\ result' = result
      \/ Lookup(Fresh(mem), Top.tok) = Top.val /\ Answer("ok")
  BY DEF LookupPrevious
<1>4. CASE (Goto("namespace") \/ Goto("decide")) /\ result' = result
  BY <1>1, <1>4, GoesTo DEF Replies
<1>5. CASE Lookup(Fresh(mem), Top.tok) = Top.val /\ Answer("ok")
  <2>1. stack' = <<>> /\ result' = "ok"
    BY <1>2, <1>5, Tuples DEF Answer, Return
  <2>2. Settles(stack)
    BY <1>1, WriteCallIs
  <2>3. Lookup(Fresh(mem), Top.tok) = StoredIn(RecordsIn(flash, Sectors))[Top.tok]
    BY <1>2, <2>2, LookupIs
  <2>4. AbsValue = StoredIn(RecordsIn(flash, Sectors))
    <3>1. ~WipingIn(stack)
      BY <2>2, SettledIs, InvParts, WipingOnTop
    <3>2. Calm(flash, Sectors)
      BY <1>2 DEF Kept
    <3> QED BY <3>1, <3>2, AbsIs DEF ValueIn
  <2>5. AbsValue[Top.tok] = Top.val
    BY <1>5, <2>3, <2>4
  <2> QED BY <1>1, <2>1, <2>5, WriteEnds DEF Replies
<1> QED BY <1>3, <1>4, <1>5

LEMMA NamespaceReplies ==
  ASSUME IInv, Arrives, CleanNamespace \/ AfterNamespace PROVE Replies
<1>1. CASE CleanNamespace
  <2>1. At("write", "namespace") /\ flash' = flash /\ result' = result
    BY <1>1 DEF CleanNamespace
  <2>2. \/ Goto("exhausted")
        \/ \E s : \E to \in {"namespace", "exhausted"} : CallingAt(RelocateOf(s), to)
    BY <1>1 DEF CleanNamespace
  <2>3. \A s : RelocateOf(s).op = "relocate" /\ RelocateOf(s).next = 1
    BY DEF RelocateOf
  <2>4. CASE Goto("exhausted")
    BY <2>1, <2>4, GoesTo DEF Replies
  <2>5. ASSUME NEW s, NEW to \in {"namespace", "exhausted"}, CallingAt(RelocateOf(s), to)
        PROVE  Replies
    BY <2>1, <2>3, <2>5, GoesTo DEF Replies
  <2> QED BY <2>2, <2>4, <2>5
<1>2. CASE AfterNamespace
  <2>1. At("write", "exhausted") /\ flash' = flash
    BY <1>2 DEF AfterNamespace
  <2>2. Answer("error") \/ (Goto("decide") /\ result' = result)
    BY <1>2 DEF AfterNamespace
  <2>3. CASE Answer("error")
    <3>1. stack' = <<>> /\ result' = "error"
      BY <2>1, <2>3, WriteOnTop DEF Answer, Return
    <3> QED BY <2>1, <3>1, WriteEnds DEF Replies
  <2>4. CASE Goto("decide") /\ result' = result
    BY <2>1, <2>4, GoesTo DEF Replies
  <2> QED BY <2>2, <2>3, <2>4
<1> QED BY <1>1, <1>2

LEMMA DecideReplies ==
  ASSUME IInv, Arrives, Decide \/ Finish PROVE Replies
<1>1. CASE Decide
  <2>1. At("write", "decide") /\ flash' = flash
    BY <1>1 DEF Decide
  <2>2. \/ Answer("error")
        \/ \E prev : CallingAt(AddOf(Top.tok, Top.val, prev), "stored") /\ result' = result
    BY <1>1 DEF Decide
  <2>3. CASE Answer("error")
    <3>1. stack' = <<>> /\ result' = "error"
      BY <2>1, <2>3, WriteOnTop DEF Answer, Return
    <3> QED BY <2>1, <3>1, WriteEnds DEF Replies
  <2>4. ASSUME NEW prev, CallingAt(AddOf(Top.tok, Top.val, prev), "stored"), result' = result
        PROVE  Replies
    <3> DEFINE f == AddOf(Top.tok, Top.val, prev)
    <3>1. f.op = "add"
      BY DEF AddOf
    <3>2. CallingAt(f, "stored")
      BY <2>4
    <3> HIDE DEF f
    <3> QED BY <2>1, <2>4, <3>1, <3>2, GoesTo DEF Replies
  <2> QED BY <2>2, <2>3, <2>4
<1>2. CASE Finish
  <2>1. At("write", "stored") /\ flash' = flash /\ Answer("ok")
    BY <1>2 DEF Finish
  <2>2. stack' = <<>> /\ result' = "ok"
    BY <2>1, WriteOnTop DEF Answer, Return
  <2> QED BY <2>1, <2>2, WriteEnds DEF Replies
<1> QED BY <1>1, <1>2

LEMMA EraseReplies ==
  ASSUME IInv, Arrives, EndErase PROVE Replies
<1>1. ~Idle /\ Top.op = "erase" /\ Top.at = "done" /\ flash' = flash /\ Answer("ok")
  BY DEF EndErase, At
<1>2. Top \in EraseFrames(Sectors) /\ Tail(stack) = <<>> /\ stack = <<Top>>
  BY <1>1, EraseOnTop
<1>3. stack' = <<>> /\ result' = "ok"
  BY <1>1, <1>2 DEF Answer, Return
<1>4. AbsValue' = AbsValue /\ Held
  BY <1>1, <1>3, SettlesAt, QuietHolds DEF Short
<1>5. AbsCall' = NoCallYet
  BY <1>3, CallsAre DEF Arrives
<1>6. AbsCall = [op |-> "erase", done |-> Top.p # 0 \/ Top.at # "flag"]
  <2>1. AbsCall = CallIn(Top, 1)
    BY <1>2, AbsIs, CallsAre
  <2> QED BY <1>2, <2>1, BottomsAre
<1>7. AbsCall # NoCallYet /\ AbsCall.done
  <2>1. [op |-> "erase", done |-> Top.p # 0 \/ Top.at # "flag"].op = "erase"
        /\ [op |-> "erase", done |-> Top.p # 0 \/ Top.at # "flag"].done
    BY <1>1
  <2> QED BY <1>6, <2>1 DEF NoCallYet
<1> QED BY <1>3, <1>4, <1>5, <1>7 DEF Ends, Replies
-----------------------------------------------------------------------------
(***************************************************************************)
(* Nvm_LogSector_RelocateActiveData: what is copied and what is passed     *)
(* over.                                                                   *)
(***************************************************************************)

(* A call that waits for a relocation has not taken effect.                *)
LEMMA WaitingCall ==
  \A b \in Waiting : CallIn(b, 1) = CallIn(b, 2) /\ CallIn(b, 3) = CallIn(b, 2)
<1>1. \A b \in AfterFrames : CallIn(b, 1) = CallIn(b, 2) /\ CallIn(b, 3) = CallIn(b, 2)
  BY BottomsAre
<1>2. \A b \in WriteFrames : b.at # "stored" => CallIn(b, 1) = CallIn(b, 2) /\ CallIn(b, 3) = CallIn(b, 2)
  BY BottomsAre
<1> QED BY <1>1, <1>2 DEF Waiting

(* A removal is dropped in the last sector that has its token.             *)
LEMMA LastOfToken ==
  ASSUME IInv, Plain, ~(use.cached /\ use.removes), InRelocate, Coming # {},
         IsDropped(mem.lut[Min(Coming)])
  PROVE  \A q \in Sectors : Carries(flash, mem.phys, q, mem.lut[Min(Coming)].tok)
           => q = mem.lut[Min(Coming)].sec
<1> DEFINE it == mem.lut[Min(Coming)]
<1>1. \A s \in InUse(mem) \ {it.sec}, g \in Pages :
        \A i \in DOMAIN PageOf(mem, s, g) : PageOf(mem, s, g)[i].tok # it.tok
  BY DropsHold DEF DropsAreLast
<1> HIDE DEF it
<1>2. ASSUME NEW q \in Sectors, Carries(flash, mem.phys, q, it.tok) PROVE q = it.sec
  <2>1. q \in InUse(mem)
    BY <1>2 DEF Carries, InUse
  <2>2. PICK g \in Pages : \E i \in DOMAIN PageOf(mem, q, g) : PageOf(mem, q, g)[i].tok = it.tok
    BY <1>2 DEF Carries, PageOf
  <2> QED BY <1>1, <2>1, <2>2
<1> QED BY <1>2 DEF it

LEMMA RelocateCallIs ==
  ASSUME IInv, AbsInv, InRelocate
  PROVE  \E b \in Waiting :
           /\ Top \in RelocateFrames(Sectors) /\ Tail(stack) = <<b>> /\ stack = <<Top, b>>
           /\ Kept(flash, Sectors, use.names, mem, NoSector)
           /\ Moves(flash, Sectors, use.cached, mem, Top, {})
           /\ Settles(stack) /\ AbsCall = CallIn(b, 2)
           /\ Drains(flash, Sectors, mem, Top, {})
<1>1. PICK b \in Waiting : Tail(stack) = <<b>>
  BY RelocateOnTop
<1>2. /\ Top \in RelocateFrames(Sectors) /\ Kept(flash, Sectors, use.names, mem, NoSector)
      /\ Moves(flash, Sectors, use.cached, mem, Top, {})
  BY RelocateOnTop
<1>3. stack = <<Top, b>>
  <2>1. stack # <<>> /\ Head(stack) = Top
    BY DEF InRelocate, Idle, Top
  <2>2. stack = <<Top>> \o <<b>>
    BY <1>1, <2>1, InvParts, StandsPut
  <2> QED BY <2>2, Tuples
<1>4. Top.op = "relocate"
  BY DEF InRelocate
<1>5. Settles(stack)
  BY SettlesAt DEF InRelocate
<1>6. AbsCall = CallIn(b, 2)
  BY <1>3, AbsIs, CallsAre
<1>7. Drains(flash, Sectors, mem, Top, {})
  BY <1>3, <1>4 DEF AbsInv, DropIn
<1> QED BY <1>1, <1>2, <1>3, <1>5, <1>6, <1>7

LEMMA CopyOrDropHolds ==
  ASSUME IInv, AbsInv, OrdInv, Plain, ~(use.cached /\ use.removes), Arrives, CopyOrDrop
  PROVE  Held /\ Stays
<1> DEFINE k  == Min(Coming)
           it == mem.lut[k]
           v  == RecordAt(mem, it).val
           on == [Top EXCEPT !.next = k + 1]
           gone == [on EXCEPT !.reset = TRUE]
           f == AddOf(it.tok, v, [sec |-> it.sec, val |-> v])
<1>0. InRelocate /\ Coming # {} /\ flash' = flash /\ mem' = mem /\ result' = result
  BY DEF CopyOrDrop
<1>1. PICK b \in Waiting :
           /\ Top \in RelocateFrames(Sectors) /\ Tail(stack) = <<b>> /\ stack = <<Top, b>>
           /\ Kept(flash, Sectors, use.names, mem, NoSector)
           /\ Settles(stack) /\ AbsCall = CallIn(b, 2)
           /\ Drains(flash, Sectors, mem, Top, {})
  BY <1>0, RelocateCallIs
<1>2. /\ k \in DOMAIN mem.lut /\ k >= Top.next /\ it.sec = Top.sec
      /\ \A j \in DOMAIN mem.lut : j >= Top.next /\ mem.lut[j].sec = Top.sec => k <= j
  BY <1>0, ComingIs
<1>3. stack' = IF IsDropped(it) THEN <<gone>> \o Tail(stack) ELSE <<f, on>> \o Tail(stack)
  BY DEF CopyOrDrop
<1>4. IsDropped(it) => \A q \in Sectors : Carries(flash, mem.phys, q, it.tok) => q = it.sec
  BY <1>0, LastOfToken
<1> HIDE DEF k
<1>5. /\ on.next = k + 1 /\ on.sec = Top.sec /\ on.op = "relocate"
      /\ gone.next = k + 1 /\ gone.sec = Top.sec /\ gone.op = "relocate"
      /\ f.op = "add" /\ f.tok = it.tok /\ f.val = v
  BY <1>1 DEF RelocateFrames, AddOf
<1>6. Top.next \in Nat /\ DOMAIN mem.lut \subseteq Nat
  BY <1>1, InvParts DEF RelocateFrames
<1>7. \A j \in DOMAIN mem.lut : j < k + 1 /\ mem.lut[j].sec = Top.sec => j < Top.next \/ j = k
  BY <1>2, <1>6
<1>8. RecordAt(mem, it) = RecordOf(flash, mem.phys, it)
  BY DEF RecordAt, PageOf, RecordOf
<1> HIDE DEF on, gone, f
<1>9. CASE IsDropped(it)
  <2>1. stack' = <<gone, b>>
    BY <1>1, <1>3, <1>9, Tuples
  <2>2. v = Removed
    BY <1>9 DEF IsDropped
  <2>3. Drains(flash, Sectors, mem, gone, {})
    <3> SUFFICES ASSUME NEW j \in DOMAIN mem.lut, j < gone.next, mem.lut[j].sec = gone.sec
                 PROVE  /\ RecordOf(flash, mem.phys, mem.lut[j]).val = Removed
                        /\ \A q \in Sectors : Carries(flash, mem.phys, q, mem.lut[j].tok) => q = gone.sec
      BY DEF Drains
    <3>1. CASE j < Top.next
      BY <1>1, <1>5, <3>1 DEF Drains
    <3>2. CASE j = k
      BY <1>2, <1>4, <1>5, <1>8, <1>9, <2>2, <3>2
    <3> QED BY <1>5, <1>7, <3>1, <3>2
  <2>4. DropIn(flash', Sectors, mem', stack')
    BY <1>0, <2>1, <2>3, DropTuples
  <2>5. Settles(stack')
    BY <1>5, <2>1, Tuples DEF Settles
  <2>6. AbsCall' = CallIn(b, 2)
    BY <2>1, CallsAre DEF Arrives
  <2>7. AbsValue' = AbsValue
    BY <1>0, <1>1, <2>5, SettledIs, ValueStays
  <2> QED BY <1>0, <1>1, <2>4, <2>5, <2>6, <2>7, SettledIs DEF Held, Stays
<1>10. CASE ~IsDropped(it)
  <2>1. stack' = <<f, on, b>>
    BY <1>1, <1>3, <1>10, Tuples
  <2>2. Drains(flash, Sectors, mem, on, {f.tok})
    <3> SUFFICES ASSUME NEW j \in DOMAIN mem.lut, j < on.next, mem.lut[j].sec = on.sec,
                        mem.lut[j].tok \notin {f.tok}
                 PROVE  /\ RecordOf(flash, mem.phys, mem.lut[j]).val = Removed
                        /\ \A q \in Sectors : Carries(flash, mem.phys, q, mem.lut[j].tok) => q = on.sec
      BY DEF Drains
    <3>1. j # k
      BY <1>5
    <3>2. j < Top.next
      BY <1>5, <1>7, <3>1
    <3> QED BY <1>1, <1>5, <3>2 DEF Drains
  <2>3. f.val = StoredIn(RecordsIn(flash, Sectors))[f.tok]
    <3>1. OrderIn(flash, Sectors, mem) /\ Distinct(flash, Sectors)
      BY <1>1 DEF OrdInv
    <3>2. /\ TidyIn(flash, Sectors, mem.phys, NoSector) /\ ListsIn(flash, Sectors, mem.phys, mem.lut)
          /\ NewestIn(flash, Sectors, mem.phys, mem.lut)
      BY <1>1, <3>1 DEF Kept, OrderIn
    <3>3. \A i \in DOMAIN mem.lut : StoredIn(RecordsIn(flash, Sectors))[mem.lut[i].tok]
                                      = RecordOf(flash, mem.phys, mem.lut[i]).val
      BY <3>1, <3>2, InvParts, ReadsFrom
    <3> QED BY <1>2, <1>5, <1>8, <3>3
  <2>4. DropIn(flash', Sectors, mem', stack')
    BY <1>0, <2>1, <2>2, <2>3, DropTuples
  <2>5. Settles(stack')
    BY <1>5, <2>1, Tuples DEF Settles
  <2>6. AbsCall' = CallIn(b, 3)
    BY <2>1, CallsAre DEF Arrives
  <2>7. CallIn(b, 3) = CallIn(b, 2)
    BY WaitingCall
  <2>8. AbsValue' = AbsValue
    BY <1>0, <1>1, <2>5, SettledIs, ValueStays
  <2> QED BY <1>0, <1>1, <2>4, <2>5, <2>6, <2>7, <2>8, SettledIs DEF Held, Stays
<1> QED BY <1>9, <1>10
-----------------------------------------------------------------------------
(***************************************************************************)
(* Nvm_Pool_Record_Add: a sector opened.                                   *)
(***************************************************************************)

LEMMA DrainsKeep ==
  ASSUME NEW S, NoSector \notin S, NEW F, NEW G, NEW m, NEW j, NEW r, NEW Ts,
         Keeps(S, F, m.phys, G, j.phys, NoSector), j.lut = m.lut,
         \A k \in DOMAIN m.lut : Leads(F, S, m.phys, m.lut[k]), Drains(F, S, m, r, Ts)
  PROVE  Drains(G, S, j, r, Ts)
<1> SUFFICES ASSUME NEW k \in DOMAIN m.lut, k < r.next, m.lut[k].sec = r.sec, m.lut[k].tok \notin Ts
             PROVE  /\ RecordOf(G, j.phys, m.lut[k]).val = Removed
                    /\ \A q \in S : Carries(G, j.phys, q, m.lut[k].tok) => q = r.sec
  BY DEF Drains
<1>1. /\ RecordOf(F, m.phys, m.lut[k]).val = Removed
      /\ \A q \in S : Carries(F, m.phys, q, m.lut[k].tok) => q = r.sec
  BY DEF Drains
<1>2. Leads(F, S, m.phys, m.lut[k]) /\ m.lut[k].sec # NoSector
  BY DEF Leads
<1>3. RecordOf(G, j.phys, m.lut[k]) = RecordOf(F, m.phys, m.lut[k])
  BY <1>2 DEF Keeps, RecordOf
<1>4. \A q \in S : Carries(G, j.phys, q, m.lut[k].tok) => Carries(F, m.phys, q, m.lut[k].tok)
  BY DEF Keeps
<1> QED BY <1>1, <1>3, <1>4

(* A record is being added for a write, or for a relocation.               *)
AddingFor(b)      == /\ stack = <<Top, b>> /\ Tail(stack) = <<b>> /\ b \in WriteFrames
                     /\ b.at = "stored" /\ Top.tok = b.tok /\ Top.val = b.val
                     /\ AbsCall = CallIn(b, 2)
AddingWithin(r, b) == /\ stack = <<Top, r, b>> /\ Tail(stack) = <<r, b>>
                      /\ r \in RelocateFrames(Sectors) /\ b \in Waiting
                      /\ Adds(flash, Sectors, mem, Top, {r.sec})
                      /\ Moves(flash, Sectors, use.cached, mem, r, {Top.tok})
                      /\ AbsCall = CallIn(b, 3)
LEMMA AddCallIs ==
  ASSUME IInv, ~Idle, Top.op = "add"
  PROVE  /\ Settles(stack) /\ stack = <<Top>> \o Tail(stack)
         /\ Kept(flash, Sectors, use.names, mem, OpenBy(Top))
         /\ Top \in AddFrames(Sectors)
         /\ (\E b : AddingFor(b)) \/ \E r, b : AddingWithin(r, b)
<1>1. Top \in AddFrames(Sectors)
      /\ Adding(flash, Sectors, use.names, use.cached, mem, Top, Tail(stack))
      /\ Kept(flash, Sectors, use.names, mem, OpenBy(Top))
  BY AddOnTop
<1>2. stack # <<>> /\ Head(stack) = Top
  BY DEF Idle, Top
<1>3. stack = <<Top>> \o Tail(stack)
  BY <1>2, InvParts, StandsPut
<1>4. ASSUME NEW b \in WriteFrames, Tail(stack) = <<b>>, b.at = "stored", Top.tok = b.tok, Top.val = b.val
      PROVE  AddingFor(b)
  <2>1. stack = <<Top, b>>
    BY <1>3, <1>4, Tuples
  <2>2. AbsCall = CallIn(b, 2)
    BY <2>1, AbsIs, CallsAre
  <2> QED BY <1>4, <2>1, <2>2 DEF AddingFor
<1>5. ASSUME NEW r \in RelocateFrames(Sectors), NEW b \in Waiting, Tail(stack) = <<r, b>>,
             Adds(flash, Sectors, mem, Top, {r.sec}),
             Moves(flash, Sectors, use.cached, mem, r, {Top.tok})
      PROVE  AddingWithin(r, b)
  <2>1. stack = <<Top, r, b>>
    <3>1. Tail(stack) = <<r, b>>
      BY <1>5
    <3>2. <<Top>> \o <<r, b>> = <<Top, r, b>>
      BY TupleThree
    <3> QED BY <1>3, <3>1, <3>2
  <2>2. AbsCall = CallIn(b, 3)
    BY <2>1, AbsIs, CallsAre
  <2> QED BY <1>5, <2>1, <2>2 DEF AddingWithin
<1> QED BY <1>1, <1>3, <1>4, <1>5, SettlesAt DEF Adding

(* The flash shows the same records, and the call goes on.                 *)
LEMMA AddGoesOn ==
  ASSUME IInv, AbsInv, Arrives, ~Idle, Top.op = "add",
         NEW g, g.op = "add", g.tok = Top.tok, g.val = Top.val, stack' = <<g>> \o Tail(stack),
         RecordsIn(flash', Sectors) = RecordsIn(flash, Sectors),
         Keeps(Sectors, flash, mem.phys, flash', mem'.phys, NoSector), mem'.lut = mem.lut,
         result' = result
  PROVE  Held /\ Stays
<1>1. Settles(stack) /\ Kept(flash, Sectors, use.names, mem, OpenBy(Top))
      /\ ((\E b : AddingFor(b)) \/ \E r, b : AddingWithin(r, b))
  BY AddCallIs
<1>2. Tail(stack) \in Seq(FramesIn(Sectors))
  BY TopTyped
<1>3. Head(stack') = g /\ stack' # <<>>
  BY <1>2, HeadOnto
<1>4. Settles(stack')
  BY <1>3 DEF Settles
<1>5. Calm(flash', Sectors) /\ ~WipingIn(stack')
  <2>1. Stands(flash', Sectors, use.names, use.cached, mem', stack')
    BY DEF Arrives
  <2>2. Adding(flash', Sectors, use.names, use.cached, mem', g, Tail(stack'))
    BY <1>3, <2>1, StandsShapes
  <2>3. Calm(flash', Sectors)
    BY <2>2, AddingIs DEF Kept
  <2> QED BY <1>4, <2>1, <2>3, SettledIs, WipingOnTop
<1>6. Calm(flash, Sectors) /\ ~WipingIn(stack)
  BY <1>1, SettledIs, InvParts, WipingOnTop DEF Kept
<1>7. AbsValue' = AbsValue
  BY <1>5, <1>6, AbsIs DEF Arrives, ValueIn
<1>8. \A e, F, S, n : WipeIn(e, F, S, stack', n)
  BY <1>4, SettledIs
<1>9. NoSector \notin Sectors /\ \A k \in DOMAIN mem.lut : Leads(flash, Sectors, mem.phys, mem.lut[k])
  BY <1>1, InvParts DEF Kept, ListsIn
<1>10. ASSUME NEW b, AddingFor(b) PROVE Held /\ Stays
  <2>1. stack' = <<g, b>>
    BY <1>10, Tuples DEF AddingFor
  <2>2. DropIn(flash', Sectors, mem', stack')
    BY <2>1, DropTuples
  <2>3. AbsCall' = CallIn(b, 2)
    BY <2>1, CallsAre DEF Arrives
  <2> QED BY <1>7, <1>8, <1>10, <2>2, <2>3 DEF Held, Stays, AddingFor
<1>11. ASSUME NEW r, NEW b, AddingWithin(r, b) PROVE Held /\ Stays
  <2>1. stack' = <<g, r, b>> /\ stack = <<Top, r, b>>
    BY <1>11, Tuples DEF AddingWithin
  <2>2. Drains(flash, Sectors, mem, r, {Top.tok})
        /\ Top.val = StoredIn(RecordsIn(flash, Sectors))[Top.tok]
    BY <2>1 DEF AbsInv, DropIn
  <2>3. Drains(flash', Sectors, mem', r, {Top.tok})
    BY <1>9, <2>2, DrainsKeep
  <2>4. DropIn(flash', Sectors, mem', stack')
    BY <2>1, <2>2, <2>3, DropTuples
  <2>5. AbsCall' = CallIn(b, 3)
    BY <2>1, CallsAre DEF Arrives
  <2> QED BY <1>7, <1>8, <1>11, <2>4, <2>5 DEF Held, Stays, AddingWithin
<1> QED BY <1>1, <1>10, <1>11

LEMMA CreateHolds ==
  ASSUME IInv, AbsInv, Arrives, Create
  PROVE  Held /\ Stays
<1>1. ~Idle /\ Top.op = "add" /\ Top.at = "allocate" /\ result' = result
  BY DEF Create, At
<1>2. /\ Kept(flash, Sectors, use.names, mem, NoSector) /\ stack = <<Top>> \o Tail(stack)
      /\ Top \in AddFrames(Sectors)
  <2>1. OpenBy(Top) = NoSector
    BY <1>1 DEF OpenBy
  <2> QED BY <1>1, <2>1, AddCallIs
<1>4. CASE ~CanCreate(mem)
  <2>1. flash' = flash /\ mem' = mem /\ stack' = stack
    BY <1>4 DEF Create
  <2>2. Alike(Sectors, flash, mem.phys, flash, mem.phys, NoSector)
    BY DEF Alike
  <2>3. Keeps(Sectors, flash, mem.phys, flash, mem.phys, NoSector)
    BY <2>2, AlikeKeeps
  <2>4. stack' = <<Top>> \o Tail(stack)
    BY <1>2, <2>1
  <2>5. Keeps(Sectors, flash, mem.phys, flash', mem'.phys, NoSector) /\ mem'.lut = mem.lut
        /\ RecordsIn(flash', Sectors) = RecordsIn(flash, Sectors)
    BY <2>1, <2>3
  <2> QED BY <1>1, <2>4, <2>5, AddGoesOn
<1>5. CASE CanCreate(mem)
  <2> DEFINE s == FreeLogical(mem)
             p == FreePhysical(mem.last)
             G == [flash EXCEPT ![p] = Opened(s)]
             j == [mem EXCEPT !.phys[s] = p, !.last = p]
             psys == [mem.phys EXCEPT ![s] = p]
             f == [Top EXCEPT !.at = "header", !.sec = s]
  <2>1. /\ flash' = [WriteHeader(p, 1, s) EXCEPT ![p].page = Blank.page] /\ mem' = j
        /\ stack' = <<f>> \o Tail(stack)
    BY <1>5 DEF Create
  <2>2. /\ use \in Uses /\ NoSector \notin Sectors /\ flash \in FlashIn(Sectors)
        /\ FlashGood(flash, Sectors)
        /\ mem.phys \in MapIn(Sectors) /\ mem \in TablesIn(Sectors) /\ mem.last \in Sectors
    BY InvParts, TablesParts
  <2>3. (\E q \in Sectors : IsFree(q)) /\ InUse(mem) # Sectors
    BY <1>5 DEF CanCreate
  <2>4. s \in Sectors \ InUse(mem)
    BY <2>2, <2>3, FreeLogicalIs
  <2>5. p \in Sectors /\ IsFree(p)
    BY <2>2, <2>3, FreePhysicalIs
  <2> HIDE DEF s, p
  <2>6. mem.phys[s] = NoSector
    BY <2>2, <2>4 DEF InUse
  <2>7. /\ Calm(flash, Sectors) /\ TidyIn(flash, Sectors, mem.phys, NoSector)
    BY <1>2 DEF Kept
  <2>8. flash[p] = Blank
    <3>1. ~IsValid(flash[p])
      BY <2>5 DEF IsFree, HasValidHeader, IsValid
    <3> QED BY <2>2, <2>5, <2>7, <3>1, FreeIsBlank
  <2>9. flash' = G
    BY <2>1, <2>2, <2>5, <2>8, HeaderOpens
  <2>10. /\ j.phys = psys /\ j.lut = mem.lut
    BY <2>2, <2>4, <2>5 DEF TablesIn
  <2>11. s \in Sectors
    BY <2>4
  <2>12. Keeps(Sectors, flash, mem.phys, G, psys, NoSector) /\ G[p] = Opened(s)
         /\ \A q \in Sectors \ {p} : G[q] = flash[q]
    BY <2>2, <2>5, <2>6, <2>7, <2>8, <2>11, OpenTidy
  <2>13. f.op = "add" /\ f.tok = Top.tok /\ f.val = Top.val
    BY <1>1, <1>2 DEF AddFrames
  <2> HIDE DEF G, psys, j, f
  <2>14. \A q \in Sectors : Shown(G[q]) = Shown(flash[q])
    <3> TAKE q \in Sectors
    <3>1. CASE q = p
      BY <2>2, <2>8, <2>11, <2>12, <3>1, BlankIs, OpenedIs
    <3> QED BY <2>12, <3>1
  <2>15. RecordsIn(flash', Sectors) = RecordsIn(flash, Sectors)
    BY <2>9, <2>14, SameShown
  <2>16. Keeps(Sectors, flash, mem.phys, flash', mem'.phys, NoSector) /\ mem'.lut = mem.lut
    BY <2>1, <2>9, <2>10, <2>12
  <2> QED BY <1>1, <2>1, <2>13, <2>15, <2>16, AddGoesOn
<1> QED BY <1>4, <1>5

LEMMA CreateSecondHolds ==
  ASSUME IInv, AbsInv, Arrives, CreateSecond
  PROVE  Held /\ Stays
<1> DEFINE s == Top.sec
           G == [flash EXCEPT ![mem.phys[s]].head[2] = HeadOf(s)]
           f == [Top EXCEPT !.at = "store"]
<1>1. ~Idle /\ Top.op = "add" /\ Top.at = "header" /\ result' = result
  BY DEF CreateSecond, At
<1>2. /\ Top \in AddFrames(Sectors)
      /\ Adding(flash, Sectors, use.names, use.cached, mem, Top, Tail(stack))
      /\ Kept(flash, Sectors, use.names, mem, OpenBy(Top))
  BY <1>1, AddOnTop
<1>3. flash' = G /\ mem' = mem /\ stack' = <<f>> \o Tail(stack)
  BY DEF CreateSecond, WriteHeader, HeadOf, Goto
<1>4. /\ NoSector \notin Sectors /\ flash \in FlashIn(Sectors)
      /\ FlashGood(flash, Sectors) /\ mem.phys \in MapIn(Sectors)
  BY InvParts
<1>5. Adds(flash, Sectors, mem, Top, {})
  BY <1>2, AddingIs
<1>6. s \in Sectors /\ mem.phys[s] # NoSector
  BY <1>1, <1>5 DEF Adds
<1>7. OpenBy(Top) = s
  BY <1>1 DEF OpenBy
<1>8. TidyIn(flash, Sectors, mem.phys, s)
  BY <1>2, <1>7 DEF Kept
<1> HIDE DEF s
<1>9. /\ \A q \in Sectors : G[q].page = flash[q].page /\ G[q].head[1] = flash[q].head[1]
      /\ Keeps(Sectors, flash, mem.phys, G, mem.phys, NoSector)
  BY <1>4, <1>6, <1>8, SecondTidy
<1> HIDE DEF G
<1>10. \A q \in Sectors : Shown(G[q]) = Shown(flash[q])
  <2> TAKE q \in Sectors
  <2>1. IsValid(G[q]) <=> IsValid(flash[q])
    BY <1>9 DEF IsValid
  <2> QED BY <1>9, <2>1, HeadedShown
<1>11. RecordsIn(flash', Sectors) = RecordsIn(flash, Sectors)
  BY <1>3, <1>10, SameShown
<1>12. f.op = "add" /\ f.tok = Top.tok /\ f.val = Top.val
  BY <1>1, <1>2 DEF AddFrames
<1> HIDE DEF f
<1> QED BY <1>1, <1>3, <1>9, <1>11, <1>12, AddGoesOn
-----------------------------------------------------------------------------
(***************************************************************************)
(* What a record more does to the items that relocation has passed.        *)
(***************************************************************************)

(* A relocation below goes on when the record of its item is copied.       *)
LEMMA StoreDrains ==
  ASSUME NEW S, NEW F, NEW G, NEW m, NEW j, j.phys = m.phys, NEW r, NEW t, NEW s, s # r.sec,
         Follows(m.lut, j.lut, t, s), Brings(G, F, S, m.phys, t),
         \A k \in DOMAIN m.lut : RecordOf(G, m.phys, m.lut[k]) = RecordOf(F, m.phys, m.lut[k]),
         Drains(F, S, m, r, {t})
  PROVE  Drains(G, S, j, r, {})
<1> SUFFICES ASSUME NEW k \in DOMAIN j.lut, k < r.next, j.lut[k].sec = r.sec
             PROVE  /\ RecordOf(G, j.phys, j.lut[k]).val = Removed
                    /\ \A q \in S : Carries(G, j.phys, q, j.lut[k].tok) => q = r.sec
  BY DEF Drains
<1>1. j.lut[k].tok # t /\ k \in DOMAIN m.lut /\ m.lut[k].tok # t /\ j.lut[k] = m.lut[k]
  BY DEF Follows
<1>2. /\ RecordOf(F, m.phys, m.lut[k]).val = Removed
      /\ \A q \in S : Carries(F, m.phys, q, m.lut[k].tok) => q = r.sec
  BY <1>1 DEF Drains
<1> QED BY <1>1, <1>2 DEF Brings

(* Where a record is put, whole or cut short.                              *)
LEMMA AppendedAt ==
  ASSUME IInv, CanStore, NEW ok \in BOOLEAN, Appended(ok)
  PROVE  LET p == mem.phys[Place]
             w == Written(ok)
         IN  /\ p \in Sectors /\ PlacePage \in Pages /\ w \in Record /\ w.ok = ok
             /\ w.tok = Top.tok /\ w.val = Top.val /\ w.seq = NextSeq(mem.seqs)
             /\ flash' = [flash EXCEPT ![p] = With(flash[p], PlacePage, w)]
             /\ AllOk(flash[p].page[PlacePage]) /\ IsValid(flash[p])
             /\ Calm(flash, Sectors) /\ Calm(flash', Sectors)
             /\ TidyIn(flash, Sectors, mem.phys, NoSector) /\ Settles(stack)
             /\ RecordsIn(flash', Sectors)
                  = IF ok THEN RecordsIn(flash, Sectors) \cup {w} ELSE RecordsIn(flash, Sectors)
<1> DEFINE p == mem.phys[Place]
           w == Written(ok)
           g == PlacePage
<1>1. ~Idle /\ Top.op = "add"
  BY DEF CanStore, At
<1>2. /\ OpenBy(Top) = NoSector /\ Place \in Sectors /\ p \in Sectors /\ g \in Pages
  BY PlaceIs
<1>3. /\ w \in Record /\ flash' = Stores(flash, mem.phys, Place, g, w)
      /\ \A q \in Sectors : flash'[q].head = flash[q].head
  BY AppendedIs
<1>4. w.ok = ok /\ w.tok = Top.tok /\ w.val = Top.val /\ w.seq = NextSeq(mem.seqs)
  BY DEF Written
<1>5. Settles(stack) /\ Kept(flash, Sectors, use.names, mem, NoSector)
  BY <1>1, <1>2, AddCallIs
<1>6. NoSector \notin Sectors /\ flash \in FlashIn(Sectors)
  BY InvParts
<1> HIDE DEF w, g
<1>7. TidyIn(flash, Sectors, mem.phys, NoSector) /\ Calm(flash, Sectors) /\ p # NoSector
  BY <1>2, <1>5, <1>6 DEF Kept
<1>8. AllOk(flash[p].page[g]) /\ flash[p].head[1] = HeadOf(Place)
  BY <1>2, <1>7 DEF TidyIn
<1>9. IsValid(flash[p])
  BY <1>2, <1>6, <1>8, OpenedIs DEF IsValid
<1>10. Calm(flash', Sectors)
  BY <1>3, <1>7 DEF Calm
<1>11. flash' = [flash EXCEPT ![p] = With(flash[p], g, w)]
  BY <1>3 DEF Stores
<1> HIDE DEF p
<1>12. RecordsIn([flash EXCEPT ![p] = With(flash[p], g, w)], Sectors)
         = IF w.ok /\ IsValid(flash[p]) THEN RecordsIn(flash, Sectors) \cup {w} ELSE RecordsIn(flash, Sectors)
  BY <1>2, <1>3, <1>6, <1>8, OneMore
<1> QED BY <1>2, <1>3, <1>4, <1>5, <1>7, <1>8, <1>9, <1>10, <1>11, <1>12 DEF p, w, g

LEMMA StoreValue ==
  ASSUME IInv, OrdInv, CInv, CanStore, Appended(TRUE), Comparable(SeqsIn(flash', Sectors)),
         Distinct(flash', Sectors)
  PROVE  StoredIn(RecordsIn(flash', Sectors))
           = [StoredIn(RecordsIn(flash, Sectors)) EXCEPT ![Top.tok] = Top.val]
<1> DEFINE R == RecordsIn(flash, Sectors)
           Q == RecordsIn(flash', Sectors)
           w == Written(TRUE)
           U == Numbered(flash, Sectors, mem.phys)
           n == NextSeq(ExtremesOf(U))
<1>1. /\ w \in Record /\ w.tok = Top.tok /\ w.val = Top.val /\ w.seq = NextSeq(mem.seqs)
      /\ TidyIn(flash, Sectors, mem.phys, NoSector) /\ Settles(stack) /\ Q = R \cup {w}
  BY AppendedAt
<1>2. /\ NoSector \notin Sectors /\ Sectors \subseteq Nat /\ flash \in FlashIn(Sectors)
      /\ mem.phys \in MapIn(Sectors)
  BY InvParts
<1>3. R \in SUBSET Record
  BY <1>1, <1>2, RecordsBorne
<1>4. w.seq = n
  BY <1>1 DEF OrdInv, OrderIn
<1>5. U \in SUBSET (Numbers \X Nat) /\ NumbersOf(U) = SeqsIn(flash, Sectors)
  BY <1>1, <1>2, NumberedIs
<1>6. SeqsIn(flash', Sectors) = NumbersOf(U) \cup {n}
  <2>1. SeqsIn(flash', Sectors) = {r.seq : r \in R \cup {w}} /\ SeqsIn(flash, Sectors) = {r.seq : r \in R}
    BY <1>1 DEF SeqsIn
  <2> HIDE DEF R, w, n, U
  <2> QED BY <1>4, <1>5, <2>1
<1>7. Comparable(NumbersOf(U)) /\ Comparable(NumbersOf(U) \cup {n})
  BY <1>5, <1>6 DEF CInv
<1>8. n \in Numbers
  BY <1>1, <1>4 DEF Record, Numbers
<1> HIDE DEF U, n, w
<1> DEFINE nn == n
<1>9. \A i \in NumbersOf(U) : NotOlder(n, i)
  <2>1. nn = NextSeq(ExtremesOf(U)) /\ nn \in Numbers /\ Comparable(NumbersOf(U) \cup {nn})
    BY <1>7, <1>8 DEF n
  <2> HIDE DEF nn
  <2>2. \A i \in NumbersOf(U) : NotOlder(nn, i)
    BY <1>5, <1>7, <2>1, NextOfPool
  <2> QED BY <2>2 DEF nn
<1>10. \A o \in R : NotOlder(w.seq, o.seq)
  BY <1>4, <1>5, <1>9 DEF SeqsIn
<1>11. \A a, b \in R \cup {w} : a.seq = b.seq => a = b
  BY <1>1 DEF Distinct
<1> HIDE DEF R, Q
<1>12. StoredIn(R \cup {w}) = [StoredIn(R) EXCEPT ![w.tok] = w.val]
  BY <1>1, <1>3, <1>10, <1>11, StoredMore
<1> QED BY <1>1, <1>12 DEF R, Q
-----------------------------------------------------------------------------
(***************************************************************************)
(* A record stored: the call takes effect, or what is stored stays.        *)
(***************************************************************************)

LEMMA StoreLeads ==
  ASSUME NEW S, NoSector \notin S, NEW F \in FlashIn(S), NEW phys \in MapIn(S),
         TidyIn(F, S, phys, NoSector), NEW s \in S, phys[s] # NoSector,
         NEW g \in Pages, NEW r \in Record, NEW it, Leads(F, S, phys, it)
  PROVE  RecordOf(Stores(F, phys, s, g, r), phys, it) = RecordOf(F, phys, it)
<1> DEFINE G == Stores(F, phys, s, g, r)
<1>1. G[phys[it.sec]].page[it.page][it.idx] = F[phys[it.sec]].page[it.page][it.idx]
  BY StoreTidy
<1> HIDE DEF G
<1> QED BY <1>1 DEF RecordOf, G

LEMMA StoreFollows ==
  ASSUME IInv, Store
  PROVE  /\ mem'.phys = mem.phys /\ Follows(mem.lut, mem'.lut, Top.tok, Place)
         /\ Brings(flash', flash, Sectors, mem.phys, Top.tok)
         /\ \A k \in DOMAIN mem.lut :
              RecordOf(flash', mem.phys, mem.lut[k]) = RecordOf(flash, mem.phys, mem.lut[k])
         /\ \A r : Moves(flash, Sectors, use.cached, mem, r, {Top.tok})
                     /\ Adds(flash, Sectors, mem, Top, {r.sec}) => Place # r.sec
<1> DEFINE g == PlacePage
           w == Written(TRUE)
           i == Len(PageOf(mem, Place, PlacePage)) + 1
           new == ListAt(mem.lut, Top.tok, Place, g, i)
           t == Top.tok
<1>0. CanStore /\ Appended(TRUE)
  BY DEF Store
<1>1. /\ OpenBy(Top) = NoSector
      /\ Place \in Sectors /\ mem.phys[Place] \in Sectors /\ g \in Pages
      /\ PageOf(mem, Place, g) = flash[mem.phys[Place]].page[g]
      /\ Top.at # "allocate" => Top.at = "store" /\ Place = Top.sec
      /\ Top.at = "allocate" => Place \notin mem.locked
  BY <1>0, PlaceIs
<1>2. /\ NoSector \notin Sectors /\ flash \in FlashIn(Sectors) /\ use.names \in Nat
      /\ mem.phys \in MapIn(Sectors) /\ mem.lut \in Seq(Items) /\ mem.unique \in Nat
  BY InvParts, Bridges
<1>3. w \in Record /\ flash' = Stores(flash, mem.phys, Place, g, w)
  BY <1>0, AppendedIs
<1>4. w.tok = t /\ w.ok
  BY DEF Written
<1>5. mem'.phys = mem.phys /\ mem'.lut = new
  BY <1>0, NotedIs DEF Store
<1>6. Kept(flash, Sectors, use.names, mem, NoSector) /\ Joins(mem, t)
  <2>1. ~Idle /\ Top.op = "add"
    BY <1>0 DEF CanStore, At
  <2>2. Adding(flash, Sectors, use.names, use.cached, mem, Top, Tail(stack))
    BY <2>1, AddOnTop
  <2> QED BY <1>1, <2>2, AddingIs
<1> HIDE DEF w, t
<1>7. /\ TidyIn(flash, Sectors, mem.phys, NoSector) /\ mem.phys[Place] # NoSector
      /\ ListsIn(flash, Sectors, mem.phys, mem.lut)
      /\ Len(mem.lut) <= mem.unique /\ mem.unique <= use.names
  BY <1>1, <1>2, <1>6 DEF Kept
<1> HIDE DEF g
<1>8. /\ Brings(flash', flash, Sectors, mem.phys, t)
      /\ \A it : Leads(flash, Sectors, mem.phys, it) =>
           RecordOf(flash', mem.phys, it) = RecordOf(flash, mem.phys, it)
  <2>1. Place \in Sectors /\ g \in Pages
    BY <1>1
  <2>2. Brings(flash', flash, Sectors, mem.phys, t)
    BY <1>2, <1>3, <1>4, <1>7, <2>1, StoreTidy DEF Brings
  <2>3. ASSUME NEW it, Leads(flash, Sectors, mem.phys, it)
        PROVE  RecordOf(flash', mem.phys, it) = RecordOf(flash, mem.phys, it)
    BY <1>2, <1>3, <1>7, <2>1, <2>3, StoreLeads
  <2> QED BY <2>2, <2>3
<1>9. \A k \in DOMAIN mem.lut :
        RecordOf(flash', mem.phys, mem.lut[k]) = RecordOf(flash, mem.phys, mem.lut[k])
  BY <1>7, <1>8 DEF ListsIn
<1>10. (\E k \in DOMAIN mem.lut : mem.lut[k].tok = w.tok) \/ Len(mem.lut) < use.names
  <2>1. (\E k \in DOMAIN mem.lut : mem.lut[k].tok = t) \/ Len(mem.lut) < mem.unique
    BY <1>6 DEF Joins
  <2>2. Len(mem.lut) \in Nat
    BY <1>2
  <2> QED BY <1>2, <1>4, <1>7, <2>1, <2>2
<1>11. new = ListAt(mem.lut, w.tok, Place, g, Len(flash[mem.phys[Place]].page[g]) + 1)
  BY <1>1, <1>4 DEF t, g
<1> HIDE DEF new
<1>12. Follows(mem.lut, new, t, Place)
  <2>1. Place \in Sectors /\ g \in Pages
    BY <1>1
  <2>2. Relists(flash, Sectors, mem.phys, Place, g, w, mem.lut)
    BY <1>2, <1>3, <1>7, <1>10, <2>1, RelistsIs
  <2> QED BY <1>4, <1>11, <2>2 DEF Relists
<1>13. ASSUME NEW r, Moves(flash, Sectors, use.cached, mem, r, {Top.tok}),
              Adds(flash, Sectors, mem, Top, {r.sec})
       PROVE  Place # r.sec
  BY <1>1, <1>13 DEF Adds, Moves
<1>14. mem'.phys = mem.phys /\ Follows(mem.lut, mem'.lut, Top.tok, Place)
      /\ Brings(flash', flash, Sectors, mem.phys, Top.tok)
  BY <1>5, <1>8, <1>12 DEF t
<1> QED BY <1>9, <1>13, <1>14

(* The record of a write takes effect; that of a copy changes no value.    *)
LEMMA StoreHolds ==
  ASSUME IInv, AbsInv, OrdInv, CInv, Arrives, Store, Comparable(SeqsIn(flash', Sectors)),
         Distinct(flash', Sectors)
  PROVE  Held /\ (Takes \/ Stays)
<1> DEFINE V == StoredIn(RecordsIn(flash, Sectors))
           W == StoredIn(RecordsIn(flash', Sectors))
<1>1. CanStore /\ Appended(TRUE) /\ stack' = Tail(stack) /\ result' = result
      /\ ~Idle /\ Top.op = "add"
  BY DEF Store, Return, CanStore, At
<1>2. Settles(stack) /\ Top \in AddFrames(Sectors)
      /\ ((\E b : AddingFor(b)) \/ \E r, b : AddingWithin(r, b))
  BY <1>1, AddCallIs
<1>3. Calm(flash, Sectors) /\ Calm(flash', Sectors)
  BY <1>1, AppendedAt
<1>4. W = [V EXCEPT ![Top.tok] = Top.val]
  BY <1>1, StoreValue
<1>5. AbsValue = V
  <2>1. ~WipingIn(stack)
    BY <1>2, SettledIs, InvParts, WipingOnTop
  <2> QED BY <1>3, <2>1, AbsIs DEF ValueIn
<1>6. Settles(stack') => AbsValue' = W /\ \A e, F, S, n : WipeIn(e, F, S, stack', n)
  <2> SUFFICES ASSUME Settles(stack')
               PROVE  AbsValue' = W /\ \A e, F, S, n : WipeIn(e, F, S, stack', n)
    OBVIOUS
  <2>1. Stands(flash', Sectors, use.names, use.cached, mem', stack')
    BY DEF Arrives
  <2>2. ~WipingIn(stack')
    BY <2>1, SettledIs, WipingOnTop
  <2>3. AbsValue' = W
    BY <1>3, <2>2 DEF Arrives, ValueIn
  <2> QED BY <2>3, SettledIs
<1>7. V \in [Tokens -> {V[t] : t \in Tokens}] /\ Top.tok \in Tokens
  BY <1>2 DEF StoredIn, AddFrames
<1> HIDE DEF V, W
<1>8. ASSUME NEW b, AddingFor(b) PROVE Held /\ Takes
  <2>1. /\ stack' = <<b>> /\ b \in WriteFrames /\ b.at = "stored"
        /\ b.tok = Top.tok /\ b.val = Top.val /\ AbsCall = CallIn(b, 2)
    BY <1>1, <1>8 DEF AddingFor
  <2>2. Settles(stack')
    BY <2>1, FrameOps, Tuples DEF Settles
  <2>3. AbsCall' = CallIn(b, 1)
    BY <2>1, CallsAre DEF Arrives
  <2> DEFINE c == [op |-> "write", tok |-> Top.tok, val |-> Top.val, done |-> FALSE]
  <2>4. AbsCall = c
    <3> DEFINE d == b.at = "stored" /\ 2 = 1
    <3>1. d = FALSE
      OBVIOUS
    <3>2. CallIn(b, 2) = [op |-> "write", tok |-> b.tok, val |-> b.val, done |-> d]
      BY <2>1, FrameOps DEF CallIn
    <3> HIDE DEF d
    <3> QED BY <2>1, <3>1, <3>2
  <2>5. AbsCall' = [op |-> "write", tok |-> Top.tok, val |-> Top.val, done |-> TRUE]
    <3> DEFINE d == b.at = "stored" /\ 1 = 1
    <3>1. d = TRUE
      BY <2>1
    <3>2. CallIn(b, 1) = [op |-> "write", tok |-> b.tok, val |-> b.val, done |-> d]
      BY <2>1, FrameOps DEF CallIn
    <3> HIDE DEF d
    <3> QED BY <2>1, <2>3, <3>1, <3>2
  <2>6. AbsCall' = [AbsCall EXCEPT !.done = TRUE]
    <3> DEFINE no == FALSE
               yes == TRUE
    <3>1. AbsCall = [op |-> "write", tok |-> Top.tok, val |-> Top.val, done |-> no]
      BY <2>4
    <3>2. AbsCall' = [op |-> "write", tok |-> Top.tok, val |-> Top.val, done |-> yes]
      BY <2>5
    <3> HIDE DEF no, yes
    <3>3. AbsCall' = [AbsCall EXCEPT !.done = yes]
      BY <3>1, <3>2
    <3> QED BY <3>3 DEF yes
  <2>7. AbsCall # NoCallYet /\ ~AbsCall.done /\ AbsCall.op = "write"
        /\ AbsCall.tok = Top.tok /\ AbsCall.val = Top.val
    <3>1. c # NoCallYet /\ ~c.done /\ c.op = "write" /\ c.tok = Top.tok /\ c.val = Top.val
      BY DEF NoCallYet
    <3> HIDE DEF c
    <3> QED BY <2>4, <3>1
  <2>8. AbsValue' = [AbsValue EXCEPT ![AbsCall.tok] = AbsCall.val]
    BY <1>4, <1>5, <1>6, <2>2, <2>7
  <2>9. Takes
    BY <1>1, <2>6, <2>7, <2>8 DEF Takes
  <2>10. DropIn(flash', Sectors, mem', stack')
    BY <2>1, DropTuples
  <2> QED BY <1>6, <2>2, <2>9, <2>10 DEF Held
<1>9. ASSUME NEW r, NEW b, AddingWithin(r, b) PROVE Held /\ Stays
  <2>1. /\ stack' = <<r, b>> /\ stack = <<Top, r, b>> /\ r.op = "relocate" /\ b \in Waiting
        /\ AbsCall = CallIn(b, 3) /\ Moves(flash, Sectors, use.cached, mem, r, {Top.tok})
        /\ Adds(flash, Sectors, mem, Top, {r.sec})
    BY <1>1, <1>9, FrameOps DEF AddingWithin
  <2>2. Settles(stack')
    BY <2>1, Tuples DEF Settles
  <2>3. AbsCall' = AbsCall
    <3>1. AbsCall' = CallIn(b, 2)
      BY <2>1, CallsAre DEF Arrives
    <3> QED BY <2>1, <3>1, WaitingCall
  <2>4. Drains(flash, Sectors, mem, r, {Top.tok}) /\ Top.val = V[Top.tok]
    BY <2>1 DEF AbsInv, DropIn, V
  <2>5. W = V
    BY <1>4, <1>7, <2>4
  <2>6. Drains(flash', Sectors, mem', r, {})
    <3>1. /\ mem'.phys = mem.phys /\ Follows(mem.lut, mem'.lut, Top.tok, Place)
          /\ Brings(flash', flash, Sectors, mem.phys, Top.tok)
          /\ \A k \in DOMAIN mem.lut :
               RecordOf(flash', mem.phys, mem.lut[k]) = RecordOf(flash, mem.phys, mem.lut[k])
          /\ Place # r.sec
      BY <2>1, StoreFollows
    <3> QED BY <2>4, <3>1, StoreDrains
  <2>7. DropIn(flash', Sectors, mem', stack')
    BY <2>1, <2>6, DropTuples
  <2> QED BY <1>1, <1>5, <1>6, <2>2, <2>3, <2>5, <2>7 DEF Held, Stays
<1> QED BY <1>2, <1>8, <1>9
-----------------------------------------------------------------------------
(***************************************************************************)
(* The erase of a relocated sector.                                        *)
(***************************************************************************)

(* What was passed over in a sector was a removal, and the last record of  *)
(* its token: without the sector every token reads the same.               *)
LEMMA GoneStored ==
  ASSUME NEW S, NoSector \notin S, NEW F \in FlashIn(S), NEW m, m.phys \in MapIn(S),
         FlashGood(F, S), TidyIn(F, S, m.phys, NoSector), ListsIn(F, S, m.phys, m.lut),
         NewestIn(F, S, m.phys, m.lut), Distinct(F, S),
         NEW r, r.sec \in S, m.phys[r.sec] # NoSector,
         \A k \in DOMAIN m.lut : m.lut[k].sec = r.sec => k < r.next,
         Drains(F, S, m, r, {})
  PROVE  StoredIn(RecordsIn(Erased(F, m.phys, r.sec), S)) = StoredIn(RecordsIn(F, S))
<1> DEFINE s == r.sec
           phys == m.phys
           lut == m.lut
           G == Erased(F, phys, s)
           psys == Unmapped(phys, s)
           R == RecordsIn(F, S)
           Q == RecordsIn(G, S)
<1>0. /\ phys \in MapIn(S) /\ TidyIn(F, S, phys, NoSector) /\ s \in S /\ phys[s] # NoSector
      /\ ListsIn(F, S, phys, lut) /\ NewestIn(F, S, phys, lut)
  OBVIOUS
<1>1. /\ \A k \in DOMAIN lut : lut[k].sec = s =>
           /\ RecordOf(F, phys, lut[k]).val = Removed
           /\ \A q \in S : Carries(F, phys, q, lut[k].tok) => q = s
  BY DEF Drains
<1> HIDE DEF s, phys, lut
<1>2. /\ G \in FlashIn(S) /\ psys \in MapIn(S) /\ TidyIn(G, S, psys, NoSector)
      /\ Keeps(S, F, phys, G, psys, s) /\ \A t : ~Carries(G, psys, s, t)
  BY <1>0, EraseTidy
<1>3. Q \subseteq R
  BY BlankIs, OneChanged DEF Erased
<1> HIDE DEF G, psys
<1>4. R \in SUBSET Record
  BY <1>0, RecordsBorne
<1>5. /\ \A k \in DOMAIN lut : StoredIn(R)[lut[k].tok] = RecordOf(F, phys, lut[k]).val
      /\ \A t \in Tokens : (\A k \in DOMAIN lut : lut[k].tok # t) =>
           StoredIn(R)[t] = Removed /\ \A o \in R : o.tok # t
  BY <1>0, ReadsFrom
<1>6. ASSUME NEW t \in Tokens PROVE StoredIn(Q)[t] = StoredIn(R)[t]
  <2>1. CASE \A k \in DOMAIN lut : lut[k].tok # t
    <3>1. StoredIn(R)[t] = Removed /\ \A o \in Q : o.tok # t
      BY <1>3, <1>5, <2>1
    <3> HIDE DEF Q, R
    <3> QED BY <3>1, NoneStored
  <2>2. ASSUME NEW k \in DOMAIN lut, lut[k].tok = t, lut[k].sec # s
        PROVE  StoredIn(Q)[t] = StoredIn(R)[t]
    <3> DEFINE c == RecordOf(G, psys, lut[k])
    <3>1. Leads(F, S, phys, lut[k])
      BY <1>0 DEF ListsIn
    <3>2. Leads(G, S, psys, lut[k]) /\ c = RecordOf(F, phys, lut[k])
      BY <1>2, <2>2, <3>1 DEF Keeps, RecordOf
    <3> HIDE DEF c
    <3>3. c \in Q /\ c.tok = t
      BY <1>2, <2>2, <3>2, ItemRecord DEF c
    <3>4. \A o \in Q : o.tok = c.tok => NotOlder(c.seq, o.seq)
      BY <1>0, <1>3, <2>2, <3>2, <3>3 DEF NewestIn
    <3>5. \A a, b \in Q : a.seq = b.seq => a = b
      BY <1>3 DEF Distinct
    <3>6. StoredIn(R)[t] = c.val
      BY <1>5, <2>2, <3>2
    <3> HIDE DEF Q, R
    <3>7. StoredIn(Q)[c.tok] = c.val
      BY <1>3, <1>4, <3>3, <3>4, <3>5, NewestStored
    <3> QED BY <3>3, <3>6, <3>7
  <2>3. ASSUME NEW k \in DOMAIN lut, lut[k].tok = t, lut[k].sec = s
        PROVE  StoredIn(Q)[t] = StoredIn(R)[t]
    <3>1. StoredIn(R)[t] = Removed
      BY <1>1, <1>5, <2>3
    <3>2. \A q \in S : ~Carries(G, psys, q, t)
      BY <1>1, <1>2, <2>3 DEF Keeps
    <3>3. t \notin TokensIn(G, S)
      BY <1>2, <3>2, TokensCarried
    <3>4. \A o \in Q : o.tok # t
      BY <3>3 DEF TokensIn
    <3> HIDE DEF Q, R
    <3> QED BY <3>1, <3>4, NoneStored
  <2> QED BY <2>1, <2>2, <2>3
<1> HIDE DEF Q, R
<1>7. StoredIn(Q) = StoredIn(R)
  BY <1>6, SameStored
<1> QED BY <1>7 DEF Q, R, G, phys, s

LEMMA EraseRelocatedHolds ==
  ASSUME IInv, AbsInv, OrdInv, Arrives, EraseRelocated
  PROVE  Held /\ Stays
<1> DEFINE s == Top.sec
           p == mem.phys[s]
           again == Top.reset \/ SeqsOn(p) \cap Extremes(mem.seqs) # {}
<1>1. InRelocate /\ Coming = {} /\ result' = result
  BY DEF EraseRelocated
<1>2. PICK b \in Waiting :
           /\ Top \in RelocateFrames(Sectors) /\ Tail(stack) = <<b>> /\ stack = <<Top, b>>
           /\ Kept(flash, Sectors, use.names, mem, NoSector)
           /\ Moves(flash, Sectors, use.cached, mem, Top, {})
           /\ Settles(stack) /\ AbsCall = CallIn(b, 2)
           /\ Drains(flash, Sectors, mem, Top, {})
  BY <1>1, RelocateCallIs
<1>3. /\ flash' = [flash EXCEPT ![p] = Blank]
      /\ stack' = IF again THEN <<BootFrame>> \o Tail(stack) ELSE Tail(stack)
  BY DEF EraseRelocated
<1>4. /\ NoSector \notin Sectors /\ mem.phys \in MapIn(Sectors)
      /\ flash \in FlashIn(Sectors) /\ FlashGood(flash, Sectors)
      /\ mem.lut \in Seq(ItemsIn(Sectors))
  BY InvParts
<1>5. s \in Sectors /\ mem.phys[s] # NoSector /\ p \in Sectors
  BY <1>2, <1>4 DEF Moves, MapIn
<1>6. OrderIn(flash, Sectors, mem) /\ Distinct(flash, Sectors)
  BY <1>2 DEF OrdInv
<1>7. \A k \in DOMAIN mem.lut : mem.lut[k].sec = Top.sec => k < Top.next
  <2> TAKE k \in DOMAIN mem.lut
  <2>1. mem.lut[k].sec = Top.sec => ~(k >= Top.next)
    BY <1>1 DEF Coming
  <2>2. k \in Nat /\ Top.next \in Nat
    BY <1>2, <1>4 DEF RelocateFrames
  <2> QED BY <2>1, <2>2
<1>8. /\ TidyIn(flash, Sectors, mem.phys, NoSector) /\ ListsIn(flash, Sectors, mem.phys, mem.lut)
      /\ Calm(flash, Sectors)
  BY <1>2 DEF Kept
<1>9. NewestIn(flash, Sectors, mem.phys, mem.lut)
  BY <1>6 DEF OrderIn
<1>10. StoredIn(RecordsIn(Erased(flash, mem.phys, Top.sec), Sectors)) = StoredIn(RecordsIn(flash, Sectors))
  BY <1>2, <1>4, <1>5, <1>6, <1>7, <1>8, <1>9, GoneStored
<1>11. StoredIn(RecordsIn(flash', Sectors)) = StoredIn(RecordsIn(flash, Sectors))
  BY <1>3, <1>10 DEF Erased
<1>12. Calm(flash', Sectors)
  <2>1. \A q \in Sectors : flash'[q] = flash[q] \/ flash'[q] = Blank
    BY <1>3, <1>4 DEF FlashIn
  <2>2. ~Blank.head[1].pending
    BY DEF Blank, NoHeader, Pages
  <2> QED BY <1>8, <2>1, <2>2 DEF Calm
<1> HIDE DEF again, p, s
<1>13. stack' = <<BootFrame, b>> \/ stack' = <<b>>
  BY <1>2, <1>3, Tuples
<1>14. BootFrame.op = "boot" /\ BootFrame.at = "pending"
  BY DEF BootFrame
<1>15. b.op \in {"write", "after"}
  BY <1>2 DEF Waiting, WriteFrames, AfterFrames
<1>16. AbsCall' = AbsCall
  <2>1. CallIn(b, 1) = CallIn(b, 2)
    BY WaitingCall
  <2>2. AbsCall' = CallIn(b, 2) \/ AbsCall' = CallIn(b, 1)
    BY <1>13, CallsAre DEF Arrives
  <2> QED BY <1>2, <2>1, <2>2
<1>17. ~WipingIn(stack') /\ ~WipingIn(stack)
  <2>1. ~WipingIn(stack)
    <3>1. Top.op = "relocate"
      BY <1>1 DEF InRelocate
    <3> QED BY <1>2, <1>15, <3>1, WipingTuples DEF Wipes
  <2>2. ~WipingIn(stack')
    BY <1>13, <1>14, <1>15, WipingTuples DEF Wipes
  <2> QED BY <2>1, <2>2
<1>18. AbsValue' = AbsValue
  <2>1. AbsValue = StoredIn(RecordsIn(flash, Sectors))
    BY <1>8, <1>17, AbsIs DEF ValueIn
  <2>2. AbsValue' = StoredIn(RecordsIn(flash', Sectors))
    BY <1>12, <1>17 DEF ValueIn, Arrives
  <2> QED BY <1>11, <2>1, <2>2
<1>19. DropIn(flash', Sectors, mem', stack')
  <2>1. CASE stack' = <<b>>
    BY <2>1, DropTuples
  <2>2. CASE stack' = <<BootFrame, b>>
    BY <1>14, <2>2, DropTuples
  <2> QED BY <1>13, <2>1, <2>2
<1>20. WipeIn(use.erases, flash', Sectors, stack', resets')
  <2>1. Head(stack').op # "erase" /\ (Head(stack').op = "boot" => Head(stack').at # "wipe")
    BY <1>13, <1>14, <1>15, Tuples
  <2> QED BY <1>12, <2>1 DEF WipeIn
<1> QED BY <1>1, <1>16, <1>18, <1>19, <1>20 DEF Held, Stays
-----------------------------------------------------------------------------
(***************************************************************************)
(* The erase of the pool, before and after a boot.                         *)
(***************************************************************************)

(* A boot leaves the call that it is for as it is.                         *)
BootValue(F, S, f) ==
  IF ~Calm(F, S) \/ f.at = "wipe" THEN Nothing ELSE StoredIn(RecordsIn(F, S))

LEMMA BootStack ==
  ASSUME IInv, ~Idle, Top.op = "boot"
  PROVE  \/ stack = <<Top>> /\ Tail(stack) = <<>>
         \/ \E b \in Waiting \cup {e \in EraseFrames(Sectors) : e.at = "done"} :
              stack = <<Top, b>> /\ Tail(stack) = <<b>>
<1>1. stack = <<Top>> \o Tail(stack)
  BY InvParts, StandsPut DEF Idle, Top
<1>2. Tail(stack) \in Booting(Sectors)
  BY BootOnTop
<1>3. CASE Tail(stack) = <<>>
  BY <1>1, <1>3, Tuples
<1>4. ASSUME NEW b \in Waiting \cup {e \in EraseFrames(Sectors) : e.at = "done"}, Tail(stack) = <<b>>
      PROVE  stack = <<Top, b>>
  BY <1>1, <1>4, Tuples
<1> QED BY <1>2, <1>3, <1>4 DEF Booting

LEMMA BootIs ==
  ASSUME NEW f, f.op = "boot", NEW b
  PROVE  /\ WipingIn(<<f>>) <=> f.at = "wipe"
         /\ b \in Waiting \cup {e \in EraseFrames(Sectors) : e.at = "done"} =>
              (WipingIn(<<f, b>>) <=> f.at = "wipe")
         /\ CallIn(f, 1) = NoCallYet
<1>1. b \in Waiting \cup {e \in EraseFrames(Sectors) : e.at = "done"} => ~Wipes(b)
  BY DEF Waiting, WriteFrames, AfterFrames, EraseFrames, Wipes
<1> QED BY <1>1, WipingTuples DEF Wipes, CallIn

LEMMA BootHolds ==
  ASSUME IInv, AbsInv, Arrives, ~Idle, Top.op = "boot", result' = result,
         NEW f, f.op = "boot", stack' = <<f>> \o Tail(stack),
         BootValue(flash', Sectors, f) = BootValue(flash, Sectors, Top),
         ~Calm(flash', Sectors) \/ f.at = "wipe" => use.erases /\ resets' > 0
  PROVE  Held /\ Stays
<1>1. AbsValue = ValueIn(flash, Sectors, stack) /\ AbsValue' = ValueIn(flash', Sectors, stack')
  BY AbsIs DEF Arrives
<1>2. AbsCall = CallOf(stack) /\ AbsCall' = CallOf(stack')
  BY AbsIs DEF Arrives
<1>3. CASE stack = <<Top>> /\ Tail(stack) = <<>>
  <2>1. stack' = <<f>>
    BY <1>3, Tuples
  <2>2. AbsValue' = AbsValue
    BY <1>1, <1>3, <2>1, BootIs DEF ValueIn, BootValue
  <2>3. AbsCall' = AbsCall
    BY <1>2, <1>3, <2>1, CallsAre, BootIs
  <2>4. DropIn(flash', Sectors, mem', stack')
    BY <2>1, DropTuples
  <2>5. WipeIn(use.erases, flash', Sectors, stack', resets')
    BY <2>1, Tuples DEF WipeIn
  <2> QED BY <2>2, <2>3, <2>4, <2>5 DEF Held, Stays
<1>4. ASSUME NEW b \in Waiting \cup {e \in EraseFrames(Sectors) : e.at = "done"},
             stack = <<Top, b>>, Tail(stack) = <<b>>
      PROVE  Held /\ Stays
  <2>1. stack' = <<f, b>>
    BY <1>4, Tuples
  <2>2. AbsValue' = AbsValue
    BY <1>1, <1>4, <2>1, BootIs DEF ValueIn, BootValue
  <2>3. AbsCall' = AbsCall
    BY <1>2, <1>4, <2>1, CallsAre
  <2>4. DropIn(flash', Sectors, mem', stack')
    BY <2>1, DropTuples
  <2>5. WipeIn(use.erases, flash', Sectors, stack', resets')
    BY <2>1, Tuples DEF WipeIn
  <2> QED BY <2>2, <2>3, <2>4, <2>5 DEF Held, Stays
<1> QED BY <1>3, <1>4, BootStack

(* ... when the flash shows the same records and is calm.                  *)
LEMMA BootKeepsValue ==
  ASSUME IInv, AbsInv, Arrives, ~Idle, Top.op = "boot", Top.at # "wipe", result' = result,
         NEW f, f.op = "boot", f.at # "wipe", stack' = <<f>> \o Tail(stack),
         Calm(flash, Sectors), Calm(flash', Sectors),
         RecordsIn(flash', Sectors) = RecordsIn(flash, Sectors)
  PROVE  Held /\ Stays
<1>1. BootValue(flash', Sectors, f) = BootValue(flash, Sectors, Top)
  BY DEF BootValue
<1> QED BY <1>1, BootHolds

LEMMA BootAt ==
  ASSUME IInv, AbsInv, ~Idle, Top.op = "boot"
  PROVE  /\ ~Calm(flash, Sectors) \/ Top.at = "wipe" => use.erases /\ resets > 0
         /\ \A x : [Top EXCEPT !.at = x].op = "boot" /\ [Top EXCEPT !.at = x].at = x
         /\ Top.at \notin {"pending", "wipe"} => Calm(flash, Sectors)
         /\ stack = <<Top>> \o Tail(stack)
<1>1. Top \in BootFrames(Sectors) /\ Boots(flash, Sectors, Top)
  BY BootOnTop
<1>2. stack = <<Top>> \o Tail(stack)
  BY InvParts, StandsPut DEF Idle, Top
<1>3. ~Calm(flash, Sectors) \/ Top.at = "wipe" => use.erases /\ resets > 0
  BY DEF AbsInv, WipeIn, Idle, Top
<1>4. \A x : [Top EXCEPT !.at = x].op = "boot" /\ [Top EXCEPT !.at = x].at = x
  BY <1>1 DEF BootFrames
<1> QED BY <1>1, <1>2, <1>3, <1>4 DEF Boots

LEMMA FindPendingHolds ==
  ASSUME IInv, AbsInv, Arrives, FindPending
  PROVE  Held /\ Stays
<1> DEFINE at == IF IsPending THEN "wipe" ELSE "corrupt"
           f == [Top EXCEPT !.at = at]
<1>1. /\ ~Idle /\ Top.op = "boot" /\ Top.at = "pending" /\ flash' = flash /\ result' = result
      /\ resets' = resets /\ stack' = <<f>> \o Tail(stack)
  BY DEF FindPending, At, Goto
<1>2. at = IF Calm(flash, Sectors) THEN "corrupt" ELSE "wipe"
  BY Bridges
<1> HIDE DEF at
<1>3. f.op = "boot" /\ f.at = at
  BY <1>1, BootAt
<1>4. ~Calm(flash, Sectors) => use.erases /\ resets > 0
  BY <1>1, BootAt
<1> HIDE DEF f
<1>5. BootValue(flash', Sectors, f) = BootValue(flash, Sectors, Top)
  BY <1>1, <1>2, <1>3 DEF BootValue
<1>6. ~Calm(flash', Sectors) \/ f.at = "wipe" => use.erases /\ resets' > 0
  BY <1>1, <1>2, <1>3, <1>4
<1> QED BY <1>1, <1>3, <1>5, <1>6, BootHolds

LEMMA BlankValue ==
  ASSUME NEW F, NEW S, \A p \in S : F[p] = Blank
  PROVE  Calm(F, S) /\ StoredIn(RecordsIn(F, S)) = Nothing
<1>1. Calm(F, S)
  BY BlankIs DEF Calm, NoHeader, Pages
<1>2. RecordsIn(F, S) = {}
  BY BlankIs DEF RecordsIn
<1>3. \A t \in Tokens : StoredIn({})[t] = Removed
  BY NoneStored
<1>4. StoredIn({}) = Nothing
  BY <1>3 DEF StoredIn, Nothing
<1> QED BY <1>1, <1>2, <1>4

LEMMA WipeHolds ==
  ASSUME IInv, AbsInv, Arrives, Wipe
  PROVE  Held /\ Stays
<1>1. ~Idle /\ Top.at = "wipe" /\ Top.op \in {"boot", "erase"} /\ result' = result /\ resets' = resets
  BY DEF Wipe, At
<1>2. AbsValue = Nothing
  <2>1. Wipes(Head(stack)) /\ stack # <<>>
    BY <1>1 DEF Wipes, Idle, Top
  <2> QED BY <2>1, InvParts, WipingOnTop, AbsIs DEF ValueIn
<1>3. Dirty = {} => flash' = flash /\ \A p \in Sectors : flash[p] = Blank
  BY DEF Dirty, Wipe
<1>4. Dirty # {} => /\ stack' = stack
                    /\ \A p \in Sectors : flash'[p] = flash[p] \/ flash'[p] = Blank
  BY InvParts DEF Wipe, FlashIn
<1>5. CASE Top.op = "boot"
  <2> DEFINE f == [Top EXCEPT !.at = "corrupt"]
  <2>1. /\ \A x : [Top EXCEPT !.at = x].op = "boot" /\ [Top EXCEPT !.at = x].at = x
        /\ use.erases /\ resets > 0 /\ stack = <<Top>> \o Tail(stack)
    BY <1>1, <1>5, BootAt
  <2>2. CASE Dirty # {}
    <3>1. stack' = <<Top>> \o Tail(stack)
      BY <1>4, <2>1, <2>2
    <3>2. BootValue(flash', Sectors, Top) = BootValue(flash, Sectors, Top)
      BY <1>1 DEF BootValue
    <3> QED BY <1>1, <1>5, <2>1, <3>1, <3>2, BootHolds
  <2>3. CASE Dirty = {}
    <3>1. stack' = <<f>> \o Tail(stack)
      BY <1>5, <2>3 DEF Wipe, Goto
    <3>2. f.op = "boot" /\ f.at = "corrupt"
      BY <2>1
    <3> HIDE DEF f
    <3>3. Calm(flash', Sectors) /\ StoredIn(RecordsIn(flash', Sectors)) = Nothing
      BY <1>3, <2>3, BlankValue
    <3>4. BootValue(flash', Sectors, f) = BootValue(flash, Sectors, Top)
      BY <1>1, <3>2, <3>3 DEF BootValue
    <3> QED BY <1>1, <1>5, <3>1, <3>2, <3>3, <3>4, BootHolds
  <2> QED BY <2>2, <2>3
<1>6. CASE Top.op = "erase"
  <2>1. Top \in EraseFrames(Sectors) /\ Tail(stack) = <<>> /\ stack = <<Top>>
    BY <1>1, <1>6, EraseOnTop
  <2>2. AbsCall = [op |-> "erase", done |-> TRUE]
    <3>1. AbsCall = CallIn(Top, 1)
      BY <2>1, AbsIs, CallsAre
    <3> QED BY <1>1, <2>1, <3>1, BottomsAre
  <2>3. use.erases /\ \A q \in Sectors : flash[q] # Blank => flash[q].head[1].pending
    BY <1>1, <1>6 DEF AbsInv, WipeIn, Idle, Top
  <2>4. CASE Dirty # {}
    <3>1. stack' = stack /\ stack' = <<Top>>
      BY <1>4, <2>1, <2>4
    <3>2. AbsValue' = Nothing
      BY <1>1, <1>6, <3>1, WipingTuples DEF Arrives, ValueIn, Wipes
    <3>3. AbsCall' = AbsCall
      BY <3>1, AbsIs DEF Arrives
    <3>4. DropIn(flash', Sectors, mem', stack')
      BY <3>1, DropTuples
    <3>5. \A q \in Sectors : flash'[q] # Blank => flash'[q].head[1].pending
      BY <1>4, <2>3, <2>4
    <3>6. WipeIn(use.erases, flash', Sectors, stack', resets')
      BY <1>1, <1>6, <2>3, <3>1, <3>5, Tuples DEF WipeIn
    <3> QED BY <1>1, <1>2, <3>2, <3>3, <3>4, <3>6 DEF Held, Stays
  <2>5. CASE Dirty = {}
    <3> DEFINE b == [Top EXCEPT !.at = "done"]
    <3>1. stack' = <<BootFrame, b>> \o Tail(stack)
      BY <1>6, <2>5 DEF Wipe, CallingAt
    <3>2. b \in EraseFrames(Sectors) /\ b.at = "done"
      BY <2>1 DEF EraseFrames
    <3> HIDE DEF b
    <3>3. stack' = <<BootFrame, b>>
      BY <2>1, <3>1, TuplesEmpty
    <3>4. BootFrame.op = "boot" /\ BootFrame.at = "pending"
      BY DEF BootFrame
    <3>5. Calm(flash', Sectors) /\ StoredIn(RecordsIn(flash', Sectors)) = Nothing
      BY <1>3, <2>5, BlankValue
    <3>6. AbsValue' = Nothing
      BY <3>2, <3>3, <3>4, <3>5, BootIs DEF Arrives, ValueIn
    <3>7. AbsCall' = AbsCall
      <4>1. AbsCall' = CallIn(b, 2)
        BY <3>3, CallsAre DEF Arrives
      <4> QED BY <2>2, <3>2, <4>1, BottomsAre
    <3>8. DropIn(flash', Sectors, mem', stack')
      BY <3>3, <3>4, DropTuples
    <3>9. WipeIn(use.erases, flash', Sectors, stack', resets')
      BY <3>3, <3>4, <3>5, Tuples DEF WipeIn
    <3> QED BY <1>1, <1>2, <3>6, <3>7, <3>8, <3>9 DEF Held, Stays
  <2> QED BY <2>4, <2>5
<1> QED BY <1>1, <1>5, <1>6
-----------------------------------------------------------------------------
(***************************************************************************)
(* Salvage of damaged sectors.                                             *)
(***************************************************************************)

LEMMA SalvageHolds ==
  ASSUME IInv, AbsInv, Arrives, Salvage
  PROVE  Held /\ Stays
<1> DEFINE m == WithMap(mem)
           s == FreeLogical(m)
           p == FreePhysical(m.last)
           b == Min(Corrupt)
           f == [Top EXCEPT !.at = "header", !.from = b, !.to = p]
<1>1. ~Idle /\ Top.op = "boot" /\ Top.at = "corrupt" /\ result' = result
  BY DEF Salvage, At
<1>2. /\ use \in Uses /\ NoSector \notin Sectors /\ flash \in FlashIn(Sectors)
      /\ FlashGood(flash, Sectors) /\ mem \in TablesIn(Sectors)
  BY InvParts
<1>3. Calm(flash, Sectors) /\ stack = <<Top>> \o Tail(stack) /\ Top \in BootFrames(Sectors)
  BY <1>1, BootAt, BootOnTop
<1>4. CASE ~CanCreate(m)
  <2>1. flash' = flash /\ stack' = stack
    BY <1>4 DEF Salvage
  <2>2. stack' = <<Top>> \o Tail(stack)
    BY <1>3, <2>1
  <2>3. Calm(flash', Sectors) /\ RecordsIn(flash', Sectors) = RecordsIn(flash, Sectors)
    BY <1>3, <2>1
  <2>4. Top.at # "wipe"
    BY <1>1
  <2> QED BY <1>1, <1>3, <2>2, <2>3, <2>4, BootKeepsValue
<1>5. CASE CanCreate(m)
  <2>1. flash' = WriteHeader(p, 1, s) /\ stack' = <<f>> \o Tail(stack)
    BY <1>5 DEF Salvage
  <2>2. m \in TablesIn(Sectors)
    BY <1>2, WithMapIs
  <2> HIDE DEF m
  <2>3. m.last \in Sectors
    BY <2>2, TablesParts
  <2>4. (\E q \in Sectors : IsFree(q)) /\ InUse(m) # Sectors
    BY <1>5 DEF CanCreate
  <2>5. s \in Sectors
    BY <1>2, <2>4, FreeLogicalIs
  <2>6. p \in Sectors /\ IsFree(p)
    BY <1>2, <2>3, <2>4, FreePhysicalIs
  <2> HIDE DEF s, p, b
  <2>7. f.op = "boot" /\ f.at = "header"
    BY <1>3 DEF BootFrames
  <2> HIDE DEF f
  <2>8. flash[p] = Blank
    <3>1. ~IsValid(flash[p])
      BY <2>6 DEF IsFree, HasValidHeader, IsValid
    <3> QED BY <1>2, <1>3, <2>6, <3>1, FreeIsBlank
  <2>9. flash' = [flash EXCEPT ![p] = Opened(s)]
    BY <1>2, <2>1, <2>6, <2>8, HeaderOpens
  <2>10. flash'[p] = Opened(s) /\ \A q \in Sectors \ {p} : flash'[q] = flash[q]
    BY <1>2, <2>6, <2>9 DEF FlashIn
  <2>11. Opened(s).head[1] = HeadOf(s) /\ ~HeadOf(s).pending /\ Shown(Opened(s)) = {}
    BY <1>2, <2>5, OpenedIs
  <2>12. Calm(flash', Sectors)
    BY <1>3, <2>10, <2>11 DEF Calm
  <2>13. \A q \in Sectors : Shown(flash'[q]) = Shown(flash[q])
    BY <2>8, <2>10, <2>11, BlankIs
  <2>14. RecordsIn(flash', Sectors) = RecordsIn(flash, Sectors)
    BY <2>13, SameShown
  <2> QED BY <1>1, <1>3, <2>1, <2>7, <2>12, <2>14, BootKeepsValue
<1> QED BY <1>4, <1>5

LEMMA SalvageSecondHolds ==
  ASSUME IInv, AbsInv, Arrives, SalvageSecond
  PROVE  Held /\ Stays
<1> DEFINE p == Top.to
           h == HeadOf(flash[p].head[1].id)
           f == [Top EXCEPT !.at = "copy"]
<1>1. /\ ~Idle /\ Top.op = "boot" /\ Top.at = "header" /\ result' = result
      /\ flash' = [flash EXCEPT ![p].head[2] = h] /\ stack' = <<f>> \o Tail(stack)
  BY DEF SalvageSecond, WriteHeader, HeadOf, Goto, At
<1>2. flash \in FlashIn(Sectors) /\ Calm(flash, Sectors)
  BY <1>1, InvParts, BootAt
<1>3. f.op = "boot" /\ f.at = "copy"
  BY <1>1, BootAt
<1> HIDE DEF f, h, p
<1>4. \A q \in Sectors : flash'[q].page = flash[q].page /\ flash'[q].head[1] = flash[q].head[1]
  BY <1>1, <1>2 DEF FlashIn, SectorsIn, Pages
<1>5. Calm(flash', Sectors)
  BY <1>2, <1>4 DEF Calm
<1>6. \A q \in Sectors : Shown(flash'[q]) = Shown(flash[q])
  BY <1>4, HeadedShown DEF IsValid
<1>7. RecordsIn(flash', Sectors) = RecordsIn(flash, Sectors)
  BY <1>6, SameShown
<1> QED BY <1>1, <1>2, <1>3, <1>5, <1>7, BootKeepsValue

LEMMA CopiedAt ==
  ASSUME IInv, ~Idle, Top.op = "boot", Top.at = "copy", Missing # {}, NEW ok \in BOOLEAN,
         Copied(ok)
  PROVE  /\ \A q \in Sectors : flash'[q].head = flash[q].head
         /\ RecordsIn(flash', Sectors) = RecordsIn(flash, Sectors)
<1> DEFINE g == Min(Missing)
           from == Top.from
           to == Top.to
           r == Copy(flash, from, to, g, ok)
           a == flash[to].page[g]
           b == GoodRecords(flash[from].page[g])
<1>1. Top \in BootFrames(Sectors) /\ Boots(flash, Sectors, Top)
  BY BootOnTop
<1>2. /\ NoSector \notin Sectors /\ RoomIn(flash, Sectors) /\ flash \in FlashIn(Sectors)
  BY InvParts
<1>3. /\ to \in Sectors /\ from \in Sectors /\ from # to
      /\ IsValid(flash[from]) /\ IsSound(flash[to])
      /\ \A h \in Pages : Begun(flash, from, to, h)
  BY <1>1 DEF Boots, Begun
<1>4. g \in Pages /\ Len(flash[to].page[g]) < Len(GoodRecords(flash[from].page[g]))
  <2>1. Missing \subseteq Nat
    BY DEF Missing, Pages
  <2>2. g \in Missing
    BY <2>1, MinIs
  <2> QED BY <2>2 DEF Missing
<1>5. flash' = [flash EXCEPT ![to] = With(flash[to], g, r)]
  BY <1>2, <1>3 DEF Copied, Copy, With, FlashIn
<1> HIDE DEF g, from, to
<1>6. /\ r \in Record /\ r.ok = ok /\ Len(a) + 1 \in DOMAIN b /\ (ok => r = b[Len(a) + 1])
  BY <1>2, <1>3, <1>4, CopyIs
<1> HIDE DEF r
<1>7. flash[to] \in SectorsIn(Sectors) /\ AllOk(flash[to].page[g])
  <2>1. AllOk(flash[to].page[g])
    BY <1>3, <1>4, BrokenIs DEF IsSound
  <2>2. flash[to] \in SectorsIn(Sectors)
    BY <1>2, <1>3 DEF FlashIn
  <2> QED BY <2>1, <2>2
<1>8. ok => r \in RecordsIn(flash, Sectors)
  <2> SUFFICES ASSUME ok PROVE r \in RecordsIn(flash, Sectors)
    OBVIOUS
  <2>1. r \in Range(b)
    BY <1>6 DEF Range
  <2>2. r \in Shown(flash[from])
    BY <1>3, <1>4, <2>1 DEF Shown
  <2> QED BY <1>3, <2>2 DEF RecordsIn
<1>9. RecordsIn([flash EXCEPT ![to] = With(flash[to], g, r)], Sectors)
        = IF r.ok /\ IsValid(flash[to]) THEN RecordsIn(flash, Sectors) \cup {r}
          ELSE RecordsIn(flash, Sectors)
  <2>1. flash \in FlashIn(Sectors) /\ to \in Sectors /\ g \in Pages /\ r \in Record
        /\ AllOk(flash[to].page[g])
    BY <1>2, <1>3, <1>4, <1>6, <1>7
  <2> QED BY <2>1, OneMore
<1>10. RecordsIn(flash', Sectors) = RecordsIn(flash, Sectors)
  BY <1>5, <1>6, <1>8, <1>9
<1>11. With(flash[to], g, r).head = flash[to].head
  BY <1>4, <1>6, <1>7, WithIs
<1>12. \A q \in Sectors : flash'[q].head = flash[q].head
  BY <1>2, <1>5, <1>11 DEF FlashIn
<1> QED BY <1>10, <1>12

LEMMA SalvageRecordHolds ==
  ASSUME IInv, AbsInv, Arrives, SalvageRecord
  PROVE  Held /\ Stays
<1>1. /\ ~Idle /\ Top.op = "boot" /\ Top.at = "copy" /\ Missing # {} /\ Copied(TRUE)
      /\ stack' = stack /\ result' = result
  BY DEF SalvageRecord, At
<1>2. Calm(flash, Sectors) /\ stack = <<Top>> \o Tail(stack)
  BY <1>1, BootAt
<1>3. /\ \A q \in Sectors : flash'[q].head = flash[q].head
      /\ RecordsIn(flash', Sectors) = RecordsIn(flash, Sectors)
  BY <1>1, CopiedAt
<1>4. Calm(flash', Sectors)
  BY <1>2, <1>3 DEF Calm
<1>5. stack' = <<Top>> \o Tail(stack) /\ Top.at # "wipe"
  BY <1>1, <1>2
<1> QED BY <1>1, <1>2, <1>3, <1>4, <1>5, BootKeepsValue

LEMMA EraseSalvagedHolds ==
  ASSUME IInv, AbsInv, Arrives, EraseSalvaged
  PROVE  Held /\ Stays
<1> DEFINE from == Top.from
           to == Top.to
           f == [Top EXCEPT !.at = "corrupt"]
<1>1. /\ ~Idle /\ Top.op = "boot" /\ Top.at = "copy" /\ Missing = {} /\ result' = result
      /\ flash' = [flash EXCEPT ![from] = Blank] /\ stack' = <<f>> \o Tail(stack)
  BY DEF EraseSalvaged, Goto, At
<1>2. Top \in BootFrames(Sectors) /\ Boots(flash, Sectors, Top)
  BY <1>1, BootOnTop
<1>3. /\ NoSector \notin Sectors /\ flash \in FlashIn(Sectors)
  BY InvParts
<1>4. /\ to \in Sectors /\ from \in Sectors /\ from # to
      /\ IsValid(flash[from]) /\ IsSound(flash[to])
      /\ \A h \in Pages : Begun(flash, from, to, h)
  BY <1>1, <1>2 DEF Boots, Begun
<1>5. f.op = "boot" /\ f.at = "corrupt" /\ Calm(flash, Sectors)
  BY <1>1, BootAt
<1>6. \A h \in Pages : ~(Len(flash[to].page[h]) < Len(GoodRecords(flash[from].page[h])))
  BY <1>1 DEF Missing
<1> HIDE DEF f, from, to
<1>7. \A h \in Pages : GoodRecords(flash[to].page[h]) = GoodRecords(flash[from].page[h])
  <2> TAKE h \in Pages
  <2> DEFINE a == flash[to].page[h]
             b == GoodRecords(flash[from].page[h])
  <2>1. a \in Seq(Record) /\ flash[from].page[h] \in Seq(Record)
    BY <1>3, <1>4, ValidIs
  <2>2. b \in Seq(Record)
    BY <2>1, GoodIs
  <2>3. Len(a) <= Len(b) /\ \A i \in 1 .. Len(a) : a[i] = b[i]
    BY <1>4 DEF Begun
  <2>4. ~(Len(a) < Len(b))
    BY <1>6
  <2>5. AllOk(a)
    BY <1>4, BrokenIs DEF IsSound
  <2>6. GoodRecords(a) = a
    BY <2>1, <2>5, GoodIs
  <2> HIDE DEF a, b
  <2>7. a = b
    BY <2>1, <2>2, <2>3, <2>4
  <2> QED BY <2>6, <2>7 DEF a, b
<1>8. \A r : r \in Shown(flash[from]) => r \in Shown(flash[to])
  BY <1>4, <1>7 DEF Shown, IsSound
<1>9. \A r : r \in RecordsIn([flash EXCEPT ![from] = Blank], Sectors)
               <=> r \in Shown(Blank) \/ \E q \in Sectors \ {from} : r \in Shown(flash[q])
  BY <1>3, <1>4, RecordsPut
<1>10. RecordsIn(flash', Sectors) = RecordsIn(flash, Sectors)
  <2>1. ASSUME NEW r, r \in RecordsIn(flash, Sectors)
        PROVE  \E q \in Sectors \ {from} : r \in Shown(flash[q])
    BY <1>4, <1>8, <2>1 DEF RecordsIn
  <2>2. ASSUME NEW q \in Sectors \ {from}, NEW r \in Shown(flash[q])
        PROVE  r \in RecordsIn(flash, Sectors)
    BY <2>2 DEF RecordsIn
  <2>3. Shown(Blank) = {}
    BY BlankIs
  <2>4. \A r : r \in RecordsIn(flash', Sectors) <=> r \in RecordsIn(flash, Sectors)
    BY <1>1, <1>9, <2>1, <2>2, <2>3
  <2> QED BY <2>4
<1>11. Calm(flash', Sectors)
  BY <1>1, <1>3, <1>5, BlankIs DEF Calm, NoHeader, Pages, FlashIn
<1> QED BY <1>1, <1>5, <1>10, <1>11, BootKeepsValue
-----------------------------------------------------------------------------
(***************************************************************************)
(* The tables loaded, and the erase of the pool announced.                 *)
(***************************************************************************)

LEMMA LoadTablesHolds ==
  ASSUME IInv, AbsInv, Arrives, LoadTables
  PROVE  Held /\ Stays
<1>1. ~Idle /\ Top.op = "boot" /\ Top.at = "corrupt" /\ Calm(flash, Sectors)
  BY LoadTablesIs DEF LoadTables, At
<1>2. flash' = flash /\ stack' = Tail(stack) /\ result' = result
  BY DEF LoadTables, Return
<1>3. AbsValue = ValueIn(flash, Sectors, stack) /\ AbsValue' = ValueIn(flash', Sectors, stack')
  BY AbsIs DEF Arrives
<1>4. AbsCall = CallOf(stack) /\ AbsCall' = CallOf(stack')
  BY AbsIs DEF Arrives
<1>5. CASE stack = <<Top>> /\ Tail(stack) = <<>>
  <2>1. stack' = <<>>
    BY <1>2, <1>5
  <2>2. ~WipingIn(stack) /\ ~WipingIn(stack')
    BY <1>1, <1>5, <2>1, WipingTuples, BootIs
  <2>3. AbsValue' = AbsValue
    BY <1>2, <1>3, <2>2 DEF ValueIn
  <2>4. AbsCall' = AbsCall
    BY <1>1, <1>4, <1>5, <2>1, CallsAre, BootIs
  <2>5. WipeIn(use.erases, flash', Sectors, stack', resets')
    BY <2>1 DEF WipeIn
  <2> QED BY <1>2, <2>1, <2>3, <2>4, <2>5, DropTuples DEF Held, Stays
<1>6. ASSUME NEW b \in Waiting \cup {e \in EraseFrames(Sectors) : e.at = "done"},
             stack = <<Top, b>>, Tail(stack) = <<b>>
      PROVE  Held /\ Stays
  <2>1. stack' = <<b>>
    BY <1>2, <1>6
  <2>2. b.op \in {"write", "after"} \/ (b.op = "erase" /\ b.at = "done")
    BY DEF Waiting, WriteFrames, AfterFrames, EraseFrames
  <2>3. ~WipingIn(stack) /\ ~WipingIn(stack')
    <3>1. ~WipingIn(stack)
      BY <1>1, <1>6, BootIs
    <3>2. ~WipingIn(stack')
      BY <2>1, <2>2, WipingTuples DEF Wipes
    <3> QED BY <3>1, <3>2
  <2>4. AbsValue' = AbsValue
    BY <1>2, <1>3, <2>3 DEF ValueIn
  <2>5. AbsCall' = AbsCall
    <3>1. CallIn(b, 1) = CallIn(b, 2)
      BY BottomsAre
    <3> QED BY <1>4, <1>6, <2>1, <3>1, CallsAre
  <2>6. WipeIn(use.erases, flash', Sectors, stack', resets')
    BY <2>1, <2>2, Tuples DEF WipeIn
  <2> QED BY <1>2, <2>1, <2>4, <2>5, <2>6, DropTuples DEF Held, Stays
<1> QED BY <1>1, <1>5, <1>6, BootStack

(* The first mark makes all tokens read as removed.                        *)
LEMMA FlagHolds ==
  ASSUME IInv, AbsInv, Arrives, FlagSector
  PROVE  Held /\ (Takes \/ Stays)
<1> DEFINE p == Top.p
           q == (Top.p + 1) % NumSectors
           at == IF Top.p = NumSectors - 1 THEN "wipe" ELSE "flag"
           f == [Top EXCEPT !.p = q, !.at = at]
           h == [flash[p].head[1] EXCEPT !.pending = TRUE]
           yes == TRUE
           first == Top.p = 0
<1>1. ~Idle /\ Top.op = "erase" /\ Top.at = "flag" /\ result' = result /\ resets' = resets
  BY DEF FlagSector, At
<1>2. Top \in EraseFrames(Sectors) /\ p \in Sectors /\ stack = <<Top>>
  BY <1>1, EraseOnTop DEF EraseFrames
<1>3. flash' = [flash EXCEPT ![p].head[1].pending = TRUE] /\ stack' = <<f>>
  <2>1. [Top EXCEPT !.p = (@ + 1) % NumSectors, !.at = at] = f
    BY <1>2 DEF EraseFrames
  <2> QED BY <2>1 DEF FlagSector
<1>4. NumSectors \in Nat \ {0} /\ Sectors = 0 .. NumSectors - 1
  BY InvParts, NumbersOfSectors
<1>5. /\ at \in {"wipe", "flag"} /\ q \in Sectors
      /\ at = "flag" => q = p + 1
      /\ at = "wipe" => p = NumSectors - 1
      /\ q # 0 \/ at # "flag"
  BY <1>2, <1>4
<1>6. \A x \in Sectors : x < p + 1 => x < p \/ x = p
  BY <1>2, <1>4
<1>7. p = NumSectors - 1 => \A x \in Sectors : x < p + 1
  BY <1>2, <1>4
<1>8. p # 0 => 0 \in Sectors /\ 0 < p
  BY <1>2, <1>4
<1>9. use.erases /\ \A x \in Sectors : x < p => flash[x].head[1].pending
  BY <1>1 DEF AbsInv, WipeIn, Idle, Top
<1>10. flash \in FlashIn(Sectors)
  BY InvParts
<1> HIDE DEF q, at, p
<1>11. f \in EraseFrames(Sectors) /\ f.op = "erase" /\ f.at = at /\ f.p = q
  BY <1>2, <1>5 DEF EraseFrames
<1> HIDE DEF f
<1>12. /\ flash'[p].head[1] = h
       /\ \A x \in Sectors : x # p => flash'[x] = flash[x]
  BY <1>2, <1>3, <1>10 DEF FlashIn, SectorsIn, Pages
<1>13. h.pending
  BY <1>2, <1>10 DEF FlashIn, SectorsIn, HeadersIn, Pages
<1> HIDE DEF h
<1>14. \A x \in Sectors : x < p + 1 => flash'[x].head[1].pending
  BY <1>6, <1>9, <1>12, <1>13
<1>15. ~Calm(flash', Sectors)
  BY <1>2, <1>12, <1>13 DEF Calm
<1>16. AbsValue' = Nothing
  BY <1>15 DEF Arrives, ValueIn
<1>17. AbsCall = [op |-> "erase", done |-> ~first]
  <2>1. AbsCall = CallIn(Top, 1)
    BY <1>2, AbsIs, CallsAre
  <2>2. CallIn(Top, 1) = [op |-> "erase", done |-> Top.p # 0 \/ Top.at # "flag"]
    BY <1>2, BottomsAre
  <2>3. (Top.p # 0 \/ Top.at # "flag") = ~first
    BY <1>1
  <2> QED BY <2>1, <2>2, <2>3
<1>18. AbsCall' = [op |-> "erase", done |-> yes]
  <2>1. AbsCall' = CallIn(f, 1)
    BY <1>3, CallsAre DEF Arrives
  <2>2. CallIn(f, 1) = [op |-> "erase", done |-> f.p # 0 \/ f.at # "flag"]
    BY <1>11, BottomsAre
  <2>3. (f.p # 0 \/ f.at # "flag") = yes
    BY <1>5, <1>11
  <2> QED BY <2>1, <2>2, <2>3
<1>19. DropIn(flash', Sectors, mem', stack')
  BY <1>3, DropTuples
<1>20. WipeIn(use.erases, flash', Sectors, stack', resets')
  <2>1. f.at = "flag" => \A x \in Sectors : x < f.p => flash'[x].head[1].pending
    BY <1>5, <1>11, <1>14
  <2>2. f.at = "wipe" => \A x \in Sectors : flash'[x] # Blank => flash'[x].head[1].pending
    BY <1>5, <1>7, <1>11, <1>14
  <2>3. Head(stack') = f
    BY <1>3, Tuples
  <2> QED BY <1>9, <1>11, <2>1, <2>2, <2>3 DEF WipeIn
<1>21. CASE first
  <2> DEFINE no == FALSE
  <2>1. AbsCall = [op |-> "erase", done |-> no]
    <3>1. (~first) = no
      BY <1>21
    <3> QED BY <1>17, <3>1
  <2>2. ~no /\ yes
    OBVIOUS
  <2> HIDE DEF no, yes, first
  <2>3. AbsCall.op = "erase" /\ ~AbsCall.done
    BY <2>1, <2>2
  <2>4. AbsCall # NoCallYet
    BY <2>3 DEF NoCallYet
  <2>5. AbsCall' = [AbsCall EXCEPT !.done = TRUE]
    <3>1. AbsCall' = [AbsCall EXCEPT !.done = yes]
      BY <1>18, <2>1
    <3> QED BY <3>1 DEF yes
  <2> QED BY <1>1, <1>16, <1>19, <1>20, <2>3, <2>4, <2>5 DEF Held, Takes
<1>22. CASE ~first
  <2>1. (~first) = yes
    BY <1>22
  <2>2. AbsCall' = AbsCall
    BY <1>17, <1>18, <2>1
  <2>3. ~Calm(flash, Sectors)
    BY <1>8, <1>9, <1>22 DEF Calm, p
  <2>4. AbsValue = Nothing
    BY <2>3, AbsIs DEF ValueIn
  <2> QED BY <1>1, <1>16, <1>19, <1>20, <2>2, <2>4 DEF Held, Stays
<1> QED BY <1>21, <1>22
-----------------------------------------------------------------------------
(***************************************************************************)
(* Resets.                                                                 *)
(***************************************************************************)

(* What is promised is promised of a table that is made for every use, or  *)
(* of tokens that are never removed (NvmStale), and for one reset at most  *)
(* where the pool is erased: a second one would leave it half erased.      *)
Sure == ~(use.cached /\ use.removes) /\ (use.erases => use.resets <= 1)

LEMMA SettledCalm ==
  ASSUME IInv, Settles(stack)
  PROVE  Calm(flash, Sectors)
<1>1. Stands(flash, Sectors, use.names, use.cached, mem, stack)
  BY InvParts
<1>2. CASE stack = <<>>
  BY <1>1, <1>2, StandsShapes DEF Kept
<1>3. CASE stack # <<>> /\ Head(stack).op = "add"
  <2>1. Adding(flash, Sectors, use.names, use.cached, mem, Head(stack), Tail(stack))
    BY <1>1, <1>3, StandsShapes
  <2> QED BY <2>1 DEF Kept, Adding
<1>4. CASE stack # <<>> /\ Head(stack).op # "add"
  BY <1>1, <1>4, StandsShapes DEF Kept, Settles
<1> QED BY <1>2, <1>3, <1>4

(* A mark is found in an erase of the pool, or in a boot after one.        *)
LEMMA MarkedIn ==
  ASSUME IInv, AbsInv, ~Calm(flash, Sectors)
  PROVE  use.erases
<1>1. ~Settles(stack)
  BY SettledCalm
<1>2. stack # <<>> /\ ~Idle
  BY <1>1 DEF Settles, Idle
<1>3. Head(stack) \in FramesIn(Sectors)
  BY <1>2, TopTyped
<1>4. Head(stack).op \in {"boot", "erase"} /\ (Head(stack).op = "erase" => Head(stack).at # "done")
  BY <1>1, <1>3, FrameOps DEF FramesIn, Settles
<1> QED BY <1>2, <1>4 DEF AbsInv, WipeIn

LEMMA CutHolds ==
  ASSUME IInv, AbsInv, Sure, Arrives, PowerUp,
         \A q \in Sectors : flash'[q].head = flash[q].head,
         RecordsIn(flash', Sectors) = RecordsIn(flash, Sectors)
  PROVE  Held /\ Cuts
<1>1. stack' = <<BootFrame>> /\ result' = "none" /\ resets' = resets + 1 /\ resets < use.resets
  BY DEF PowerUp
<1>2. BootFrame.op = "boot" /\ BootFrame.at = "pending"
  BY DEF BootFrame
<1>3. Calm(flash', Sectors) <=> Calm(flash, Sectors)
  BY DEF Calm
<1>4. resets \in Nat /\ use.resets \in Nat
  BY InvParts
<1>5. AbsCall' = NoCallYet
  BY <1>1, <1>2, CallsAre, BootIs DEF Arrives
<1>6. AbsValue' = ValueIn(flash', Sectors, stack') /\ AbsValue = ValueIn(flash, Sectors, stack)
  BY AbsIs DEF Arrives
<1>7. ~WipingIn(stack')
  BY <1>1, <1>2, BootIs
<1>8. AbsValue' = AbsValue
  <2>1. CASE ~Calm(flash, Sectors)
    BY <1>3, <1>6, <2>1 DEF ValueIn
  <2>2. CASE Calm(flash, Sectors) /\ ~WipingIn(stack)
    BY <1>3, <1>6, <1>7, <2>2 DEF ValueIn
  <2>3. CASE Calm(flash, Sectors) /\ WipingIn(stack)
    <3>1. stack # <<>> /\ Wipes(Head(stack))
      BY <2>3, InvParts, WipingOnTop
    <3>2. Head(stack).op # "boot"
      <4>1. Head(stack).op = "boot" => use.erases /\ resets > 0
        BY <3>1 DEF AbsInv, WipeIn, Wipes
      <4>2. use.erases => use.resets <= 1
        BY DEF Sure
      <4> QED BY <1>1, <1>4, <4>1, <4>2
    <3>3. \A q \in Sectors : flash[q] # Blank => flash[q].head[1].pending
      BY <3>1, <3>2 DEF AbsInv, WipeIn, Wipes
    <3>4. \A q \in Sectors : flash[q] = Blank
      BY <2>3, <3>3 DEF Calm
    <3>5. StoredIn(RecordsIn(flash, Sectors)) = Nothing
      BY <3>4, BlankValue
    <3> QED BY <1>3, <1>6, <1>7, <2>3, <3>5 DEF ValueIn
  <2> QED BY <2>1, <2>2, <2>3
<1>9. DropIn(flash', Sectors, mem', stack')
  BY <1>1, DropTuples
<1>10. WipeIn(use.erases, flash', Sectors, stack', resets')
  <2>1. ~Calm(flash', Sectors) => use.erases
    BY <1>3, MarkedIn
  <2>2. resets' > 0
    BY <1>1, <1>4
  <2> QED BY <1>1, <1>2, <2>1, <2>2, Tuples DEF WipeIn
<1> QED BY <1>1, <1>5, <1>8, <1>9, <1>10 DEF Held, Cuts

LEMMA ResetHolds ==
  ASSUME IInv, AbsInv, Sure, Arrives, ResetBetween \/ ResetInStore \/ ResetInCopy
  PROVE  Held /\ Cuts
<1>1. PowerUp
  BY DEF ResetBetween, ResetInStore, ResetInCopy
<1>2. CASE ResetBetween
  <2>1. flash' = flash
    BY <1>2 DEF ResetBetween
  <2> QED BY <1>1, <2>1, CutHolds
<1>3. CASE ResetInCopy
  <2>1. ~Idle /\ Top.op = "boot" /\ Top.at = "copy" /\ Missing # {} /\ Copied(FALSE)
    BY <1>3 DEF ResetInCopy, At
  <2>2. /\ \A q \in Sectors : flash'[q].head = flash[q].head
        /\ RecordsIn(flash', Sectors) = RecordsIn(flash, Sectors)
    BY <2>1, CopiedAt
  <2> QED BY <1>1, <2>2, CutHolds
<1>4. CASE ResetInStore
  <2> DEFINE p == mem.phys[Place]
             w == Written(FALSE)
  <2>1. CanStore /\ Appended(FALSE)
    BY <1>4 DEF ResetInStore
  <2>2. /\ p \in Sectors /\ PlacePage \in Pages /\ w \in Record
        /\ flash' = [flash EXCEPT ![p] = With(flash[p], PlacePage, w)]
        /\ RecordsIn(flash', Sectors) = RecordsIn(flash, Sectors)
    BY <2>1, AppendedAt
  <2>3. flash \in FlashIn(Sectors) /\ flash[p] \in SectorsIn(Sectors)
    BY <2>2, InvParts DEF FlashIn
  <2> HIDE DEF p, w
  <2>4. With(flash[p], PlacePage, w).head = flash[p].head
    BY <2>2, <2>3, WithIs
  <2>5. \A q \in Sectors : flash'[q].head = flash[q].head
    BY <2>2, <2>3, <2>4 DEF FlashIn
  <2> QED BY <1>1, <2>2, <2>5, CutHolds
<1> QED BY <1>2, <1>3, <1>4
-----------------------------------------------------------------------------
(***************************************************************************)
(* Two records of the pool, and the first states.                          *)
(***************************************************************************)

(* Of records that can be compared, one of two is the newer.               *)
LEMMA OneIsNotOlder ==
  ASSUME NEW R \in SUBSET Record, Comparable({r.seq : r \in R}), NEW a \in R, NEW b \in R
  PROVE  NotOlder(a.seq, a.seq) /\ (NotOlder(a.seq, b.seq) \/ NotOlder(b.seq, a.seq))
<1> DEFINE ns == {r.seq : r \in R}
           S == {<<n, 0>> : n \in ns}
<1>1. ns \subseteq Numbers /\ a.seq \in ns /\ b.seq \in ns
  BY DEF Record, Numbers
<1> HIDE DEF ns
<1>2. S \in SUBSET (Numbers \X Nat) /\ NumbersOf(S) = ns /\ S # {}
  <2>1. \A n \in ns : <<n, 0>> \in Numbers \X Nat /\ <<n, 0>>[1] = n
    BY <1>1
  <2>2. \A x \in S : \E n \in ns : x = <<n, 0>>
    OBVIOUS
  <2>3. \A n \in ns : <<n, 0>> \in S
    OBVIOUS
  <2> HIDE DEF S
  <2>4. S \in SUBSET (Numbers \X Nat) /\ S # {}
    BY <1>1, <2>1, <2>2, <2>3
  <2>5. \A n : n \in NumbersOf(S) <=> n \in ns
    BY <2>1, <2>2, <2>3 DEF NumbersOf
  <2> QED BY <2>4, <2>5
<1>3. SeqMax \in Nat
  BY SeqAssumption
<1>4. Comparable(NumbersOf(S)) /\ a.seq \in NumbersOf(S) /\ b.seq \in NumbersOf(S)
  BY <1>1, <1>2 DEF ns
<1> HIDE DEF S
<1>5. /\ Unmask(ExtremesOf(S), a.seq) >= Unmask(ExtremesOf(S), b.seq) <=> NotOlder(a.seq, b.seq)
      /\ Unmask(ExtremesOf(S), b.seq) >= Unmask(ExtremesOf(S), a.seq) <=> NotOlder(b.seq, a.seq)
      /\ Unmask(ExtremesOf(S), a.seq) >= Unmask(ExtremesOf(S), a.seq) <=> NotOlder(a.seq, a.seq)
  BY <1>2, <1>4, ComparedRightly
<1>6. /\ Unmask(ExtremesOf(S), a.seq) \in Int /\ Unmask(ExtremesOf(S), b.seq) \in Int
  <2>1. a.seq \in Int /\ b.seq \in Int
    <3>1. \A n \in Numbers : n \in Int
      BY <1>3 DEF Numbers
    <3> QED BY <1>1, <3>1
  <2> QED BY <1>3, <2>1 DEF Unmask
<1> QED BY <1>5, <1>6

LEMMA NewestOfTwo ==
  ASSUME NEW U \in SUBSET Record, Comparable({r.seq : r \in U}),
         NEW a, NEW b, U \subseteq {a, b}, NEW Q \in SUBSET U, Q # {}
  PROVE  \E c \in Q : \A o \in Q : NotOlder(c.seq, o.seq)
<1>1. \A x, y \in U : NotOlder(x.seq, x.seq) /\ (NotOlder(x.seq, y.seq) \/ NotOlder(y.seq, x.seq))
  BY OneIsNotOlder
<1>2. CASE a \in Q /\ b \in Q
  BY <1>1, <1>2
<1>3. CASE a \notin Q
  BY <1>1, <1>3
<1>4. CASE b \notin Q
  BY <1>1, <1>4
<1> QED BY <1>2, <1>3, <1>4

(* What a pool with two records at most reads as is a value.               *)
LEMMA TwoRead ==
  ASSUME NEW U \in SUBSET Record, Comparable({r.seq : r \in U}),
         \A r, o \in U : r.seq = o.seq => r = o, NEW a, NEW b, U \subseteq {a, b}
  PROVE  StoredIn(U) \in [Tokens -> Payloads]
<1>1. ASSUME NEW t \in Tokens PROVE StoredIn(U)[t] \in Payloads
  <2> DEFINE Q == {r \in U : r.tok = t}
  <2>1. CASE Q = {}
    <3>1. StoredIn(U)[t] = Removed
      BY <2>1, NoneStored
    <3> QED BY <3>1 DEF Payloads
  <2>2. CASE Q # {}
    <3>1. Q \in SUBSET U
      OBVIOUS
    <3> HIDE DEF Q
    <3>2. PICK c \in Q : \A o \in Q : NotOlder(c.seq, o.seq)
      BY <2>2, <3>1, NewestOfTwo
    <3>3. c \in U /\ c.tok = t /\ \A o \in U : o.tok = c.tok => NotOlder(c.seq, o.seq)
      BY <3>2 DEF Q
    <3>4. StoredIn(U)[c.tok] = c.val
      BY <3>3, NewestStored
    <3> QED BY <3>3, <3>4 DEF Record, Payloads
  <2> QED BY <2>1, <2>2
<1> QED BY <1>1 DEF StoredIn

LEMMA AbsFirst ==
  ASSUME Init, CInv
  PROVE  AbsInv /\ Abs!Init
<1>1. IInv /\ OrdInv
  BY InitKeeps, OrdInit
<1>2. stack = <<BootFrame>> /\ result = "none" /\ use \in Uses
  BY DEF Init
<1>3. BootFrame.op = "boot" /\ BootFrame.at = "pending"
  BY DEF BootFrame
<1>4. Calm(flash, Sectors) /\ \E a, b : RecordsIn(flash, Sectors) \subseteq {a, b}
  <2>1. CASE flash = [p \in Sectors |-> Blank]
    <3>1. Calm(flash, Sectors)
      BY <2>1, BlankValue
    <3>2. RecordsIn(flash, Sectors) = {}
      BY <2>1, BlankIs DEF RecordsIn
    <3> QED BY <3>1, <3>2
  <2>2. ASSUME use.start # <<>>, NEW t \in [Pages -> Tokens], NEW v \in [Pages -> Values],
               flash = [p \in Sectors |-> IF p # 0 THEN Blank ELSE Left(t, v)]
        PROVE  Calm(flash, Sectors) /\ \E a, b : RecordsIn(flash, Sectors) \subseteq {a, b}
    <3> DEFINE r(g) == [tok |-> t[g], val |-> v[g], seq |-> use.start[g], ok |-> TRUE]
               x == Left(t, v)
    <3>1. \A g \in Pages : x.page[g] = <<r(g)>>
      BY DEF Left
    <3>2. \A g \in Pages : Range(GoodRecords(x.page[g])) \subseteq {r(g)}
      <4> TAKE g \in Pages
      <4>1. \A i \in DOMAIN <<r(g)>> : <<r(g)>>[i].ok
        OBVIOUS
      <4>2. GoodRecords(<<r(g)>>) = <<r(g)>>
        BY <4>1 DEF GoodRecords
      <4> HIDE DEF r, x
      <4>3. Range(<<r(g)>>) = {r(g)}
        BY DEF Range
      <4> QED BY <3>1, <4>2, <4>3
    <3>3. ~x.head[1].pending
      BY DEF Left, Pages
    <3>4. \A p \in Sectors : flash[p] = Blank \/ flash[p] = x
      BY <2>2
    <3> HIDE DEF x, r
    <3>5. Calm(flash, Sectors)
      BY <3>3, <3>4, BlankIs DEF Calm, NoHeader, Pages
    <3>6. RecordsIn(flash, Sectors) \subseteq {r(1), r(2)}
      <4>1. \A o \in Shown(x) : \E g \in Pages : o = r(g)
        BY <3>2 DEF Shown
      <4>2. \A o \in RecordsIn(flash, Sectors) : \E g \in Pages : o = r(g)
        BY <3>4, <4>1, BlankIs DEF RecordsIn
      <4> QED BY <4>2 DEF Pages
    <3> QED BY <3>5, <3>6
  <2> QED BY <2>1, <2>2 DEF Init, Left
<1>5. RecordsIn(flash, Sectors) \in SUBSET Record
  <2>1. ASSUME NEW p \in Sectors, NEW g \in Pages
        PROVE  Range(GoodRecords(flash[p].page[g])) \subseteq Record
    <3>1. flash[p].page[g] \in Seq(Record)
      BY <1>1, InvParts, ValidIs
    <3>2. GoodRecords(flash[p].page[g]) \in Seq(Record)
      BY <3>1, GoodIs
    <3> QED BY <3>2 DEF Range
  <2>2. \A p \in Sectors : Shown(flash[p]) \subseteq Record
    BY <2>1 DEF Shown
  <2> QED BY <2>2 DEF RecordsIn
<1>6. AbsValue \in [Tokens -> Payloads]
  <2>1. PICK a, b : RecordsIn(flash, Sectors) \subseteq {a, b}
    BY <1>4
  <2> DEFINE U == RecordsIn(flash, Sectors)
  <2>2. /\ \A r, o \in U : r.seq = o.seq => r = o
        /\ Comparable({r.seq : r \in U})
    BY <1>1 DEF OrdInv, Distinct, CInv, SeqsIn
  <2>3. U \in SUBSET Record /\ U \subseteq {a, b}
    BY <1>5, <2>1
  <2> HIDE DEF U
  <2>4. StoredIn(U) \in [Tokens -> Payloads]
    BY <2>2, <2>3, TwoRead
  <2>5. Nothing \in [Tokens -> Payloads]
    BY DEF Nothing, Payloads
  <2> QED BY <2>4, <2>5, AbsIs DEF ValueIn, U
<1>7. AbsCall = NoCallYet
  BY <1>2, <1>3, AbsIs, CallsAre, BootIs
<1>8. AbsInv
  BY <1>2, <1>3, <1>4, Tuples, DropTuples DEF AbsInv, WipeIn
<1> QED BY <1>2, <1>6, <1>7, <1>8 DEF Abs!Init, Abs!NoCall, NoCallYet, Payloads
-----------------------------------------------------------------------------
(***************************************************************************)
(* Every step of Nvm is a step of NvmAbs or leaves it as it is.            *)
(***************************************************************************)

LEMMA CallHolds ==
  ASSUME IInv, AbsInv, OrdInv, CInv, Sure, Arrives, Environment
  PROVE  Held /\ (Starts \/ Cuts)
<1>1. ASSUME NEW t \in Tokens, NEW v \in Values, Write(t, v) PROVE Held /\ Starts
  <2>1. Begin(WriteOf(t, v)) /\ v \in Payloads
    BY <1>1 DEF Write, Payloads
  <2> QED BY <2>1, WriteBegins
<1>2. ASSUME NEW t \in Tokens, Remove(t) PROVE Held /\ Starts
  <2>1. Begin(WriteOf(t, Removed)) /\ Removed \in Payloads
    BY <1>2 DEF Remove, Payloads
  <2> QED BY <2>1, WriteBegins
<1>3. CASE ErasePool
  BY <1>3, EraseBegins
<1>4. CASE ResetBetween \/ ResetInStore \/ ResetInCopy
  BY <1>4, ResetHolds
<1> QED BY <1>1, <1>2, <1>3, <1>4 DEF Environment

LEMMA StepHolds ==
  ASSUME IInv, AbsInv, OrdInv, CInv, Plain, Sure, Arrives, Progress,
         Comparable(SeqsIn(flash', Sectors)), Distinct(flash', Sectors)
  PROVE  Held /\ (Takes \/ Ends \/ Stays)
<1>1. CASE Urgent \/ LowOnSpace \/ LookupPrevious \/ CleanNamespace \/ AfterNamespace
  BY <1>1, UrgentReplies, LowReplies, LookupReplies, NamespaceReplies DEF Replies
<1>2. CASE Decide \/ Finish \/ EndErase
  BY <1>2, DecideReplies, EraseReplies DEF Replies
<1>3. CASE Create \/ CreateSecond
  BY <1>3, CreateHolds, CreateSecondHolds
<1>4. CASE Store
  BY <1>4, StoreHolds
<1>5. CASE CopyOrDrop \/ EraseRelocated
  BY <1>5, CopyOrDropHolds, EraseRelocatedHolds DEF Sure
<1>6. CASE FindPending \/ Wipe \/ Salvage \/ SalvageSecond \/ SalvageRecord
  BY <1>6, FindPendingHolds, WipeHolds, SalvageHolds, SalvageSecondHolds, SalvageRecordHolds
<1>7. CASE EraseSalvaged \/ LoadTables \/ FlagSector
  BY <1>7, EraseSalvagedHolds, LoadTablesHolds, FlagHolds
<1>8. CASE EndEvent
  BY <1>8, EventEnds
<1> QED BY <1>1, <1>2, <1>3, <1>4, <1>5, <1>6, <1>7, <1>8 DEF Progress

LEMMA StutterHolds ==
  ASSUME IInv, AbsInv, Arrives, UNCHANGED vars
  PROVE  Held /\ Stays
<1>1. /\ flash' = flash /\ stack' = stack /\ mem' = mem /\ resets' = resets /\ result' = result
  BY DEF vars
<1>2. AbsValue' = AbsValue /\ AbsCall' = AbsCall
  BY <1>1, AbsIs DEF Arrives
<1> QED BY <1>1, <1>2 DEF Held, AbsInv, Stays

LEMMA StepsMap ==
  ASSUME IInv, OrdInv, CInv, Plain, AbsInv, Sure, CInv', [Next]_vars
  PROVE  OrdInv' /\ AbsInv' /\ [Abs!Next]_(Abs!vars)
<1>1. Arrives
  BY NextArrives
<1>2. Sectors' = Sectors
  BY <1>1 DEF Arrives
<1>3. Comparable(SeqsIn(flash', Sectors))
  BY <1>2 DEF CInv
<1>4. OrdInv'
  BY <1>3, OrdNext
<1>5. Distinct(flash', Sectors)
  BY <1>2, <1>4 DEF OrdInv
<1>6. Held /\ (Starts \/ Takes \/ Ends \/ Cuts \/ Stays)
  <2>1. CASE Environment
    BY <1>1, <2>1, CallHolds
  <2>2. CASE Progress
    BY <1>1, <1>3, <1>5, <2>2, StepHolds
  <2>3. CASE RunRelocate \/ RunDefrag
    BY <1>1, <2>3, EventBegins
  <2>4. CASE UNCHANGED vars
    BY <1>1, <2>4, StutterHolds
  <2> QED BY <2>1, <2>2, <2>3, <2>4 DEF Next
<1> QED BY <1>1, <1>4, <1>6, HeldIs, AbsSteps

(* A call changes its token, once, before it returns ok, and nothing else  *)
(* ever changes a token: not relocation (lines 1487-1608), not a reset in  *)
(* the middle of any of it, not salvage (lines 2334-2441), not the numbers *)
(* starting over (lines 1308-1345), for as long as they can be compared.   *)
THEOREM NvmKeepsPromise == Spec /\ Sure /\ []NumbersComparable => Promise
<1>1. Init /\ NumbersComparable => OrdInv /\ Plain /\ AbsInv /\ Abs!Init
  BY OrdInit, PlainFirst, AbsFirst, ComparableIs
<1>2. IInv /\ OrdInv /\ Plain /\ AbsInv /\ Sure /\ NumbersComparable /\ NumbersComparable'
        /\ [Next]_vars
      => OrdInv' /\ Plain' /\ AbsInv' /\ Sure' /\ [Abs!Next]_(Abs!vars)
  <2> SUFFICES ASSUME IInv, OrdInv, Plain, AbsInv, Sure, NumbersComparable, NumbersComparable',
                      [Next]_vars
               PROVE  OrdInv' /\ Plain' /\ AbsInv' /\ Sure' /\ [Abs!Next]_(Abs!vars)
    OBVIOUS
  <2>1. CInv /\ CInv'
    BY ComparableIs, PTL
  <2>2. OrdInv' /\ AbsInv' /\ [Abs!Next]_(Abs!vars)
    BY <2>1, StepsMap
  <2>3. Plain' /\ Sure'
    BY PlainKeeps, UseStays DEF Sure
  <2> QED BY <2>2, <2>3
<1> QED BY <1>1, <1>2, NvmInvariant, PTL DEF Spec, Promise, Abs!Spec
=============================================================================
