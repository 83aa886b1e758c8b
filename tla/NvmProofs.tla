----------------------------- MODULE NvmProofs ------------------------------
(***************************************************************************)
(* What holds of the sectors, the tables in RAM and the calls in progress  *)
(* of gpNvm, for every use: the tables are those of the flash whenever     *)
(* anybody reads them, whatever was interrupted by resets.                 *)
(***************************************************************************)
EXTENDS NvmDataProofs

(***************************************************************************)
(* The inductive invariant.                                                *)
(***************************************************************************)

ItemsIn(S)  == [tok : Tokens, sec : S, page : Pages, idx : Nat \ {0}, refs : Nat]
TablesIn(S) == [phys : [S -> S \cup {NoSector}], locked : SUBSET S,
                inactive : [S -> Nat], lut : Seq(ItemsIn(S)), unique : Nat,
                seqs : SeqsType, last : S]
RoomIn(F, S) == \A p \in S, g \in Pages : UsedOf(F[p].page[g]) <= PageSize
Calm(F, S)   == \A p \in S : ~F[p].head[1].pending

(* Frames.                                                                 *)
WriteFrames == [op : {"write"}, tok : Tokens, val : Payloads,
                at : {"urgent", "low", "lookup", "namespace", "exhausted", "decide", "stored"},
                low : BOOLEAN]
AddFrames(S) == {f \in [op : {"add"}, tok : Tokens, val : Payloads,
                        prev : [sec : S \cup {NoSector}, val : Payloads],
                        at : {"allocate", "header", "store"}, sec : S \cup {NoSector}] :
                   f.at = "allocate" <=> f.sec = NoSector}
RelocateFrames(S) == [op : {"relocate"}, sec : S, next : Nat \ {0}, reset : BOOLEAN]
BootFrames(S) == [op : {"boot"}, at : {"pending", "wipe", "corrupt", "header", "copy"},
                  from : S \cup {NoSector}, to : S \cup {NoSector}]
EraseFrames(S) == [op : {"erase"}, at : {"flag", "wipe", "done"}, p : S]
AfterFrames == [op : {"after"}, event : {"relocate", "defrag"}, more : BOOLEAN]

(* What relocation returns to.                                             *)
Waiting == {b \in WriteFrames : b.at \in {"urgent", "low", "namespace", "exhausted"}}
             \cup AfterFrames

(* The tables are those of the flash, but for the sector being opened.     *)
Kept(F, S, n, m, open) ==
  /\ Calm(F, S) /\ TidyIn(F, S, m.phys, open) /\ ListsIn(F, S, m.phys, m.lut)
  /\ Len(m.lut) <= m.unique /\ m.unique <= n

(* A token that is to be added is listed or counted already.               *)
Joins(m, t) == (\E k \in DOMAIN m.lut : m.lut[k].tok = t) \/ Len(m.lut) < m.unique

OpenBy(f) == IF f.at = "header" THEN f.sec ELSE NoSector

(* A new sector is empty, and none of Away.                                *)
Adds(F, S, m, f, Away) ==
  f.at # "allocate" => /\ f.sec \in S \ Away /\ m.phys[f.sec] # NoSector
                       /\ \A g \in Pages : F[m.phys[f.sec]].page[g] = <<>>

(* From item k on, the one reference of an item is where it leads.         *)
Exact(F, S, m, from) ==
  \A k \in DOMAIN m.lut : k >= from /\ m.lut[k].refs = 1 =>
    \A s \in S : Carries(F, m.phys, s, m.lut[k].tok) => s = m.lut[k].sec

(* The items that have been handled have left the sector, but for those of *)
(* the tokens Ts being copied and of tokens that are dropped.              *)
Moves(F, S, c, m, r, Ts) ==
  /\ r.sec \in S /\ m.phys[r.sec] # NoSector /\ r.sec \in m.locked
  /\ \A k \in DOMAIN m.lut : k < r.next /\ m.lut[k].sec = r.sec => r.reset \/ m.lut[k].tok \in Ts
  /\ \A t \in Ts : \E k \in DOMAIN m.lut : k < r.next /\ m.lut[k].tok = t
  /\ ~c => Exact(F, S, m, r.next)

(* The boot: an erase is finished first; a salvaged sector gets a free     *)
(* number, and the good records of the broken one in their order.          *)
Boots(F, S, f) ==
  /\ f.at \notin {"pending", "wipe"} => Calm(F, S)
  /\ f.at \in {"header", "copy"} => f.to \in S /\ f.from \in S /\ f.from # f.to /\ IsValid(F[f.from])
  /\ f.at = "header" =>
       /\ F[f.to].head[2] = NoHeader /\ \A g \in Pages : F[f.to].page[g] = <<>>
       /\ \E s \in S : F[f.to].head[1] = HeadOf(s) /\ \A q \in S : IsSound(F[q]) => F[q].head[1].id # s
  /\ f.at = "copy" =>
       /\ IsSound(F[f.to])
       /\ \A g \in Pages : LET a == F[f.to].page[g]
                               b == GoodRecords(F[f.from].page[g])
                           IN  Len(a) <= Len(b) /\ \A i \in 1 .. Len(a) : a[i] = b[i]

(* The calls in progress, and what holds of the rest meanwhile.            *)
Stands(F, S, n, c, m, st) ==
  \/ st = <<>> /\ Kept(F, S, n, m, NoSector)
  \/ \E f \in WriteFrames :
       /\ st = <<f>> /\ Kept(F, S, n, m, NoSector)
       /\ f.at = "decide" => Joins(m, f.tok)
  \/ \E f \in AfterFrames : st = <<f>> /\ Kept(F, S, n, m, NoSector)
  \/ \E f \in AddFrames(S), b \in WriteFrames :
       /\ st = <<f, b>> /\ b.at = "stored" /\ f.tok = b.tok /\ f.val = b.val
       /\ Kept(F, S, n, m, OpenBy(f)) /\ Adds(F, S, m, f, {}) /\ Joins(m, f.tok)
  \/ \E r \in RelocateFrames(S), b \in Waiting :
       st = <<r, b>> /\ Kept(F, S, n, m, NoSector) /\ Moves(F, S, c, m, r, {})
  \/ \E f \in AddFrames(S), r \in RelocateFrames(S), b \in Waiting :
       /\ st = <<f, r, b>>
       /\ Kept(F, S, n, m, OpenBy(f)) /\ Adds(F, S, m, f, {r.sec}) /\ Moves(F, S, c, m, r, {f.tok})
  \/ \E f \in BootFrames(S) :
       /\ \/ st = <<f>>
          \/ \E b \in Waiting \cup {e \in EraseFrames(S) : e.at = "done"} : st = <<f, b>>
       /\ Boots(F, S, f)
  \/ \E f \in EraseFrames(S) :
       st = <<f>> /\ (f.at = "done" => Kept(F, S, n, m, NoSector))

FlashOk(F, S, n) == F \in FlashIn(S) /\ FlashGood(F, S) /\ RoomIn(F, S) /\ Named(F, S, n)

IInv ==
  /\ use \in Uses
  /\ FlashOk(flash, Sectors, use.names)
  /\ mem \in TablesIn(Sectors)
  /\ Stands(flash, Sectors, use.names, use.cached, mem, stack)
  /\ events \subseteq {"relocate", "defrag"}
  /\ result \in {"none", "ok", "error"} /\ failed \in BOOLEAN
  /\ moved \in Nat /\ calls \in 0 .. use.calls /\ resets \in 0 .. use.resets

Plain ==
  ~use.removes =>
    /\ \A p \in Sectors, g \in Pages : \A i \in DOMAIN flash[p].page[g] :
         flash[p].page[g][i].val # Removed
    /\ \A i \in DOMAIN stack : stack[i].op \in {"write", "add"} => stack[i].val # Removed
-----------------------------------------------------------------------------
LEMMA TupleTwo ==
  ASSUME NEW x, NEW y PROVE <<x>> \o <<y>> = <<x, y>>
<1> DEFINE T == {x, y}
           u == <<x>> \o <<y>>
           v == <<x, y>>
<1>1. <<x>> \in Seq(T) /\ <<y>> \in Seq(T) /\ Len(<<x>>) = 1 /\ Len(<<y>>) = 1
  OBVIOUS
<1>2. v \in Seq(T) /\ Len(v) = 2 /\ v[1] = x /\ v[2] = y
  OBVIOUS
<1>3. u \in Seq(T) /\ Len(u) = 2 /\ u[1] = x /\ u[2] = y
  BY <1>1, ConcatProperties
<1> HIDE DEF u, v, T
<1>4. \A i \in 1 .. Len(u) : u[i] = v[i]
  BY <1>2, <1>3
<1>5. u = v
  BY <1>2, <1>3, <1>4, SeqEqual
<1> QED BY <1>5 DEF u, v

LEMMA TupleThree ==
  ASSUME NEW x, NEW y, NEW z
  PROVE  <<x>> \o <<y, z>> = <<x, y, z>> /\ <<x, y>> \o <<z>> = <<x, y, z>>
<1> DEFINE T == {x, y, z}
           u == <<x>> \o <<y, z>>
           w == <<x, y>> \o <<z>>
           v == <<x, y, z>>
<1>1. /\ <<x>> \in Seq(T) /\ <<y, z>> \in Seq(T) /\ Len(<<x>>) = 1 /\ Len(<<y, z>>) = 2
      /\ <<x, y>> \in Seq(T) /\ <<z>> \in Seq(T) /\ Len(<<x, y>>) = 2 /\ Len(<<z>>) = 1
  OBVIOUS
<1>2. v \in Seq(T) /\ Len(v) = 3 /\ v[1] = x /\ v[2] = y /\ v[3] = z
  OBVIOUS
<1>3. u \in Seq(T) /\ Len(u) = 3 /\ u[1] = x /\ u[2] = y /\ u[3] = z
  BY <1>1, ConcatProperties
<1>4. w \in Seq(T) /\ Len(w) = 3 /\ w[1] = x /\ w[2] = y /\ w[3] = z
  BY <1>1, ConcatProperties
<1> HIDE DEF u, v, w, T
<1>5. /\ \A i \in 1 .. Len(u) : u[i] = v[i]
      /\ \A i \in 1 .. Len(w) : w[i] = v[i]
  BY <1>2, <1>3, <1>4
<1>6. u = v
  BY <1>2, <1>3, <1>5, SeqEqual
<1>7. w = v
  BY <1>2, <1>4, <1>5, SeqEqual
<1> QED BY <1>6, <1>7 DEF u, v, w

LEMMA Tuples ==
  /\ \A a : Head(<<a>>) = a /\ Tail(<<a>>) = <<>> /\ <<a>> # <<>>
  /\ \A a, b : Head(<<a, b>>) = a /\ Tail(<<a, b>>) = <<b>> /\ <<a, b>> # <<>>
  /\ \A a, b, c : Head(<<a, b, c>>) = a /\ Tail(<<a, b, c>>) = <<b, c>> /\ <<a, b, c>> # <<>>
  /\ \A d : <<d>> \o <<>> = <<d>>
  /\ \A d, b : <<d>> \o <<b>> = <<d, b>>
  /\ \A d, b, c : <<d>> \o <<b, c>> = <<d, b, c>> /\ <<d, b>> \o <<c>> = <<d, b, c>>
<1>1. \A a : Head(<<a>>) = a /\ Tail(<<a>>) = <<>> /\ <<a>> # <<>>
  OBVIOUS
<1>2. \A a, b : Head(<<a, b>>) = a /\ <<a, b>> # <<>>
  OBVIOUS
<1>3. \A a, b, c : Head(<<a, b, c>>) = a /\ <<a, b, c>> # <<>>
  OBVIOUS
<1>4. \A a, b : Tail(<<a, b>>) = <<b>>
  OBVIOUS
<1>5. \A a, b, c : Tail(<<a, b, c>>) = <<b, c>>
  OBVIOUS
<1>6. \A d : <<d>> \o <<>> = <<d>>
  OBVIOUS
<1>7. \A d, b : <<d>> \o <<b>> = <<d, b>>
  BY TupleTwo
<1>8. \A d, b, c : <<d>> \o <<b, c>> = <<d, b, c>> /\ <<d, b>> \o <<c>> = <<d, b, c>>
  BY TupleThree
<1> QED BY <1>1, <1>2, <1>3, <1>4, <1>5, <1>6, <1>7, <1>8

LEMMA Bridges ==
  /\ FlashTyped <=> flash \in FlashIn(Sectors)
  /\ Items = ItemsIn(Sectors) /\ Tables = TablesIn(Sectors)
  /\ Room <=> RoomIn(flash, Sectors)
  /\ \A p \in Sectors : /\ HasValidHeader(p) <=> IsValid(flash[p])
                        /\ IsCorrupt(p) <=> IsValid(flash[p]) /\ IsBroken(flash[p])
                        /\ HasValidHeader(p) /\ ~IsCorrupt(p) <=> IsSound(flash[p])
  /\ AllRecords = RecordsIn(flash, Sectors)
  /\ IsPending <=> ~Calm(flash, Sectors)
<1>1. FlashTyped <=> flash \in FlashIn(Sectors)
  BY DEF FlashTyped, FlashIn, SectorsIn, HeadersIn, Header
<1>2. Items = ItemsIn(Sectors) /\ Tables = TablesIn(Sectors)
  BY DEF Items, ItemsIn, Tables, TablesIn
<1>3. Room <=> RoomIn(flash, Sectors)
  BY DEF Room, RoomIn
<1>4. \A p \in Sectors : /\ HasValidHeader(p) <=> IsValid(flash[p])
                         /\ IsCorrupt(p) <=> IsValid(flash[p]) /\ IsBroken(flash[p])
                         /\ HasValidHeader(p) /\ ~IsCorrupt(p) <=> IsSound(flash[p])
  BY DEF HasValidHeader, IsValid, IsCorrupt, IsBroken, IsSound
<1>5. AllRecords = RecordsIn(flash, Sectors)
  <2>1. \A p \in Sectors : GoodRecordsOf(p) = UNION {Range(GoodRecords(flash[p].page[g])) : g \in Pages}
    BY DEF GoodRecordsOf
  <2>2. ASSUME NEW r PROVE r \in AllRecords <=> r \in RecordsIn(flash, Sectors)
    BY <2>1 DEF AllRecords, RecordsIn, Shown, HasValidHeader, IsValid
  <2> QED BY <2>2
<1>6. IsPending <=> ~Calm(flash, Sectors)
  BY DEF IsPending, Calm
<1> QED BY <1>1, <1>2, <1>3, <1>4, <1>5, <1>6
-----------------------------------------------------------------------------
(***************************************************************************)
(* The calls in progress.                                                  *)
(***************************************************************************)

(* What is on top tells the shape of the calls in progress.                *)
LEMMA FrameOps ==
  ASSUME NEW S
  PROVE  /\ \A f \in WriteFrames : f.op = "write"
         /\ \A f \in AddFrames(S) : f.op = "add"
         /\ \A f \in RelocateFrames(S) : f.op = "relocate"
         /\ \A f \in BootFrames(S) : f.op = "boot"
         /\ \A f \in EraseFrames(S) : f.op = "erase"
         /\ \A f \in AfterFrames : f.op = "after"
BY DEF WriteFrames, AddFrames, RelocateFrames, BootFrames, EraseFrames, AfterFrames

(* A record is being added, for the calls in rest.                         *)
Adding(F, S, n, c, m, f, rest) ==
  /\ Kept(F, S, n, m, OpenBy(f))
  /\ \/ \E b \in WriteFrames : /\ rest = <<b>> /\ b.at = "stored" /\ f.tok = b.tok /\ f.val = b.val
                               /\ Adds(F, S, m, f, {}) /\ Joins(m, f.tok)
     \/ \E r \in RelocateFrames(S), b \in Waiting :
          /\ rest = <<r, b>> /\ Adds(F, S, m, f, {r.sec}) /\ Moves(F, S, c, m, r, {f.tok})

(* What a boot was called by.                                              *)
Booting(S) == {<<>>} \cup {<<b>> : b \in Waiting \cup {e \in EraseFrames(S) : e.at = "done"}}

LEMMA StandsShapes ==
  ASSUME NEW F, NEW S, NEW n, NEW c, NEW m, NEW st, Stands(F, S, n, c, m, st)
  PROVE  /\ st = <<>> => Kept(F, S, n, m, NoSector)
         /\ st # <<>> /\ Head(st).op = "write" =>
              /\ Head(st) \in WriteFrames /\ Tail(st) = <<>> /\ st = <<Head(st)>>
              /\ Kept(F, S, n, m, NoSector)
              /\ Head(st).at = "decide" => Joins(m, Head(st).tok)
         /\ st # <<>> /\ Head(st).op = "after" =>
              /\ Head(st) \in AfterFrames /\ Tail(st) = <<>> /\ Kept(F, S, n, m, NoSector)
         /\ st # <<>> /\ Head(st).op = "add" =>
              Head(st) \in AddFrames(S) /\ Adding(F, S, n, c, m, Head(st), Tail(st))
         /\ st # <<>> /\ Head(st).op = "relocate" =>
              /\ Head(st) \in RelocateFrames(S)
              /\ \E b \in Waiting : Tail(st) = <<b>>
              /\ Kept(F, S, n, m, NoSector) /\ Moves(F, S, c, m, Head(st), {})
         /\ st # <<>> /\ Head(st).op = "boot" =>
              Head(st) \in BootFrames(S) /\ Tail(st) \in Booting(S) /\ Boots(F, S, Head(st))
         /\ st # <<>> /\ Head(st).op = "erase" =>
              /\ Head(st) \in EraseFrames(S) /\ Tail(st) = <<>> /\ st = <<Head(st)>>
              /\ Head(st).at = "done" => Kept(F, S, n, m, NoSector)
<1>1. CASE st = <<>> /\ Kept(F, S, n, m, NoSector)
  BY <1>1
<1>2. ASSUME NEW f \in WriteFrames, st = <<f>>, Kept(F, S, n, m, NoSector),
             f.at = "decide" => Joins(m, f.tok)
      PROVE  /\ st # <<>> /\ Head(st) = f /\ Tail(st) = <<>> /\ f.op = "write"
  BY <1>2, Tuples, FrameOps
<1>3. ASSUME NEW f \in AfterFrames, st = <<f>>
      PROVE  /\ st # <<>> /\ Head(st) = f /\ Tail(st) = <<>> /\ f.op = "after"
  BY <1>3, Tuples, FrameOps
<1>4. ASSUME NEW f \in AddFrames(S), NEW b, st = <<f, b>>
      PROVE  /\ st # <<>> /\ Head(st) = f /\ Tail(st) = <<b>> /\ f.op = "add"
  BY <1>4, Tuples, FrameOps
<1>5. ASSUME NEW f \in RelocateFrames(S), NEW b, st = <<f, b>>
      PROVE  /\ st # <<>> /\ Head(st) = f /\ Tail(st) = <<b>> /\ f.op = "relocate"
  BY <1>5, Tuples, FrameOps
<1>6. ASSUME NEW f \in AddFrames(S), NEW r, NEW b, st = <<f, r, b>>
      PROVE  /\ st # <<>> /\ Head(st) = f /\ Tail(st) = <<r, b>> /\ f.op = "add"
  BY <1>6, Tuples, FrameOps
<1>7. ASSUME NEW f \in BootFrames(S), st = <<f>>
      PROVE  /\ st # <<>> /\ Head(st) = f /\ Tail(st) = <<>> /\ f.op = "boot"
  BY <1>7, Tuples, FrameOps
<1>8. ASSUME NEW f \in BootFrames(S), NEW b, st = <<f, b>>
      PROVE  /\ st # <<>> /\ Head(st) = f /\ Tail(st) = <<b>> /\ f.op = "boot"
  BY <1>8, Tuples, FrameOps
<1>9. ASSUME NEW f \in EraseFrames(S), st = <<f>>
      PROVE  /\ st # <<>> /\ Head(st) = f /\ Tail(st) = <<>> /\ f.op = "erase"
  BY <1>9, Tuples, FrameOps
<1>a. CASE \E f \in WriteFrames :
              /\ st = <<f>> /\ Kept(F, S, n, m, NoSector)
              /\ f.at = "decide" => Joins(m, f.tok)
  BY <1>a, <1>2
<1>b. CASE \E f \in AfterFrames : st = <<f>> /\ Kept(F, S, n, m, NoSector)
  BY <1>b, <1>3
<1>c. CASE \E f \in AddFrames(S), b \in WriteFrames :
             /\ st = <<f, b>> /\ b.at = "stored" /\ f.tok = b.tok /\ f.val = b.val
             /\ Kept(F, S, n, m, OpenBy(f)) /\ Adds(F, S, m, f, {}) /\ Joins(m, f.tok)
  BY <1>c, <1>4 DEF Adding
<1>d. CASE \E r \in RelocateFrames(S), b \in Waiting :
             st = <<r, b>> /\ Kept(F, S, n, m, NoSector) /\ Moves(F, S, c, m, r, {})
  BY <1>d, <1>5
<1>e. CASE \E f \in AddFrames(S), r \in RelocateFrames(S), b \in Waiting :
             /\ st = <<f, r, b>>
             /\ Kept(F, S, n, m, OpenBy(f)) /\ Adds(F, S, m, f, {r.sec}) /\ Moves(F, S, c, m, r, {f.tok})
  BY <1>e, <1>6 DEF Adding
<1>f. CASE \E f \in BootFrames(S) :
             /\ \/ st = <<f>>
                \/ \E b \in Waiting \cup {e \in EraseFrames(S) : e.at = "done"} : st = <<f, b>>
             /\ Boots(F, S, f)
  <2>1. PICK f \in BootFrames(S) :
             /\ \/ st = <<f>>
                \/ \E b \in Waiting \cup {e \in EraseFrames(S) : e.at = "done"} : st = <<f, b>>
             /\ Boots(F, S, f)
    BY <1>f
  <2>2. CASE st = <<f>>
    <3>1. <<>> \in Booting(S)
      BY DEF Booting
    <3> QED BY <1>7, <2>1, <2>2, <3>1
  <2>3. ASSUME NEW b \in Waiting \cup {e \in EraseFrames(S) : e.at = "done"}, st = <<f, b>>
        PROVE  /\ st # <<>> /\ Head(st) = f /\ f.op = "boot" /\ Tail(st) \in Booting(S)
    <3>1. <<b>> \in Booting(S)
      BY DEF Booting
    <3> QED BY <1>8, <2>3, <3>1
  <2> QED BY <2>1, <2>2, <2>3
<1>g. CASE \E f \in EraseFrames(S) :
             st = <<f>> /\ (f.at = "done" => Kept(F, S, n, m, NoSector))
  BY <1>g, <1>9
<1> QED BY <1>1, <1>a, <1>b, <1>c, <1>d, <1>e, <1>f, <1>g DEF Stands

(* ... and the other way round.                                            *)
LEMMA ShapesStand ==
  ASSUME NEW F, NEW S, NEW n, NEW c, NEW m
  PROVE  /\ Kept(F, S, n, m, NoSector) => Stands(F, S, n, c, m, <<>>)
         /\ \A f \in WriteFrames :
              Kept(F, S, n, m, NoSector) /\ (f.at = "decide" => Joins(m, f.tok))
              => Stands(F, S, n, c, m, <<f>>)
         /\ \A f \in AfterFrames : Kept(F, S, n, m, NoSector) => Stands(F, S, n, c, m, <<f>>)
         /\ \A f \in AddFrames(S) : \A rest :
              Adding(F, S, n, c, m, f, rest) => Stands(F, S, n, c, m, <<f>> \o rest)
         /\ \A r \in RelocateFrames(S), b \in Waiting :
              Kept(F, S, n, m, NoSector) /\ Moves(F, S, c, m, r, {}) => Stands(F, S, n, c, m, <<r, b>>)
         /\ \A f \in BootFrames(S), rest \in Booting(S) :
              Boots(F, S, f) => Stands(F, S, n, c, m, <<f>> \o rest)
         /\ \A f \in EraseFrames(S) :
              (f.at = "done" => Kept(F, S, n, m, NoSector)) => Stands(F, S, n, c, m, <<f>>)
<1>1. Kept(F, S, n, m, NoSector) => Stands(F, S, n, c, m, <<>>)
  BY DEF Stands
<1>2. ASSUME NEW f \in WriteFrames, Kept(F, S, n, m, NoSector), f.at = "decide" => Joins(m, f.tok)
      PROVE  Stands(F, S, n, c, m, <<f>>)
  BY <1>2 DEF Stands
<1>3. ASSUME NEW f \in AfterFrames, Kept(F, S, n, m, NoSector)
      PROVE  Stands(F, S, n, c, m, <<f>>)
  BY <1>3 DEF Stands
<1>4. ASSUME NEW f \in AddFrames(S), NEW rest, Adding(F, S, n, c, m, f, rest)
      PROVE  Stands(F, S, n, c, m, <<f>> \o rest)
  <2>1. CASE \E b \in WriteFrames : /\ rest = <<b>> /\ b.at = "stored" /\ f.tok = b.tok /\ f.val = b.val
                               /\ Adds(F, S, m, f, {}) /\ Joins(m, f.tok)
    <3>1. PICK b \in WriteFrames : /\ rest = <<b>> /\ b.at = "stored" /\ f.tok = b.tok /\ f.val = b.val
                               /\ Adds(F, S, m, f, {}) /\ Joins(m, f.tok)
      BY <2>1
    <3>2. <<f>> \o rest = <<f, b>>
      BY <3>1, Tuples
    <3>3. Stands(F, S, n, c, m, <<f, b>>)
      BY <1>4, <3>1 DEF Stands, Adding
    <3> QED BY <3>2, <3>3
  <2>2. CASE \E r \in RelocateFrames(S), b \in Waiting :
               /\ rest = <<r, b>> /\ Adds(F, S, m, f, {r.sec}) /\ Moves(F, S, c, m, r, {f.tok})
    <3>1. PICK r \in RelocateFrames(S), b \in Waiting :
               /\ rest = <<r, b>> /\ Adds(F, S, m, f, {r.sec}) /\ Moves(F, S, c, m, r, {f.tok})
      BY <2>2
    <3>2. <<f>> \o rest = <<f, r, b>>
      BY <3>1, Tuples
    <3>3. Stands(F, S, n, c, m, <<f, r, b>>)
      BY <1>4, <3>1 DEF Stands, Adding
    <3> QED BY <3>2, <3>3
  <2> QED BY <1>4, <2>1, <2>2 DEF Adding
<1>5. ASSUME NEW r \in RelocateFrames(S), NEW b \in Waiting, Kept(F, S, n, m, NoSector),
             Moves(F, S, c, m, r, {})
      PROVE  Stands(F, S, n, c, m, <<r, b>>)
  BY <1>5 DEF Stands
<1>6. ASSUME NEW f \in BootFrames(S), NEW rest \in Booting(S), Boots(F, S, f)
      PROVE  Stands(F, S, n, c, m, <<f>> \o rest)
  <2>1. CASE rest = <<>>
    <3>1. <<f>> \o rest = <<f>>
      BY <2>1, Tuples
    <3>2. Stands(F, S, n, c, m, <<f>>)
      BY <1>6 DEF Stands
    <3> QED BY <3>1, <3>2
  <2>2. ASSUME NEW b \in Waiting \cup {e \in EraseFrames(S) : e.at = "done"}, rest = <<b>>
        PROVE  Stands(F, S, n, c, m, <<f>> \o rest)
    <3>1. <<f>> \o rest = <<f, b>>
      BY <2>2, Tuples
    <3>2. Stands(F, S, n, c, m, <<f, b>>)
      BY <1>6 DEF Stands
    <3> QED BY <3>1, <3>2
  <2> QED BY <2>1, <2>2 DEF Booting
<1>7. ASSUME NEW f \in EraseFrames(S), f.at = "done" => Kept(F, S, n, m, NoSector)
      PROVE  Stands(F, S, n, c, m, <<f>>)
  BY <1>7 DEF Stands
<1> QED BY <1>1, <1>2, <1>3, <1>4, <1>5, <1>6, <1>7
-----------------------------------------------------------------------------
(***************************************************************************)
(* A table made from the flash.                                            *)
(***************************************************************************)

(* What a table made from the flash is.                                    *)
LEMMA PopulateLists ==
  ASSUME use \in Uses, flash \in FlashIn(Sectors), NEW m, m.phys \in MapIn(Sectors), NEW lut,
         Populates(m, lut)
  PROVE  /\ lut \in Seq(ItemsIn(Sectors)) /\ ListsIn(flash, Sectors, m.phys, lut)
         /\ \A k \in DOMAIN lut : lut[k].refs = 1 =>
              \A s \in Sectors : Carries(flash, m.phys, s, lut[k].tok) => s = lut[k].sec
<1>1. /\ lut \in Seq(Items)
      /\ \A k \in DOMAIN lut : IsSpot(m, lut[k]) /\ RecordAt(m, lut[k]).tok = lut[k].tok
      /\ \A k \in DOMAIN lut : \A w \in Places :
           IsSpot(m, w) /\ RecordAt(m, w).tok = lut[k].tok /\ lut[k].refs = 1 => w.sec = lut[k].sec
      /\ \A j, k \in DOMAIN lut : lut[j].tok = lut[k].tok => j = k
      /\ \A w \in Places : IsSpot(m, w) => \E k \in DOMAIN lut : lut[k].tok = RecordAt(m, w).tok
  BY DEF Populates
<1>2. lut \in Seq(ItemsIn(Sectors))
  BY <1>1, Bridges
<1>3. \A k \in DOMAIN lut : Leads(flash, Sectors, m.phys, lut[k])
  <2> TAKE k \in DOMAIN lut
  <2>1. IsSpot(m, lut[k]) /\ RecordAt(m, lut[k]).tok = lut[k].tok
    BY <1>1
  <2> QED BY <2>1 DEF IsSpot, InUse, PageOf, RecordAt, Leads
<1>4. ASSUME NEW s \in Sectors, NEW t, Carries(flash, m.phys, s, t)
      PROVE  \E w \in Places : IsSpot(m, w) /\ w.sec = s /\ RecordAt(m, w).tok = t
  <2>1. PICK g \in Pages : \E i \in DOMAIN flash[m.phys[s]].page[g] :
                             flash[m.phys[s]].page[g][i].tok = t
    BY <1>4 DEF Carries
  <2>2. PICK i \in DOMAIN flash[m.phys[s]].page[g] : flash[m.phys[s]].page[g][i].tok = t
    BY <2>1
  <2> DEFINE w == [sec |-> s, page |-> g, idx |-> i]
  <2>3. s \in InUse(m) /\ m.phys[s] \in Sectors
    BY <1>4 DEF Carries, InUse, MapIn
  <2>4. flash[m.phys[s]].page[g] \in Seq(Record)
    BY <2>3, ValidIs, NumbersOfSectors
  <2>5. i \in Nat \ {0}
    BY <2>4
  <2>6. w \in Places /\ IsSpot(m, w) /\ w.sec = s /\ RecordAt(m, w).tok = t
    BY <2>2, <2>3, <2>5 DEF Places, IsSpot, PageOf, RecordAt
  <2> QED BY <2>6
<1>5. \A s \in Sectors, t \in Tokens : Carries(flash, m.phys, s, t) => \E k \in DOMAIN lut : lut[k].tok = t
  BY <1>1, <1>4
<1>6. ListsIn(flash, Sectors, m.phys, lut)
  BY <1>1, <1>3, <1>5 DEF ListsIn, Unlike
<1>7. ASSUME NEW k \in DOMAIN lut, lut[k].refs = 1, NEW s \in Sectors,
             Carries(flash, m.phys, s, lut[k].tok)
      PROVE  s = lut[k].sec
  <2>1. PICK w \in Places : IsSpot(m, w) /\ w.sec = s /\ RecordAt(m, w).tok = lut[k].tok
    BY <1>4, <1>7
  <2> QED BY <1>1, <1>7, <2>1
<1> QED BY <1>2, <1>6, <1>7

LEMMA TablesParts ==
  ASSUME NEW S, NEW m \in TablesIn(S)
  PROVE  /\ m.phys \in MapIn(S) /\ m.locked \in SUBSET S /\ m.inactive \in [S -> Nat]
         /\ m.lut \in Seq(ItemsIn(S)) /\ m.unique \in Nat /\ m.seqs \in SeqsType /\ m.last \in S
BY DEF TablesIn, MapIn

LEMMA SetLut ==
  ASSUME NEW S, NEW m \in TablesIn(S), NEW lut \in Seq(ItemsIn(S))
  PROVE  LET k == [m EXCEPT !.lut = lut]
         IN  /\ k \in TablesIn(S) /\ k.lut = lut /\ k.phys = m.phys /\ k.unique = m.unique
             /\ k.locked = m.locked /\ k.inactive = m.inactive /\ k.seqs = m.seqs /\ k.last = m.last
BY DEF TablesIn

LEMMA SetLocked ==
  ASSUME NEW S, NEW m \in TablesIn(S), NEW L \in SUBSET S
  PROVE  LET k == [m EXCEPT !.locked = L]
         IN  /\ k \in TablesIn(S) /\ k.lut = m.lut /\ k.phys = m.phys /\ k.unique = m.unique
             /\ k.inactive = m.inactive /\ k.seqs = m.seqs /\ k.last = m.last /\ k.locked = L
BY DEF TablesIn

LEMMA SetUnique ==
  ASSUME NEW S, NEW m \in TablesIn(S), NEW u \in Nat
  PROVE  LET k == [m EXCEPT !.unique = u]
         IN  /\ k \in TablesIn(S) /\ k.lut = m.lut /\ k.phys = m.phys /\ k.unique = u
             /\ k.inactive = m.inactive /\ k.seqs = m.seqs /\ k.last = m.last /\ k.locked = m.locked
BY DEF TablesIn

(* Two tables that list one pool are of one length.                        *)
LEMMA SameLength ==
  ASSUME use \in Uses, flash \in FlashIn(Sectors), NEW phys \in MapIn(Sectors), NEW open,
         TidyIn(flash, Sectors, phys, open),
         NEW lut \in Seq(ItemsIn(Sectors)), ListsIn(flash, Sectors, phys, lut),
         NEW old \in Seq(ItemsIn(Sectors)), ListsIn(flash, Sectors, phys, old)
  PROVE  Len(lut) = Len(old)
<1>1. lut \in Seq(Items) /\ old \in Seq(Items) /\ NoSector \notin Sectors
  BY Bridges, NumbersOfSectors
<1>2. Len(lut) = Cardinality(TokensIn(flash, Sectors))
  BY <1>1, ListLength
<1>3. Len(old) = Cardinality(TokensIn(flash, Sectors))
  BY <1>1, ListLength
<1> QED BY <1>2, <1>3

(* A fresh table lists what the last one did.                              *)
Refreshed(m, j) ==
  /\ j \in TablesIn(Sectors) /\ j.phys = m.phys /\ j.locked = m.locked /\ j.seqs = m.seqs
  /\ Kept(flash, Sectors, use.names, j, NoSector)
  /\ Len(j.lut) = Len(m.lut)
  /\ ~use.cached => Exact(flash, Sectors, j, 1)

LEMMA FreshIs ==
  ASSUME use \in Uses, flash \in FlashIn(Sectors), NEW m \in TablesIn(Sectors),
         Kept(flash, Sectors, use.names, m, NoSector)
  PROVE  /\ Refreshed(m, Fresh(m)) /\ Fresh(m).unique = m.unique
         /\ Refreshed(m, FreshAll(m))
<1>1. /\ Calm(flash, Sectors) /\ TidyIn(flash, Sectors, m.phys, NoSector)
      /\ ListsIn(flash, Sectors, m.phys, m.lut) /\ Len(m.lut) <= m.unique /\ m.unique <= use.names
  BY DEF Kept
<1>2. CASE use.cached
  BY <1>2 DEF Fresh, FreshAll, Refreshed
<1>3. CASE ~use.cached
  <2> DEFINE lut == Populate(m, Walk(m))
             j == [m EXCEPT !.lut = lut]
             i == [j EXCEPT !.unique = Len(lut)]
  <2>1. /\ m.phys \in MapIn(Sectors) /\ m.lut \in Seq(ItemsIn(Sectors)) /\ m.unique \in Nat
    BY TablesParts
  <2>2. Populates(m, lut)
    BY <2>1, Bridges, PopulateIs DEF PhysTyped, MapIn
  <2> HIDE DEF lut
  <2>3. /\ lut \in Seq(ItemsIn(Sectors)) /\ ListsIn(flash, Sectors, m.phys, lut)
        /\ \A k \in DOMAIN lut : lut[k].refs = 1 =>
             \A s \in Sectors : Carries(flash, m.phys, s, lut[k].tok) => s = lut[k].sec
    BY <2>1, <2>2, PopulateLists
  <2>4. Len(lut) = Len(m.lut) /\ Len(lut) \in Nat
    BY <1>1, <2>1, <2>3, SameLength
  <2>5. /\ j \in TablesIn(Sectors) /\ j.lut = lut /\ j.phys = m.phys /\ j.unique = m.unique
        /\ j.locked = m.locked /\ j.seqs = m.seqs
        /\ i \in TablesIn(Sectors) /\ i.lut = lut /\ i.phys = m.phys /\ i.unique = Len(lut)
        /\ i.locked = m.locked /\ i.seqs = m.seqs
    <3>1. /\ j \in TablesIn(Sectors) /\ j.lut = lut /\ j.phys = m.phys /\ j.unique = m.unique
          /\ j.locked = m.locked /\ j.seqs = m.seqs
      BY <2>3, SetLut
    <3> HIDE DEF j
    <3>2. /\ i \in TablesIn(Sectors) /\ i.lut = j.lut /\ i.phys = j.phys /\ i.unique = Len(lut)
          /\ i.locked = j.locked /\ i.seqs = j.seqs
      BY <2>4, <3>1 DEF TablesIn
    <3> QED BY <3>1, <3>2
  <2>6. Fresh(m) = j /\ FreshAll(m) = i
    BY <1>3, <2>5 DEF Fresh, FreshAll, lut
  <2> HIDE DEF j, i
  <2>7. use.names \in Nat
    BY NvmAssumption DEF Use
  <2>8. Kept(flash, Sectors, use.names, j, NoSector) /\ Kept(flash, Sectors, use.names, i, NoSector)
    BY <1>1, <2>1, <2>3, <2>4, <2>5, <2>7 DEF Kept
  <2>9. Exact(flash, Sectors, j, 1) /\ Exact(flash, Sectors, i, 1)
    BY <2>3, <2>5 DEF Exact
  <2> QED BY <2>4, <2>5, <2>6, <2>8, <2>9 DEF Refreshed
<1> QED BY <1>2, <1>3

(* Relocation begins.                                                      *)
LEMMA RelocatingIs ==
  ASSUME use \in Uses, flash \in FlashIn(Sectors), NEW m \in TablesIn(Sectors),
         Kept(flash, Sectors, use.names, m, NoSector), NEW s \in InUse(m)
  PROVE  LET j == Relocating(m, s)
         IN  /\ j \in TablesIn(Sectors) /\ RelocateOf(s) \in RelocateFrames(Sectors)
             /\ Kept(flash, Sectors, use.names, j, NoSector)
             /\ Moves(flash, Sectors, use.cached, j, RelocateOf(s), {})
<1> DEFINE i == FreshAll(m)
           j == [i EXCEPT !.locked = m.locked \cup {s}]
<1>1. s \in Sectors /\ m.phys[s] # NoSector /\ m.locked \in SUBSET Sectors
  BY TablesParts DEF InUse
<1>2. Refreshed(m, i)
  BY FreshIs
<1> HIDE DEF i
<1>3. /\ i \in TablesIn(Sectors) /\ i.phys = m.phys
      /\ Kept(flash, Sectors, use.names, i, NoSector)
      /\ ~use.cached => Exact(flash, Sectors, i, 1)
  BY <1>2 DEF Refreshed
<1>4. /\ j \in TablesIn(Sectors) /\ j.lut = i.lut /\ j.phys = i.phys /\ j.unique = i.unique
      /\ j.locked = m.locked \cup {s}
  BY <1>1, <1>3, SetLocked
<1>5. Relocating(m, s) = j
  BY DEF Relocating, i
<1> HIDE DEF j
<1>6. Kept(flash, Sectors, use.names, j, NoSector)
  BY <1>3, <1>4 DEF Kept
<1>7. /\ RelocateOf(s) \in RelocateFrames(Sectors)
      /\ RelocateOf(s).sec = s /\ RelocateOf(s).next = 1
  BY <1>1 DEF RelocateOf, RelocateFrames
<1>8. \A k \in DOMAIN j.lut : k >= 1 /\ ~(k < 1)
  <2>1. j.lut \in Seq(ItemsIn(Sectors))
    BY <1>4, TablesParts
  <2> QED BY <2>1
<1>9. ~use.cached => Exact(flash, Sectors, j, 1)
  BY <1>3, <1>4 DEF Exact
<1>10. Moves(flash, Sectors, use.cached, j, RelocateOf(s), {})
  BY <1>1, <1>3, <1>4, <1>7, <1>8, <1>9 DEF Moves
<1> QED BY <1>4, <1>5, <1>6, <1>7, <1>10
-----------------------------------------------------------------------------
(***************************************************************************)
(* Steps that leave flash and tables alone.                                *)
(***************************************************************************)

LEMMA Preserved ==
  ASSUME IInv, use' = use, FlashOk(flash', Sectors, use.names), mem' \in TablesIn(Sectors),
         Stands(flash', Sectors, use.names, use.cached, mem', stack'),
         events' \subseteq {"relocate", "defrag"},
         result' \in {"none", "ok", "error"}, failed' \in BOOLEAN,
         moved' \in Nat, calls' \in 0 .. use.calls, resets' \in 0 .. use.resets
  PROVE  IInv'
<1>1. Sectors' = Sectors
  BY DEF Sectors, NumSectors
<1> QED BY <1>1 DEF IInv

(* What a step needs of the state.                                         *)
LEMMA InvParts ==
  ASSUME IInv
  PROVE  /\ use \in Uses /\ use.names \in Nat /\ NoSector \notin Sectors
         /\ Sectors \subseteq Nat /\ IsFiniteSet(Sectors) /\ 0 \in Sectors
         /\ FlashOk(flash, Sectors, use.names)
         /\ flash \in FlashIn(Sectors) /\ FlashGood(flash, Sectors) /\ RoomIn(flash, Sectors)
         /\ Named(flash, Sectors, use.names)
         /\ mem \in TablesIn(Sectors) /\ mem.phys \in MapIn(Sectors)
         /\ mem.lut \in Seq(ItemsIn(Sectors)) /\ mem.unique \in Nat
         /\ Stands(flash, Sectors, use.names, use.cached, mem, stack)
         /\ events \subseteq {"relocate", "defrag"}
         /\ result \in {"none", "ok", "error"} /\ failed \in BOOLEAN
         /\ moved \in Nat /\ calls \in 0 .. use.calls /\ resets \in 0 .. use.resets
         /\ use.calls \in Nat /\ use.resets \in Nat
<1>1. use \in Uses /\ use \in Use
  BY NvmAssumption DEF IInv
<1>2. use.names \in Nat /\ use.calls \in Nat /\ use.resets \in Nat
  BY <1>1 DEF Use
<1>3. /\ NumSectors \in Nat \ {0} /\ Sectors = 0 .. NumSectors - 1 /\ NoSector \notin Sectors
      /\ Sectors \subseteq Nat /\ IsFiniteSet(Sectors)
  BY <1>1, NumbersOfSectors
<1>4. 0 \in Sectors
  BY <1>3
<1>5. mem \in TablesIn(Sectors) /\ FlashOk(flash, Sectors, use.names)
  BY DEF IInv
<1>6. mem.phys \in MapIn(Sectors) /\ mem.lut \in Seq(ItemsIn(Sectors)) /\ mem.unique \in Nat
  BY <1>5, TablesParts
<1> QED BY <1>1, <1>2, <1>3, <1>4, <1>5, <1>6 DEF IInv, FlashOk

(* A step that leaves the flash and the tables alone.                      *)
LEMMA StackOnly ==
  ASSUME IInv, UNCHANGED <<use, flash, mem>>,
         Stands(flash, Sectors, use.names, use.cached, mem, stack'),
         events' \subseteq {"relocate", "defrag"},
         result' \in {"none", "ok", "error"}, failed' \in BOOLEAN,
         moved' \in Nat, calls' \in 0 .. use.calls, resets' \in 0 .. use.resets
  PROVE  IInv'
<1>1. use' = use /\ flash' = flash /\ mem' = mem
  OBVIOUS
<1>2. FlashOk(flash', Sectors, use.names) /\ mem' \in TablesIn(Sectors)
  BY <1>1, InvParts
<1>3. Stands(flash', Sectors, use.names, use.cached, mem', stack')
  BY <1>1
<1> QED BY <1>1, <1>2, <1>3, Preserved

LEMMA WriteAt ==
  ASSUME NEW f \in WriteFrames,
         NEW at \in {"urgent", "low", "lookup", "namespace", "exhausted", "decide", "stored"},
         NEW low \in BOOLEAN
  PROVE  /\ [f EXCEPT !.at = at] \in WriteFrames /\ [f EXCEPT !.at = at].at = at
         /\ [f EXCEPT !.at = at].tok = f.tok /\ [f EXCEPT !.at = at].val = f.val
         /\ [f EXCEPT !.at = at, !.low = low] \in WriteFrames
         /\ [f EXCEPT !.at = at, !.low = low].at = at
         /\ [f EXCEPT !.low = low, !.at = at] \in WriteFrames
         /\ [f EXCEPT !.low = low, !.at = at].at = at
         /\ at \in {"urgent", "low", "namespace", "exhausted"} =>
              /\ [f EXCEPT !.at = at] \in Waiting /\ [f EXCEPT !.low = low, !.at = at] \in Waiting
BY DEF WriteFrames, Waiting

LEMMA BeginKeeps ==
  ASSUME IInv, NEW f, Begin(f), Stands(flash, Sectors, use.names, use.cached, mem, <<f>>)
  PROVE  IInv'
<1>1. calls' \in 0 .. use.calls
  BY InvParts DEF Begin, CanCall
<1> QED BY <1>1, InvParts, StackOnly DEF Begin

LEMMA WriteKeeps ==
  ASSUME IInv, NEW t \in Tokens, NEW v \in Payloads, Begin(WriteOf(t, v))
  PROVE  IInv'
<1>1. WriteOf(t, v) \in WriteFrames /\ WriteOf(t, v).at = "urgent"
  BY DEF WriteOf, WriteFrames
<1>2. Kept(flash, Sectors, use.names, mem, NoSector)
  BY InvParts, StandsShapes DEF Begin, CanCall, Idle
<1>3. Stands(flash, Sectors, use.names, use.cached, mem, <<WriteOf(t, v)>>)
  BY <1>1, <1>2, ShapesStand
<1> QED BY <1>3, BeginKeeps

LEMMA EraseKeeps ==
  ASSUME IInv, ErasePool
  PROVE  IInv'
<1>1. EraseFrame \in EraseFrames(Sectors) /\ EraseFrame.at = "flag"
  BY InvParts DEF EraseFrame, EraseFrames
<1>2. Stands(flash, Sectors, use.names, use.cached, mem, <<EraseFrame>>)
  BY <1>1, ShapesStand
<1> QED BY <1>2, BeginKeeps DEF ErasePool

(* Relocation is begun, for a call or an event that waits.                 *)
LEMMA RelocateBegins ==
  ASSUME IInv, use' = use, flash' = flash, NEW m \in TablesIn(Sectors),
         Kept(flash, Sectors, use.names, m, NoSector), NEW s \in InUse(m),
         mem' = Relocating(m, s), NEW b \in Waiting, stack' = <<RelocateOf(s), b>>,
         events' \subseteq {"relocate", "defrag"},
         result' \in {"none", "ok", "error"}, failed' \in BOOLEAN,
         moved' \in Nat, calls' \in 0 .. use.calls, resets' \in 0 .. use.resets
  PROVE  IInv'
<1>1. /\ Relocating(m, s) \in TablesIn(Sectors) /\ RelocateOf(s) \in RelocateFrames(Sectors)
      /\ Kept(flash, Sectors, use.names, Relocating(m, s), NoSector)
      /\ Moves(flash, Sectors, use.cached, Relocating(m, s), RelocateOf(s), {})
  BY InvParts, RelocatingIs
<1>2. Stands(flash, Sectors, use.names, use.cached, Relocating(m, s), <<RelocateOf(s), b>>)
  BY <1>1, ShapesStand
<1>3. FlashOk(flash', Sectors, use.names) /\ mem' \in TablesIn(Sectors)
  BY <1>1, InvParts
<1>4. Stands(flash', Sectors, use.names, use.cached, mem', stack')
  BY <1>2
<1> QED BY <1>3, <1>4, Preserved

LEMMA AfterIs ==
  ASSUME NEW ev \in {"relocate", "defrag"}, NEW more \in BOOLEAN
  PROVE  AfterFrame(ev, more) \in Waiting /\ AfterFrame(ev, more) \in AfterFrames
BY DEF AfterFrame, AfterFrames, Waiting

LEMMA RunRelocateKeeps ==
  ASSUME IInv, RunRelocate PROVE IInv'
<1> DEFINE s == OldestSec(mem.seqs)
<1>1. stack = <<>> /\ Kept(flash, Sectors, use.names, mem, NoSector)
  BY InvParts, StandsShapes DEF RunRelocate, Idle
<1>2. /\ use' = use /\ flash' = flash /\ events' \subseteq {"relocate", "defrag"}
      /\ result' \in {"none", "ok", "error"} /\ moved' \in Nat
      /\ calls' \in 0 .. use.calls /\ resets' \in 0 .. use.resets
  BY InvParts DEF RunRelocate
<1>3. CASE s \in InUse(mem)
  <2>1. /\ stack' = <<RelocateOf(s), AfterFrame("relocate", FALSE)>>
        /\ mem' = Relocating(mem, s) /\ failed' = failed
    BY <1>3 DEF RunRelocate
  <2>2. AfterFrame("relocate", FALSE) \in Waiting
    BY AfterIs
  <2> HIDE DEF s
  <2>3. failed' \in BOOLEAN /\ mem \in TablesIn(Sectors)
    BY <2>1, InvParts
  <2> QED BY <1>1, <1>2, <1>3, <2>1, <2>2, <2>3, RelocateBegins
<1>4. CASE s \notin InUse(mem)
  <2>1. failed' = TRUE /\ stack' = stack /\ mem' = mem
    BY <1>4 DEF RunRelocate
  <2>2. Stands(flash, Sectors, use.names, use.cached, mem, stack')
    BY <2>1, InvParts
  <2> QED BY <1>2, <2>1, <2>2, StackOnly
<1> QED BY <1>3, <1>4

LEMMA ReclaimableIs ==
  ASSUME use \in Uses, NEW m, Reclaimable(m) # {}
  PROVE  Min(Reclaimable(m)) \in InUse(m)
<1>1. Reclaimable(m) \subseteq InUse(m) /\ InUse(m) \subseteq Sectors
  BY DEF Reclaimable, InUse
<1>2. Sectors \subseteq Nat
  BY NumbersOfSectors
<1>3. Reclaimable(m) \in SUBSET Nat
  BY <1>1, <1>2
<1>4. Min(Reclaimable(m)) \in Reclaimable(m)
  BY <1>3, MinIs
<1> QED BY <1>1, <1>4

LEMMA RunDefragKeeps ==
  ASSUME IInv, RunDefrag PROVE IInv'
<1> DEFINE C == Reclaimable(mem)
<1>1. stack = <<>> /\ Kept(flash, Sectors, use.names, mem, NoSector)
  BY InvParts, StandsShapes DEF RunDefrag, Idle
<1>2. /\ use' = use /\ flash' = flash /\ events' \subseteq {"relocate", "defrag"}
      /\ result' \in {"none", "ok", "error"} /\ moved' \in Nat /\ failed' \in BOOLEAN
      /\ calls' \in 0 .. use.calls /\ resets' \in 0 .. use.resets
  BY InvParts DEF RunDefrag
<1>3. CASE C # {}
  <2>1. /\ stack' = <<RelocateOf(Min(C)), AfterFrame("defrag", Cardinality(C) > 1)>>
        /\ mem' = Relocating(mem, Min(C))
    BY <1>3 DEF RunDefrag
  <2>2. AfterFrame("defrag", Cardinality(C) > 1) \in Waiting
    <3> DEFINE more == Cardinality(C) > 1
    <3>1. more \in BOOLEAN
      OBVIOUS
    <3> HIDE DEF more
    <3>2. AfterFrame("defrag", more) \in Waiting
      BY <3>1, AfterIs
    <3> QED BY <3>2 DEF more
  <2>3. Min(C) \in InUse(mem) /\ mem \in TablesIn(Sectors)
    BY <1>3, InvParts, ReclaimableIs
  <2> HIDE DEF C
  <2> QED BY <1>1, <1>2, <2>1, <2>2, <2>3, RelocateBegins
<1>4. CASE C = {}
  <2>1. stack' = stack /\ mem' = mem
    BY <1>4 DEF RunDefrag
  <2>2. Stands(flash, Sectors, use.names, use.cached, mem, stack')
    BY <2>1, InvParts
  <2> QED BY <1>2, <2>1, <2>2, StackOnly
<1> QED BY <1>3, <1>4

LEMMA EndEventKeeps ==
  ASSUME IInv, EndEvent PROVE IInv'
<1>1. /\ Head(stack) \in AfterFrames /\ Tail(stack) = <<>>
      /\ Kept(flash, Sectors, use.names, mem, NoSector)
  BY InvParts, StandsShapes DEF EndEvent, Idle, Top
<1>2. Stands(flash, Sectors, use.names, use.cached, mem, <<>>)
  BY <1>1, ShapesStand
<1>3. events' \subseteq {"relocate", "defrag"}
  <2>1. Top.event \in {"relocate", "defrag"}
    BY <1>1 DEF AfterFrames, Top
  <2> QED BY <2>1, InvParts DEF EndEvent
<1>4. stack' = <<>>
  BY <1>1 DEF EndEvent, Return
<1> QED BY <1>2, <1>3, <1>4, InvParts, StackOnly DEF EndEvent
-----------------------------------------------------------------------------
(***************************************************************************)
(* Nvm_Write.                                                              *)
(***************************************************************************)

(* A write is on top.                                                      *)
LEMMA WriteOnTop ==
  ASSUME IInv, NEW at, At("write", at)
  PROVE  /\ Top \in WriteFrames /\ Top.at = at /\ stack = <<Top>> /\ Tail(stack) = <<>>
         /\ Kept(flash, Sectors, use.names, mem, NoSector)
         /\ Top.at = "decide" => Joins(mem, Top.tok)
<1>1. stack # <<>> /\ Head(stack).op = "write" /\ Head(stack).at = at
  BY DEF At, Idle, Top
<1> QED BY <1>1, InvParts, StandsShapes DEF Top

(* It goes on.                                                             *)
LEMMA WriteGoesOn ==
  ASSUME IInv, UNCHANGED <<use, flash, events, failed, moved, calls, resets>>,
         NEW m \in TablesIn(Sectors), mem' = m, Kept(flash, Sectors, use.names, m, NoSector),
         NEW f \in WriteFrames, f.at = "decide" => Joins(m, f.tok), stack' = <<f>>,
         result' \in {"none", "ok", "error"}
  PROVE  IInv'
<1>1. Stands(flash', Sectors, use.names, use.cached, mem', stack')
  BY ShapesStand
<1>2. FlashOk(flash', Sectors, use.names) /\ mem' \in TablesIn(Sectors)
  BY InvParts
<1> QED BY <1>1, <1>2, InvParts, Preserved

(* ... or returns.                                                         *)
LEMMA WriteReturns ==
  ASSUME IInv, UNCHANGED <<use, flash, failed, moved, calls, resets>>,
         events' \subseteq {"relocate", "defrag"},
         NEW m \in TablesIn(Sectors), mem' = m, Kept(flash, Sectors, use.names, m, NoSector),
         stack' = <<>>, result' \in {"none", "ok", "error"}
  PROVE  IInv'
<1>1. Stands(flash', Sectors, use.names, use.cached, mem', stack')
  BY ShapesStand
<1>2. FlashOk(flash', Sectors, use.names) /\ mem' \in TablesIn(Sectors)
  BY InvParts
<1> QED BY <1>1, <1>2, InvParts, Preserved

LEMMA UrgentKeeps ==
  ASSUME IInv, Urgent PROVE IInv'
<1> DEFINE C == Reclaimable(mem)
           done == (~Top.low /\ ~IsUrgent) \/ C = {}
<1>1. /\ Top \in WriteFrames /\ Kept(flash, Sectors, use.names, mem, NoSector)
      /\ mem \in TablesIn(Sectors)
  BY WriteOnTop, InvParts DEF Urgent
<1>2. UNCHANGED <<use, flash, events, result, failed, moved, calls, resets>>
  BY DEF Urgent
<1>3. CASE done
  <2> DEFINE low == IsUrgent
             f == [Top EXCEPT !.at = "lookup", !.low = low]
  <2>1. stack' = <<f>> /\ mem' = mem
    BY <1>3 DEF Urgent
  <2>2. low \in BOOLEAN
    BY DEF IsUrgent
  <2> HIDE DEF low
  <2>3. f \in WriteFrames /\ f.at = "lookup"
    BY <1>1, <2>2 DEF WriteFrames
  <2> HIDE DEF f
  <2>4. result' \in {"none", "ok", "error"}
    BY <1>2, InvParts
  <2> QED BY <1>1, <1>2, <2>1, <2>3, <2>4, WriteGoesOn
<1>4. CASE ~done
  <2> DEFINE at == IF Cardinality(C) > 1 THEN "urgent" ELSE "low"
             b == [Top EXCEPT !.low = TRUE, !.at = at]
  <2>1. mem' = Relocating(mem, Min(C)) /\ stack' = <<RelocateOf(Min(C)), b>>
    BY <1>4 DEF Urgent
  <2>2. Min(C) \in InUse(mem)
    BY <1>4, InvParts, ReclaimableIs
  <2>3. at \in {"urgent", "low"}
    OBVIOUS
  <2> HIDE DEF C, at
  <2>4. b \in Waiting
    BY <1>1, <2>3, WriteAt
  <2> HIDE DEF b
  <2> QED BY <1>1, <1>2, <2>1, <2>2, <2>4, InvParts, RelocateBegins
<1> QED BY <1>3, <1>4

LEMMA LowOnSpaceKeeps ==
  ASSUME IInv, LowOnSpace PROVE IInv'
<1> DEFINE low == IsUrgent
           f == [Top EXCEPT !.at = "lookup", !.low = low]
<1>1. /\ Top \in WriteFrames /\ Kept(flash, Sectors, use.names, mem, NoSector)
      /\ mem \in TablesIn(Sectors)
  BY WriteOnTop, InvParts DEF LowOnSpace
<1>2. stack' = <<f>> /\ UNCHANGED <<use, flash, mem, events, result, failed, moved, calls, resets>>
  BY DEF LowOnSpace
<1>3. low \in BOOLEAN
  BY DEF IsUrgent
<1> HIDE DEF low
<1>4. f \in WriteFrames /\ f.at = "lookup"
  BY <1>1, <1>3 DEF WriteFrames
<1> HIDE DEF f
<1>5. result' \in {"none", "ok", "error"} /\ mem' = mem
  BY <1>2, InvParts
<1> QED BY <1>1, <1>2, <1>4, <1>5, WriteGoesOn

LEMMA GotoIs ==
  ASSUME IInv, Top \in WriteFrames, stack = <<Top>>,
         NEW at \in {"urgent", "low", "lookup", "namespace", "exhausted", "decide", "stored"}
  PROVE  /\ [Top EXCEPT !.at = at] \in WriteFrames /\ [Top EXCEPT !.at = at].at = at
         /\ [Top EXCEPT !.at = at].tok = Top.tok
         /\ Goto(at) <=> stack' = <<[Top EXCEPT !.at = at]>>
         /\ \A f : CallingAt(f, at) <=> stack' = <<f, [Top EXCEPT !.at = at]>>
         /\ Return <=> stack' = <<>>
<1>1. Tail(stack) = <<>>
  BY Tuples
<1>2. [Top EXCEPT !.at = at] \in WriteFrames /\ [Top EXCEPT !.at = at].at = at
      /\ [Top EXCEPT !.at = at].tok = Top.tok
  BY DEF WriteFrames
<1> DEFINE g == [Top EXCEPT !.at = at]
<1>3. <<g>> \o <<>> = <<g>> /\ \A f : <<f, g>> \o <<>> = <<f, g>>
  <2> HIDE DEF g
  <2> QED OBVIOUS
<1> QED BY <1>1, <1>2, <1>3 DEF Goto, CallingAt, Return

LEMMA CountOne ==
  ASSUME use.names \in Nat, NEW m \in TablesIn(Sectors),
         Kept(flash, Sectors, use.names, m, NoSector), ~IsNamespaceExhausted(m)
  PROVE  LET j == [m EXCEPT !.unique = @ + 1]
         IN  /\ j \in TablesIn(Sectors) /\ Kept(flash, Sectors, use.names, j, NoSector)
             /\ \A t : Joins(j, t)
<1> DEFINE j == [m EXCEPT !.unique = @ + 1]
<1>1. /\ j \in TablesIn(Sectors) /\ j.phys = m.phys /\ j.lut = m.lut /\ j.unique = m.unique + 1
      /\ m.unique \in Nat /\ m.lut \in Seq(ItemsIn(Sectors))
  <2>1. m.unique \in Nat /\ m.lut \in Seq(ItemsIn(Sectors)) /\ m.unique + 1 \in Nat
    BY TablesParts
  <2>2. j = [m EXCEPT !.unique = m.unique + 1]
    OBVIOUS
  <2> DEFINE u == m.unique + 1
  <2> HIDE DEF u
  <2>3. LET i == [m EXCEPT !.unique = u]
        IN  i \in TablesIn(Sectors) /\ i.phys = m.phys /\ i.lut = m.lut /\ i.unique = u
    BY <2>1 DEF TablesIn, u
  <2> QED BY <2>1, <2>2, <2>3 DEF u
<1>2. m.unique < use.names /\ Len(m.lut) <= m.unique /\ Len(m.lut) \in Nat
  BY <1>1 DEF Kept, IsNamespaceExhausted
<1> HIDE DEF j
<1>3. Kept(flash, Sectors, use.names, j, NoSector)
  BY <1>1, <1>2 DEF Kept
<1>4. \A t : Joins(j, t)
  BY <1>1, <1>2 DEF Joins
<1> QED BY <1>1, <1>3, <1>4 DEF j

LEMMA ListedIs ==
  ASSUME NEW m, NEW t
  PROVE  IsListed(m, t) <=> \E k \in DOMAIN m.lut : m.lut[k].tok = t
BY DEF IsListed, ItemOf

LEMMA LookupPreviousKeeps ==
  ASSUME IInv, LookupPrevious PROVE IInv'
<1> DEFINE m == Fresh(mem)
<1>1. /\ Top \in WriteFrames /\ stack = <<Top>> /\ Kept(flash, Sectors, use.names, mem, NoSector)
      /\ mem \in TablesIn(Sectors)
  BY WriteOnTop, InvParts DEF LookupPrevious
<1>2. UNCHANGED <<use, flash, events, failed, moved, calls, resets>>
  BY DEF LookupPrevious
<1>3. m \in TablesIn(Sectors) /\ Kept(flash, Sectors, use.names, m, NoSector)
  BY <1>1, InvParts, FreshIs DEF Refreshed
<1>4. result \in {"none", "ok", "error"}
  BY InvParts
<1>5. CASE ~IsListed(m, Top.tok) /\ IsNamespaceExhausted(m)
  <2>1. Goto("namespace") /\ mem' = m /\ result' = result
    BY <1>5 DEF LookupPrevious
  <2>2. stack' = <<[Top EXCEPT !.at = "namespace"]>> /\ [Top EXCEPT !.at = "namespace"] \in WriteFrames
        /\ [Top EXCEPT !.at = "namespace"].at = "namespace"
    BY <1>1, <2>1, GotoIs
  <2> QED BY <1>2, <1>3, <1>4, <2>1, <2>2, WriteGoesOn
<1>6. CASE ~IsListed(m, Top.tok) /\ ~IsNamespaceExhausted(m)
  <2> DEFINE j == [m EXCEPT !.unique = @ + 1]
  <2>1. Goto("decide") /\ mem' = j /\ result' = result
    BY <1>6 DEF LookupPrevious
  <2>2. stack' = <<[Top EXCEPT !.at = "decide"]>> /\ [Top EXCEPT !.at = "decide"] \in WriteFrames
    BY <1>1, <2>1, GotoIs
  <2> HIDE DEF m
  <2>3. j \in TablesIn(Sectors) /\ Kept(flash, Sectors, use.names, j, NoSector) /\ \A t : Joins(j, t)
    BY <1>3, <1>6, InvParts, CountOne
  <2> HIDE DEF j
  <2> QED BY <1>2, <1>4, <2>1, <2>2, <2>3, WriteGoesOn
<1>7. CASE IsListed(m, Top.tok) /\ Lookup(m, Top.tok) = Top.val
  <2>1. Answer("ok") /\ mem' = m
    BY <1>7 DEF LookupPrevious
  <2>2. stack' = <<>> /\ result' = "ok" /\ events' \subseteq {"relocate", "defrag"}
    BY <1>1, <1>2, <2>1, InvParts, Tuples DEF Answer, Return
  <2> QED BY <1>2, <1>3, <2>1, <2>2, WriteReturns
<1>8. CASE IsListed(m, Top.tok) /\ Lookup(m, Top.tok) # Top.val
  <2>1. Goto("decide") /\ mem' = m /\ result' = result
    BY <1>8 DEF LookupPrevious
  <2> DEFINE f == [Top EXCEPT !.at = "decide"]
  <2>2. stack' = <<f>> /\ f \in WriteFrames /\ f.tok = Top.tok
    BY <1>1, <2>1, GotoIs
  <2>3. Joins(m, Top.tok)
    BY <1>8, ListedIs DEF Joins
  <2> HIDE DEF f
  <2>4. Joins(m, f.tok)
    BY <2>2, <2>3
  <2> QED BY <1>2, <1>3, <1>4, <2>1, <2>2, <2>4, WriteGoesOn
<1> QED BY <1>5, <1>6, <1>7, <1>8

LEMMA CleanNamespaceKeeps ==
  ASSUME IInv, CleanNamespace PROVE IInv'
<1> DEFINE m == FreshAll(mem)
           n == Namespace(m)
<1>1. /\ Top \in WriteFrames /\ stack = <<Top>> /\ Kept(flash, Sectors, use.names, mem, NoSector)
      /\ mem \in TablesIn(Sectors)
  BY WriteOnTop, InvParts DEF CleanNamespace
<1>2. UNCHANGED <<use, flash, events, result, failed, moved, calls, resets>>
  BY DEF CleanNamespace
<1>3. m \in TablesIn(Sectors) /\ Kept(flash, Sectors, use.names, m, NoSector)
  BY <1>1, InvParts, FreshIs DEF Refreshed
<1>4. result' \in {"none", "ok", "error"}
  BY <1>2, InvParts
<1>5. CASE n.count = 0
  <2>1. Goto("exhausted") /\ mem' = m
    BY <1>5 DEF CleanNamespace
  <2>2. stack' = <<[Top EXCEPT !.at = "exhausted"]>> /\ [Top EXCEPT !.at = "exhausted"] \in WriteFrames
        /\ [Top EXCEPT !.at = "exhausted"].at = "exhausted"
    BY <1>1, <2>1, GotoIs
  <2> QED BY <1>2, <1>3, <1>4, <2>1, <2>2, WriteGoesOn
<1>6. CASE n.count # 0
  <2> DEFINE at == IF n.count > 1 THEN "namespace" ELSE "exhausted"
             b == [Top EXCEPT !.at = at]
             s == n.selected
  <2>1. CallingAt(RelocateOf(s), at) /\ mem' = Relocating(m, s)
    BY <1>6 DEF CleanNamespace
  <2>2. s \in InUse(m)
    <3>1. PhysTyped(m) /\ FlashTyped /\ m.lut \in Seq(Items)
      BY <1>3, InvParts, Bridges, TablesParts DEF PhysTyped, MapIn
    <3> HIDE DEF m
    <3> QED BY <1>6, <3>1, InvParts, NamespaceIs
  <2>3. at \in {"namespace", "exhausted"}
    OBVIOUS
  <2> HIDE DEF at, s
  <2>4. b \in Waiting
    BY <1>1, <2>3, WriteAt
  <2>5. stack' = <<RelocateOf(s), b>>
    BY <1>1, <2>1, <2>3, GotoIs
  <2> HIDE DEF b, m
  <2> QED BY <1>2, <1>3, <2>1, <2>2, <2>4, <2>5, InvParts, RelocateBegins
<1> QED BY <1>5, <1>6

LEMMA AfterNamespaceKeeps ==
  ASSUME IInv, AfterNamespace PROVE IInv'
<1>1. /\ Top \in WriteFrames /\ stack = <<Top>> /\ Kept(flash, Sectors, use.names, mem, NoSector)
      /\ mem \in TablesIn(Sectors)
  BY WriteOnTop, InvParts DEF AfterNamespace
<1>2. UNCHANGED <<use, flash, events, failed, moved, calls, resets>>
  BY DEF AfterNamespace
<1>3. CASE IsNamespaceExhausted(mem)
  <2>1. Answer("error") /\ mem' = mem
    BY <1>3 DEF AfterNamespace
  <2>2. stack' = <<>> /\ result' = "error" /\ events' \subseteq {"relocate", "defrag"}
    BY <1>1, <1>2, <2>1, InvParts, Tuples DEF Answer, Return
  <2> QED BY <1>1, <1>2, <2>1, <2>2, WriteReturns
<1>4. CASE ~IsNamespaceExhausted(mem)
  <2> DEFINE j == [mem EXCEPT !.unique = @ + 1]
  <2>1. Goto("decide") /\ mem' = j /\ result' = result
    BY <1>4 DEF AfterNamespace
  <2>2. stack' = <<[Top EXCEPT !.at = "decide"]>> /\ [Top EXCEPT !.at = "decide"] \in WriteFrames
    BY <1>1, <2>1, GotoIs
  <2>3. j \in TablesIn(Sectors) /\ Kept(flash, Sectors, use.names, j, NoSector) /\ \A t : Joins(j, t)
    BY <1>1, <1>4, InvParts, CountOne
  <2> HIDE DEF j
  <2>4. result' \in {"none", "ok", "error"}
    BY <2>1, InvParts
  <2> QED BY <1>2, <2>1, <2>2, <2>3, <2>4, WriteGoesOn
<1> QED BY <1>3, <1>4

(* The version before.                                                     *)
LEMMA ItemIs ==
  ASSUME use \in Uses, flash \in FlashIn(Sectors), NEW m \in TablesIn(Sectors),
         NEW open, Kept(flash, Sectors, use.names, m, open), NEW k \in DOMAIN m.lut
  PROVE  /\ m.lut[k] \in ItemsIn(Sectors) /\ m.lut[k].tok \in Tokens /\ m.lut[k].sec \in Sectors
         /\ m.phys[m.lut[k].sec] \in Sectors /\ m.phys[m.lut[k].sec] # NoSector
         /\ RecordAt(m, m.lut[k]) \in Record
         /\ RecordAt(m, m.lut[k]) = flash[m.phys[m.lut[k].sec]].page[m.lut[k].page][m.lut[k].idx]
         /\ RecordAt(m, m.lut[k]).tok = m.lut[k].tok
<1>1. m.lut \in Seq(ItemsIn(Sectors)) /\ m.phys \in MapIn(Sectors) /\ NoSector \notin Sectors
  BY TablesParts, NumbersOfSectors
<1>2. m.lut[k] \in ItemsIn(Sectors)
  BY <1>1
<1>3. Leads(flash, Sectors, m.phys, m.lut[k])
  BY DEF Kept, ListsIn
<1>4. m.phys[m.lut[k].sec] \in Sectors
  BY <1>1, <1>3 DEF Leads, MapIn
<1>5. RecordAt(m, m.lut[k]) = flash[m.phys[m.lut[k].sec]].page[m.lut[k].page][m.lut[k].idx]
  BY DEF RecordAt, PageOf
<1>6. RecordAt(m, m.lut[k]) \in Record /\ RecordAt(m, m.lut[k]).tok = m.lut[k].tok
  <2>1. /\ m.lut[k].page \in Pages
        /\ m.lut[k].idx \in DOMAIN flash[m.phys[m.lut[k].sec]].page[m.lut[k].page]
        /\ flash[m.phys[m.lut[k].sec]].page[m.lut[k].page][m.lut[k].idx].tok = m.lut[k].tok
    BY <1>3 DEF Leads
  <2>2. flash[m.phys[m.lut[k].sec]].page[m.lut[k].page][m.lut[k].idx] \in Record
    <3>1. \A p \in Sectors, g \in Pages : \A i \in DOMAIN flash[p].page[g] :
            flash[p].page[g][i] \in Record
      BY <1>1, ValidIs
    <3> QED BY <1>4, <2>1, <3>1
  <2> QED BY <1>5, <2>1, <2>2
<1>7. m.lut[k].tok \in Tokens /\ m.lut[k].sec \in Sectors
  BY <1>2 DEF ItemsIn
<1> QED BY <1>2, <1>3, <1>4, <1>5, <1>6, <1>7 DEF Leads

LEMMA PrevIs ==
  ASSUME use \in Uses, flash \in FlashIn(Sectors), NEW m \in TablesIn(Sectors),
         Kept(flash, Sectors, use.names, m, NoSector), NEW t
  PROVE  PrevOf(m, t) \in [sec : Sectors \cup {NoSector}, val : Payloads]
<1> DEFINE k == CHOOSE k \in ItemOf(m, t) : TRUE
<1>1. CASE IsListed(m, t)
  <2>1. k \in ItemOf(m, t)
    BY <1>1 DEF IsListed
  <2>2. k \in DOMAIN m.lut
    BY <2>1 DEF ItemOf
  <2>3. PrevOf(m, t) = [sec |-> m.lut[k].sec, val |-> RecordAt(m, m.lut[k]).val]
    BY <1>1 DEF PrevOf, Lookup, IsListed
  <2> HIDE DEF k
  <2>4. m.lut[k].sec \in Sectors /\ RecordAt(m, m.lut[k]).val \in Payloads
    BY <2>2, ItemIs DEF Record
  <2> QED BY <2>3, <2>4
<1>2. CASE ~IsListed(m, t)
  BY <1>2 DEF PrevOf, NoPrev, Payloads
<1> QED BY <1>1, <1>2

LEMMA DecideKeeps ==
  ASSUME IInv, Decide PROVE IInv'
<1> DEFINE prev   == PrevOf(mem, Top.tok)
           frees  == /\ prev.sec # NoSector
                     /\ prev.val = Removed \/ Length[Top.val] <= Length[prev.val]
           refuse == /\ Top.low /\ ~frees
                     /\ IsFull \/ Fits(mem, SizeOf(Top.val)) = {}
<1>1. /\ Top \in WriteFrames /\ stack = <<Top>> /\ Kept(flash, Sectors, use.names, mem, NoSector)
      /\ mem \in TablesIn(Sectors) /\ Joins(mem, Top.tok)
  BY WriteOnTop, InvParts DEF Decide
<1>2. UNCHANGED <<use, flash, mem, events, failed, moved, calls, resets>>
  BY DEF Decide
<1>3. CASE refuse
  <2>1. Answer("error")
    BY <1>3 DEF Decide
  <2>2. stack' = <<>> /\ result' = "error" /\ events' \subseteq {"relocate", "defrag"} /\ mem' = mem
    BY <1>1, <1>2, <2>1, InvParts, Tuples DEF Answer, Return
  <2> QED BY <1>1, <1>2, <2>2, WriteReturns
<1>4. CASE ~refuse
  <2> DEFINE b == [Top EXCEPT !.at = "stored"]
             f == AddOf(Top.tok, Top.val, prev)
  <2>1. CallingAt(f, "stored") /\ result' = result
    BY <1>4 DEF Decide
  <2>2. stack' = <<f, b>>
    BY <1>1, <2>1, GotoIs
  <2>3. b \in WriteFrames /\ b.at = "stored" /\ b.tok = Top.tok /\ b.val = Top.val
    BY <1>1, WriteAt
  <2>4. prev \in [sec : Sectors \cup {NoSector}, val : Payloads]
    BY <1>1, InvParts, PrevIs
  <2> HIDE DEF prev
  <2>5. /\ f \in AddFrames(Sectors) /\ f.at = "allocate" /\ f.tok = Top.tok /\ f.val = Top.val
    BY <1>1, <2>4 DEF AddOf, AddFrames, WriteFrames
  <2> HIDE DEF f, b
  <2>6. Adds(flash, Sectors, mem, f, {}) /\ OpenBy(f) = NoSector
    BY <2>5 DEF Adds, OpenBy
  <2>7. Adding(flash, Sectors, use.names, use.cached, mem, f, <<b>>)
    BY <1>1, <2>3, <2>5, <2>6 DEF Adding
  <2>8. Stands(flash, Sectors, use.names, use.cached, mem, <<f>> \o <<b>>)
    BY <2>5, <2>7, ShapesStand
  <2>9. Stands(flash, Sectors, use.names, use.cached, mem, stack')
    <3>1. <<f>> \o <<b>> = <<f, b>>
      BY Tuples
    <3> QED BY <2>2, <2>8, <3>1
  <2> QED BY <1>2, <2>1, <2>9, InvParts, StackOnly
<1> QED BY <1>3, <1>4

LEMMA FinishKeeps ==
  ASSUME IInv, Finish PROVE IInv'
<1>1. /\ stack = <<Top>> /\ Kept(flash, Sectors, use.names, mem, NoSector)
      /\ mem \in TablesIn(Sectors) /\ Tail(stack) = <<>>
  BY WriteOnTop, InvParts DEF Finish
<1>2. UNCHANGED <<use, flash, failed, moved, calls, resets>> /\ mem' = mem
  BY DEF Finish
<1>3. events' \subseteq {"relocate", "defrag"}
  BY InvParts DEF Finish
<1>4. stack' = <<>> /\ result' = "ok"
  BY <1>1 DEF Finish, Answer, Return
<1> QED BY <1>1, <1>2, <1>3, <1>4, WriteReturns
-----------------------------------------------------------------------------
(***************************************************************************)
(* Nvm_LogSector_RelocateActiveData.                                       *)
(***************************************************************************)

(* A relocation is on top.                                                 *)
LEMMA RelocateOnTop ==
  ASSUME IInv, InRelocate
  PROVE  /\ Top \in RelocateFrames(Sectors) /\ \E b \in Waiting : Tail(stack) = <<b>>
         /\ Kept(flash, Sectors, use.names, mem, NoSector)
         /\ Moves(flash, Sectors, use.cached, mem, Top, {})
<1>1. stack # <<>> /\ Head(stack).op = "relocate"
  BY DEF InRelocate, Idle, Top
<1> QED BY <1>1, InvParts, StandsShapes DEF Top

(* A relocation that goes on with the next item.                           *)
LEMMA MovesOn ==
  ASSUME NEW F, NEW S, NEW c, NEW m, m.lut \in Seq(ItemsIn(S)), NEW r \in RelocateFrames(S),
         Moves(F, S, c, m, r, {}), NEW k \in DOMAIN m.lut, k >= r.next, m.lut[k].sec = r.sec,
         \A j \in DOMAIN m.lut : j >= r.next /\ m.lut[j].sec = r.sec => k <= j
  PROVE  LET on == [r EXCEPT !.next = k + 1]
         IN  /\ on \in RelocateFrames(S) /\ on.sec = r.sec
             /\ Moves(F, S, c, m, on, {m.lut[k].tok})
             /\ [on EXCEPT !.reset = TRUE] \in RelocateFrames(S)
             /\ Moves(F, S, c, m, [on EXCEPT !.reset = TRUE], {})
<1> DEFINE on == [r EXCEPT !.next = k + 1]
           gone == [on EXCEPT !.reset = TRUE]
<1>1. DOMAIN m.lut = 1 .. Len(m.lut) /\ Len(m.lut) \in Nat /\ k \in Nat /\ k + 1 \in Nat \ {0}
  BY DEF ItemsIn
<1>2. /\ on \in RelocateFrames(S) /\ on.sec = r.sec /\ on.next = k + 1 /\ on.reset = r.reset
      /\ gone \in RelocateFrames(S) /\ gone.sec = r.sec /\ gone.next = k + 1 /\ gone.reset = TRUE
  BY <1>1 DEF RelocateFrames
<1>3. r.next \in Nat
  BY DEF RelocateFrames
<1> HIDE DEF on, gone
<1>4. \A j \in DOMAIN m.lut : j < k + 1 /\ m.lut[j].sec = r.sec => r.reset \/ j = k
  <2> TAKE j \in DOMAIN m.lut
  <2>1. j < r.next /\ m.lut[j].sec = r.sec => r.reset
    BY DEF Moves
  <2> QED BY <1>1, <1>3, <2>1
<1>5. ~c => Exact(F, S, m, k + 1)
  BY <1>1, <1>3 DEF Moves, Exact
<1>6. r.sec \in S /\ m.phys[r.sec] # NoSector /\ r.sec \in m.locked
  BY DEF Moves
<1>7. Moves(F, S, c, m, on, {m.lut[k].tok})
  <2>1. \E j \in DOMAIN m.lut : j < k + 1 /\ m.lut[j].tok = m.lut[k].tok
    BY <1>1
  <2> QED BY <1>2, <1>4, <1>5, <1>6, <2>1 DEF Moves
<1>8. Moves(F, S, c, m, gone, {})
  BY <1>2, <1>5, <1>6 DEF Moves
<1> QED BY <1>2, <1>7, <1>8 DEF on, gone

LEMMA ComingIs ==
  ASSUME IInv, InRelocate, Coming # {}
  PROVE  /\ Min(Coming) \in DOMAIN mem.lut /\ Min(Coming) >= Top.next
         /\ mem.lut[Min(Coming)].sec = Top.sec
         /\ \A j \in DOMAIN mem.lut : j >= Top.next /\ mem.lut[j].sec = Top.sec => Min(Coming) <= j
<1>1. Coming \subseteq Nat
  BY InvParts DEF Coming
<1>2. Min(Coming) \in Coming /\ \A j \in Coming : Min(Coming) <= j
  BY <1>1, MinIs
<1> QED BY <1>2 DEF Coming

LEMMA CopyOrDropKeeps ==
  ASSUME IInv, CopyOrDrop PROVE IInv'
<1> DEFINE k  == Min(Coming)
           it == mem.lut[k]
           v  == RecordAt(mem, it).val
           on == [Top EXCEPT !.next = k + 1]
           gone == [on EXCEPT !.reset = TRUE]
           f == AddOf(it.tok, v, [sec |-> it.sec, val |-> v])
<1>0. InRelocate /\ Coming # {}
  BY DEF CopyOrDrop
<1>1. /\ Top \in RelocateFrames(Sectors) /\ Kept(flash, Sectors, use.names, mem, NoSector)
      /\ Moves(flash, Sectors, use.cached, mem, Top, {})
  BY <1>0, RelocateOnTop
<1>2. PICK b \in Waiting : Tail(stack) = <<b>>
  BY <1>0, RelocateOnTop
<1>3. /\ k \in DOMAIN mem.lut /\ k >= Top.next /\ it.sec = Top.sec
      /\ \A j \in DOMAIN mem.lut : j >= Top.next /\ mem.lut[j].sec = Top.sec => k <= j
  BY <1>0, ComingIs
<1>4. UNCHANGED <<use, flash, mem, events, result, failed, moved, calls, resets>>
  BY DEF CopyOrDrop
<1>5. stack' = IF IsDropped(it) THEN <<gone>> \o Tail(stack) ELSE <<f, on>> \o Tail(stack)
  BY DEF CopyOrDrop
<1> HIDE DEF k
<1>6. /\ on \in RelocateFrames(Sectors) /\ on.sec = Top.sec
      /\ Moves(flash, Sectors, use.cached, mem, on, {it.tok})
      /\ gone \in RelocateFrames(Sectors)
      /\ Moves(flash, Sectors, use.cached, mem, gone, {})
  BY <1>1, <1>3, InvParts, MovesOn
<1>7. it.tok \in Tokens /\ it.sec \in Sectors /\ v \in Payloads
  BY <1>1, <1>3, InvParts, ItemIs DEF Record
<1>8. f \in AddFrames(Sectors) /\ f.at = "allocate" /\ f.tok = it.tok
  BY <1>7 DEF AddOf, AddFrames
<1> HIDE DEF it, v, on, gone, f
<1>9. Stands(flash, Sectors, use.names, use.cached, mem, stack')
  <2>1. CASE IsDropped(it)
    <3>1. <<gone>> \o <<b>> = <<gone, b>>
      BY Tuples
    <3>2. Stands(flash, Sectors, use.names, use.cached, mem, <<gone, b>>)
      BY <1>1, <1>6, ShapesStand
    <3> QED BY <1>2, <1>5, <2>1, <3>1, <3>2
  <2>2. CASE ~IsDropped(it)
    <3>1. <<f, on>> \o <<b>> = <<f, on, b>> /\ <<f>> \o <<on, b>> = <<f, on, b>>
      BY Tuples
    <3>2. Adds(flash, Sectors, mem, f, {on.sec}) /\ OpenBy(f) = NoSector
      BY <1>8 DEF Adds, OpenBy
    <3>3. Adding(flash, Sectors, use.names, use.cached, mem, f, <<on, b>>)
      BY <1>1, <1>6, <1>8, <3>2 DEF Adding
    <3>4. Stands(flash, Sectors, use.names, use.cached, mem, <<f>> \o <<on, b>>)
      BY <1>8, <3>3, ShapesStand
    <3> QED BY <1>2, <1>5, <2>2, <3>1, <3>4
  <2> QED BY <2>1, <2>2
<1> QED BY <1>4, <1>9, InvParts, StackOnly
-----------------------------------------------------------------------------
(***************************************************************************)
(* Nvm_Pool_Record_Add: a record, whole or cut short.                      *)
(***************************************************************************)

(* A record is being added.                                                *)
LEMMA AddOnTop ==
  ASSUME IInv, ~Idle, Top.op = "add"
  PROVE  /\ Top \in AddFrames(Sectors)
         /\ Adding(flash, Sectors, use.names, use.cached, mem, Top, Tail(stack))
         /\ Kept(flash, Sectors, use.names, mem, OpenBy(Top))
<1>1. stack # <<>> /\ Head(stack).op = "add"
  BY DEF Idle, Top
<1> QED BY <1>1, InvParts, StandsShapes DEF Top, Adding

(* Whoever adds it, the token has been counted, and a new sector is empty. *)
LEMMA AddingIs ==
  ASSUME NEW F, NEW S, NEW n, NEW c, NEW m, NEW f, NEW rest, Adding(F, S, n, c, m, f, rest)
  PROVE  /\ Joins(m, f.tok) /\ Adds(F, S, m, f, {}) /\ Kept(F, S, n, m, OpenBy(f))
<1>1. CASE \E r \in RelocateFrames(S), b \in Waiting :
          /\ rest = <<r, b>> /\ Adds(F, S, m, f, {r.sec}) /\ Moves(F, S, c, m, r, {f.tok})
  BY <1>1 DEF Moves, Joins, Adds, Adding
<1> QED BY <1>1 DEF Adding

LEMMA PlaceIs ==
  ASSUME IInv, CanStore
  PROVE  /\ Top \in AddFrames(Sectors) /\ OpenBy(Top) = NoSector
         /\ Place \in Sectors /\ mem.phys[Place] \in Sectors /\ PlacePage \in Pages
         /\ PageOf(mem, Place, PlacePage) = flash[mem.phys[Place]].page[PlacePage]
         /\ UsedOf(flash[mem.phys[Place]].page[PlacePage]) + SizeOf(Top.val) <= PageSize
         /\ Top.at # "allocate" => Top.at = "store" /\ Place = Top.sec
         /\ Top.at = "allocate" => Place \notin mem.locked
<1>1. ~Idle /\ Top.op = "add"
  BY DEF CanStore, At
<1>2. /\ Top \in AddFrames(Sectors)
      /\ Adding(flash, Sectors, use.names, use.cached, mem, Top, Tail(stack))
  BY <1>1, AddOnTop
<1>3. Adds(flash, Sectors, mem, Top, {})
  BY <1>2, AddingIs
<1>4. /\ use \in Uses /\ FlashTyped /\ PhysTyped(mem) /\ mem \in Tables /\ Room
      /\ NoSector \notin Sectors /\ mem.phys \in MapIn(Sectors)
  BY InvParts, Bridges DEF PhysTyped, MapIn
<1>5. Top.val \in Payloads
  BY <1>2 DEF AddFrames
<1>6. SizeOf(Top.val) \in Nat \ {0} /\ SizeOf(Top.val) <= PageSize
  BY <1>5, SizeIs
<1>7. PageOf(mem, Place, PlacePage) = flash[mem.phys[Place]].page[PlacePage]
  BY DEF PageOf
<1>8. CASE Top.at = "store"
  <2>1. /\ Top.sec \in Sectors /\ mem.phys[Top.sec] # NoSector
        /\ \A g \in Pages : flash[mem.phys[Top.sec]].page[g] = <<>>
    BY <1>3, <1>8 DEF Adds
  <2>2. Place = Top.sec /\ PlacePage = 1 /\ 1 \in Pages
    BY <1>4, <2>1 DEF Place, PlacePage, Pages
  <2>3. mem.phys[Top.sec] \in Sectors
    BY <1>4, <2>1 DEF MapIn
  <2>4. UsedOf(flash[mem.phys[Place]].page[PlacePage]) = 0
    BY <2>1, <2>2, UsedEmpty
  <2>5. OpenBy(Top) = NoSector
    BY <1>8 DEF OpenBy
  <2> QED BY <1>2, <1>6, <1>7, <1>8, <2>1, <2>2, <2>3, <2>4, <2>5
<1>9. CASE Top.at = "allocate"
  <2> DEFINE size == SizeOf(Top.val)
             s == PickSector(mem, size)
             g == PickPage(mem, s, size)
  <2>1. Top.sec = NoSector /\ OpenBy(Top) = NoSector
    BY <1>2, <1>9 DEF AddFrames, OpenBy
  <2>2. Fits(mem, size) # {}
    BY <1>9 DEF CanStore, At
  <2>3. Place = s /\ PlacePage = g
    BY <2>1 DEF Place, PlacePage
  <2>4. s \in Fits(mem, size)
    BY <1>4, <1>6, <2>2, PickSectorIs
  <2>5. s \in InUse(mem) /\ s \notin mem.locked /\ \E h \in Pages : FreeOn(mem, s, h) >= size
    BY <2>4, FitsIs
  <2> HIDE DEF s, size
  <2>6. g \in Pages /\ UsedOf(PageOf(mem, s, g)) + size <= PageSize
    BY <1>4, <1>6, <2>5, LeastFreeIs DEF size
  <2>7. s \in Sectors /\ mem.phys[s] \in Sectors
    BY <1>4, <2>5, PagesTyped
  <2> QED BY <1>2, <1>7, <1>9, <2>1, <2>3, <2>5, <2>6, <2>7 DEF size
<1> QED BY <1>8, <1>9 DEF CanStore, At

(* The record that is written.                                             *)
Written(ok) == [tok |-> Top.tok, val |-> Top.val, seq |-> NextSeq(mem.seqs), ok |-> ok]

LEMMA AppendedIs ==
  ASSUME IInv, CanStore, NEW ok \in BOOLEAN, Appended(ok)
  PROVE  /\ Written(ok) \in Record /\ Top.tok \in Tokens
         /\ flash' = Stores(flash, mem.phys, Place, PlacePage, Written(ok))
         /\ flash' \in FlashIn(Sectors) /\ FlashGood(flash', Sectors) /\ RoomIn(flash', Sectors)
         /\ \A q \in Sectors : flash'[q].head = flash[q].head
<1> DEFINE p == mem.phys[Place]
           g == PlacePage
           r == Written(ok)
<1>1. /\ Top \in AddFrames(Sectors) /\ OpenBy(Top) = NoSector
      /\ Place \in Sectors /\ p \in Sectors /\ g \in Pages
      /\ UsedOf(flash[p].page[g]) + SizeOf(Top.val) <= PageSize
  BY PlaceIs
<1>2. /\ NoSector \notin Sectors /\ flash \in FlashIn(Sectors) /\ FlashGood(flash, Sectors)
      /\ RoomIn(flash, Sectors) /\ mem.phys \in MapIn(Sectors) /\ mem \in TablesIn(Sectors)
  BY InvParts
<1>3. Kept(flash, Sectors, use.names, mem, NoSector)
  <2>1. ~Idle /\ Top.op = "add"
    BY DEF CanStore, At
  <2> QED BY <1>1, <2>1, AddOnTop
<1>4. NextSeq(mem.seqs) \in 0 .. SeqMax
  <2>1. mem.seqs \in SeqsType
    BY <1>2, TablesParts
  <2> QED BY <2>1, NextTyped DEF Numbers
<1>5. r \in Record /\ r.val = Top.val /\ Top.tok \in Tokens
  BY <1>1, <1>4 DEF Written, Record, AddFrames
<1>6. flash' = [flash EXCEPT ![p].page[g] = Append(@, r)]
  BY DEF Appended, Written
<1> HIDE DEF r
<1>7. flash' = Stores(flash, mem.phys, Place, g, r)
  BY <1>6 DEF Stores, With
<1>8. TidyIn(flash, Sectors, mem.phys, NoSector) /\ mem.phys[Place] # NoSector
  BY <1>1, <1>2, <1>3 DEF Kept
<1> HIDE DEF p, g
<1>9. /\ flash' \in FlashIn(Sectors) /\ FlashGood(flash', Sectors)
      /\ flash'[p] = With(flash[p], g, r) /\ \A q \in Sectors \ {p} : flash'[q] = flash[q]
  <2>1. Place \in Sectors /\ g \in Pages /\ p = mem.phys[Place]
    BY <1>1 DEF p
  <2> DEFINE G == Stores(flash, mem.phys, Place, g, r)
  <2>2. G \in FlashIn(Sectors)
    BY <1>2, <1>5, <1>8, <2>1, StoreTidy
  <2>3. FlashGood(G, Sectors)
    BY <1>2, <1>5, <1>8, <2>1, StoreTidy
  <2>4. G[p] = With(flash[p], g, r) /\ \A q \in Sectors \ {p} : G[q] = flash[q]
    BY <1>2, <1>5, <1>8, <2>1, StoreTidy
  <2> QED BY <1>7, <2>2, <2>3, <2>4
<1>10. flash[p] \in SectorsIn(Sectors)
  BY <1>1, <1>2 DEF FlashIn
<1>11. /\ With(flash[p], g, r).head = flash[p].head
       /\ With(flash[p], g, r).page[g] = Append(flash[p].page[g], r)
       /\ \A h \in Pages \ {g} : With(flash[p], g, r).page[h] = flash[p].page[h]
       /\ flash[p].page[g] \in Seq(Record)
  <2>1. g \in Pages /\ r \in Record
    BY <1>1, <1>5
  <2> DEFINE x == flash[p]
  <2>2. x \in SectorsIn(Sectors)
    BY <1>10
  <2> HIDE DEF x
  <2>3. /\ With(x, g, r) \in SectorsIn(Sectors) /\ With(x, g, r).head = x.head
        /\ With(x, g, r).page[g] = Append(x.page[g], r)
        /\ \A h \in Pages \ {g} : With(x, g, r).page[h] = x.page[h]
        /\ x.page[g] \in Seq(Record) /\ Append(x.page[g], r) \in Seq(Record)
    BY <2>1, <2>2, WithIs
  <2> QED BY <2>3 DEF x
<1>12. UsedOf(Append(flash[p].page[g], r)) <= PageSize
  BY <1>1, <1>5, <1>11, UsedAppend
<1>13. RoomIn(flash', Sectors)
  <2> SUFFICES ASSUME NEW q \in Sectors, NEW h \in Pages
               PROVE  UsedOf(flash'[q].page[h]) <= PageSize
    BY DEF RoomIn
  <2>1. UsedOf(flash[q].page[h]) <= PageSize
    BY <1>2 DEF RoomIn
  <2>2. CASE q # p
    <3>1. flash'[q] = flash[q]
      BY <1>9, <2>2
    <3> QED BY <2>1, <3>1
  <2>3. CASE q = p /\ h # g
    <3>1. flash'[q].page[h] = flash[q].page[h]
      BY <1>9, <1>11, <2>3
    <3> QED BY <2>1, <3>1
  <2>4. CASE q = p /\ h = g
    <3>1. flash'[q].page[h] = Append(flash[p].page[g], r)
      BY <1>9, <1>11, <2>4
    <3> QED BY <1>12, <3>1
  <2> QED BY <2>2, <2>3, <2>4
<1>14. \A q \in Sectors : flash'[q].head = flash[q].head
  BY <1>9, <1>11
<1> QED BY <1>5, <1>7, <1>9, <1>13, <1>14 DEF r, g

(* The table new is the table lut but for t, which is in sector s.         *)
Follows(lut, new, t, s) ==
  /\ \A k \in DOMAIN lut : lut[k].tok # t => k \in DOMAIN new /\ new[k] = lut[k]
  /\ \A k \in DOMAIN new : new[k].tok = t => new[k].sec = s
  /\ \A k \in DOMAIN new : k \in DOMAIN lut \/ new[k].tok = t
  /\ \A k \in DOMAIN lut : k \in DOMAIN new /\ new[k].tok = lut[k].tok

Brings(G, F, S, phys, t) ==
  \A q \in S : \A u : Carries(G, phys, q, u) => Carries(F, phys, q, u) \/ u = t

(* A relocation below goes on when the record of its item is copied.       *)
LEMMA StoreMoves ==
  ASSUME NEW S, NoSector \notin S, NEW F, NEW G, NEW c, NEW m, NEW j,
         m.lut \in Seq(ItemsIn(S)), j.lut \in Seq(ItemsIn(S)),
         j.phys = m.phys, j.locked = m.locked, NEW r \in RelocateFrames(S), NEW t,
         Moves(F, S, c, m, r, {t}), NEW s \in S, s # r.sec, Unlike(j.lut),
         Follows(m.lut, j.lut, t, s), Brings(G, F, S, m.phys, t)
  PROVE  Moves(G, S, c, j, r, {})
<1>1. r.sec \in S /\ j.phys[r.sec] # NoSector /\ r.sec \in j.locked
  BY DEF Moves
<1>2. ASSUME NEW k \in DOMAIN j.lut, k < r.next, j.lut[k].sec = r.sec
      PROVE  r.reset
  <2>1. j.lut[k].tok # t /\ k \in DOMAIN m.lut /\ m.lut[k].tok # t /\ j.lut[k] = m.lut[k]
    BY <1>2 DEF Follows
  <2>2. r.reset \/ m.lut[k].tok \in {t}
    BY <1>2, <2>1 DEF Moves
  <2> QED BY <2>1, <2>2
<1>3. ASSUME ~c, NEW k \in DOMAIN j.lut, k >= r.next, j.lut[k].refs = 1,
             NEW q \in S, Carries(G, j.phys, q, j.lut[k].tok)
      PROVE  q = j.lut[k].sec
  <2>1. PICK i \in DOMAIN m.lut : i < r.next /\ m.lut[i].tok = t
    BY DEF Moves
  <2>2. i \in DOMAIN j.lut /\ j.lut[i].tok = t
    BY <2>1 DEF Follows
  <2>3. i \in Nat /\ k \in Nat /\ r.next \in Nat /\ i # k
    BY <1>3, <2>1 DEF RelocateFrames
  <2>4. j.lut[k].tok # t
    BY <2>2, <2>3 DEF Unlike
  <2>5. k \in DOMAIN m.lut /\ m.lut[k].tok # t /\ j.lut[k] = m.lut[k]
    BY <2>4 DEF Follows
  <2>6. Carries(F, m.phys, q, m.lut[k].tok)
    BY <1>3, <2>4, <2>5 DEF Brings
  <2>7. Exact(F, S, m, r.next)
    BY <1>3 DEF Moves
  <2> QED BY <1>3, <2>5, <2>6, <2>7 DEF Exact
<1>4. ~c => Exact(G, S, j, r.next)
  BY <1>3 DEF Exact
<1> QED BY <1>1, <1>2, <1>4 DEF Moves

(* The tables once the record is noted.                                    *)
LEMMA ListAtTyped ==
  ASSUME NEW lut \in Seq(Items), NEW t \in Tokens, NEW sec \in Sectors, NEW page \in Pages,
         NEW idx \in Nat \ {0}
  PROVE  ListAt(lut, t, sec, page, idx) \in Seq(Items)
<1>1. CASE \E k \in DOMAIN lut : lut[k].tok = t
  <2>1. Relisted(lut, t, sec, page, idx, ListAt(lut, t, sec, page, idx))
    BY <1>1, ListAtOld
  <2> QED BY <2>1 DEF Relisted
<1>2. CASE ~\E k \in DOMAIN lut : lut[k].tok = t
  <2> DEFINE e == [tok |-> t, sec |-> sec, page |-> page, idx |-> idx, refs |-> 0]
  <2>1. ListAt(lut, t, sec, page, idx) = IF Len(lut) < use.names THEN Append(lut, e) ELSE lut
    BY <1>2, ListAtNew
  <2>2. e \in Items
    BY DEF Items
  <2> HIDE DEF e
  <2> QED BY <2>1, <2>2
<1> QED BY <1>1, <1>2

LEMMA NotedIs ==
  ASSUME IInv, CanStore, Appended(TRUE)
  PROVE  LET i == Len(PageOf(mem, Place, PlacePage)) + 1
             j == Noted(mem, Top.tok, Place, PlacePage, i, NextSeq(mem.seqs), Top.prev)
         IN  /\ j \in TablesIn(Sectors) /\ j.phys = mem.phys /\ j.locked = mem.locked
             /\ j.unique = mem.unique
             /\ j.lut = ListAt(mem.lut, Top.tok, Place, PlacePage, i)
<1> DEFINE i == Len(PageOf(mem, Place, PlacePage)) + 1
           new == ListAt(mem.lut, Top.tok, Place, PlacePage, i)
           n == NextSeq(mem.seqs)
           prev == Top.prev
           ina == [s \in Sectors |-> IF s = prev.sec
                             THEN mem.inactive[s] + SizeOf(prev.val) ELSE mem.inactive[s]]
           reg == Register(mem.seqs, n, Place)
           j == [mem EXCEPT !.seqs = reg, !.inactive = ina, !.lut = new]
<1>1. /\ Top \in AddFrames(Sectors) /\ OpenBy(Top) = NoSector
      /\ Place \in Sectors /\ mem.phys[Place] \in Sectors /\ PlacePage \in Pages
      /\ PageOf(mem, Place, PlacePage) = flash[mem.phys[Place]].page[PlacePage]
  BY PlaceIs
<1>2. /\ use \in Uses /\ NoSector \notin Sectors /\ flash \in FlashIn(Sectors)
      /\ mem.phys \in MapIn(Sectors) /\ mem \in TablesIn(Sectors) /\ Sectors \subseteq Nat
      /\ mem.lut \in Seq(Items) /\ Items = ItemsIn(Sectors)
      /\ mem.inactive \in [Sectors -> Nat] /\ mem.seqs \in SeqsType
  BY InvParts, Bridges, TablesParts
<1>3. PageOf(mem, Place, PlacePage) \in Seq(Record)
  BY <1>1, <1>2, ValidIs
<1>4. i \in Nat \ {0}
  BY <1>3
<1>5. Top.tok \in Tokens /\ prev.val \in Payloads
  BY <1>1 DEF AddFrames
<1> HIDE DEF i
<1>6. new \in Seq(Items)
  BY <1>1, <1>2, <1>4, <1>5, ListAtTyped
<1>7. SizeOf(prev.val) \in Nat
  BY <1>5, SizeIs
<1>8. ina \in [Sectors -> Nat]
  BY <1>2, <1>7
<1>9. n \in Numbers
  BY <1>2, NextTyped
<1>10. reg \in SeqsType
  BY <1>1, <1>2, <1>9, RegisterTyped
<1>11. Noted(mem, Top.tok, Place, PlacePage, i, n, prev) = j
  BY DEF Noted
<1> HIDE DEF new, ina, reg, n, prev
<1>12. /\ j \in TablesIn(Sectors) /\ j.phys = mem.phys /\ j.locked = mem.locked
       /\ j.unique = mem.unique /\ j.lut = new
  BY <1>2, <1>6, <1>8, <1>10 DEF TablesIn
<1> HIDE DEF j
<1> QED BY <1>11, <1>12 DEF i, new, n, prev

Relists(F, S, phys, s, g, r, lut) ==
  LET new == ListAt(lut, r.tok, s, g, Len(F[phys[s]].page[g]) + 1)
  IN  /\ new \in Seq(Items) /\ ListsIn(Stores(F, phys, s, g, r), S, phys, new)
      /\ Len(new) = IF \E k \in DOMAIN lut : lut[k].tok = r.tok THEN Len(lut) ELSE Len(lut) + 1
      /\ Follows(lut, new, r.tok, s)

LEMMA RelistsIs ==
  ASSUME NoSector \notin Sectors, NEW F \in FlashIn(Sectors), NEW phys \in MapIn(Sectors),
         TidyIn(F, Sectors, phys, NoSector), NEW s \in Sectors, phys[s] # NoSector,
         NEW g \in Pages, NEW r \in Record,
         NEW lut \in Seq(Items), ListsIn(F, Sectors, phys, lut),
         (\E k \in DOMAIN lut : lut[k].tok = r.tok) \/ Len(lut) < use.names
  PROVE  Relists(F, Sectors, phys, s, g, r, lut)
<1>1. LET new == ListAt(lut, r.tok, s, g, Len(F[phys[s]].page[g]) + 1)
      IN  /\ new \in Seq(Items) /\ ListsIn(Stores(F, phys, s, g, r), Sectors, phys, new)
          /\ Len(new) = IF \E k \in DOMAIN lut : lut[k].tok = r.tok THEN Len(lut) ELSE Len(lut) + 1
          /\ \A k \in DOMAIN lut : lut[k].tok # r.tok => k \in DOMAIN new /\ new[k] = lut[k]
          /\ \A k \in DOMAIN new : new[k].tok = r.tok => new[k].sec = s
          /\ \A k \in DOMAIN new : k \in DOMAIN lut \/ new[k].tok = r.tok
          /\ \A k \in DOMAIN lut : k \in DOMAIN new /\ new[k].tok = lut[k].tok
  BY StoreLists, ZenonT(40)
<1> QED BY <1>1 DEF Relists, Follows

LEMMA StoreKept ==
  ASSUME IInv, CanStore, Appended(TRUE),
         mem' = Noted(mem, Top.tok, Place, PlacePage,
                  Len(PageOf(mem, Place, PlacePage)) + 1, NextSeq(mem.seqs), Top.prev)
  PROVE  /\ mem' \in TablesIn(Sectors) /\ FlashOk(flash', Sectors, use.names)
         /\ Kept(flash', Sectors, use.names, mem', NoSector)
         /\ \A r \in RelocateFrames(Sectors) :
              /\ Moves(flash, Sectors, use.cached, mem, r, {Top.tok})
              /\ Adds(flash, Sectors, mem, Top, {r.sec})
              => Moves(flash', Sectors, use.cached, mem', r, {})
<1> DEFINE g == PlacePage
           w == Written(TRUE)
           i == Len(PageOf(mem, Place, PlacePage)) + 1
           new == ListAt(mem.lut, Top.tok, Place, g, i)
           t == Top.tok
<1>1. /\ Top \in AddFrames(Sectors) /\ OpenBy(Top) = NoSector
      /\ Place \in Sectors /\ mem.phys[Place] \in Sectors /\ g \in Pages
      /\ PageOf(mem, Place, g) = flash[mem.phys[Place]].page[g]
      /\ Top.at # "allocate" => Top.at = "store" /\ Place = Top.sec
      /\ Top.at = "allocate" => Place \notin mem.locked
  BY PlaceIs
<1>2. /\ use \in Uses /\ NoSector \notin Sectors /\ flash \in FlashIn(Sectors)
      /\ FlashGood(flash, Sectors) /\ use.names \in Nat
      /\ mem.phys \in MapIn(Sectors) /\ mem \in TablesIn(Sectors)
      /\ mem.lut \in Seq(Items) /\ Items = ItemsIn(Sectors) /\ mem.unique \in Nat
  BY InvParts, Bridges
<1>3. /\ w \in Record /\ t \in Tokens
      /\ flash' = Stores(flash, mem.phys, Place, g, w)
      /\ flash' \in FlashIn(Sectors) /\ FlashGood(flash', Sectors) /\ RoomIn(flash', Sectors)
      /\ \A q \in Sectors : flash'[q].head = flash[q].head
  BY AppendedIs
<1>4. w.tok = t /\ w.ok
  BY DEF Written
<1>5. /\ mem' \in TablesIn(Sectors) /\ mem'.phys = mem.phys /\ mem'.locked = mem.locked
      /\ mem'.unique = mem.unique /\ mem'.lut = new
  BY NotedIs
<1>6. Kept(flash, Sectors, use.names, mem, NoSector) /\ Joins(mem, t)
  <2>1. ~Idle /\ Top.op = "add"
    BY DEF CanStore, At
  <2>2. Adding(flash, Sectors, use.names, use.cached, mem, Top, Tail(stack))
    BY <2>1, AddOnTop
  <2> QED BY <1>1, <2>2, AddingIs
<1> HIDE DEF w, t
<1>7. /\ TidyIn(flash, Sectors, mem.phys, NoSector) /\ mem.phys[Place] # NoSector
      /\ ListsIn(flash, Sectors, mem.phys, mem.lut) /\ Calm(flash, Sectors)
      /\ Len(mem.lut) <= mem.unique /\ mem.unique <= use.names
  BY <1>1, <1>2, <1>6 DEF Kept
<1> HIDE DEF g
<1>8. /\ TidyIn(flash', Sectors, mem.phys, NoSector)
      /\ Brings(flash', flash, Sectors, mem.phys, t)
  <2>1. Place \in Sectors /\ g \in Pages
    BY <1>1
  <2> QED BY <1>2, <1>3, <1>4, <1>7, <2>1, StoreTidy DEF Brings
<1>9. (\E k \in DOMAIN mem.lut : mem.lut[k].tok = t) \/ Len(mem.lut) < mem.unique
  BY <1>6 DEF Joins
<1>10. Len(mem.lut) \in Nat
  BY <1>2
<1>11. (\E k \in DOMAIN mem.lut : mem.lut[k].tok = w.tok) \/ Len(mem.lut) < use.names
  BY <1>2, <1>4, <1>7, <1>9, <1>10
<1>12. new = ListAt(mem.lut, w.tok, Place, g, Len(flash[mem.phys[Place]].page[g]) + 1)
  BY <1>1, <1>4 DEF t, g
<1> HIDE DEF new
<1>13. /\ new \in Seq(Items) /\ ListsIn(flash', Sectors, mem.phys, new)
       /\ Len(new) = IF \E k \in DOMAIN mem.lut : mem.lut[k].tok = t THEN Len(mem.lut) ELSE Len(mem.lut) + 1
       /\ Follows(mem.lut, new, t, Place)
  <2>1. Place \in Sectors /\ g \in Pages
    BY <1>1
  <2>2. Relists(flash, Sectors, mem.phys, Place, g, w, mem.lut)
    BY <1>2, <1>3, <1>7, <1>11, <2>1, RelistsIs
  <2> QED BY <1>3, <1>4, <1>12, <2>2 DEF Relists
<1>14. Len(new) <= mem.unique
  BY <1>2, <1>7, <1>9, <1>10, <1>13
<1>15. Calm(flash', Sectors)
  BY <1>3, <1>7 DEF Calm
<1>16. Kept(flash', Sectors, use.names, mem', NoSector)
  BY <1>5, <1>7, <1>8, <1>13, <1>14, <1>15 DEF Kept
<1>17. Named(flash', Sectors, use.names)
  <2>1. IsFiniteSet(TokensIn(flash', Sectors)) /\ Len(new) = Cardinality(TokensIn(flash', Sectors))
    BY <1>2, <1>3, <1>8, <1>13, ListLength
  <2>2. Len(new) \in Nat /\ Len(new) <= use.names
    BY <1>2, <1>7, <1>13, <1>14
  <2> QED BY <2>1, <2>2 DEF Named
<1>18. ASSUME NEW r \in RelocateFrames(Sectors),
              Moves(flash, Sectors, use.cached, mem, r, {t}), Adds(flash, Sectors, mem, Top, {r.sec})
       PROVE  Moves(flash', Sectors, use.cached, mem', r, {})
  <2>1. Place # r.sec
    BY <1>1, <1>18 DEF Adds, Moves
  <2>2. Unlike(mem'.lut)
    BY <1>5, <1>13 DEF ListsIn
  <2>3. Place \in Sectors
    BY <1>1
  <2>4. /\ Follows(mem.lut, mem'.lut, t, Place)
        /\ mem.lut \in Seq(ItemsIn(Sectors)) /\ mem'.lut \in Seq(ItemsIn(Sectors))
    BY <1>2, <1>5, <1>13
  <2> QED BY <1>2, <1>5, <1>8, <1>18, <2>1, <2>2, <2>3, <2>4, StoreMoves
<1> QED BY <1>3, <1>5, <1>16, <1>17, <1>18 DEF FlashOk, t

LEMMA StoreKeeps ==
  ASSUME IInv, Store PROVE IInv'
<1>1. CanStore /\ Appended(TRUE) /\ stack' = Tail(stack)
  BY DEF Store, Return
<1>2. /\ mem' \in TablesIn(Sectors) /\ FlashOk(flash', Sectors, use.names)
      /\ Kept(flash', Sectors, use.names, mem', NoSector)
      /\ \A r \in RelocateFrames(Sectors) :
           /\ Moves(flash, Sectors, use.cached, mem, r, {Top.tok})
           /\ Adds(flash, Sectors, mem, Top, {r.sec})
           => Moves(flash', Sectors, use.cached, mem', r, {})
  BY <1>1, StoreKept DEF Store
<1>3. Adding(flash, Sectors, use.names, use.cached, mem, Top, Tail(stack))
  <2>1. ~Idle /\ Top.op = "add"
    BY <1>1 DEF CanStore, At
  <2> QED BY <2>1, AddOnTop
<1>4. Stands(flash', Sectors, use.names, use.cached, mem', stack')
  <2>1. ASSUME NEW b \in WriteFrames, Tail(stack) = <<b>>, b.at = "stored"
        PROVE  Stands(flash', Sectors, use.names, use.cached, mem', stack')
    BY <1>1, <1>2, <2>1, ShapesStand
  <2>2. ASSUME NEW r \in RelocateFrames(Sectors), NEW b \in Waiting, Tail(stack) = <<r, b>>,
               Adds(flash, Sectors, mem, Top, {r.sec}),
               Moves(flash, Sectors, use.cached, mem, r, {Top.tok})
        PROVE  Stands(flash', Sectors, use.names, use.cached, mem', stack')
    BY <1>1, <1>2, <2>2, ShapesStand
  <2> QED BY <1>3, <2>1, <2>2 DEF Adding
<1>5. UNCHANGED <<use, events, result, failed, moved, calls, resets>>
  BY DEF Store
<1> QED BY <1>2, <1>4, <1>5, InvParts, Preserved
-----------------------------------------------------------------------------
(***************************************************************************)
(* Nvm_Pool_Record_Add: a new sector.                                      *)
(***************************************************************************)

(* A sector that is free while no erase is announced is blank, and what    *)
(* the first header makes of it.                                           *)
LEMMA FreeIsBlank ==
  ASSUME NEW S, NEW F \in FlashIn(S), FlashGood(F, S), Calm(F, S), NEW p \in S, ~IsValid(F[p])
  PROVE  F[p] = Blank
<1>1. F[p].head[1] \in HeadersIn(S)
  BY DEF FlashIn, SectorsIn, Pages
<1>2. F[p].head[1].id = NoSector /\ F[p].head[1].pending = FALSE
  BY <1>1 DEF IsValid, Calm, HeadersIn
<1>3. F[p].head[1] = NoHeader
  BY <1>1, <1>2 DEF HeadersIn, NoHeader
<1> QED BY <1>3 DEF FlashGood

LEMMA HeaderOpens ==
  ASSUME flash \in FlashIn(Sectors), NEW p \in Sectors, flash[p] = Blank, NEW s
  PROVE  /\ WriteHeader(p, 1, s) = [flash EXCEPT ![p] = Opened(s)]
         /\ [WriteHeader(p, 1, s) EXCEPT ![p].page = Blank.page] = [flash EXCEPT ![p] = Opened(s)]
<1> DEFINE x == [flash[p] EXCEPT !.head[1] = HeadOf(s)]
           F == [flash EXCEPT ![p] = x]
<1>1. DOMAIN flash = Sectors
  BY DEF FlashIn
<1>2. WriteHeader(p, 1, s) = F
  BY <1>1 DEF WriteHeader, HeadOf
<1>3. x = Opened(s)
  <2>1. flash[p].head = [g \in Pages |-> NoHeader] /\ flash[p].page = [g \in Pages |-> <<>>]
    BY DEF Blank
  <2>2. [flash[p].head EXCEPT ![1] = HeadOf(s)] = [g \in Pages |-> IF g = 1 THEN HeadOf(s) ELSE NoHeader]
    BY <2>1 DEF Pages
  <2>3. x = [head |-> [flash[p].head EXCEPT ![1] = HeadOf(s)], page |-> flash[p].page]
    BY DEF Blank
  <2> QED BY <2>1, <2>2, <2>3 DEF Opened
<1>4. Opened(s).page = Blank.page
  BY DEF Opened, Blank
<1> HIDE DEF x
<1>5. [F EXCEPT ![p].page = Blank.page] = [flash EXCEPT ![p] = [x EXCEPT !.page = Blank.page]]
  BY <1>1
<1>6. [Opened(s) EXCEPT !.page = Blank.page] = Opened(s)
  BY <1>4 DEF Opened
<1> QED BY <1>2, <1>3, <1>5, <1>6

(* What a relocation needs of the flash and the tables.                    *)
LEMMA KeepMoves ==
  ASSUME NEW S, NoSector \notin S, NEW F, NEW G, NEW c, NEW m, NEW j, NEW r, NEW Ts,
         Keeps(S, F, m.phys, G, j.phys, NoSector), j.lut = m.lut, j.locked = m.locked,
         \A q \in S : m.phys[q] # NoSector => j.phys[q] # NoSector,
         Moves(F, S, c, m, r, Ts)
  PROVE  Moves(G, S, c, j, r, Ts)
<1>1. \A q \in S : \A t : Carries(G, j.phys, q, t) <=> Carries(F, m.phys, q, t)
  BY DEF Keeps
<1>2. Exact(F, S, m, r.next) => Exact(G, S, j, r.next)
  BY <1>1 DEF Exact
<1> QED BY <1>2 DEF Moves

(* A record that is being added goes on being added.                       *)
LEMMA AddingGoesOn ==
  ASSUME NEW S, NoSector \notin S, NEW F, NEW G, NEW n, NEW c, NEW m, NEW j, NEW f, NEW g, NEW rest,
         Adding(F, S, n, c, m, f, rest),
         Keeps(S, F, m.phys, G, j.phys, NoSector),
         j.lut = m.lut, j.locked = m.locked, j.unique = m.unique,
         \A q \in S : m.phys[q] # NoSector => j.phys[q] # NoSector,
         g.tok = f.tok, g.val = f.val, Kept(G, S, n, j, OpenBy(g)), Adds(G, S, j, g, {}),
         \A r : Moves(F, S, c, m, r, {f.tok}) /\ Adds(F, S, m, f, {r.sec}) => g.sec # r.sec
  PROVE  Adding(G, S, n, c, j, g, rest)
<1>1. ASSUME NEW b \in WriteFrames, rest = <<b>>, b.at = "stored", f.tok = b.tok, f.val = b.val
      PROVE  Adding(G, S, n, c, j, g, rest)
  <2>1. Joins(m, f.tok)
    BY AddingIs
  <2>2. Joins(j, g.tok)
    BY <2>1 DEF Joins
  <2> QED BY <1>1, <2>2 DEF Adding
<1>2. ASSUME NEW r \in RelocateFrames(S), NEW b \in Waiting, rest = <<r, b>>,
             Adds(F, S, m, f, {r.sec}), Moves(F, S, c, m, r, {f.tok})
      PROVE  Adding(G, S, n, c, j, g, rest)
  <2>1. Moves(G, S, c, j, r, {g.tok})
    BY <1>2, KeepMoves
  <2>2. Adds(G, S, j, g, {r.sec})
    BY <1>2 DEF Adds
  <2> QED BY <1>2, <2>1, <2>2 DEF Adding
<1> QED BY <1>1, <1>2 DEF Adding

LEMMA CreateKeeps ==
  ASSUME IInv, Create PROVE IInv'
<1>1. ~Idle /\ Top.op = "add" /\ Top.at = "allocate"
  BY DEF Create, At
<1>2. /\ Top \in AddFrames(Sectors) /\ OpenBy(Top) = NoSector
      /\ Adding(flash, Sectors, use.names, use.cached, mem, Top, Tail(stack))
      /\ Kept(flash, Sectors, use.names, mem, NoSector)
  <2>1. OpenBy(Top) = NoSector
    BY <1>1 DEF OpenBy
  <2> QED BY <1>1, <2>1, AddOnTop
<1>3. UNCHANGED <<use, events, result, moved, calls, resets>>
  BY DEF Create
<1>4. CASE ~CanCreate(mem)
  <2>1. failed' = TRUE /\ flash' = flash /\ mem' = mem /\ stack' = stack
    BY <1>4 DEF Create
  <2>2. Stands(flash, Sectors, use.names, use.cached, mem, stack')
    BY <2>1, InvParts
  <2> QED BY <1>3, <2>1, <2>2, InvParts, StackOnly
<1>5. CASE CanCreate(mem)
  <2> DEFINE s == FreeLogical(mem)
             p == FreePhysical(mem.last)
             G == [flash EXCEPT ![p] = Opened(s)]
             j == [mem EXCEPT !.phys[s] = p, !.last = p]
             g == [Top EXCEPT !.at = "header", !.sec = s]
  <2>1. /\ flash' = [WriteHeader(p, 1, s) EXCEPT ![p].page = Blank.page]
        /\ mem' = j /\ stack' = <<g>> \o Tail(stack) /\ failed' = failed
    BY <1>5 DEF Create
  <2>2. /\ use \in Uses /\ NoSector \notin Sectors /\ flash \in FlashIn(Sectors)
        /\ FlashGood(flash, Sectors) /\ RoomIn(flash, Sectors)
        /\ Named(flash, Sectors, use.names) /\ use.names \in Nat
        /\ mem.phys \in MapIn(Sectors) /\ mem \in TablesIn(Sectors) /\ mem.last \in Sectors
    BY InvParts, TablesParts
  <2>3. (\E q \in Sectors : IsFree(q)) /\ InUse(mem) # Sectors
    BY <1>5 DEF CanCreate
  <2>4. s \in Sectors \ InUse(mem)
    BY <2>2, <2>3, FreeLogicalIs
  <2>5. p \in Sectors /\ IsFree(p)
    BY <2>2, <2>3, FreePhysicalIs
  <2> HIDE DEF s, p
  <2>6. mem.phys[s] = NoSector
    BY <2>2, <2>4 DEF InUse
  <2>7. /\ Calm(flash, Sectors) /\ TidyIn(flash, Sectors, mem.phys, NoSector)
        /\ ListsIn(flash, Sectors, mem.phys, mem.lut)
        /\ Len(mem.lut) <= mem.unique /\ mem.unique <= use.names
    BY <1>2 DEF Kept
  <2>8. flash[p] = Blank
    <3>1. ~IsValid(flash[p])
      BY <2>5 DEF IsFree, HasValidHeader, IsValid
    <3> QED BY <2>2, <2>5, <2>7, <3>1, FreeIsBlank
  <2>9. flash' = G
    BY <2>1, <2>2, <2>5, <2>8, HeaderOpens
  <2> DEFINE psys == [mem.phys EXCEPT ![s] = p]
  <2>10. /\ G \in FlashIn(Sectors) /\ FlashGood(G, Sectors) /\ TidyIn(G, Sectors, psys, s)
         /\ psys[s] = p /\ G[p] = Opened(s) /\ \A q \in Sectors \ {p} : G[q] = flash[q]
         /\ \A q \in Sectors \ {s} : psys[q] = mem.phys[q]
         /\ Keeps(Sectors, flash, mem.phys, G, psys, NoSector)
    <3>1. s \in Sectors
      BY <2>4
    <3> QED BY <2>2, <2>5, <2>6, <2>7, <2>8, <3>1, OpenTidy
  <2>11. /\ Opened(s).head[1] = HeadOf(s) /\ ~HeadOf(s).pending /\ Shown(Opened(s)) = {}
         /\ \A h \in Pages : Opened(s).page[h] = <<>>
    BY <2>2, <2>4, OpenedIs
  <2>12. /\ j \in TablesIn(Sectors) /\ j.phys = psys /\ j.lut = mem.lut
         /\ j.locked = mem.locked /\ j.unique = mem.unique
    BY <2>2, <2>4, <2>5 DEF TablesIn
  <2>13. /\ g \in AddFrames(Sectors) /\ g.at = "header" /\ g.sec = s
         /\ g.tok = Top.tok /\ g.val = Top.val /\ OpenBy(g) = s
    BY <1>2, <2>2, <2>4 DEF AddFrames, OpenBy
  <2>14. Named(G, Sectors, use.names)
    BY <2>2, <2>5, <2>11, FewerTokens
  <2> HIDE DEF G, psys, j, g
  <2>15. RoomIn(G, Sectors)
    BY <2>2, <2>10, <2>11, UsedEmpty, NvmAssumption DEF RoomIn
  <2>16. ListsIn(G, Sectors, psys, mem.lut)
    BY <2>2, <2>7, <2>10, KeepLists
  <2>17. Calm(G, Sectors)
    BY <2>7, <2>10, <2>11 DEF Calm
  <2>18. Kept(G, Sectors, use.names, j, OpenBy(g))
    BY <2>7, <2>10, <2>12, <2>13, <2>16, <2>17 DEF Kept
  <2>19. \A q \in Sectors : mem.phys[q] # NoSector => j.phys[q] # NoSector
    BY <2>6, <2>10, <2>12
  <2>20. Adds(G, Sectors, j, g, {})
    BY <2>2, <2>4, <2>5, <2>10, <2>11, <2>12, <2>13 DEF Adds
  <2>21. \A r : Moves(flash, Sectors, use.cached, mem, r, {Top.tok})
                /\ Adds(flash, Sectors, mem, Top, {r.sec}) => g.sec # r.sec
    BY <2>6, <2>13 DEF Moves
  <2>22. Keeps(Sectors, flash, mem.phys, G, j.phys, NoSector)
    BY <2>10, <2>12
  <2>23. Adding(G, Sectors, use.names, use.cached, j, g, Tail(stack))
    BY <1>2, <2>2, <2>12, <2>13, <2>18, <2>19, <2>20, <2>21, <2>22, AddingGoesOn
  <2>24. Stands(G, Sectors, use.names, use.cached, j, <<g>> \o Tail(stack))
    BY <2>13, <2>23, ShapesStand
  <2>25. FlashOk(G, Sectors, use.names)
    BY <2>10, <2>14, <2>15 DEF FlashOk
  <2> QED BY <1>3, <2>1, <2>9, <2>12, <2>24, <2>25, InvParts, Preserved
<1> QED BY <1>4, <1>5

LEMMA SecondIs ==
  ASSUME NEW S, NEW F \in FlashIn(S), NEW p \in S, NEW h, NEW n \in Nat, Named(F, S, n)
  PROVE  LET x == [F[p] EXCEPT !.head[2] = h]
             G == [F EXCEPT ![p].head[2] = h]
         IN  /\ G = [F EXCEPT ![p] = x] /\ x.page = F[p].page /\ x.head[1] = F[p].head[1]
             /\ x.head[2] = h /\ Named(G, S, n)
<1> DEFINE x == [F[p] EXCEPT !.head[2] = h]
           G == [F EXCEPT ![p].head[2] = h]
<1>1. F[p] \in SectorsIn(S)
  BY DEF FlashIn
<1>2. x.page = F[p].page /\ x.head[1] = F[p].head[1] /\ x.head[2] = h
  BY <1>1 DEF SectorsIn, Pages
<1>3. G = [F EXCEPT ![p] = x]
  BY DEF FlashIn
<1> HIDE DEF x
<1>4. Shown(x) = Shown(F[p])
  BY <1>2 DEF Shown, IsValid
<1>5. \A r \in Shown(x) : r.tok \in TokensIn(F, S)
  BY <1>4, TokensAre
<1>6. Named([F EXCEPT ![p] = x], S, n)
  BY <1>5, FewerTokens
<1> QED BY <1>2, <1>3, <1>6 DEF x

LEMMA CreateSecondKeeps ==
  ASSUME IInv, CreateSecond PROVE IInv'
<1> DEFINE s == Top.sec
           p == mem.phys[s]
           G == [flash EXCEPT ![p].head[2] = HeadOf(s)]
           g == [Top EXCEPT !.at = "store"]
<1>1. ~Idle /\ Top.op = "add" /\ Top.at = "header"
  BY DEF CreateSecond, At
<1>2. /\ Top \in AddFrames(Sectors)
      /\ Adding(flash, Sectors, use.names, use.cached, mem, Top, Tail(stack))
      /\ Kept(flash, Sectors, use.names, mem, OpenBy(Top))
  BY <1>1, AddOnTop
<1>3. UNCHANGED <<use, mem, events, result, failed, moved, calls, resets>>
  BY DEF CreateSecond
<1>4. flash' = G /\ stack' = <<g>> \o Tail(stack)
  BY DEF CreateSecond, WriteHeader, HeadOf, Goto
<1>5. /\ use \in Uses /\ NoSector \notin Sectors /\ flash \in FlashIn(Sectors)
      /\ FlashGood(flash, Sectors) /\ RoomIn(flash, Sectors)
      /\ Named(flash, Sectors, use.names) /\ use.names \in Nat
      /\ mem.phys \in MapIn(Sectors) /\ mem \in TablesIn(Sectors)
  BY InvParts
<1>6. Adds(flash, Sectors, mem, Top, {})
  BY <1>2, AddingIs
<1>7. s \in Sectors /\ p # NoSector /\ \A h \in Pages : flash[p].page[h] = <<>>
  BY <1>1, <1>6 DEF Adds
<1>8. p \in Sectors
  BY <1>5, <1>7 DEF MapIn
<1>9. /\ g \in AddFrames(Sectors) /\ g.at = "store" /\ g.sec = s
      /\ g.tok = Top.tok /\ g.val = Top.val /\ OpenBy(g) = NoSector /\ OpenBy(Top) = s
  BY <1>1, <1>2, <1>5, <1>7 DEF AddFrames, OpenBy
<1> HIDE DEF g
<1>10. /\ Calm(flash, Sectors) /\ TidyIn(flash, Sectors, mem.phys, s)
       /\ ListsIn(flash, Sectors, mem.phys, mem.lut)
       /\ Len(mem.lut) <= mem.unique /\ mem.unique <= use.names
  BY <1>2, <1>9 DEF Kept
<1> HIDE DEF s
<1>11. /\ G \in FlashIn(Sectors) /\ FlashGood(G, Sectors) /\ TidyIn(G, Sectors, mem.phys, NoSector)
       /\ \A q \in Sectors : G[q].page = flash[q].page /\ G[q].head[1] = flash[q].head[1]
       /\ Keeps(Sectors, flash, mem.phys, G, mem.phys, NoSector)
  BY <1>5, <1>7, <1>10, SecondTidy
<1>12. Named(G, Sectors, use.names)
  BY <1>5, <1>8, SecondIs
<1> HIDE DEF G
<1>13. RoomIn(G, Sectors) /\ Calm(G, Sectors)
  BY <1>5, <1>10, <1>11 DEF RoomIn, Calm
<1>14. ListsIn(G, Sectors, mem.phys, mem.lut)
  BY <1>5, <1>10, <1>11, KeepLists
<1>15. Kept(G, Sectors, use.names, mem, OpenBy(g))
  BY <1>9, <1>10, <1>11, <1>13, <1>14 DEF Kept
<1>16. Adds(G, Sectors, mem, g, {})
  BY <1>7, <1>8, <1>9, <1>11 DEF Adds
<1>17. \A r : Moves(flash, Sectors, use.cached, mem, r, {Top.tok})
              /\ Adds(flash, Sectors, mem, Top, {r.sec}) => g.sec # r.sec
  BY <1>1, <1>9 DEF Adds, s
<1>18. Adding(G, Sectors, use.names, use.cached, mem, g, Tail(stack))
  <2>1. \A q \in Sectors : mem.phys[q] # NoSector => mem.phys[q] # NoSector
    OBVIOUS
  <2>2. g.tok = Top.tok /\ g.val = Top.val
    BY <1>9
  <2> QED BY <1>2, <1>5, <1>11, <1>15, <1>16, <1>17, <2>1, <2>2, AddingGoesOn
<1>19. Stands(G, Sectors, use.names, use.cached, mem, <<g>> \o Tail(stack))
  BY <1>9, <1>18, ShapesStand
<1>20. FlashOk(G, Sectors, use.names)
  BY <1>11, <1>12, <1>13 DEF FlashOk
<1> QED BY <1>3, <1>4, <1>19, <1>20, InvParts, Preserved
-----------------------------------------------------------------------------
(***************************************************************************)
(* Nvm_Reset and gpNvm_ErasePool: the erase of the flash.                  *)
(***************************************************************************)

(* A boot is on top.                                                       *)
LEMMA BootOnTop ==
  ASSUME IInv, ~Idle, Top.op = "boot"
  PROVE  /\ Top \in BootFrames(Sectors) /\ Tail(stack) \in Booting(Sectors)
         /\ Boots(flash, Sectors, Top)
<1>1. stack # <<>> /\ Head(stack).op = "boot"
  BY DEF Idle, Top
<1> QED BY <1>1, InvParts, StandsShapes DEF Top

LEMMA EraseOnTop ==
  ASSUME IInv, ~Idle, Top.op = "erase"
  PROVE  /\ Top \in EraseFrames(Sectors) /\ Tail(stack) = <<>> /\ stack = <<Top>>
         /\ Top.at = "done" => Kept(flash, Sectors, use.names, mem, NoSector)
<1>1. stack # <<>> /\ Head(stack).op = "erase"
  BY DEF Idle, Top
<1> QED BY <1>1, InvParts, StandsShapes DEF Top

LEMMA BootGoesOn ==
  ASSUME IInv, use' = use, FlashOk(flash', Sectors, use.names), mem' \in TablesIn(Sectors),
         NEW f \in BootFrames(Sectors), NEW rest \in Booting(Sectors),
         stack' = <<f>> \o rest, Boots(flash', Sectors, f),
         events' \subseteq {"relocate", "defrag"},
         result' \in {"none", "ok", "error"}, failed' \in BOOLEAN,
         moved' \in Nat, calls' \in 0 .. use.calls, resets' \in 0 .. use.resets
  PROVE  IInv'
<1>1. Stands(flash', Sectors, use.names, use.cached, mem', stack')
  BY ShapesStand
<1> QED BY <1>1, Preserved

(* The caller of a boot goes on with the new tables.                       *)
LEMMA CallerStands ==
  ASSUME NEW F, NEW S, NEW n, NEW c, NEW m, Kept(F, S, n, m, NoSector)
  PROVE  /\ \A b \in Waiting : Stands(F, S, n, c, m, <<b>>)
         /\ \A rest \in Booting(S) : Stands(F, S, n, c, m, rest)
<1>1. \A b \in Waiting : Stands(F, S, n, c, m, <<b>>)
  BY ShapesStand DEF Waiting
<1>2. \A b \in EraseFrames(S) : Stands(F, S, n, c, m, <<b>>)
  BY ShapesStand
<1>3. Stands(F, S, n, c, m, <<>>)
  BY ShapesStand
<1> QED BY <1>1, <1>2, <1>3 DEF Booting

LEMMA BootFrameIs ==
  ASSUME NEW F, NEW S
  PROVE  BootFrame \in BootFrames(S) /\ Boots(F, S, BootFrame)
BY DEF BootFrame, BootFrames, Boots

LEMMA NoTablesTyped ==
  ASSUME use \in Uses PROVE NoTables \in TablesIn(Sectors)
<1>1. NumSectors \in Nat \ {0} /\ Sectors = 0 .. NumSectors - 1
  BY NumbersOfSectors
<1>2. NumSectors - 1 \in Sectors
  BY <1>1
<1>3. NoExtremes \in SeqsType
  BY SeqAssumption DEF NoExtremes, SeqsType, Numbers
<1>4. <<>> \in Seq(ItemsIn(Sectors))
  OBVIOUS
<1> QED BY <1>2, <1>3, <1>4 DEF NoTables, TablesIn

(* Power up.                                                               *)
LEMMA PowerUpKeeps ==
  ASSUME IInv, PowerUp, FlashOk(flash', Sectors, use.names) PROVE IInv'
<1>1. /\ use' = use /\ mem' = NoTables /\ events' = {} /\ stack' = <<BootFrame>>
      /\ result' = "none" /\ failed' = FALSE /\ moved' = 0 /\ calls' = calls
      /\ resets < use.resets /\ resets' = resets + 1
  BY DEF PowerUp
<1>2. <<>> \in Booting(Sectors) /\ stack' = <<BootFrame>> \o <<>>
  BY <1>1, Tuples DEF Booting
<1>3. mem' \in TablesIn(Sectors)
  BY <1>1, InvParts, NoTablesTyped
<1>4. resets' \in 0 .. use.resets
  BY <1>1, InvParts
<1> QED BY <1>1, <1>2, <1>3, <1>4, InvParts, BootFrameIs, BootGoesOn

LEMMA ResetBetweenKeeps ==
  ASSUME IInv, ResetBetween PROVE IInv'
BY InvParts, PowerUpKeeps DEF ResetBetween

LEMMA ResetInStoreKeeps ==
  ASSUME IInv, ResetInStore PROVE IInv'
<1> DEFINE p == mem.phys[Place]
           g == PlacePage
           w == Written(FALSE)
<1>1. CanStore /\ PowerUp /\ Appended(FALSE)
  BY DEF ResetInStore
<1>2. /\ w \in Record
      /\ flash' = Stores(flash, mem.phys, Place, g, w)
      /\ flash' \in FlashIn(Sectors) /\ FlashGood(flash', Sectors) /\ RoomIn(flash', Sectors)
  BY <1>1, AppendedIs
<1>3. /\ OpenBy(Top) = NoSector /\ Place \in Sectors /\ p \in Sectors /\ g \in Pages
  BY <1>1, PlaceIs
<1>4. Kept(flash, Sectors, use.names, mem, NoSector)
  <2>1. ~Idle /\ Top.op = "add"
    BY <1>1 DEF CanStore, At
  <2> QED BY <1>3, <2>1, AddOnTop
<1>5. /\ flash \in FlashIn(Sectors) /\ Named(flash, Sectors, use.names) /\ use.names \in Nat
      /\ NoSector \notin Sectors
  BY InvParts
<1>6. flash[p] \in SectorsIn(Sectors) /\ AllOk(flash[p].page[g])
  BY <1>3, <1>4, <1>5 DEF FlashIn, Kept, TidyIn
<1>7. ~w.ok
  BY DEF Written
<1>8. flash' = [flash EXCEPT ![p] = With(flash[p], g, w)]
  BY <1>2 DEF Stores
<1> HIDE DEF p, g, w
<1>9. \A o \in Shown(With(flash[p], g, w)) : o \in Shown(flash[p])
  BY <1>2, <1>3, <1>6, <1>7, WithShows
<1>10. \A o \in Shown(With(flash[p], g, w)) : o.tok \in TokensIn(flash, Sectors)
  BY <1>3, <1>9, TokensAre
<1>11. Named(flash', Sectors, use.names)
  BY <1>3, <1>5, <1>8, <1>10, FewerTokens
<1> QED BY <1>1, <1>2, <1>11, PowerUpKeeps DEF FlashOk

(* A sector is erased.                                                     *)
LEMMA BlankedOk ==
  ASSUME NEW S, NoSector \notin S, NEW F, NEW n \in Nat, FlashOk(F, S, n), NEW p \in S
  PROVE  FlashOk([F EXCEPT ![p] = Blank], S, n)
<1> DEFINE G == [F EXCEPT ![p] = Blank]
<1>1. F \in FlashIn(S) /\ FlashGood(F, S) /\ RoomIn(F, S) /\ Named(F, S, n)
  BY DEF FlashOk
<1>2. /\ Blank \in SectorsIn(S) /\ ~IsValid(Blank) /\ Shown(Blank) = {}
      /\ \A g \in Pages : Blank.head[g] = NoHeader /\ Blank.page[g] = <<>>
  BY BlankIs
<1>3. ~Blank.head[2].pending /\ ~IsSound(Blank)
  BY <1>2 DEF IsSound, NoHeader, Pages
<1>4. G \in FlashIn(S) /\ FlashGood(G, S)
  BY <1>1, <1>2, <1>3, OneSector
<1>5. Named(G, S, n)
  BY <1>1, <1>2, FewerTokens
<1>6. G[p] = Blank /\ \A q \in S \ {p} : G[q] = F[q]
  BY <1>1 DEF FlashIn
<1>7. RoomIn(G, S)
  BY <1>1, <1>2, <1>6, UsedEmpty, NvmAssumption DEF RoomIn
<1> QED BY <1>4, <1>5, <1>7 DEF FlashOk

LEMMA FindPendingKeeps ==
  ASSUME IInv, FindPending PROVE IInv'
<1> DEFINE at == IF IsPending THEN "wipe" ELSE "corrupt"
           f == [Top EXCEPT !.at = at]
<1>1. ~Idle /\ Top.op = "boot"
  BY DEF FindPending, At
<1>2. UNCHANGED <<use, flash, mem, events, result, failed, moved, calls, resets>>
  BY DEF FindPending
<1>3. stack' = <<f>> \o Tail(stack)
  BY DEF FindPending, Goto
<1>4. Top \in BootFrames(Sectors) /\ Tail(stack) \in Booting(Sectors)
  BY <1>1, BootOnTop
<1>5. at \in {"wipe", "corrupt"} /\ (at = "corrupt" => Calm(flash, Sectors))
  BY Bridges
<1> HIDE DEF at
<1>6. f \in BootFrames(Sectors) /\ f.at = at
  BY <1>4, <1>5 DEF BootFrames
<1>7. Boots(flash, Sectors, f)
  BY <1>5, <1>6 DEF Boots
<1> HIDE DEF f
<1> QED BY <1>2, <1>3, <1>4, <1>6, <1>7, InvParts, BootGoesOn

LEMMA EndEraseKeeps ==
  ASSUME IInv, EndErase PROVE IInv'
<1>1. ~Idle /\ Top.op = "erase" /\ Top.at = "done"
  BY DEF EndErase, At
<1>2. Tail(stack) = <<>> /\ Kept(flash, Sectors, use.names, mem, NoSector)
  BY <1>1, EraseOnTop
<1>3. /\ UNCHANGED <<use, flash, mem, events, failed, moved, calls, resets>>
      /\ stack' = <<>> /\ result' = "ok"
  BY <1>2 DEF EndErase, Answer, Return
<1>4. Stands(flash, Sectors, use.names, use.cached, mem, stack')
  BY <1>2, <1>3, ShapesStand
<1> QED BY <1>3, <1>4, InvParts, StackOnly

(* The calls in progress are the top one and the rest.                     *)
LEMMA StandsPut ==
  ASSUME NEW F, NEW S, NEW n, NEW c, NEW m, NEW st, Stands(F, S, n, c, m, st), st # <<>>
  PROVE  st = <<Head(st)>> \o Tail(st)
<1>1. ASSUME NEW a, st = <<a>> PROVE st = <<Head(st)>> \o Tail(st)
  BY <1>1, Tuples
<1>2. ASSUME NEW a, NEW b, st = <<a, b>> PROVE st = <<Head(st)>> \o Tail(st)
  <2>1. <<a>> \o <<b>> = <<a, b>>
    BY Tuples
  <2>2. Head(st) = a /\ Tail(st) = <<b>>
    BY <1>2, Tuples
  <2> QED BY <1>2, <2>1, <2>2
<1>3. ASSUME NEW a, NEW b, NEW d, st = <<a, b, d>> PROVE st = <<Head(st)>> \o Tail(st)
  BY <1>3, Tuples
<1>4. (\E a : st = <<a>>) \/ (\E a, b : st = <<a, b>>) \/ (\E a, b, d : st = <<a, b, d>>)
  BY DEF Stands
<1> QED BY <1>1, <1>2, <1>3, <1>4

LEMMA TuplesEmpty ==
  ASSUME NEW x, NEW y PROVE <<x, y>> \o <<>> = <<x, y>>
OBVIOUS

LEMMA WipeKeeps ==
  ASSUME IInv, Wipe PROVE IInv'
<1>1. /\ ~Idle /\ Top.op \in {"boot", "erase"} /\ Top.at = "wipe"
      /\ UNCHANGED <<use, mem, events, result, failed, moved, calls, resets>>
  BY DEF Wipe, At
<1>2. Sectors \subseteq Nat /\ NoSector \notin Sectors
  BY InvParts
<1>3. CASE Dirty # {}
  <2> DEFINE p == Min(Dirty)
  <2>1. p \in Sectors
    BY <1>2, <1>3, MinIs DEF Dirty
  <2>2. flash' = [flash EXCEPT ![p] = Blank] /\ stack' = stack
    BY <1>3 DEF Wipe
  <2> HIDE DEF p
  <2>3. FlashOk(flash', Sectors, use.names)
    BY <2>1, <2>2, InvParts, BlankedOk
  <2>4. CASE Top.op = "boot"
    <3>1. Top \in BootFrames(Sectors) /\ Tail(stack) \in Booting(Sectors)
      BY <1>1, <2>4, BootOnTop
    <3>2. Boots(flash', Sectors, Top)
      BY <1>1 DEF Boots
    <3>3. stack = <<Top>> \o Tail(stack)
      BY <1>1, InvParts, StandsPut DEF Idle, Top
    <3> QED BY <1>1, <2>2, <2>3, <3>1, <3>2, <3>3, InvParts, BootGoesOn
  <2>5. CASE Top.op = "erase"
    <3>1. Top \in EraseFrames(Sectors) /\ stack = <<Top>>
      BY <1>1, <2>5, EraseOnTop
    <3>2. Stands(flash', Sectors, use.names, use.cached, mem', stack')
      BY <1>1, <2>2, <3>1, ShapesStand
    <3> QED BY <1>1, <2>2, <2>3, <3>2, InvParts, Preserved
  <2> QED BY <1>1, <2>4, <2>5
<1>4. CASE Dirty = {}
  <2>1. flash' = flash
    BY <1>4 DEF Wipe
  <2>2. CASE Top.op = "boot"
    <3> DEFINE f == [Top EXCEPT !.at = "corrupt"]
    <3>1. stack' = <<f>> \o Tail(stack)
      BY <1>4, <2>2 DEF Wipe, Goto
    <3>2. Top \in BootFrames(Sectors) /\ Tail(stack) \in Booting(Sectors)
      BY <1>1, <2>2, BootOnTop
    <3>3. f \in BootFrames(Sectors) /\ f.at = "corrupt"
      BY <3>2 DEF BootFrames
    <3> HIDE DEF f
    <3>4. Calm(flash, Sectors)
      <4>1. \A p \in Sectors : flash[p] = Blank
        BY <1>4 DEF Dirty
      <4> QED BY <4>1, BlankIs DEF Calm, NoHeader, Pages
    <3>5. Boots(flash', Sectors, f)
      BY <2>1, <3>3, <3>4 DEF Boots
    <3> QED BY <1>1, <2>1, <3>1, <3>2, <3>3, <3>5, InvParts, BootGoesOn
  <2>3. CASE Top.op = "erase"
    <3> DEFINE b == [Top EXCEPT !.at = "done"]
    <3>1. stack' = <<BootFrame, b>> \o Tail(stack)
      BY <1>4, <2>3 DEF Wipe, CallingAt
    <3>2. Top \in EraseFrames(Sectors) /\ Tail(stack) = <<>>
      BY <1>1, <2>3, EraseOnTop
    <3>3. b \in EraseFrames(Sectors) /\ b.at = "done"
      BY <3>2 DEF EraseFrames
    <3> HIDE DEF b
    <3>4. <<b>> \in Booting(Sectors)
      BY <3>3 DEF Booting
    <3>5. <<BootFrame>> \o <<b>> = <<BootFrame, b>> /\ <<BootFrame, b>> \o <<>> = <<BootFrame, b>>
      BY Tuples, TuplesEmpty
    <3>6. stack' = <<BootFrame>> \o <<b>>
      BY <3>1, <3>2, <3>5
    <3> QED BY <1>1, <2>1, <3>4, <3>6, InvParts, BootFrameIs, BootGoesOn
  <2> QED BY <1>1, <2>2, <2>3
<1> QED BY <1>3, <1>4
-----------------------------------------------------------------------------
(***************************************************************************)
(* The announcement of an erase, and the erase of a relocated sector.      *)
(***************************************************************************)

(* The first header of a sector announces an erase.                        *)
LEMMA FlaggedIs ==
  ASSUME NEW S, NoSector \notin S, NEW F, NEW n \in Nat, FlashOk(F, S, n), NEW p \in S
  PROVE  FlashOk([F EXCEPT ![p].head[1].pending = TRUE], S, n)
<1> DEFINE h == [F[p].head[1] EXCEPT !.pending = TRUE]
           x == [F[p] EXCEPT !.head[1] = h]
           G == [F EXCEPT ![p] = x]
<1>1. F \in FlashIn(S) /\ FlashGood(F, S) /\ RoomIn(F, S) /\ Named(F, S, n)
  BY DEF FlashOk
<1>2. F[p] \in SectorsIn(S)
  BY <1>1 DEF FlashIn
<1>3. F[p].head[1] \in HeadersIn(S)
  BY <1>2 DEF SectorsIn, Pages
<1>4. [F EXCEPT ![p].head[1].pending = TRUE] = G
  BY <1>1 DEF FlashIn
<1>h. h \in HeadersIn(S) /\ h.pending = TRUE /\ h.id = F[p].head[1].id
  BY <1>3 DEF HeadersIn
<1> HIDE DEF h
<1>5. x \in SectorsIn(S) /\ x.page = F[p].page /\ x.head[2] = F[p].head[2] /\ x.head[1] = h
  <2> DEFINE hs == [F[p].head EXCEPT ![1] = h]
  <2>1. hs \in [Pages -> HeadersIn(S)] /\ hs[1] = h /\ hs[2] = F[p].head[2]
    BY <1>2, <1>h DEF SectorsIn, Pages
  <2>2. x = [F[p] EXCEPT !.head = hs]
    BY <1>2 DEF SectorsIn
  <2> HIDE DEF hs, x
  <2> QED BY <1>2, <2>1, <2>2 DEF SectorsIn
<1>6. x.head[1].pending = TRUE /\ x.head[1].id = F[p].head[1].id
  BY <1>5, <1>h
<1> HIDE DEF x
<1>7. ~x.head[2].pending /\ x.head[1] # NoHeader /\ ~IsSound(x)
  <2>1. ~F[p].head[2].pending
    BY <1>1 DEF FlashGood
  <2>2. NoHeader.pending = FALSE
    BY DEF NoHeader
  <2>3. x.head[1] # NoHeader /\ x.head[1] # x.head[2]
    BY <1>5, <1>6, <2>1, <2>2
  <2> QED BY <1>5, <2>1, <2>3 DEF IsSound, IsBroken
<1>8. G \in FlashIn(S) /\ FlashGood(G, S)
  BY <1>1, <1>5, <1>7, OneSector
<1>9. Shown(x) = Shown(F[p])
  BY <1>5, <1>6 DEF Shown, IsValid
<1>10. \A r \in Shown(x) : r.tok \in TokensIn(F, S)
  BY <1>9, TokensAre
<1>11. Named(G, S, n)
  BY <1>1, <1>10, FewerTokens
<1>12. \A q \in S : G[q].page = F[q].page
  BY <1>1, <1>5 DEF FlashIn
<1>13. RoomIn(G, S)
  BY <1>1, <1>12 DEF RoomIn
<1> QED BY <1>4, <1>8, <1>11, <1>13 DEF FlashOk

LEMMA FlagSectorKeeps ==
  ASSUME IInv, FlagSector PROVE IInv'
<1> DEFINE q == (Top.p + 1) % NumSectors
           at == IF Top.p = NumSectors - 1 THEN "wipe" ELSE "flag"
           f == [Top EXCEPT !.p = q, !.at = at]
<1>1. ~Idle /\ Top.op = "erase"
  BY DEF FlagSector, At
<1>2. UNCHANGED <<use, mem, events, result, failed, moved, calls, resets>>
  BY DEF FlagSector
<1>3. flash' = [flash EXCEPT ![Top.p].head[1].pending = TRUE] /\ stack' = <<f>>
  <2>1. Top \in EraseFrames(Sectors)
    BY <1>1, EraseOnTop
  <2>2. [Top EXCEPT !.p = (@ + 1) % NumSectors, !.at = at] = f
    BY <2>1 DEF EraseFrames
  <2> QED BY <2>2 DEF FlagSector
<1>4. Top \in EraseFrames(Sectors) /\ Top.p \in Sectors
  BY <1>1, EraseOnTop DEF EraseFrames
<1>5. NumSectors \in Nat \ {0} /\ Sectors = 0 .. NumSectors - 1
  BY InvParts, NumbersOfSectors
<1>6. q \in Sectors
  BY <1>4, <1>5
<1>7. at \in {"wipe", "flag"}
  OBVIOUS
<1> HIDE DEF q, at
<1>8. f \in EraseFrames(Sectors) /\ f.at # "done"
  BY <1>4, <1>6, <1>7 DEF EraseFrames
<1> HIDE DEF f
<1>9. Stands(flash', Sectors, use.names, use.cached, mem', stack')
  BY <1>3, <1>8, ShapesStand
<1>10. FlashOk(flash', Sectors, use.names)
  BY <1>3, <1>4, InvParts, FlaggedIs
<1> QED BY <1>2, <1>9, <1>10, InvParts, Preserved

LEMMA ErasedLists ==
  ASSUME NEW S, NoSector \notin S, NEW F \in FlashIn(S), NEW phys \in MapIn(S),
         FlashGood(F, S), TidyIn(F, S, phys, NoSector), NEW s \in S, phys[s] # NoSector,
         NEW lut, ListsIn(F, S, phys, lut), \A k \in DOMAIN lut : lut[k].sec # s
  PROVE  LET G == Erased(F, phys, s)
             psys == Unmapped(phys, s)
         IN  /\ TidyIn(G, S, psys, NoSector) /\ ListsIn(G, S, psys, lut)
             /\ G[phys[s]] = Blank /\ \A q \in S \ {phys[s]} : G[q] = F[q]
<1> DEFINE G == Erased(F, phys, s)
           psys == Unmapped(phys, s)
<1>1. /\ TidyIn(G, S, psys, NoSector)
      /\ G[phys[s]] = Blank /\ \A q \in S \ {phys[s]} : G[q] = F[q]
      /\ Keeps(S, F, phys, G, psys, s) /\ \A t : ~Carries(G, psys, s, t)
  BY EraseTidy
<1> HIDE DEF G, psys
<1>2. ListsIn(G, S, psys, lut)
  BY <1>1, EraseLists
<1> QED BY <1>1, <1>2 DEF G, psys

(* The tables are still those of the flash when nothing led to the sector. *)
LEMMA GoneKept ==
  ASSUME NEW S, NoSector \notin S, NEW F, NEW n \in Nat, FlashOk(F, S, n),
         NEW m \in TablesIn(S), Kept(F, S, n, m, NoSector),
         NEW s \in S, m.phys[s] # NoSector, \A k \in DOMAIN m.lut : m.lut[k].sec # s,
         NEW j, j.phys = Unmapped(m.phys, s), j.lut = m.lut, j.unique = m.unique
  PROVE  Kept(Erased(F, m.phys, s), S, n, j, NoSector)
<1> DEFINE phys == m.phys
           G == Erased(F, phys, s)
           psys == Unmapped(phys, s)
<1>1. F \in FlashIn(S) /\ FlashGood(F, S) /\ phys \in MapIn(S) /\ phys[s] # NoSector
  BY TablesParts DEF FlashOk
<1>2. /\ Calm(F, S) /\ TidyIn(F, S, phys, NoSector) /\ ListsIn(F, S, phys, m.lut)
      /\ Len(m.lut) <= m.unique /\ m.unique <= n
  BY DEF Kept
<1> HIDE DEF phys
<1>3. /\ TidyIn(G, S, psys, NoSector)
      /\ G[phys[s]] = Blank /\ \A q \in S \ {phys[s]} : G[q] = F[q]
      /\ ListsIn(G, S, psys, m.lut)
  BY <1>1, <1>2, ErasedLists
<1> HIDE DEF G, psys
<1>4. Calm(G, S)
  BY <1>2, <1>3, BlankIs DEF Calm, NoHeader, Pages
<1> QED BY <1>2, <1>3, <1>4 DEF Kept, psys, G, phys

LEMMA EraseRelocatedKeeps ==
  ASSUME IInv, EraseRelocated PROVE IInv'
<1> DEFINE s == Top.sec
           p == mem.phys[s]
           G == [flash EXCEPT ![p] = Blank]
           j == [mem EXCEPT !.phys[s] = NoSector, !.inactive[s] = 0, !.locked = @ \ {s}]
           again == Top.reset \/ SeqsOn(p) \cap Extremes(mem.seqs) # {}
<1>1. InRelocate /\ Coming = {}
  BY DEF EraseRelocated
<1>2. /\ Top \in RelocateFrames(Sectors) /\ Kept(flash, Sectors, use.names, mem, NoSector)
      /\ Moves(flash, Sectors, use.cached, mem, Top, {})
  BY <1>1, RelocateOnTop
<1>3. PICK b \in Waiting : Tail(stack) = <<b>>
  BY <1>1, RelocateOnTop
<1>4. /\ flash' = G /\ mem' = j /\ moved' = moved + 1
      /\ stack' = IF again THEN <<BootFrame>> \o Tail(stack) ELSE Tail(stack)
      /\ UNCHANGED <<use, events, result, failed, calls, resets>>
  BY DEF EraseRelocated
<1>5. /\ NoSector \notin Sectors /\ mem \in TablesIn(Sectors) /\ mem.phys \in MapIn(Sectors)
      /\ use.names \in Nat /\ FlashOk(flash, Sectors, use.names)
      /\ mem.lut \in Seq(ItemsIn(Sectors))
  BY InvParts
<1>6. s \in Sectors /\ mem.phys[s] # NoSector /\ p \in Sectors
  BY <1>2, <1>5 DEF Moves, MapIn
<1>7. FlashOk(G, Sectors, use.names)
  BY <1>5, <1>6, BlankedOk
<1>8. /\ j \in TablesIn(Sectors) /\ j.phys = [mem.phys EXCEPT ![s] = NoSector]
      /\ j.lut = mem.lut /\ j.unique = mem.unique
  BY <1>5, <1>6 DEF TablesIn
<1> HIDE DEF j
<1>9. CASE again
  <2>1. stack' = <<BootFrame>> \o <<b>> /\ <<b>> \in Booting(Sectors)
    BY <1>3, <1>4, <1>9 DEF Booting
  <2>2. /\ events' \subseteq {"relocate", "defrag"}
        /\ result' \in {"none", "ok", "error"} /\ failed' \in BOOLEAN
        /\ moved' \in Nat /\ calls' \in 0 .. use.calls /\ resets' \in 0 .. use.resets
    BY <1>4, InvParts
  <2>3. FlashOk(flash', Sectors, use.names) /\ mem' \in TablesIn(Sectors) /\ use' = use
    BY <1>4, <1>7, <1>8
  <2>4. BootFrame \in BootFrames(Sectors) /\ Boots(flash', Sectors, BootFrame)
    BY BootFrameIs
  <2> QED BY <2>1, <2>2, <2>3, <2>4, BootGoesOn
<1>10. CASE ~again
  <2>1. stack' = <<b>> /\ ~Top.reset
    BY <1>3, <1>4, <1>10
  <2>2. \A k \in DOMAIN mem.lut : mem.lut[k].sec # s
    <3> SUFFICES ASSUME NEW k \in DOMAIN mem.lut, mem.lut[k].sec = s PROVE FALSE
      OBVIOUS
    <3>1. ~(k >= Top.next)
      BY <1>1 DEF Coming
    <3>2. k < Top.next
      BY <1>2, <1>5, <3>1 DEF RelocateFrames
    <3> QED BY <1>2, <2>1, <3>2 DEF Moves
  <2> HIDE DEF s
  <2>3. Kept(G, Sectors, use.names, j, NoSector)
    <3>1. Kept(Erased(flash, mem.phys, s), Sectors, use.names, j, NoSector)
      BY <1>2, <1>5, <1>6, <1>8, <2>2, GoneKept DEF Unmapped
    <3> QED BY <3>1 DEF Erased
  <2>4. Stands(flash', Sectors, use.names, use.cached, mem', stack')
    BY <1>4, <2>1, <2>3, CallerStands
  <2> QED BY <1>4, <1>7, <1>8, <2>4, InvParts, Preserved
<1> QED BY <1>9, <1>10
-----------------------------------------------------------------------------
(***************************************************************************)
(* Salvage: its sector.                                                    *)
(***************************************************************************)

(* The map from the flash.                                                 *)
LEMMA WithMapIs ==
  ASSUME use \in Uses, flash \in FlashIn(Sectors), NEW m \in TablesIn(Sectors)
  PROVE  LET j == WithMap(m)
         IN  /\ j \in TablesIn(Sectors) /\ j.last = m.last
             /\ \A s \in Sectors : j.phys[s] # NoSector =>
                  /\ j.phys[s] \in Sectors /\ IsSound(flash[j.phys[s]])
                  /\ flash[j.phys[s]].head[1].id = s
             /\ \A s \in Sectors : j.phys[s] = NoSector =>
                  \A q \in Sectors : IsSound(flash[q]) => flash[q].head[1].id # s
<1> DEFINE phys == [s \in Sectors |-> IF Mapped(s) = {} THEN NoSector ELSE Min(Mapped(s))]
           j == [m EXCEPT !.phys = phys, !.locked = {}]
<1>1. NoSector \notin Sectors /\ Sectors \subseteq Nat
  BY NumbersOfSectors
<1>2. \A s \in Sectors : Mapped(s) = {q \in Sectors : IsSound(flash[q]) /\ flash[q].head[1].id = s}
  BY Bridges DEF Mapped
<1>3. \A s \in Sectors : Mapped(s) # {} => Min(Mapped(s)) \in Mapped(s)
  <2> TAKE s \in Sectors
  <2>1. Mapped(s) \subseteq Nat
    BY <1>1 DEF Mapped
  <2> QED BY <2>1, MinIs
<1>4. \A s \in Sectors : /\ phys[s] = NoSector => Mapped(s) = {}
                         /\ phys[s] # NoSector => phys[s] \in Mapped(s)
  BY <1>1, <1>2, <1>3
<1>5. phys \in [Sectors -> Sectors \cup {NoSector}]
  BY <1>2, <1>3
<1> HIDE DEF phys
<1>6. j \in TablesIn(Sectors) /\ j.phys = phys /\ j.last = m.last
  BY <1>5 DEF TablesIn
<1>7. WithMap(m) = j
  BY DEF WithMap, phys
<1> HIDE DEF j
<1> QED BY <1>2, <1>4, <1>6, <1>7

(* A blank sector is opened.                                               *)
LEMMA OpenedOk ==
  ASSUME NEW S, NoSector \notin S, NEW F, NEW n \in Nat, FlashOk(F, S, n),
         NEW p \in S, NEW s \in S
  PROVE  FlashOk([F EXCEPT ![p] = Opened(s)], S, n)
<1> DEFINE G == [F EXCEPT ![p] = Opened(s)]
<1>1. F \in FlashIn(S) /\ FlashGood(F, S) /\ RoomIn(F, S) /\ Named(F, S, n)
  BY DEF FlashOk
<1>2. /\ Opened(s) \in SectorsIn(S) /\ Opened(s).head[1] = HeadOf(s)
      /\ Opened(s).head[2] = NoHeader /\ HeadOf(s) # NoHeader
      /\ ~NoHeader.pending
      /\ \A g \in Pages : Opened(s).page[g] = <<>>
      /\ ~IsSound(Opened(s)) /\ Shown(Opened(s)) = {}
  BY OpenedIs
<1>3. G \in FlashIn(S) /\ FlashGood(G, S)
  BY <1>1, <1>2, OneSector
<1>4. Named(G, S, n)
  BY <1>1, <1>2, FewerTokens
<1>5. G[p] = Opened(s) /\ \A q \in S \ {p} : G[q] = F[q]
  BY <1>1 DEF FlashIn
<1>6. RoomIn(G, S)
  BY <1>1, <1>2, <1>5, UsedEmpty, NvmAssumption DEF RoomIn
<1> QED BY <1>3, <1>4, <1>6 DEF FlashOk

LEMMA SalvageKeeps ==
  ASSUME IInv, Salvage PROVE IInv'
<1> DEFINE m == WithMap(mem)
           s == FreeLogical(m)
           p == FreePhysical(m.last)
           b == Min(Corrupt)
           G == [flash EXCEPT ![p] = Opened(s)]
           j == [m EXCEPT !.last = p]
           f == [Top EXCEPT !.at = "header", !.from = b, !.to = p]
<1>1. ~Idle /\ Top.op = "boot" /\ Top.at = "corrupt" /\ Corrupt # {}
  BY DEF Salvage, At
<1>2. UNCHANGED <<use, events, result, moved, calls, resets>>
  BY DEF Salvage
<1>3. CASE ~CanCreate(m)
  <2>1. failed' = TRUE /\ flash' = flash /\ mem' = mem /\ stack' = stack
    BY <1>3 DEF Salvage
  <2>2. Stands(flash, Sectors, use.names, use.cached, mem, stack')
    BY <2>1, InvParts
  <2> QED BY <1>2, <2>1, <2>2, InvParts, StackOnly
<1>4. CASE CanCreate(m)
  <2>1. /\ flash' = WriteHeader(p, 1, s) /\ mem' = j /\ failed' = failed
        /\ stack' = <<f>> \o Tail(stack)
    BY <1>4 DEF Salvage
  <2>2. Top \in BootFrames(Sectors) /\ Tail(stack) \in Booting(Sectors) /\ Calm(flash, Sectors)
    BY <1>1, BootOnTop DEF Boots
  <2>3. /\ use \in Uses /\ NoSector \notin Sectors /\ flash \in FlashIn(Sectors)
        /\ FlashGood(flash, Sectors) /\ Sectors \subseteq Nat
        /\ FlashOk(flash, Sectors, use.names) /\ use.names \in Nat /\ mem \in TablesIn(Sectors)
    BY InvParts
  <2>4. /\ m \in TablesIn(Sectors)
        /\ \A q \in Sectors : m.phys[q] = NoSector =>
             \A x \in Sectors : IsSound(flash[x]) => flash[x].head[1].id # q
    BY <2>3, WithMapIs
  <2> HIDE DEF m
  <2>5. m.last \in Sectors
    BY <2>4, TablesParts
  <2>6. (\E q \in Sectors : IsFree(q)) /\ InUse(m) # Sectors
    BY <1>4 DEF CanCreate
  <2>7. s \in Sectors \ InUse(m)
    BY <2>3, <2>6, FreeLogicalIs
  <2>8. p \in Sectors /\ IsFree(p)
    BY <2>3, <2>5, <2>6, FreePhysicalIs
  <2> HIDE DEF s, p
  <2>9. flash[p] = Blank /\ ~IsValid(flash[p])
    <3>1. ~IsValid(flash[p])
      BY <2>8 DEF IsFree, HasValidHeader, IsValid
    <3> QED BY <2>2, <2>3, <2>8, <3>1, FreeIsBlank
  <2>10. flash' = G
    BY <2>1, <2>3, <2>8, <2>9, HeaderOpens
  <2>11. b \in Sectors /\ IsValid(flash[b])
    <3>1. b \in Corrupt
      BY <1>1, <2>3, MinIs DEF Corrupt
    <3> QED BY <3>1 DEF Corrupt, IsCorrupt, HasValidHeader, IsValid
  <2> HIDE DEF b
  <2>12. FlashOk(G, Sectors, use.names)
    BY <2>3, <2>7, <2>8, OpenedOk
  <2>13. G[p] = Opened(s) /\ \A q \in Sectors \ {p} : G[q] = flash[q]
    BY <2>3, <2>8 DEF FlashIn
  <2>14. /\ Opened(s).head[1] = HeadOf(s) /\ Opened(s).head[2] = NoHeader
         /\ ~HeadOf(s).pending /\ ~IsSound(Opened(s))
         /\ \A h \in Pages : Opened(s).page[h] = <<>>
    BY <2>3, <2>7, OpenedIs
  <2>15. f \in BootFrames(Sectors) /\ f.at = "header" /\ f.from = b /\ f.to = p
    BY <2>2, <2>8, <2>11 DEF BootFrames
  <2> HIDE DEF G, f
  <2>16. Calm(G, Sectors)
    BY <2>2, <2>13, <2>14 DEF Calm
  <2>17. b # p /\ IsValid(G[b])
    BY <2>9, <2>11, <2>13
  <2>18. \A q \in Sectors : IsSound(G[q]) => G[q].head[1].id # s
    BY <2>4, <2>7, <2>13, <2>14 DEF InUse
  <2>19. Boots(G, Sectors, f)
    BY <2>7, <2>8, <2>11, <2>13, <2>14, <2>15, <2>16, <2>17, <2>18 DEF Boots
  <2>20. j \in TablesIn(Sectors)
    BY <2>4, <2>8 DEF TablesIn
  <2> HIDE DEF j
  <2>21. /\ FlashOk(flash', Sectors, use.names) /\ mem' \in TablesIn(Sectors) /\ use' = use
         /\ Boots(flash', Sectors, f)
    BY <1>2, <2>1, <2>10, <2>12, <2>19, <2>20
  <2>22. /\ events' \subseteq {"relocate", "defrag"}
         /\ result' \in {"none", "ok", "error"} /\ failed' \in BOOLEAN
         /\ moved' \in Nat /\ calls' \in 0 .. use.calls /\ resets' \in 0 .. use.resets
    BY <1>2, <2>1, InvParts
  <2> QED BY <2>1, <2>2, <2>15, <2>21, <2>22, BootGoesOn
<1> QED BY <1>3, <1>4

LEMMA SalvageSecondKeeps ==
  ASSUME IInv, SalvageSecond PROVE IInv'
<1> DEFINE p == Top.to
           s == flash[p].head[1].id
           x == [flash[p] EXCEPT !.head[2] = HeadOf(s)]
           G == [flash EXCEPT ![p] = x]
           f == [Top EXCEPT !.at = "copy"]
<1>1. ~Idle /\ Top.op = "boot" /\ Top.at = "header"
  BY DEF SalvageSecond, At
<1>2. /\ UNCHANGED <<use, mem, events, result, failed, moved, calls, resets>>
      /\ flash' = [flash EXCEPT ![p].head[2] = HeadOf(s)]
      /\ stack' = <<f>> \o Tail(stack)
  BY DEF SalvageSecond, WriteHeader, HeadOf, Goto
<1>3. /\ Top \in BootFrames(Sectors) /\ Tail(stack) \in Booting(Sectors)
      /\ Boots(flash, Sectors, Top)
  BY <1>1, BootOnTop
<1>4. /\ Calm(flash, Sectors) /\ p \in Sectors /\ Top.from \in Sectors /\ Top.from # p
      /\ IsValid(flash[Top.from]) /\ \A g \in Pages : flash[p].page[g] = <<>>
      /\ \E z \in Sectors : flash[p].head[1] = HeadOf(z)
                            /\ \A q \in Sectors : IsSound(flash[q]) => flash[q].head[1].id # z
  BY <1>1, <1>3 DEF Boots
<1>5. s \in Sectors /\ flash[p].head[1] = HeadOf(s)
      /\ \A q \in Sectors : IsSound(flash[q]) => flash[q].head[1].id # s
  BY <1>4 DEF HeadOf
<1>6. /\ NoSector \notin Sectors /\ flash \in FlashIn(Sectors)
      /\ FlashGood(flash, Sectors) /\ RoomIn(flash, Sectors) /\ Named(flash, Sectors, use.names)
      /\ use.names \in Nat /\ mem \in TablesIn(Sectors)
  BY InvParts
<1> HIDE DEF s
<1>7. /\ flash' = G /\ x.page = flash[p].page /\ x.head[1] = flash[p].head[1]
      /\ x.head[2] = HeadOf(s) /\ Named(G, Sectors, use.names)
  <2>1. p \in Sectors
    BY <1>4
  <2>2. flash[p] \in SectorsIn(Sectors)
    BY <1>6, <2>1 DEF FlashIn
  <2> HIDE DEF p
  <2>3. flash' = G
    BY <1>2, <1>6 DEF FlashIn
  <2>4. x.page = flash[p].page /\ x.head[1] = flash[p].head[1] /\ x.head[2] = HeadOf(s)
    BY <2>2 DEF SectorsIn, Pages
  <2> HIDE DEF x
  <2>5. Shown(x) = Shown(flash[p])
    BY <2>4 DEF Shown, IsValid
  <2>6. \A r \in Shown(x) : r.tok \in TokensIn(flash, Sectors)
    BY <2>1, <2>5, TokensAre
  <2>7. Named(G, Sectors, use.names)
    BY <1>6, <2>1, <2>6, FewerTokens
  <2> QED BY <2>3, <2>4, <2>7
<1>8. /\ HeadOf(s) # NoHeader /\ HeadOf(s) \in HeadersIn(Sectors)
      /\ HeadOf(s).id = s /\ ~HeadOf(s).pending
  BY <1>5, <1>6, OpenedIs
<1>9. x \in SectorsIn(Sectors)
  <2>1. flash[p] \in SectorsIn(Sectors)
    BY <1>4, <1>6 DEF FlashIn
  <2> DEFINE hs == [flash[p].head EXCEPT ![2] = HeadOf(s)]
  <2>2. hs \in [Pages -> HeadersIn(Sectors)]
    BY <1>8, <2>1 DEF SectorsIn, Pages
  <2>3. x = [flash[p] EXCEPT !.head = hs]
    BY <2>1 DEF SectorsIn
  <2> HIDE DEF hs, x
  <2> QED BY <2>1, <2>2, <2>3 DEF SectorsIn
<1> HIDE DEF x, p
<1>10. /\ G \in FlashIn(Sectors) /\ FlashGood(G, Sectors)
  <2>1. /\ ~x.head[2].pending /\ x.head[1] # NoHeader
        /\ \A q \in Sectors \ {p} : IsSound(flash[q]) => flash[q].head[1].id # x.head[1].id
    BY <1>5, <1>7, <1>8
  <2>2. p \in Sectors
    BY <1>4
  <2> QED BY <1>6, <1>9, <2>1, <2>2, OneSector
<1>11. G[p] = x /\ \A q \in Sectors \ {p} : G[q] = flash[q]
  BY <1>4, <1>6 DEF FlashIn
<1> HIDE DEF G
<1>12. RoomIn(G, Sectors)
  BY <1>6, <1>7, <1>11 DEF RoomIn
<1>13. Calm(G, Sectors)
  BY <1>4, <1>7, <1>11 DEF Calm
<1>14. f \in BootFrames(Sectors) /\ f.at = "copy" /\ f.from = Top.from /\ f.to = p
  BY <1>3 DEF BootFrames, p
<1> HIDE DEF f
<1>15. IsSound(G[p]) /\ \A g \in Pages : G[p].page[g] = <<>>
  <2>1. G[p].head[1] = HeadOf(s) /\ G[p].head[2] = HeadOf(s) /\ \A g \in Pages : G[p].page[g] = <<>>
    BY <1>4, <1>5, <1>7, <1>11
  <2>2. \A g \in Pages : \A i \in DOMAIN G[p].page[g] : FALSE
    BY <2>1
  <2> QED BY <1>5, <1>6, <1>8, <2>1, <2>2 DEF IsSound, IsValid, IsBroken
<1>16. Boots(G, Sectors, f)
  <2>1. IsValid(G[Top.from])
    BY <1>4, <1>11
  <2>2. \A g \in Pages : Len(GoodRecords(G[Top.from].page[g])) \in Nat
    <3> TAKE g \in Pages
    <3>1. G[Top.from].page[g] \in Seq(Record)
      BY <1>4, <1>6, <1>10, ValidIs
    <3>2. GoodRecords(G[Top.from].page[g]) \in Seq(Record)
      BY <3>1, GoodIs
    <3> QED BY <3>2
  <2>3. \A g \in Pages : LET a == G[p].page[g]
                             c == GoodRecords(G[Top.from].page[g])
                         IN  Len(a) <= Len(c) /\ \A i \in 1 .. Len(a) : a[i] = c[i]
    BY <1>15, <2>2
  <2> QED BY <1>4, <1>13, <1>14, <1>15, <2>1, <2>3 DEF Boots
<1>17. /\ FlashOk(flash', Sectors, use.names) /\ mem' \in TablesIn(Sectors) /\ use' = use
       /\ Boots(flash', Sectors, f)
  BY <1>2, <1>6, <1>7, <1>10, <1>12, <1>16 DEF FlashOk
<1>18. /\ events' \subseteq {"relocate", "defrag"}
       /\ result' \in {"none", "ok", "error"} /\ failed' \in BOOLEAN
       /\ moved' \in Nat /\ calls' \in 0 .. use.calls /\ resets' \in 0 .. use.resets
  BY <1>2, InvParts
<1> QED BY <1>2, <1>3, <1>14, <1>17, <1>18, BootGoesOn
-----------------------------------------------------------------------------
(***************************************************************************)
(* Salvage: its copies.                                                    *)
(***************************************************************************)

(* The next record of page g of the broken sector from.                    *)
Copy(F, from, to, g, ok) == [F[from].page[g][Len(F[to].page[g]) + 1] EXCEPT !.ok = ok]
Copies(F, from, to, g, ok) == [F EXCEPT ![to] = With(F[to], g, Copy(F, from, to, g, ok))]

Begun(F, from, to, g) ==
  LET a == F[to].page[g]
      b == GoodRecords(F[from].page[g])
  IN  Len(a) <= Len(b) /\ \A i \in 1 .. Len(a) : a[i] = b[i]

(* It is a record, the one that was there when it is written whole, and    *)
(* the sector does not take more space than the broken one.                *)
LEMMA CopyIs ==
  ASSUME NEW S, NoSector \notin S, NEW F \in FlashIn(S), RoomIn(F, S),
         NEW from \in S, NEW to \in S, NEW g \in Pages, NEW ok \in BOOLEAN, Begun(F, from, to, g),
         Len(F[to].page[g]) < Len(GoodRecords(F[from].page[g]))
  PROVE  LET r == Copy(F, from, to, g, ok)
             a == F[to].page[g]
             b == GoodRecords(F[from].page[g])
         IN  /\ r \in Record /\ r.ok = ok /\ a \in Seq(Record)
             /\ Len(a) + 1 \in DOMAIN b /\ r.tok = b[Len(a) + 1].tok
             /\ ok => r = b[Len(a) + 1]
             /\ UsedOf(Append(a, r)) <= PageSize
             /\ Len(a) + 1 \in DOMAIN F[from].page[g] /\ r.val = F[from].page[g][Len(a) + 1].val
<1> DEFINE a == F[to].page[g]
           q == F[from].page[g]
           b == GoodRecords(q)
           n == Len(a) + 1
           r == [q[n] EXCEPT !.ok = ok]
           c == Append(a, r)
<1>1. a \in Seq(Record) /\ q \in Seq(Record)
  BY ValidIs
<1>2. UsedOf(q) <= PageSize
  BY DEF RoomIn
<1>3. Len(a) < Len(b) /\ \A i \in 1 .. Len(a) : a[i] = b[i]
  BY DEF Begun
<1>4. Copy(F, from, to, g, ok) = r
  BY DEF Copy
<1> HIDE DEF a, q
<1>5. /\ b \in Seq(Record) /\ Len(b) <= Len(q)
      /\ \A i \in 1 .. Len(b) : b[i] = q[i] /\ q[i].ok
  BY <1>1, GoodIs
<1>6. Len(a) \in Nat /\ Len(q) \in Nat /\ Len(b) \in Nat /\ DOMAIN b = 1 .. Len(b) /\ DOMAIN q = 1 .. Len(q)
  BY <1>1, <1>5
<1> HIDE DEF b
<1>7. n \in 1 .. Len(b) /\ n \in 1 .. Len(q) /\ n \in Nat
  BY <1>3, <1>5, <1>6
<1> HIDE DEF n
<1>8. q[n] \in Record /\ b[n] = q[n] /\ q[n].ok = TRUE
  <2>1. q[n] \in Record /\ q[n].ok
    BY <1>1, <1>5, <1>6, <1>7
  <2> QED BY <1>5, <1>7, <2>1 DEF Record
<1>9. r \in Record /\ r.ok = ok /\ r.val = q[n].val /\ r.tok = q[n].tok
  BY <1>8 DEF Record
<1>10. ok => r = q[n]
  BY <1>8 DEF Record
<1> HIDE DEF r
<1>11. c \in Seq(Record) /\ Len(c) = n /\ DOMAIN c = 1 .. n
  BY <1>1, <1>6, <1>9 DEF n
<1>12. \A i \in 1 .. n : c[i].val = q[i].val
  <2> TAKE i \in 1 .. n
  <2>1. CASE i = n
    <3>1. c[n] = r
      BY <1>1, <1>9 DEF n
    <3> QED BY <1>9, <2>1, <3>1
  <2>2. CASE i # n
    <3>1. i \in 1 .. Len(a)
      BY <1>6, <2>2 DEF n
    <3>2. c[i] = a[i]
      BY <1>1, <1>9, <3>1
    <3>3. a[i] = b[i] /\ b[i] = q[i]
      BY <1>3, <1>5, <1>6, <3>1
    <3> QED BY <3>2, <3>3
  <2> QED BY <2>1, <2>2
<1> HIDE DEF c
<1>13. UsedOf(c) = Total(c, 1 .. n)
  BY <1>11, UsedIsTotal
<1>14. Total(c, 1 .. n) = Total(q, 1 .. n)
  <2>1. 1 .. n \in SUBSET DOMAIN c
    BY <1>11
  <2>2. IsFiniteSet(1 .. n) /\ Sized(c, 1 .. n)
    BY <1>11, <2>1, RecordsAreSized
  <2> HIDE DEF Sized
  <2> QED BY <1>12, <2>2, TotalAgree
<1>15. Total(q, 1 .. n) <= UsedOf(q)
  <2>1. n \in 0 .. Len(q)
    BY <1>7
  <2> QED BY <1>1, <2>1, UsedPrefix
<1>16. UsedOf(q) \in Nat /\ UsedOf(c) \in Nat /\ PageSize \in Nat
  BY <1>1, <1>11, UsedIs, NvmAssumption
<1>17. UsedOf(c) <= PageSize
  BY <1>2, <1>13, <1>14, <1>15, <1>16
<1> QED BY <1>1, <1>4, <1>6, <1>7, <1>8, <1>9, <1>10, <1>17 DEF n, a, b, c, q

LEMMA CopyOk ==
  ASSUME NEW S, NoSector \notin S, NEW F, NEW k \in Nat, FlashOk(F, S, k),
         NEW from \in S, NEW to \in S, from # to, IsValid(F[from]), IsSound(F[to]),
         NEW g \in Pages, NEW ok \in BOOLEAN, Begun(F, from, to, g),
         Len(F[to].page[g]) < Len(GoodRecords(F[from].page[g]))
  PROVE  LET G == Copies(F, from, to, g, ok)
             r == Copy(F, from, to, g, ok)
         IN  /\ FlashOk(G, S, k) /\ r \in Record /\ r.ok = ok
             /\ G[to] = With(F[to], g, r) /\ \A q \in S \ {to} : G[q] = F[q]
             /\ ok => IsSound(G[to]) /\ Begun(G, from, to, g)
<1> DEFINE r == Copy(F, from, to, g, ok)
           a == F[to].page[g]
           b == GoodRecords(F[from].page[g])
           x == With(F[to], g, r)
           G == [F EXCEPT ![to] = x]
<1>1. F \in FlashIn(S) /\ FlashGood(F, S) /\ RoomIn(F, S) /\ Named(F, S, k)
  BY DEF FlashOk
<1>2. /\ r \in Record /\ r.ok = ok /\ a \in Seq(Record)
      /\ Len(a) + 1 \in DOMAIN b /\ r.tok = b[Len(a) + 1].tok
      /\ ok => r = b[Len(a) + 1]
      /\ UsedOf(Append(a, r)) <= PageSize
  BY <1>1, CopyIs
<1> HIDE DEF r
<1>3. F[to] \in SectorsIn(S)
  BY <1>1 DEF FlashIn
<1>4. /\ x \in SectorsIn(S) /\ x.head = F[to].head /\ x.page[g] = Append(a, r)
      /\ \A h \in Pages \ {g} : x.page[h] = F[to].page[h]
      /\ IsSound(x) => IsSound(F[to])
  <2> DEFINE y == F[to]
  <2>1. y \in SectorsIn(S) /\ r \in Record /\ y.page[g] = a /\ g \in Pages
    BY <1>2, <1>3
  <2>4. x = With(y, g, r) /\ y = F[to]
    OBVIOUS
  <2> HIDE DEF x, a, b, G, y
  <2>2. /\ With(y, g, r) \in SectorsIn(S) /\ With(y, g, r).head = y.head
        /\ With(y, g, r).page[g] = Append(y.page[g], r)
        /\ \A h \in Pages \ {g} : With(y, g, r).page[h] = y.page[h]
    <3>1. \A z \in SectorsIn(S) : 
            /\ With(z, g, r) \in SectorsIn(S) /\ With(z, g, r).head = z.head
            /\ With(z, g, r).page[g] = Append(z.page[g], r)
            /\ \A h \in Pages \ {g} : With(z, g, r).page[h] = z.page[h]
      BY <2>1, WithIs
    <3> QED BY <2>1, <3>1
  <2>3. IsSound(With(y, g, r)) => IsSound(y)
    BY <2>1, WithShows
  <2> QED BY <2>1, <2>2, <2>3, <2>4
<1>5. AllOk(a)
  BY BrokenIs DEF IsSound
<1>6. \A o \in Shown(x) : o \in Shown(F[to]) \/ (o = r /\ r.ok)
  BY <1>2, <1>3, <1>5, WithShows
<1> HIDE DEF x
<1>7. \A o \in Shown(x) : o.tok \in TokensIn(F, S)
  <2> TAKE o \in Shown(x)
  <2>1. CASE o \in Shown(F[to])
    BY <2>1, TokensAre
  <2>2. CASE o = r
    <3>1. b[Len(a) + 1] \in Range(b)
      BY <1>2 DEF Range
    <3>2. b[Len(a) + 1] \in Shown(F[from])
      BY <3>1 DEF Shown
    <3> HIDE DEF a, b
    <3> QED BY <1>2, <2>2, <3>2, TokensAre
  <2> QED BY <1>6, <2>1, <2>2
<1>8. Named(G, S, k)
  BY <1>1, <1>7, FewerTokens
<1>9. G \in FlashIn(S) /\ FlashGood(G, S)
  <2>1. ~x.head[2].pending
    BY <1>1, <1>4 DEF FlashGood
  <2>2. x.head[1] # NoHeader
    BY <1>4 DEF IsSound, IsValid, NoHeader
  <2>3. IsSound(x) => \A q \in S \ {to} : IsSound(F[q]) => F[q].head[1].id # x.head[1].id
    BY <1>1, <1>4 DEF FlashGood
  <2> QED BY <1>1, <1>4, <2>1, <2>2, <2>3, OneSector
<1>10. G[to] = x /\ \A q \in S \ {to} : G[q] = F[q]
  BY <1>1 DEF FlashIn
<1>11. Copies(F, from, to, g, ok) = G
  BY DEF Copies, x, r
<1> HIDE DEF G
<1>12. RoomIn(G, S)
  BY <1>1, <1>2, <1>4, <1>10 DEF RoomIn
<1>13. ASSUME ok PROVE IsSound(G[to]) /\ Begun(G, from, to, g)
  <2>1. AllOk(Append(a, r))
    BY <1>2, <1>5, <1>13, AppendElements
  <2>2. \A h \in Pages : AllOk(x.page[h])
    <3>1. \A h \in Pages : AllOk(F[to].page[h])
      BY BrokenIs DEF IsSound
    <3> QED BY <1>4, <2>1, <3>1
  <2>3. IsSound(x)
    <3>1. F[to].head[1] = F[to].head[2] /\ IsValid(F[to])
      BY DEF IsSound, IsBroken
    <3>2. ~IsBroken(x)
      BY <1>4, <2>2, <3>1, BrokenIs
    <3> QED BY <1>4, <3>1, <3>2 DEF IsSound, IsValid
  <2>4. G[from] = F[from]
    BY <1>10
  <2> DEFINE c == Append(a, r)
  <2>5. G[to].page[g] = c
    BY <1>4, <1>10
  <2>6. Len(a) < Len(b) /\ (\A i \in 1 .. Len(a) : a[i] = b[i]) /\ Len(b) \in Nat
    <3>1. F[from].page[g] \in Seq(Record)
      BY <1>1, ValidIs
    <3>2. b \in Seq(Record)
      BY <3>1, GoodIs
    <3> QED BY <3>2 DEF Begun
  <2>7. Len(c) <= Len(b) /\ \A i \in 1 .. Len(c) : c[i] = b[i]
    <3> HIDE DEF a, b
    <3>1. Len(c) = Len(a) + 1 /\ Len(a) \in Nat
      BY <1>2
    <3>2. c[Len(a) + 1] = r /\ \A i \in 1 .. Len(a) : c[i] = a[i]
      BY <1>2
    <3> HIDE DEF c
    <3> QED BY <1>2, <1>13, <2>6, <3>1, <3>2
  <2> HIDE DEF c
  <2>8. Begun(G, from, to, g)
    BY <2>4, <2>5, <2>7 DEF Begun
  <2> QED BY <1>10, <2>3, <2>8
<1>14. FlashOk(G, S, k)
  BY <1>8, <1>9, <1>12 DEF FlashOk
<1>15. G[to] = With(F[to], g, r) /\ Copy(F, from, to, g, ok) = r /\ r \in Record /\ r.ok = ok
  BY <1>2, <1>10 DEF x, r
<1> HIDE DEF x, r
<1> QED BY <1>10, <1>11, <1>13, <1>14, <1>15

LEMMA CopiedIs ==
  ASSUME IInv, ~Idle, Top.op = "boot", Top.at = "copy", Missing # {}, NEW ok \in BOOLEAN,
         Copied(ok)
  PROVE  /\ FlashOk(flash', Sectors, use.names)
         /\ ok => Boots(flash', Sectors, Top)
<1> DEFINE g == Min(Missing)
           from == Top.from
           to == Top.to
           r == Copy(flash, from, to, g, ok)
<1>1. Top \in BootFrames(Sectors) /\ Boots(flash, Sectors, Top)
  BY BootOnTop
<1>2. /\ NoSector \notin Sectors /\ use.names \in Nat /\ FlashOk(flash, Sectors, use.names)
      /\ flash \in FlashIn(Sectors)
  BY InvParts
<1>3. /\ Calm(flash, Sectors) /\ to \in Sectors /\ from \in Sectors /\ from # to
      /\ IsValid(flash[from]) /\ IsSound(flash[to])
      /\ \A h \in Pages : Begun(flash, from, to, h)
  BY <1>1 DEF Boots, Begun
<1>4. g \in Pages /\ Len(flash[to].page[g]) < Len(GoodRecords(flash[from].page[g]))
  <2>1. Missing \subseteq Nat
    BY DEF Missing, Pages
  <2>2. g \in Missing
    BY <2>1, MinIs
  <2> QED BY <2>2 DEF Missing
<1>5. flash' = Copies(flash, from, to, g, ok)
  BY <1>2, <1>3 DEF Copied, Copies, Copy, With, FlashIn
<1> HIDE DEF g, from, to
<1>6. /\ FlashOk(flash', Sectors, use.names) /\ r \in Record
      /\ flash'[to] = With(flash[to], g, r) /\ \A q \in Sectors \ {to} : flash'[q] = flash[q]
      /\ ok => IsSound(flash'[to]) /\ Begun(flash', from, to, g)
  BY <1>2, <1>3, <1>4, <1>5, CopyOk
<1> HIDE DEF r
<1>7. flash[to] \in SectorsIn(Sectors)
  BY <1>2, <1>3 DEF FlashIn
<1>8. /\ flash'[to].head = flash[to].head
      /\ \A h \in Pages \ {g} : flash'[to].page[h] = flash[to].page[h]
  BY <1>4, <1>6, <1>7, WithIs
<1>9. Calm(flash', Sectors)
  BY <1>3, <1>6, <1>8 DEF Calm
<1>10. IsValid(flash'[from]) /\ flash'[from] = flash[from]
  BY <1>3, <1>6
<1>11. ASSUME ok PROVE Boots(flash', Sectors, Top)
  <2>1. \A h \in Pages : Begun(flash', from, to, h)
    <3> TAKE h \in Pages
    <3>1. CASE h = g
      BY <1>6, <1>11, <3>1
    <3>2. CASE h # g
      BY <1>3, <1>8, <1>10, <3>2 DEF Begun
    <3> QED BY <3>1, <3>2
  <2> QED BY <1>3, <1>6, <1>9, <1>10, <1>11, <2>1 DEF Boots, Begun, from, to
<1> QED BY <1>6, <1>11

LEMMA SalvageRecordKeeps ==
  ASSUME IInv, SalvageRecord PROVE IInv'
<1>1. /\ ~Idle /\ Top.op = "boot" /\ Top.at = "copy" /\ Missing # {} /\ Copied(TRUE)
      /\ UNCHANGED <<use, mem, events, stack, result, failed, moved, calls, resets>>
  BY DEF SalvageRecord, At
<1>2. FlashOk(flash', Sectors, use.names) /\ Boots(flash', Sectors, Top)
  BY <1>1, CopiedIs
<1>3. Top \in BootFrames(Sectors) /\ Tail(stack) \in Booting(Sectors)
  BY <1>1, BootOnTop
<1>4. stack' = <<Top>> \o Tail(stack)
  BY <1>1, InvParts, StandsPut DEF Idle, Top
<1> QED BY <1>1, <1>2, <1>3, <1>4, InvParts, BootGoesOn

LEMMA ResetInCopyKeeps ==
  ASSUME IInv, ResetInCopy PROVE IInv'
<1>1. ~Idle /\ Top.op = "boot" /\ Top.at = "copy" /\ Missing # {} /\ PowerUp /\ Copied(FALSE)
  BY DEF ResetInCopy, At
<1>2. FlashOk(flash', Sectors, use.names)
  BY <1>1, CopiedIs
<1> QED BY <1>1, <1>2, PowerUpKeeps

LEMMA EraseSalvagedKeeps ==
  ASSUME IInv, EraseSalvaged PROVE IInv'
<1> DEFINE f == [Top EXCEPT !.at = "corrupt"]
           p == Top.from
<1>1. /\ ~Idle /\ Top.op = "boot" /\ Top.at = "copy"
      /\ UNCHANGED <<use, mem, events, result, failed, moved, calls, resets>>
      /\ flash' = [flash EXCEPT ![p] = Blank] /\ stack' = <<f>> \o Tail(stack)
  BY DEF EraseSalvaged, At, Goto
<1>2. /\ Top \in BootFrames(Sectors) /\ Tail(stack) \in Booting(Sectors)
      /\ Boots(flash, Sectors, Top)
  BY <1>1, BootOnTop
<1>3. p \in Sectors /\ Calm(flash, Sectors)
  BY <1>1, <1>2 DEF Boots
<1>4. f \in BootFrames(Sectors) /\ f.at = "corrupt"
  BY <1>2 DEF BootFrames
<1> HIDE DEF f, p
<1>5. FlashOk(flash', Sectors, use.names)
  BY <1>1, <1>3, InvParts, BlankedOk
<1>6. flash'[p] = Blank /\ \A q \in Sectors \ {p} : flash'[q] = flash[q]
  BY <1>1, <1>3, InvParts DEF FlashIn
<1>7. Calm(flash', Sectors)
  BY <1>3, <1>6, BlankIs DEF Calm, NoHeader, Pages
<1>8. Boots(flash', Sectors, f)
  BY <1>4, <1>7 DEF Boots
<1> QED BY <1>1, <1>2, <1>4, <1>5, <1>8, InvParts, BootGoesOn
-----------------------------------------------------------------------------
(***************************************************************************)
(* The tables are loaded.                                                  *)
(***************************************************************************)

(* No two sectors have the same number when the tables are made.           *)
LEMMA NoTwins ==
  ASSUME IInv, NEW s \in Sectors
  PROVE  ~(Cardinality(Mapped(s)) > 1)
<1>1. FlashGood(flash, Sectors)
  BY InvParts
<1>2. Mapped(s) = {q \in Sectors : IsSound(flash[q]) /\ flash[q].head[1].id = s}
  BY Bridges DEF Mapped
<1>3. \A p, q \in Mapped(s) : p = q
  BY <1>1, <1>2 DEF FlashGood
<1>4. CASE Mapped(s) = {}
  <2>1. Cardinality(Mapped(s)) = 0
    BY <1>4, FS_EmptySet
  <2> QED BY <2>1
<1>5. CASE Mapped(s) # {}
  <2>1. PICK p : Mapped(s) = {p}
    BY <1>3, <1>5
  <2>2. Cardinality({p}) = 1
    BY FS_Singleton
  <2> QED BY <2>1, <2>2
<1> QED BY <1>4, <1>5

LEMMA LoadedTidy ==
  ASSUME IInv, Corrupt = {}, Calm(flash, Sectors)
  PROVE  TidyIn(flash, Sectors, WithMap(mem).phys, NoSector)
<1> DEFINE j == WithMap(mem)
<1>1. /\ use \in Uses /\ NoSector \notin Sectors /\ flash \in FlashIn(Sectors)
      /\ FlashGood(flash, Sectors) /\ mem \in TablesIn(Sectors)
  BY InvParts
<1>2. /\ \A s \in Sectors : j.phys[s] # NoSector =>
           /\ j.phys[s] \in Sectors /\ IsSound(flash[j.phys[s]])
           /\ flash[j.phys[s]].head[1].id = s
      /\ \A s \in Sectors : j.phys[s] = NoSector =>
           \A q \in Sectors : IsSound(flash[q]) => flash[q].head[1].id # s
  BY <1>1, WithMapIs
<1> HIDE DEF j
<1>3. \A p \in Sectors : IsValid(flash[p]) => IsSound(flash[p])
  BY Bridges DEF Corrupt
<1>4. ASSUME NEW s \in Sectors, j.phys[s] # NoSector
      PROVE  /\ flash[j.phys[s]].head[1] = HeadOf(s) /\ flash[j.phys[s]].head[2] = HeadOf(s)
             /\ \A g \in Pages : AllOk(flash[j.phys[s]].page[g])
  <2> DEFINE p == j.phys[s]
  <2>1. p \in Sectors /\ IsSound(flash[p]) /\ flash[p].head[1].id = s
    BY <1>2, <1>4
  <2> HIDE DEF p
  <2>2. flash[p].head[1] \in HeadersIn(Sectors) /\ ~flash[p].head[1].pending
    BY <1>1, <2>1, ValidIs DEF Calm
  <2>3. flash[p].head[1] = HeadOf(s)
    BY <2>1, <2>2 DEF HeadersIn, HeadOf
  <2>4. flash[p].head[2] = flash[p].head[1] /\ \A g \in Pages : AllOk(flash[p].page[g])
    BY <2>1, BrokenIs DEF IsSound, IsBroken
  <2> QED BY <2>3, <2>4 DEF p
<1>5. ASSUME NEW p \in Sectors, IsValid(flash[p])
      PROVE  j.phys[flash[p].head[1].id] = p
  <2> DEFINE s == flash[p].head[1].id
  <2>1. s \in Sectors /\ IsSound(flash[p])
    BY <1>1, <1>3, <1>5, ValidIs
  <2>2. s = flash[p].head[1].id
    OBVIOUS
  <2> HIDE DEF s
  <2>3. j.phys[s] # NoSector
    BY <1>2, <2>1, <2>2
  <2>4. j.phys[s] \in Sectors /\ IsSound(flash[j.phys[s]]) /\ flash[j.phys[s]].head[1].id = s
    BY <1>2, <2>1, <2>3
  <2> QED BY <1>1, <2>1, <2>2, <2>4 DEF FlashGood
<1>6. \A s \in Sectors : s # NoSector
  BY <1>1
<1> QED BY <1>4, <1>5, <1>6 DEF TidyIn, j

LEMMA LoadedIs ==
  ASSUME IInv, Corrupt = {}, Calm(flash, Sectors)
  PROVE  LET j == Loaded(mem)
         IN  /\ j \in TablesIn(Sectors) /\ Kept(flash, Sectors, use.names, j, NoSector)
             /\ Len(j.lut) <= use.names /\ Exact(flash, Sectors, j, 1)
<1>1. /\ use \in Uses /\ NoSector \notin Sectors /\ flash \in FlashIn(Sectors)
      /\ mem \in TablesIn(Sectors) /\ use.names \in Nat /\ Named(flash, Sectors, use.names)
  BY InvParts
<1> DEFINE m1 == WithMap(mem)
           w  == Walk(m1)
           q  == LoadedSeqs(m1, w)
           m2 == [m1 EXCEPT !.seqs = q]
           lut == Populate(m2, w)
           m3 == [m2 EXCEPT !.lut = lut]
           sums == [s \in Sectors |-> IF s \in InUse(m3) THEN InactiveSum(m3, s) ELSE 0]
           j  == [m3 EXCEPT !.unique = Len(m3.lut), !.inactive = sums]
<1>2. Loaded(mem) = j
  BY DEF Loaded
<1>3. m1 \in TablesIn(Sectors) /\ TidyIn(flash, Sectors, m1.phys, NoSector)
  BY <1>1, LoadedTidy, WithMapIs
<1> HIDE DEF m1
<1>4. m1.phys \in MapIn(Sectors) /\ m1.phys = m1.phys
  BY <1>3, TablesParts
<1>5. FlashTyped /\ PhysTyped(m1)
  BY <1>1, <1>4, Bridges DEF PhysTyped, MapIn
<1>6. w \in Seq(Places) /\ Range(w) = {v \in Places : IsSpot(m1, v)}
  BY <1>1, <1>5, WalkIs
<1> HIDE DEF w
<1>7. q \in SeqsType
  <2> DEFINE T == {<<RecordAt(m1, w[i]).seq, w[i].sec>> : i \in DOMAIN w}
  <2>1. \A i \in DOMAIN w : w[i] \in Places /\ IsSpot(m1, w[i])
    BY <1>6 DEF Range
  <2>2. \A i \in DOMAIN w : RecordAt(m1, w[i]) \in Record
    BY <1>1, <1>5, <2>1, SpotRecord
  <2>3. \A i \in DOMAIN w : RecordAt(m1, w[i]).seq \in Numbers /\ w[i].sec \in Nat
    BY <1>1, <2>1, <2>2, NumbersOfSectors DEF Record, Numbers, Places
  <2>4. T \in SUBSET (Numbers \X Nat)
    BY <2>3
  <2>5. q = ExtremesOf(T)
    BY DEF LoadedSeqs
  <2> HIDE DEF T, q
  <2> QED BY <2>4, <2>5, ExtremesTyped
<1> HIDE DEF q
<1>8. m2 \in TablesIn(Sectors) /\ m2.phys = m1.phys
  BY <1>3, <1>7 DEF TablesIn
<1> HIDE DEF m2
<1>9. PhysTyped(m2) /\ Walks(m2, w)
  <2>1. \A v : IsSpot(m1, v) <=> IsSpot(m2, v)
    BY <1>8 DEF IsSpot, InUse, PageOf
  <2>2. PhysTyped(m2)
    BY <1>5, <1>8 DEF PhysTyped
  <2> QED BY <1>6, <2>1, <2>2 DEF Walks
<1>10. Populates(m2, lut)
  BY <1>1, <1>5, <1>9, PopulateOfWalk
<1> HIDE DEF lut
<1>11. /\ lut \in Seq(ItemsIn(Sectors)) /\ ListsIn(flash, Sectors, m1.phys, lut)
       /\ \A k \in DOMAIN lut : lut[k].refs = 1 =>
            \A s \in Sectors : Carries(flash, m1.phys, s, lut[k].tok) => s = lut[k].sec
  <2>1. m2.phys \in MapIn(Sectors)
    BY <1>4, <1>8
  <2>2. /\ lut \in Seq(ItemsIn(Sectors)) /\ ListsIn(flash, Sectors, m2.phys, lut)
        /\ \A k \in DOMAIN lut : lut[k].refs = 1 =>
             \A s \in Sectors : Carries(flash, m2.phys, s, lut[k].tok) => s = lut[k].sec
    BY <1>1, <1>10, <2>1, PopulateLists
  <2> QED BY <1>8, <2>2
<1>12. m3 \in TablesIn(Sectors) /\ m3.phys = m1.phys /\ m3.lut = lut
  BY <1>8, <1>11 DEF TablesIn
<1> HIDE DEF m3
<1>13. sums \in [Sectors -> Nat]
  <2>1. PhysTyped(m3)
    BY <1>5, <1>12 DEF PhysTyped
  <2>2. \A s \in InUse(m3) : InactiveSum(m3, s) \in Nat
    BY <1>1, <1>5, <2>1, InactiveTyped
  <2> QED BY <2>2
<1> HIDE DEF sums
<1>14. Len(lut) = Cardinality(TokensIn(flash, Sectors)) /\ Len(lut) \in Nat
  <2>1. lut \in Seq(Items)
    BY <1>11, Bridges
  <2> QED BY <1>1, <1>3, <1>4, <1>11, <2>1, ListLength
<1>15. Len(lut) <= use.names
  BY <1>1, <1>14 DEF Named
<1>16. j \in TablesIn(Sectors) /\ j.phys = m1.phys /\ j.lut = lut /\ j.unique = Len(lut)
  BY <1>12, <1>13, <1>14 DEF TablesIn
<1> HIDE DEF j
<1>17. Kept(flash, Sectors, use.names, j, NoSector)
  BY <1>1, <1>3, <1>11, <1>14, <1>15, <1>16 DEF Kept
<1>18. Exact(flash, Sectors, j, 1)
  BY <1>11, <1>16 DEF Exact
<1> QED BY <1>2, <1>15, <1>16, <1>17, <1>18

LEMMA LoadTablesIs ==
  ASSUME IInv, LoadTables
  PROVE  /\ ~Idle /\ Top.op = "boot" /\ Calm(flash, Sectors) /\ Corrupt = {}
         /\ mem' = Loaded(mem) /\ ~failed'
<1>1. /\ ~Idle /\ Top.op = "boot" /\ Top.at = "corrupt" /\ Corrupt = {}
      /\ mem' = Loaded(mem)
      /\ failed' = \/ \E s \in Sectors : Cardinality(Mapped(s)) > 1
                   \/ Len(mem'.lut) > use.names
  BY DEF LoadTables, At
<1>2. Calm(flash, Sectors)
  BY <1>1, BootOnTop DEF Boots
<1>3. Len(mem'.lut) <= use.names /\ mem' \in TablesIn(Sectors) /\ use.names \in Nat
  BY <1>1, <1>2, LoadedIs, InvParts
<1>4. Len(mem'.lut) \in Nat
  <2>1. mem'.lut \in Seq(ItemsIn(Sectors))
    BY <1>3 DEF TablesIn
  <2> QED BY <2>1
<1>5. ~(Len(mem'.lut) > use.names)
  BY <1>3, <1>4
<1>6. \A s \in Sectors : ~(Cardinality(Mapped(s)) > 1)
  BY NoTwins
<1> QED BY <1>1, <1>2, <1>5, <1>6

LEMMA LoadTablesKeeps ==
  ASSUME IInv, LoadTables PROVE IInv'
<1>1. /\ ~Idle /\ Top.op = "boot" /\ Calm(flash, Sectors) /\ Corrupt = {}
      /\ mem' = Loaded(mem) /\ failed' = FALSE
  <2>1. failed' \in BOOLEAN
    BY DEF LoadTables
  <2> QED BY <2>1, LoadTablesIs
<1>2. mem' \in TablesIn(Sectors) /\ Kept(flash, Sectors, use.names, mem', NoSector)
  BY <1>1, LoadedIs
<1>3. /\ stack' = Tail(stack)
      /\ UNCHANGED <<use, flash, events, result, moved, calls, resets>>
  BY DEF LoadTables, Return
<1>4. Tail(stack) \in Booting(Sectors)
  BY <1>1, BootOnTop
<1>5. Stands(flash, Sectors, use.names, use.cached, mem', stack')
  BY <1>2, <1>3, <1>4, CallerStands
<1>6. /\ FlashOk(flash', Sectors, use.names) /\ events' \subseteq {"relocate", "defrag"}
      /\ Stands(flash', Sectors, use.names, use.cached, mem', stack')
      /\ result' \in {"none", "ok", "error"} /\ failed' \in BOOLEAN
      /\ moved' \in Nat /\ calls' \in 0 .. use.calls /\ resets' \in 0 .. use.resets
  BY <1>1, <1>3, <1>5, InvParts
<1> QED BY <1>2, <1>3, <1>6, Preserved
-----------------------------------------------------------------------------
(***************************************************************************)
(* The start.                                                              *)
(***************************************************************************)

LEMMA OneRecord ==
  ASSUME NEW r \in Record
  PROVE  /\ <<r>> \in Seq(Record) /\ UsedOf(<<r>>) <= PageSize
         /\ GoodRecords(<<r>>) = <<r>> \/ ~r.ok
<1>1. <<>> \in Seq(Record) /\ Append(<<>>, r) = <<r>> /\ AllOk(<<>>)
  BY DEF AllOk
<1>2. UsedOf(<<r>>) = UsedOf(<<>>) + SizeOf(r.val)
  BY <1>1, UsedAppend
<1>3. UsedOf(<<>>) = 0
  BY UsedEmpty
<1>4. SizeOf(r.val) \in Nat /\ SizeOf(r.val) <= PageSize
  BY SizeIs DEF Record
<1>5. GoodRecords(<<r>>) = IF r.ok THEN <<r>> ELSE <<>>
  BY <1>1, GoodAppend
<1> QED BY <1>1, <1>2, <1>3, <1>4, <1>5

LEMMA BlankFlash ==
  ASSUME NEW S, NEW n \in Nat
  PROVE  FlashOk([p \in S |-> Blank], S, n)
<1> DEFINE F == [p \in S |-> Blank]
<1>1. \A p \in S : F[p] = Blank
  OBVIOUS
<1>2. F \in FlashIn(S)
  BY BlankIs DEF FlashIn
<1> HIDE DEF F
<1>3. FlashGood(F, S)
  <2>1. 2 \in Pages /\ ~Blank.head[2].pending
    BY DEF Pages, Blank, NoHeader
  <2>2. ~IsValid(Blank)
    BY BlankIs
  <2> QED BY <1>1, <2>1, <2>2 DEF FlashGood, IsSound
<1>4. TokensIn(F, S) = {}
  BY <1>1, BlankIs DEF TokensIn, RecordsIn
<1>5. Named(F, S, n)
  BY <1>4, FS_EmptySet DEF Named
<1>6. RoomIn(F, S)
  BY <1>1, BlankIs, UsedEmpty, NvmAssumption DEF RoomIn
<1>7. FlashOk(F, S, n)
  BY <1>2, <1>3, <1>5, <1>6 DEF FlashOk
<1> QED BY <1>7 DEF F

(* The flash that earlier use left.                                        *)
Left(t, v) ==
  [head |-> [g \in Pages |-> [id |-> 0, pending |-> FALSE]],
   page |-> [g \in Pages |-> <<[tok |-> t[g], val |-> v[g], seq |-> use.start[g], ok |-> TRUE]>>]]

LEMMA LeftIs ==
  ASSUME use \in Uses, use.start # <<>>, NEW t \in [Pages -> Tokens], NEW v \in [Pages -> Values]
  PROVE  /\ Left(t, v) \in SectorsIn(Sectors) /\ ~Left(t, v).head[2].pending
         /\ \A g \in Pages : UsedOf(Left(t, v).page[g]) <= PageSize
         /\ Left(t, v).head[1] # NoHeader
         /\ \A r \in Shown(Left(t, v)) : r.tok \in {t[1], t[2]}
<1> DEFINE r(g) == [tok |-> t[g], val |-> v[g], seq |-> use.start[g], ok |-> TRUE]
           h == [id |-> 0, pending |-> FALSE]
           x == Left(t, v)
<1>1. use.start \in Seq(0 .. SeqMax) /\ Len(use.start) = 2
  BY NvmAssumption DEF Use
<1>2. \A g \in Pages : use.start[g] \in 0 .. SeqMax
  <2>1. Pages = 1 .. Len(use.start)
    BY <1>1 DEF Pages
  <2> HIDE DEF r, h, x
  <2> DEFINE s == use.start
             D == 0 .. SeqMax
  <2>2. s \in Seq(D) /\ Pages = 1 .. Len(s)
    BY <1>1, <2>1
  <2> HIDE DEF s, D
  <2>3. \A g \in 1 .. Len(s) : s[g] \in D
    BY <2>2, ElementOfSeq
  <2> QED BY <2>2, <2>3 DEF s, D
<1>3. \A g \in Pages : r(g) \in Record
  BY <1>2 DEF Record, Payloads
<1>4. 0 \in Sectors /\ NoSector # 0
  BY NumbersOfSectors
<1>5. h \in HeadersIn(Sectors) /\ h # NoHeader /\ ~h.pending
  BY <1>4 DEF HeadersIn, NoHeader
<1>6. x = [head |-> [g \in Pages |-> h], page |-> [g \in Pages |-> <<r(g)>>]]
  BY DEF Left
<1>7. \A g \in Pages : r(g).tok = t[g] /\ r(g).ok
  OBVIOUS
<1> HIDE DEF h, r
<1>8. \A g \in Pages : <<r(g)>> \in Seq(Record) /\ UsedOf(<<r(g)>>) <= PageSize
                       /\ GoodRecords(<<r(g)>>) = <<r(g)>>
  BY <1>3, <1>7, OneRecord
<1>9. x \in SectorsIn(Sectors)
  <2>1. [g \in Pages |-> h] \in [Pages -> HeadersIn(Sectors)]
    BY <1>5
  <2>2. [g \in Pages |-> <<r(g)>>] \in [Pages -> Seq(Record)]
    BY <1>8
  <2> HIDE DEF x
  <2> QED BY <1>6, <2>1, <2>2 DEF SectorsIn
<1>10. \A g \in Pages : x.page[g] = <<r(g)>> /\ x.head[g] = h
  BY <1>6
<1>11. \A g \in Pages : Range(<<r(g)>>) = {r(g)}
  BY DEF Range
<1>12. \A o \in Shown(x) : o.tok \in {t[1], t[2]}
  <2> TAKE o \in Shown(x)
  <2>1. PICK g \in Pages : o \in Range(GoodRecords(x.page[g]))
    BY DEF Shown
  <2>2. o = r(g)
    BY <1>8, <1>10, <1>11, <2>1
  <2> QED BY <1>7, <2>2 DEF Pages
<1> HIDE DEF x
<1> QED BY <1>5, <1>8, <1>9, <1>10, <1>12 DEF Pages, x

LEMMA LeftFlash ==
  ASSUME use \in Uses, use.start # <<>>, NEW t \in [Pages -> Tokens], NEW v \in [Pages -> Values]
  PROVE  FlashOk([p \in Sectors |-> IF p # 0 THEN Blank ELSE Left(t, v)], Sectors, use.names)
<1> DEFINE S == Sectors
           x == Left(t, v)
           B == [p \in S |-> Blank]
           F == [p \in S |-> IF p # 0 THEN Blank ELSE x]
           G == [B EXCEPT ![0] = x]
<1>1. 0 \in S /\ NoSector \notin S
  BY NumbersOfSectors
<1>2. use.names \in Nat /\ use.names >= 2
  BY NvmAssumption DEF Use
<1>3. B \in FlashIn(S) /\ FlashGood(B, S) /\ RoomIn(B, S)
  BY <1>2, BlankFlash DEF FlashOk
<1>4. /\ x \in SectorsIn(S) /\ ~x.head[2].pending /\ x.head[1] # NoHeader
      /\ \A g \in Pages : UsedOf(x.page[g]) <= PageSize
      /\ \A r \in Shown(x) : r.tok \in {t[1], t[2]}
  BY LeftIs
<1>5. F = G
  BY <1>1
<1>6. \A q \in S \ {0} : F[q] = Blank /\ B[q] = Blank
  OBVIOUS
<1>7. F[0] = x
  BY <1>1
<1> HIDE DEF S, x, F, B
<1>8. \A q \in S \ {0} : ~IsSound(B[q])
  BY <1>6, BlankIs DEF IsSound
<1>9. F \in FlashIn(S) /\ FlashGood(F, S)
  BY <1>1, <1>3, <1>4, <1>5, <1>8, OneSector
<1>10. RoomIn(F, S)
  BY <1>4, <1>6, <1>7, BlankIs, UsedEmpty, NvmAssumption DEF RoomIn
<1>11. Named(F, S, use.names)
  <2>1. TokensIn(F, S) \subseteq {t[1], t[2]}
    <3>1. \A p \in S : \A r \in Shown(F[p]) : r.tok \in {t[1], t[2]}
      BY <1>4, <1>6, <1>7, BlankIs
    <3> QED BY <3>1, TokensAre
  <2>2. IsFiniteSet({t[1], t[2]}) /\ Cardinality({t[1], t[2]}) <= 2 /\ Cardinality({t[1], t[2]}) \in Nat
    <3>1. IsFiniteSet({t[1]}) /\ Cardinality({t[1]}) = 1
      BY FS_Singleton
    <3>2. {t[1], t[2]} = {t[1]} \cup {t[2]}
      OBVIOUS
    <3>3. /\ IsFiniteSet({t[1]} \cup {t[2]})
          /\ Cardinality({t[1]} \cup {t[2]})
               = IF t[2] \in {t[1]} THEN Cardinality({t[1]}) ELSE Cardinality({t[1]}) + 1
      BY <3>1, FS_AddElement
    <3>4. IsFiniteSet({t[1], t[2]})
      BY <3>2, <3>3
    <3>5. Cardinality({t[1], t[2]}) = 1 \/ Cardinality({t[1], t[2]}) = 2
      BY <3>1, <3>2, <3>3
    <3> QED BY <3>4, <3>5
  <2>3. IsFiniteSet(TokensIn(F, S)) /\ Cardinality(TokensIn(F, S)) <= Cardinality({t[1], t[2]})
    BY <2>1, <2>2, FS_Subset
  <2>4. Cardinality(TokensIn(F, S)) \in Nat
    BY <2>3, FS_CardinalityType
  <2> QED BY <1>2, <2>2, <2>3, <2>4 DEF Named
<1> QED BY <1>9, <1>10, <1>11 DEF FlashOk, F, S, x

LEMMA InitKeeps ==
  ASSUME Init PROVE IInv
<1>1. use \in Uses /\ use.names \in Nat /\ use.calls \in Nat /\ use.resets \in Nat
  BY NvmAssumption DEF Init, Use
<1>2. FlashOk(flash, Sectors, use.names)
  <2>1. CASE flash = [p \in Sectors |-> Blank]
    BY <1>1, <2>1, BlankFlash
  <2>2. CASE /\ use.start # <<>>
             /\ \E t \in [Pages -> Tokens], v \in [Pages -> Values] :
                  flash = [p \in Sectors |-> IF p # 0 THEN Blank ELSE Left(t, v)]
    BY <1>1, <2>2, LeftFlash
  <2> QED BY <2>1, <2>2 DEF Init, Left
<1>3. mem \in TablesIn(Sectors)
  BY <1>1, NoTablesTyped DEF Init
<1>4. Stands(flash, Sectors, use.names, use.cached, mem, stack)
  <2>1. /\ BootFrame \in BootFrames(Sectors) /\ Boots(flash, Sectors, BootFrame)
        /\ stack = <<BootFrame>>
    BY BootFrameIs DEF Init
  <2> QED BY <2>1 DEF Stands
<1>5. /\ events \subseteq {"relocate", "defrag"} /\ result \in {"none", "ok", "error"}
      /\ failed \in BOOLEAN /\ moved \in Nat /\ calls \in 0 .. use.calls /\ resets \in 0 .. use.resets
  <2>1. failed \in BOOLEAN
    BY DEF Init
  <2>2. events = {} /\ result = "none" /\ moved = 0 /\ calls = 0 /\ resets = 0
    BY DEF Init
  <2> QED BY <1>1, <2>1, <2>2
<1> QED BY <1>1, <1>2, <1>3, <1>4, <1>5 DEF IInv
-----------------------------------------------------------------------------
(***************************************************************************)
(* The theorems about types, names and loading.                            *)
(***************************************************************************)

LEMMA StutterKeeps ==
  ASSUME IInv, UNCHANGED vars PROVE IInv'
<1>1. UNCHANGED <<use, flash, mem, events, stack, result, failed, moved, calls, resets>>
  BY DEF vars
<1>2. /\ events' \subseteq {"relocate", "defrag"}
      /\ result' \in {"none", "ok", "error"} /\ failed' \in BOOLEAN
      /\ moved' \in Nat /\ calls' \in 0 .. use.calls /\ resets' \in 0 .. use.resets
      /\ Stands(flash, Sectors, use.names, use.cached, mem, stack')
  BY <1>1, InvParts
<1> QED BY <1>1, <1>2, StackOnly

LEMMA EnvironmentKeeps ==
  ASSUME IInv, Environment PROVE IInv'
<1>1. ASSUME NEW t \in Tokens, NEW v \in Values, Write(t, v) PROVE IInv'
  BY <1>1, WriteKeeps DEF Write, Payloads
<1>2. ASSUME NEW t \in Tokens, Remove(t) PROVE IInv'
  BY <1>2, WriteKeeps DEF Remove, Payloads
<1>3. CASE ErasePool
  BY <1>3, EraseKeeps
<1>4. CASE ResetBetween
  BY <1>4, ResetBetweenKeeps
<1>5. CASE ResetInStore
  BY <1>5, ResetInStoreKeeps
<1>6. CASE ResetInCopy
  BY <1>6, ResetInCopyKeeps
<1> QED BY <1>1, <1>2, <1>3, <1>4, <1>5, <1>6 DEF Environment

LEMMA ProgressKeeps ==
  ASSUME IInv, Progress PROVE IInv'
<1>1. CASE Urgent \/ LowOnSpace \/ LookupPrevious \/ CleanNamespace \/ AfterNamespace
  BY <1>1, UrgentKeeps, LowOnSpaceKeeps, LookupPreviousKeeps, CleanNamespaceKeeps,
     AfterNamespaceKeeps
<1>2. CASE Decide \/ Finish \/ Create \/ CreateSecond \/ Store
  BY <1>2, DecideKeeps, FinishKeeps, CreateKeeps, CreateSecondKeeps, StoreKeeps
<1>3. CASE CopyOrDrop \/ EraseRelocated \/ FindPending \/ Wipe \/ Salvage
  BY <1>3, CopyOrDropKeeps, EraseRelocatedKeeps, FindPendingKeeps, WipeKeeps, SalvageKeeps
<1>4. CASE SalvageSecond \/ SalvageRecord \/ EraseSalvaged \/ LoadTables
  BY <1>4, SalvageSecondKeeps, SalvageRecordKeeps, EraseSalvagedKeeps, LoadTablesKeeps
<1>5. CASE FlagSector \/ EndErase \/ EndEvent
  BY <1>5, FlagSectorKeeps, EndEraseKeeps, EndEventKeeps
<1> QED BY <1>1, <1>2, <1>3, <1>4, <1>5 DEF Progress

LEMMA NextKeeps ==
  ASSUME IInv, [Next]_vars PROVE IInv'
<1>1. CASE Environment
  BY <1>1, EnvironmentKeeps
<1>2. CASE Progress
  BY <1>2, ProgressKeeps
<1>3. CASE RunRelocate \/ RunDefrag
  BY <1>3, RunRelocateKeeps, RunDefragKeeps
<1>4. CASE UNCHANGED vars
  BY <1>4, StutterKeeps
<1> QED BY <1>1, <1>2, <1>3, <1>4 DEF Next

(* IInv is inductive.                                                      *)
THEOREM NvmInvariant == Spec => []IInv
<1>1. Init => IInv
  BY InitKeeps
<1>2. IInv /\ [Next]_vars => IInv'
  BY NextKeeps
<1> QED BY <1>1, <1>2, PTL DEF Spec

LEMMA TypeHolds ==
  ASSUME IInv PROVE TypeOK
<1>1. /\ use \in Uses /\ NoSector \notin Sectors /\ flash \in FlashIn(Sectors)
      /\ RoomIn(flash, Sectors) /\ mem \in TablesIn(Sectors)
      /\ events \subseteq {"relocate", "defrag"}
      /\ result \in {"none", "ok", "error"} /\ failed \in BOOLEAN
      /\ moved \in Nat /\ calls \in 0 .. use.calls /\ resets \in 0 .. use.resets
  BY InvParts
<1>2. ASSUME NEW p \in Sectors, NEW g \in Pages
      PROVE  /\ flash[p].head[g] \in Header
             /\ Range(flash[p].page[g]) \subseteq Record
             /\ UsedOf(flash[p].page[g]) <= PageSize
  <2>1. flash[p] \in SectorsIn(Sectors)
    BY <1>1 DEF FlashIn
  <2>2. flash[p].head[g] \in Header
    BY <2>1 DEF SectorsIn, HeadersIn, Header
  <2>3. Range(flash[p].page[g]) \subseteq Record
    BY <1>1, ValidIs DEF Range
  <2> QED BY <1>1, <2>2, <2>3 DEF RoomIn
<1>3. /\ mem.phys \in [Sectors -> Sectors \cup {NoSector}] /\ mem.locked \subseteq Sectors
      /\ mem.inactive \in [Sectors -> Nat] /\ mem.unique \in Nat /\ mem.last \in Sectors
  BY <1>1 DEF TablesIn
<1> QED BY <1>1, <1>2, <1>3 DEF TypeOK

(* Every variable has its type, and no page holds more than it has room    *)
(* for, whatever was copied, cut short or salvaged to it.                  *)
THEOREM NvmTypes == Spec => []TypeOK
<1>1. IInv => TypeOK
  BY TypeHolds
<1> QED BY <1>1, NvmInvariant, PTL

LEMMA NamesHold ==
  ASSUME IInv PROVE NamesBounded
<1> SUFFICES ASSUME Idle
             PROVE  /\ Len(mem.lut) <= mem.unique /\ mem.unique <= use.names
                    /\ \A r \in AllRecords : IsListed(Fresh(mem), r.tok)
  BY DEF NamesBounded
<1>1. /\ use \in Uses /\ NoSector \notin Sectors /\ flash \in FlashIn(Sectors)
      /\ mem \in TablesIn(Sectors)
      /\ Stands(flash, Sectors, use.names, use.cached, mem, stack)
  BY InvParts
<1>2. Kept(flash, Sectors, use.names, mem, NoSector)
  BY <1>1, StandsShapes DEF Idle
<1> DEFINE j == Fresh(mem)
<1>3. j \in TablesIn(Sectors) /\ Kept(flash, Sectors, use.names, j, NoSector)
  BY <1>1, <1>2, FreshIs DEF Refreshed
<1> HIDE DEF j
<1>4. /\ TidyIn(flash, Sectors, j.phys, NoSector) /\ ListsIn(flash, Sectors, j.phys, j.lut)
      /\ j.phys \in MapIn(Sectors)
  BY <1>3, TablesParts DEF Kept
<1>5. ASSUME NEW r \in AllRecords PROVE IsListed(j, r.tok)
  <2>1. r.tok \in TokensIn(flash, Sectors)
    BY <1>5, Bridges DEF TokensIn
  <2>2. r.tok \in Tokens /\ \E s \in Sectors : Carries(flash, j.phys, s, r.tok)
    BY <1>1, <1>4, <2>1, TokensCarried
  <2>3. \E k \in DOMAIN j.lut : j.lut[k].tok = r.tok
    BY <1>4, <2>2 DEF ListsIn
  <2> QED BY <2>3, ListedIs
<1> QED BY <1>2, <1>5 DEF Kept, j

(* Every token of the flash is listed and counted and the table has room,  *)
(* so that a record is never stored without being listed (line 4668).      *)
THEOREM NvmNames == Spec => []NamesBounded
<1>1. IInv => NamesBounded
  BY NamesHold
<1> QED BY <1>1, NvmInvariant, PTL

(* Loading the tables never fails: no two sectors have one number (line    *)
(* 2227) and there are no more tokens than the table has room for (1973).  *)
THEOREM NvmTablesLoad == Spec => [][LoadTables => ~failed']_vars
<1>1. IInv /\ [Next]_vars => [LoadTables => ~failed']_vars
  BY LoadTablesIs
<1> QED BY <1>1, NvmInvariant, PTL DEF Spec
-----------------------------------------------------------------------------
(***************************************************************************)
(* Without removals by callers there is no removal record, and nothing is  *)
(* dropped.                                                                *)
(***************************************************************************)

PlainFlash(F, S) ==
  \A p \in S, g \in Pages : \A i \in DOMAIN F[p].page[g] : F[p].page[g][i].val # Removed
PlainFrame(f)  == f.op \in {"write", "add"} => f.val # Removed
PlainStack(st) == \A i \in DOMAIN st : PlainFrame(st[i])

FramesIn(S) == WriteFrames \cup AddFrames(S) \cup RelocateFrames(S) \cup BootFrames(S)
                 \cup EraseFrames(S) \cup AfterFrames

LEMMA PlainIs == Plain <=> (~use.removes => PlainFlash(flash, Sectors) /\ PlainStack(stack))
BY DEF Plain, PlainFlash, PlainStack, PlainFrame

LEMMA StackTyped ==
  ASSUME NEW F, NEW S, NEW n, NEW c, NEW m, NEW st, Stands(F, S, n, c, m, st)
  PROVE  st \in Seq(FramesIn(S))
<1> DEFINE T == FramesIn(S)
<1>1. /\ WriteFrames \subseteq T /\ AddFrames(S) \subseteq T /\ RelocateFrames(S) \subseteq T
      /\ BootFrames(S) \subseteq T /\ EraseFrames(S) \subseteq T /\ AfterFrames \subseteq T
      /\ Waiting \subseteq T
  BY DEF FramesIn, Waiting
<1> HIDE DEF T
<1>2. /\ <<>> \in Seq(T) /\ \A a \in T : <<a>> \in Seq(T)
      /\ \A a, b \in T : <<a, b>> \in Seq(T)
      /\ \A a, b, d \in T : <<a, b, d>> \in Seq(T)
  OBVIOUS
<1>3. st \in Seq(T)
  BY <1>1, <1>2 DEF Stands
<1> QED BY <1>3 DEF T

LEMMA PlainTail ==
  ASSUME NEW T, NEW st \in Seq(T), st # <<>>, PlainStack(st)
  PROVE  Tail(st) \in Seq(T) /\ PlainStack(Tail(st)) /\ PlainFrame(Head(st))
<1>1. /\ Tail(st) \in Seq(T) /\ Len(Tail(st)) = Len(st) - 1 /\ Head(st) = st[1] /\ Len(st) \in Nat
      /\ DOMAIN st = 1 .. Len(st) /\ Len(st) >= 1
      /\ \A i \in 1 .. Len(st) - 1 : Tail(st)[i] = st[i + 1]
  BY HeadTailProperties, EmptySeq, LenProperties
<1>2. DOMAIN Tail(st) = 1 .. Len(st) - 1
  BY <1>1
<1> QED BY <1>1, <1>2 DEF PlainStack

LEMMA PlainConcat ==
  ASSUME NEW A, NEW B, NEW a \in Seq(A), NEW b \in Seq(B), PlainStack(a), PlainStack(b)
  PROVE  PlainStack(a \o b)
<1> DEFINE c == a \o b
           T == A \cup B
<1>1. a \in Seq(T) /\ b \in Seq(T)
  OBVIOUS
<1> HIDE DEF T
<1>2. /\ c \in Seq(T) /\ Len(c) = Len(a) + Len(b) /\ Len(a) \in Nat /\ Len(b) \in Nat
      /\ \A i \in 1 .. Len(a) : c[i] = a[i]
      /\ \A i \in 1 .. Len(b) : c[Len(a) + i] = b[i]
  BY <1>1, ConcatProperties, LenProperties
<1> HIDE DEF c
<1>3. DOMAIN c = 1 .. Len(c) /\ DOMAIN a = 1 .. Len(a) /\ DOMAIN b = 1 .. Len(b)
  BY <1>1, <1>2
<1>4. ASSUME NEW i \in DOMAIN c PROVE PlainFrame(c[i])
  <2>1. CASE i \in 1 .. Len(a)
    BY <1>2, <1>3, <2>1 DEF PlainStack
  <2>2. CASE i \notin 1 .. Len(a)
    <3> DEFINE k == i - Len(a)
    <3>1. k \in 1 .. Len(b) /\ Len(a) + k = i
      BY <1>2, <1>3, <2>2
    <3> HIDE DEF k
    <3> QED BY <1>2, <1>3, <3>1 DEF PlainStack
  <2> QED BY <2>1, <2>2
<1> QED BY <1>4 DEF PlainStack, c

LEMMA PlainTuples ==
  /\ PlainStack(<<>>)
  /\ \A a : PlainFrame(a) => PlainStack(<<a>>)
  /\ \A a, b : PlainFrame(a) /\ PlainFrame(b) => PlainStack(<<a, b>>)
<1>1. PlainStack(<<>>)
  BY DEF PlainStack
<1>2. ASSUME NEW a, PlainFrame(a) PROVE PlainStack(<<a>>)
  <2> DEFINE s == <<a>>
  <2>1. DOMAIN s = {1} /\ s[1] = a
    OBVIOUS
  <2> HIDE DEF s
  <2>2. PlainStack(s)
    BY <1>2, <2>1 DEF PlainStack
  <2> QED BY <2>2 DEF s
<1>3. ASSUME NEW a, NEW b, PlainFrame(a), PlainFrame(b) PROVE PlainStack(<<a, b>>)
  <2> DEFINE s == <<a, b>>
  <2>1. DOMAIN s = {1, 2} /\ s[1] = a /\ s[2] = b
    OBVIOUS
  <2> HIDE DEF s
  <2>2. PlainStack(s)
    BY <1>3, <2>1 DEF PlainStack
  <2> QED BY <2>2 DEF s
<1> QED BY <1>1, <1>2, <1>3

LEMMA PlainOnto ==
  ASSUME NEW T, NEW rest \in Seq(T), PlainStack(rest)
  PROVE  /\ \A a : PlainFrame(a) => PlainStack(<<a>> \o rest)
         /\ \A a, b : PlainFrame(a) /\ PlainFrame(b) => PlainStack(<<a, b>> \o rest)
<1>1. ASSUME NEW a, PlainFrame(a) PROVE PlainStack(<<a>> \o rest)
  <2> DEFINE s == <<a>>
  <2>1. s \in Seq({a}) /\ PlainStack(s)
    BY <1>1, PlainTuples
  <2> HIDE DEF s
  <2>2. PlainStack(s \o rest)
    BY <2>1, PlainConcat
  <2> QED BY <2>2 DEF s
<1>2. ASSUME NEW a, NEW b, PlainFrame(a), PlainFrame(b) PROVE PlainStack(<<a, b>> \o rest)
  <2> DEFINE s == <<a, b>>
  <2>1. s \in Seq({a, b}) /\ PlainStack(s)
    BY <1>2, PlainTuples
  <2> HIDE DEF s
  <2>2. PlainStack(s \o rest)
    BY <2>1, PlainConcat
  <2> QED BY <2>2 DEF s
<1> QED BY <1>1, <1>2

(* The pages change by records that are no removals, or become empty.      *)
LEMMA PlainPages ==
  ASSUME NEW S, NEW F \in FlashIn(S), PlainFlash(F, S), NEW G,
         \A p \in S, g \in Pages :
           \/ G[p].page[g] = F[p].page[g] \/ G[p].page[g] = <<>>
           \/ \E r \in Record : r.val # Removed /\ G[p].page[g] = Append(F[p].page[g], r)
  PROVE  PlainFlash(G, S)
<1> SUFFICES ASSUME NEW p \in S, NEW g \in Pages, NEW i \in DOMAIN G[p].page[g]
             PROVE  G[p].page[g][i].val # Removed
  BY DEF PlainFlash
<1>1. CASE G[p].page[g] = F[p].page[g]
  BY <1>1 DEF PlainFlash
<1>2. CASE G[p].page[g] = <<>>
  BY <1>2
<1>3. CASE \E r \in Record : r.val # Removed /\ G[p].page[g] = Append(F[p].page[g], r)
  <2> DEFINE a == F[p].page[g]
             b == G[p].page[g]
  <2>1. a \in Seq(Record)
    BY DEF FlashIn, SectorsIn
  <2>2. PICK r \in Record : r.val # Removed /\ b = Append(a, r)
    BY <1>3
  <2>3. \A j \in DOMAIN a : a[j].val # Removed
    BY DEF PlainFlash
  <2> HIDE DEF a, b
  <2>4. /\ DOMAIN b = DOMAIN a \cup {Len(a) + 1} /\ b[Len(a) + 1] = r
        /\ \A j \in DOMAIN a : b[j] = a[j]
    BY <2>1, <2>2, AppendElements
  <2> QED BY <2>2, <2>3, <2>4 DEF b
<1> QED BY <1>1, <1>2, <1>3

LEMMA PlainTop ==
  ASSUME IInv, PlainStack(stack), ~Idle
  PROVE  /\ PlainFrame(Top) /\ Top \in FramesIn(Sectors)
         /\ Tail(stack) \in Seq(FramesIn(Sectors)) /\ PlainStack(Tail(stack))
         /\ \A x : PlainFrame([Top EXCEPT !.at = x])
<1>1. stack \in Seq(FramesIn(Sectors))
  BY InvParts, StackTyped
<1>2. /\ PlainFrame(Top) /\ Tail(stack) \in Seq(FramesIn(Sectors)) /\ PlainStack(Tail(stack))
  BY <1>1, PlainTail DEF Idle, Top
<1>3. Top \in FramesIn(Sectors)
  BY <1>1, HeadTailProperties DEF Idle, Top
<1>4. ASSUME NEW x PROVE PlainFrame([Top EXCEPT !.at = x])
  <2>1. /\ [Top EXCEPT !.at = x].op = Top.op
        /\ Top.op \in {"write", "add"} => [Top EXCEPT !.at = x].val = Top.val
    BY <1>3 DEF FramesIn, WriteFrames, AddFrames, RelocateFrames, BootFrames, EraseFrames, AfterFrames
  <2> QED BY <1>2, <2>1 DEF PlainFrame
<1> QED BY <1>2, <1>3, <1>4
-----------------------------------------------------------------------------
Unremoved == PlainFlash(flash, Sectors) /\ PlainStack(stack)
StaysPlain == PlainFlash(flash', Sectors) /\ PlainStack(stack')

LEMMA PlainFrames ==
  /\ \A s : PlainFrame(RelocateOf(s)) /\ \A ev, more : PlainFrame(AfterFrame(ev, more))
  /\ PlainFrame(BootFrame) /\ PlainFrame(EraseFrame)
  /\ \A t, v, prev : v # Removed => PlainFrame(WriteOf(t, v)) /\ PlainFrame(AddOf(t, v, prev))
BY DEF PlainFrame, RelocateOf, AfterFrame, BootFrame, EraseFrame, WriteOf, AddOf

(* Steps that only return or go on, or call relocation.                    *)
LEMMA PlainQuietly ==
  ASSUME IInv, Unremoved, flash' = flash,
         \/ stack' = stack
         \/ \E f : PlainFrame(f) /\ stack' = <<f>>
         \/ \E f, g : PlainFrame(f) /\ PlainFrame(g) /\ stack' = <<f, g>>
         \/ ~Idle /\ Return
         \/ ~Idle /\ \E at : Goto(at)
         \/ ~Idle /\ \E f, at : PlainFrame(f) /\ CallingAt(f, at)
  PROVE  StaysPlain
<1>1. PlainFlash(flash', Sectors) /\ PlainStack(stack)
  BY DEF Unremoved
<1>2. CASE stack' = stack
  BY <1>1, <1>2 DEF StaysPlain
<1>3. CASE \E f : PlainFrame(f) /\ stack' = <<f>>
  BY <1>1, <1>3, PlainTuples DEF StaysPlain
<1>4. CASE \E f, g : PlainFrame(f) /\ PlainFrame(g) /\ stack' = <<f, g>>
  BY <1>1, <1>4, PlainTuples DEF StaysPlain
<1>5. ASSUME ~Idle
      PROVE  /\ Tail(stack) \in Seq(FramesIn(Sectors)) /\ PlainStack(Tail(stack))
             /\ \A x : PlainFrame([Top EXCEPT !.at = x])
  BY <1>1, <1>5, PlainTop
<1>6. CASE ~Idle /\ Return
  BY <1>1, <1>5, <1>6 DEF StaysPlain, Return
<1>7. CASE ~Idle /\ \E at : Goto(at)
  <2>1. PICK at : stack' = <<[Top EXCEPT !.at = at]>> \o Tail(stack)
    BY <1>7 DEF Goto
  <2> DEFINE g == [Top EXCEPT !.at = at]
             rest == Tail(stack)
  <2>2. PlainFrame(g) /\ rest \in Seq(FramesIn(Sectors)) /\ PlainStack(rest)
    BY <1>5, <1>7
  <2>3. stack' = <<g>> \o rest
    BY <2>1
  <2> HIDE DEF g, rest
  <2> QED BY <1>1, <2>2, <2>3, PlainOnto DEF StaysPlain
<1>8. CASE ~Idle /\ \E f, at : PlainFrame(f) /\ CallingAt(f, at)
  <2>1. PICK f, at : PlainFrame(f) /\ stack' = <<f, [Top EXCEPT !.at = at]>> \o Tail(stack)
    BY <1>8 DEF CallingAt
  <2> DEFINE g == [Top EXCEPT !.at = at]
             rest == Tail(stack)
  <2>2. PlainFrame(g) /\ rest \in Seq(FramesIn(Sectors)) /\ PlainStack(rest)
    BY <1>5, <1>8
  <2>3. stack' = <<f, g>> \o rest
    BY <2>1
  <2> HIDE DEF g, rest
  <2> QED BY <1>1, <2>1, <2>2, <2>3, PlainOnto DEF StaysPlain
<1> QED BY <1>2, <1>3, <1>4, <1>6, <1>7, <1>8

LEMMA PlainBegins ==
  ASSUME IInv, Unremoved, ~use.removes,
         \/ \E t \in Tokens : (\E v \in Values : Write(t, v)) \/ Remove(t)
         \/ ErasePool \/ RunRelocate \/ RunDefrag
  PROVE  StaysPlain
<1>1. Removed \notin Values
  BY NvmAssumption
<1>2. ASSUME NEW f, Begin(f), PlainFrame(f) PROVE StaysPlain
  BY <1>2, PlainQuietly DEF Begin
<1>3. ASSUME NEW t \in Tokens, NEW v \in Values, Write(t, v) PROVE StaysPlain
  <2>1. PlainFrame(WriteOf(t, v)) /\ Begin(WriteOf(t, v))
    BY <1>1, <1>3, PlainFrames DEF Write
  <2> QED BY <1>2, <2>1
<1>4. \A t \in Tokens : ~Remove(t)
  BY DEF Remove
<1>5. CASE ErasePool
  BY <1>2, <1>5, PlainFrames DEF ErasePool
<1>6. CASE RunRelocate
  <2>1. flash' = flash
    BY <1>6 DEF RunRelocate
  <2>2. stack' = stack \/ \E s, ev, more : stack' = <<RelocateOf(s), AfterFrame(ev, more)>>
    BY <1>6 DEF RunRelocate
  <2>3. stack' = stack \/ \E f, g : PlainFrame(f) /\ PlainFrame(g) /\ stack' = <<f, g>>
    BY <2>2, PlainFrames
  <2> QED BY <2>1, <2>3, PlainQuietly
<1>7. CASE RunDefrag
  <2>1. flash' = flash
    BY <1>7 DEF RunDefrag
  <2>2. stack' = stack \/ \E s, ev, more : stack' = <<RelocateOf(s), AfterFrame(ev, more)>>
    BY <1>7 DEF RunDefrag
  <2>3. stack' = stack \/ \E f, g : PlainFrame(f) /\ PlainFrame(g) /\ stack' = <<f, g>>
    BY <2>2, PlainFrames
  <2> QED BY <2>1, <2>3, PlainQuietly
<1> QED BY <1>3, <1>4, <1>5, <1>6, <1>7

LEMMA PlainWrites ==
  ASSUME IInv, Unremoved,
         \/ LowOnSpace \/ LookupPrevious \/ CleanNamespace \/ AfterNamespace
         \/ Finish \/ FindPending \/ LoadTables \/ EndErase \/ EndEvent
  PROVE  StaysPlain
<1>1. CASE LookupPrevious \/ AfterNamespace \/ FindPending
  <2>1. flash' = flash /\ ~Idle /\ (Return \/ \E at : Goto(at))
    BY <1>1 DEF LookupPrevious, AfterNamespace, FindPending, At, Answer
  <2> QED BY <2>1, PlainQuietly
<1>2. CASE Finish \/ LoadTables \/ EndErase \/ EndEvent
  <2>1. flash' = flash /\ ~Idle /\ Return
    BY <1>2 DEF Finish, LoadTables, EndErase, EndEvent, At, Answer
  <2> QED BY <2>1, PlainQuietly
<1>3. CASE CleanNamespace
  <2>1. flash' = flash /\ ~Idle
    BY <1>3 DEF CleanNamespace, At
  <2>2. (\E at : Goto(at)) \/ \E s, at : CallingAt(RelocateOf(s), at)
    BY <1>3 DEF CleanNamespace
  <2>3. (\E at : Goto(at)) \/ \E f, at : PlainFrame(f) /\ CallingAt(f, at)
    BY <2>2, PlainFrames
  <2> QED BY <2>1, <2>3, PlainQuietly
<1>4. CASE LowOnSpace
  <2> DEFINE f == [Top EXCEPT !.at = "lookup", !.low = IsUrgent]
  <2>1. flash' = flash /\ stack' = <<f>> /\ ~Idle /\ At("write", "low")
    BY <1>4 DEF LowOnSpace, At
  <2>2. Top \in WriteFrames /\ PlainFrame(Top)
    BY <2>1, WriteOnTop, PlainTop DEF Unremoved
  <2>3. PlainFrame(f)
    BY <2>2 DEF PlainFrame, WriteFrames
  <2> HIDE DEF f
  <2> QED BY <2>1, <2>3, PlainQuietly
<1> QED BY <1>1, <1>2, <1>3, <1>4

LEMMA PlainUrgent ==
  ASSUME IInv, Unremoved, Urgent PROVE StaysPlain
<1>1. flash' = flash /\ ~Idle /\ Top \in WriteFrames /\ PlainFrame(Top)
  <2>1. At("write", "urgent") /\ ~Idle /\ flash' = flash
    BY DEF Urgent, At
  <2> QED BY <2>1, WriteOnTop, PlainTop DEF Unremoved
<1> DEFINE f == [Top EXCEPT !.at = "lookup", !.low = IsUrgent]
           at == IF Cardinality(Reclaimable(mem)) > 1 THEN "urgent" ELSE "low"
           g == [Top EXCEPT !.low = TRUE, !.at = at]
           h == RelocateOf(Min(Reclaimable(mem)))
<1>2. stack' = <<f>> \/ stack' = <<h, g>>
  BY DEF Urgent
<1>3. PlainFrame(h)
  BY PlainFrames
<1> HIDE DEF at, h
<1>4. PlainFrame(f) /\ PlainFrame(g)
  BY <1>1 DEF PlainFrame, WriteFrames
<1> HIDE DEF f, g
<1> QED BY <1>1, <1>2, <1>3, <1>4, PlainQuietly

LEMMA PlainDecides ==
  ASSUME IInv, Unremoved, Decide PROVE StaysPlain
<1>1. flash' = flash /\ ~Idle /\ At("write", "decide")
  BY DEF Decide, At
<1>2. Top \in WriteFrames /\ PlainFrame(Top)
  BY <1>1, WriteOnTop, PlainTop DEF Unremoved
<1>3. Top.val # Removed
  BY <1>2 DEF PlainFrame, WriteFrames
<1>4. Return \/ \E prev, at : CallingAt(AddOf(Top.tok, Top.val, prev), at)
  BY DEF Decide, Answer
<1>5. Return \/ \E f, at : PlainFrame(f) /\ CallingAt(f, at)
  BY <1>3, <1>4, PlainFrames
<1> QED BY <1>1, <1>5, PlainQuietly

LEMMA PlainCopies ==
  ASSUME IInv, Unremoved, CopyOrDrop PROVE StaysPlain
<1> DEFINE k  == Min(Coming)
           it == mem.lut[k]
           r  == RecordAt(mem, it)
           on == [Top EXCEPT !.next = k + 1]
           f  == AddOf(it.tok, r.val, [sec |-> it.sec, val |-> r.val])
           d  == [on EXCEPT !.reset = TRUE]
           rest == Tail(stack)
<1>1. /\ InRelocate /\ Coming # {} /\ flash' = flash
      /\ stack' = IF IsDropped(it) THEN <<d>> \o rest ELSE <<f, on>> \o rest
  BY DEF CopyOrDrop
<1>2. Top \in RelocateFrames(Sectors) /\ Kept(flash, Sectors, use.names, mem, NoSector)
  BY <1>1, RelocateOnTop
<1>3. k \in DOMAIN mem.lut
  BY <1>1, ComingIs
<1>4. PlainFlash(flash, Sectors) /\ rest \in Seq(FramesIn(Sectors)) /\ PlainStack(rest)
  BY <1>1, PlainTop DEF Unremoved, InRelocate
<1>5. PlainFrame(on) /\ PlainFrame(d)
  BY <1>2 DEF PlainFrame, RelocateFrames
<1> HIDE DEF k, on, d, rest
<1>6. /\ it \in ItemsIn(Sectors) /\ mem.phys[it.sec] \in Sectors
      /\ r = flash[mem.phys[it.sec]].page[it.page][it.idx]
      /\ Leads(flash, Sectors, mem.phys, it)
  <2>1. /\ it \in ItemsIn(Sectors) /\ mem.phys[it.sec] \in Sectors
        /\ r = flash[mem.phys[it.sec]].page[it.page][it.idx]
    BY <1>2, <1>3, InvParts, ItemIs
  <2>2. Leads(flash, Sectors, mem.phys, it)
    BY <1>2, <1>3 DEF Kept, ListsIn
  <2> QED BY <2>1, <2>2
<1>7. r.val # Removed
  BY <1>4, <1>6 DEF PlainFlash, Leads
<1>8. PlainFrame(f)
  BY <1>7, PlainFrames
<1> HIDE DEF f, it, r
<1>9. PlainStack(stack')
  BY <1>1, <1>4, <1>5, <1>8, PlainOnto
<1> QED BY <1>1, <1>4, <1>9 DEF StaysPlain
-----------------------------------------------------------------------------
LEMMA PlainBlank ==
  ASSUME NEW S, NEW F \in FlashIn(S), PlainFlash(F, S), NEW p
  PROVE  PlainFlash([F EXCEPT ![p] = Blank], S)
<1> DEFINE G == [F EXCEPT ![p] = Blank]
<1>1. \A q \in S : G[q] = F[q] \/ G[q] = Blank
  BY DEF FlashIn
<1> HIDE DEF G
<1>2. \A q \in S, g \in Pages : G[q].page[g] = F[q].page[g] \/ G[q].page[g] = <<>>
  BY <1>1, BlankIs
<1>3. PlainFlash(G, S)
  BY <1>2, PlainPages
<1> QED BY <1>3 DEF G

LEMMA PlainOpened ==
  ASSUME NEW S, NEW F \in FlashIn(S), PlainFlash(F, S), NEW p, NEW s
  PROVE  PlainFlash([F EXCEPT ![p] = Opened(s)], S)
<1> DEFINE G == [F EXCEPT ![p] = Opened(s)]
<1>1. \A q \in S : G[q] = F[q] \/ G[q] = Opened(s)
  BY DEF FlashIn
<1>2. \A g \in Pages : Opened(s).page[g] = <<>>
  BY BlankIs DEF Opened
<1> HIDE DEF G
<1>3. \A q \in S, g \in Pages : G[q].page[g] = F[q].page[g] \/ G[q].page[g] = <<>>
  BY <1>1, <1>2
<1>4. PlainFlash(G, S)
  BY <1>3, PlainPages
<1> QED BY <1>4 DEF G

LEMMA PlainHeads ==
  ASSUME NEW S, NEW F \in FlashIn(S), PlainFlash(F, S), NEW G, \A q \in S : G[q].page = F[q].page
  PROVE  PlainFlash(G, S)
BY PlainPages

LEMMA PlainWith ==
  ASSUME NEW S, NEW F \in FlashIn(S), PlainFlash(F, S), NEW p \in S, NEW g \in Pages,
         NEW r \in Record, r.val # Removed
  PROVE  PlainFlash([F EXCEPT ![p] = With(F[p], g, r)], S)
<1> DEFINE x == F[p]
           y == With(x, g, r)
           G == [F EXCEPT ![p] = y]
<1>1. x \in SectorsIn(S)
  BY DEF FlashIn
<1>2. G[p] = y /\ \A q \in S \ {p} : G[q] = F[q]
  BY DEF FlashIn
<1>3. x = F[p]
  OBVIOUS
<1> HIDE DEF x, G
<1>4. y.page[g] = Append(x.page[g], r) /\ \A h \in Pages \ {g} : y.page[h] = x.page[h]
  <2>1. \A z \in SectorsIn(S) : /\ With(z, g, r).page[g] = Append(z.page[g], r)
                                /\ \A h \in Pages \ {g} : With(z, g, r).page[h] = z.page[h]
    BY WithIs
  <2> QED BY <1>1, <2>1
<1> HIDE DEF y
<1>5. \A q \in S, h \in Pages :
        \/ G[q].page[h] = F[q].page[h] \/ G[q].page[h] = <<>>
        \/ \E o \in Record : o.val # Removed /\ G[q].page[h] = Append(F[q].page[h], o)
  BY <1>2, <1>3, <1>4
<1>6. PlainFlash(G, S)
  BY <1>5, PlainPages
<1> QED BY <1>6 DEF G, x, y

LEMMA PlainAppended ==
  ASSUME IInv, Unremoved, CanStore, NEW ok \in BOOLEAN, Appended(ok)
  PROVE  PlainFlash(flash', Sectors)
<1>1. /\ Written(ok) \in Record
      /\ flash' = Stores(flash, mem.phys, Place, PlacePage, Written(ok))
  BY AppendedIs
<1>2. mem.phys[Place] \in Sectors /\ PlacePage \in Pages /\ Top \in AddFrames(Sectors)
  BY PlaceIs
<1>3. Written(ok).val # Removed
  <2>1. ~Idle
    BY DEF CanStore, At
  <2>2. PlainFrame(Top)
    BY <2>1, PlainTop DEF Unremoved
  <2> QED BY <1>2, <2>2 DEF PlainFrame, AddFrames, Written
<1>4. flash \in FlashIn(Sectors) /\ PlainFlash(flash, Sectors)
  BY InvParts DEF Unremoved
<1> QED BY <1>1, <1>2, <1>3, <1>4, PlainWith DEF Stores

LEMMA PlainCopied ==
  ASSUME IInv, Unremoved, ~Idle, Top.op = "boot", Top.at = "copy", Missing # {},
         NEW ok \in BOOLEAN, Copied(ok)
  PROVE  PlainFlash(flash', Sectors)
<1> DEFINE g == Min(Missing)
           from == Top.from
           to == Top.to
           r == Copy(flash, from, to, g, ok)
<1>1. Boots(flash, Sectors, Top)
  BY BootOnTop
<1>2. /\ NoSector \notin Sectors /\ flash \in FlashIn(Sectors) /\ RoomIn(flash, Sectors)
      /\ PlainFlash(flash, Sectors)
  BY InvParts DEF Unremoved
<1>3. /\ to \in Sectors /\ from \in Sectors /\ \A h \in Pages : Begun(flash, from, to, h)
  BY <1>1 DEF Boots, Begun
<1>4. g \in Pages /\ Len(flash[to].page[g]) < Len(GoodRecords(flash[from].page[g]))
  <2>1. Missing \subseteq Nat
    BY DEF Missing, Pages
  <2>2. g \in Missing
    BY <2>1, MinIs
  <2> QED BY <2>2 DEF Missing
<1>5. flash' = [flash EXCEPT ![to] = With(flash[to], g, r)]
  BY <1>2, <1>3 DEF Copied, Copy, With, FlashIn
<1> HIDE DEF g, from, to
<1>6. /\ r \in Record /\ Len(flash[to].page[g]) + 1 \in DOMAIN flash[from].page[g]
      /\ r.val = flash[from].page[g][Len(flash[to].page[g]) + 1].val
  BY <1>2, <1>3, <1>4, CopyIs
<1> HIDE DEF r
<1>7. r.val # Removed
  BY <1>2, <1>3, <1>4, <1>6 DEF PlainFlash
<1> QED BY <1>2, <1>3, <1>4, <1>5, <1>6, <1>7, PlainWith

(* A step that leaves the rest of the stack, with a frame on top or not.   *)
LEMMA PlainGoesOn ==
  ASSUME IInv, Unremoved, PlainFlash(flash', Sectors), ~Idle,
         \/ stack' = stack \/ stack' = Tail(stack)
         \/ \E f : PlainFrame(f) /\ stack' = <<f>> \o Tail(stack)
         \/ \E f : PlainFrame(f) /\ stack' = <<f>>
  PROVE  StaysPlain
<1>1. /\ Tail(stack) \in Seq(FramesIn(Sectors)) /\ PlainStack(Tail(stack)) /\ PlainStack(stack)
  BY PlainTop DEF Unremoved
<1>2. CASE \E f : PlainFrame(f) /\ stack' = <<f>> \o Tail(stack)
  <2> DEFINE rest == Tail(stack)
  <2>1. PICK f : PlainFrame(f) /\ stack' = <<f>> \o rest
    BY <1>2
  <2>2. rest \in Seq(FramesIn(Sectors)) /\ PlainStack(rest)
    BY <1>1
  <2> HIDE DEF rest
  <2> QED BY <2>1, <2>2, PlainOnto DEF StaysPlain
<1>3. CASE \E f : PlainFrame(f) /\ stack' = <<f>>
  BY <1>3, PlainTuples DEF StaysPlain
<1> QED BY <1>1, <1>2, <1>3 DEF StaysPlain

LEMMA PlainResets ==
  ASSUME IInv, Unremoved, ResetBetween \/ ResetInStore \/ ResetInCopy
  PROVE  StaysPlain
<1>1. stack' = <<BootFrame>>
  BY DEF ResetBetween, ResetInStore, ResetInCopy, PowerUp
<1>2. PlainStack(stack')
  BY <1>1, PlainFrames, PlainTuples
<1>3. ASSUME ResetBetween PROVE PlainFlash(flash', Sectors)
  BY <1>3 DEF ResetBetween, Unremoved
<1>4. ASSUME ResetInStore PROVE PlainFlash(flash', Sectors)
  BY <1>4, PlainAppended DEF ResetInStore
<1>5. ASSUME ResetInCopy PROVE PlainFlash(flash', Sectors)
  BY <1>5, PlainCopied DEF ResetInCopy, At
<1>6. PlainFlash(flash', Sectors)
  BY <1>3, <1>4, <1>5
<1> QED BY <1>2, <1>6 DEF StaysPlain

LEMMA PlainErases ==
  ASSUME IInv, Unremoved, EraseRelocated \/ Wipe \/ EraseSalvaged \/ FlagSector
  PROVE  StaysPlain
<1>1. flash \in FlashIn(Sectors) /\ PlainFlash(flash, Sectors)
  BY InvParts DEF Unremoved
<1>2. CASE EraseRelocated
  <2>1. flash' = [flash EXCEPT ![mem.phys[Top.sec]] = Blank] /\ ~Idle
    BY <1>2 DEF EraseRelocated, InRelocate
  <2>2. stack' = <<BootFrame>> \o Tail(stack) \/ stack' = Tail(stack)
    BY <1>2 DEF EraseRelocated
  <2>3. PlainFlash(flash', Sectors)
    BY <1>1, <2>1, PlainBlank
  <2> QED BY <2>1, <2>2, <2>3, PlainFrames, PlainGoesOn
<1>3. CASE Wipe
  <2>1. ~Idle /\ (flash' = flash \/ flash' = [flash EXCEPT ![Min(Dirty)] = Blank])
    BY <1>3 DEF Wipe, At
  <2>2. CASE flash' = flash
    <3>1. stack' = stack \/ Goto("corrupt") \/ CallingAt(BootFrame, "done")
      BY <1>3 DEF Wipe
    <3> QED BY <2>1, <2>2, <3>1, PlainFrames, PlainQuietly
  <2>3. CASE flash' = [flash EXCEPT ![Min(Dirty)] = Blank] /\ flash' # flash
    <3>1. stack' = stack
      BY <1>3, <2>3 DEF Wipe
    <3>2. PlainFlash(flash', Sectors)
      BY <1>1, <2>3, PlainBlank
    <3> QED BY <2>1, <3>1, <3>2, PlainGoesOn
  <2> QED BY <2>1, <2>2, <2>3
<1>4. CASE EraseSalvaged
  <2>1. ~Idle /\ flash' = [flash EXCEPT ![Top.from] = Blank] /\ Goto("corrupt")
    BY <1>4 DEF EraseSalvaged, At
  <2>2. PlainFlash(flash', Sectors)
    BY <1>1, <2>1, PlainBlank
  <2>3. PlainFrame([Top EXCEPT !.at = "corrupt"])
    BY <2>1, PlainTop DEF Unremoved
  <2> QED BY <2>1, <2>2, <2>3, PlainGoesOn DEF Goto
<1>5. CASE FlagSector
  <2>1. ~Idle /\ Top.op = "erase" /\ flash' = [flash EXCEPT ![Top.p].head[1].pending = TRUE]
    BY <1>5 DEF FlagSector, At
  <2>2. \A q \in Sectors : flash'[q].page = flash[q].page
    BY <1>1, <2>1 DEF FlashIn, SectorsIn
  <2>3. PlainFlash(flash', Sectors)
    BY <1>1, <2>2, PlainHeads
  <2>4. Top \in EraseFrames(Sectors)
    BY <2>1, EraseOnTop
  <2>5. PICK p, at : stack' = <<[Top EXCEPT !.p = p, !.at = at]>>
    BY <1>5 DEF FlagSector
  <2>6. PlainFrame([Top EXCEPT !.p = p, !.at = at])
    BY <2>4 DEF PlainFrame, EraseFrames
  <2> QED BY <2>1, <2>3, <2>5, <2>6, PlainGoesOn
<1> QED BY <1>2, <1>3, <1>4, <1>5

LEMMA PlainSalvages ==
  ASSUME IInv, Unremoved, Salvage \/ SalvageSecond \/ SalvageRecord
  PROVE  StaysPlain
<1>1. flash \in FlashIn(Sectors) /\ PlainFlash(flash, Sectors)
  BY InvParts DEF Unremoved
<1>2. ~Idle /\ Top.op = "boot"
  BY DEF Salvage, SalvageSecond, SalvageRecord, At
<1>3. Top \in BootFrames(Sectors)
  BY <1>2, BootOnTop
<1>4. CASE SalvageRecord
  <2>1. stack' = stack /\ Top.at = "copy" /\ Missing # {} /\ Copied(TRUE)
    BY <1>4 DEF SalvageRecord, At
  <2>2. PlainFlash(flash', Sectors)
    BY <1>2, <2>1, PlainCopied
  <2> QED BY <1>2, <2>1, <2>2, PlainGoesOn
<1>5. CASE SalvageSecond
  <2>1. flash' = WriteHeader(Top.to, 2, flash[Top.to].head[1].id) /\ Goto("copy")
    BY <1>5 DEF SalvageSecond
  <2>2. \A q \in Sectors : flash'[q].page = flash[q].page
    BY <1>1, <2>1 DEF FlashIn, SectorsIn, WriteHeader
  <2>3. PlainFlash(flash', Sectors)
    BY <1>1, <2>2, PlainHeads
  <2>4. PlainFrame([Top EXCEPT !.at = "copy"])
    BY <1>2, PlainTop DEF Unremoved
  <2> QED BY <1>2, <2>1, <2>3, <2>4, PlainGoesOn DEF Goto
<1>6. CASE Salvage
  <2>1. CASE stack' = stack /\ flash' = flash
    BY <2>1, PlainQuietly
  <2>2. CASE \E p, s, q : /\ flash' = WriteHeader(p, 1, s)
                          /\ stack' = <<[Top EXCEPT !.at = "header", !.from = q, !.to = p]>>
                                      \o Tail(stack)
    <3>1. PICK p, s, q : /\ flash' = WriteHeader(p, 1, s)
                         /\ stack' = <<[Top EXCEPT !.at = "header", !.from = q, !.to = p]>>
                                     \o Tail(stack)
      BY <2>2
    <3>2. \A o \in Sectors : flash'[o].page = flash[o].page
      BY <1>1, <3>1 DEF FlashIn, SectorsIn, WriteHeader
    <3>3. PlainFlash(flash', Sectors)
      BY <1>1, <3>2, PlainHeads
    <3>4. PlainFrame([Top EXCEPT !.at = "header", !.from = q, !.to = p])
      BY <1>3 DEF PlainFrame, BootFrames
    <3> QED BY <1>2, <3>1, <3>3, <3>4, PlainGoesOn
  <2> QED BY <1>6, <2>1, <2>2 DEF Salvage
<1> QED BY <1>4, <1>5, <1>6

LEMMA PlainStores ==
  ASSUME IInv, Unremoved, Create \/ CreateSecond \/ Store
  PROVE  StaysPlain
<1>1. flash \in FlashIn(Sectors) /\ PlainFlash(flash, Sectors)
  BY InvParts DEF Unremoved
<1>2. ~Idle /\ Top.op = "add"
  BY DEF Create, CreateSecond, Store, CanStore, At
<1>3. Top \in AddFrames(Sectors) /\ PlainFrame(Top)
  BY <1>2, AddOnTop, PlainTop DEF Unremoved
<1>4. CASE Store
  <2>1. CanStore /\ Appended(TRUE) /\ stack' = Tail(stack)
    BY <1>4 DEF Store, Return
  <2>2. PlainFlash(flash', Sectors)
    BY <2>1, PlainAppended
  <2> QED BY <1>2, <2>1, <2>2, PlainGoesOn
<1>5. CASE CreateSecond
  <2>1. flash' = WriteHeader(mem.phys[Top.sec], 2, Top.sec) /\ Goto("store")
    BY <1>5 DEF CreateSecond
  <2>2. \A q \in Sectors : flash'[q].page = flash[q].page
    BY <1>1, <2>1 DEF FlashIn, SectorsIn, WriteHeader
  <2>3. PlainFlash(flash', Sectors)
    BY <1>1, <2>2, PlainHeads
  <2>4. PlainFrame([Top EXCEPT !.at = "store"])
    BY <1>2, PlainTop DEF Unremoved
  <2> QED BY <1>2, <2>1, <2>3, <2>4, PlainGoesOn DEF Goto
<1>6. CASE Create
  <2>1. CASE stack' = stack /\ flash' = flash
    BY <2>1, PlainQuietly
  <2>2. CASE \E p, s : /\ flash' = [WriteHeader(p, 1, s) EXCEPT ![p].page = Blank.page]
                       /\ stack' = <<[Top EXCEPT !.at = "header", !.sec = s]>> \o Tail(stack)
    <3>1. PICK p, s : /\ flash' = [WriteHeader(p, 1, s) EXCEPT ![p].page = Blank.page]
                      /\ stack' = <<[Top EXCEPT !.at = "header", !.sec = s]>> \o Tail(stack)
      BY <2>2
    <3>2. \A q \in Sectors : flash'[q].page = flash[q].page \/ flash'[q].page = Blank.page
      BY <1>1, <3>1 DEF FlashIn, SectorsIn, WriteHeader
    <3>3. \A q \in Sectors, g \in Pages : flash'[q].page[g] = flash[q].page[g] \/ flash'[q].page[g] = <<>>
      BY <3>2, BlankIs
    <3>4. PlainFlash(flash', Sectors)
      BY <1>1, <3>3, PlainPages
    <3>5. PlainFrame([Top EXCEPT !.at = "header", !.sec = s])
      BY <1>3 DEF PlainFrame, AddFrames
    <3> QED BY <1>2, <3>1, <3>4, <3>5, PlainGoesOn
  <2> QED BY <1>6, <2>1, <2>2 DEF Create
<1> QED BY <1>4, <1>5, <1>6

LEMMA PlainSteps ==
  ASSUME IInv, Unremoved, ~use.removes, Next PROVE StaysPlain
<1>1. CASE Environment
  BY <1>1, PlainBegins, PlainResets DEF Environment
<1>2. CASE Progress
  <2>1. CASE Urgent \/ LowOnSpace \/ LookupPrevious \/ CleanNamespace \/ AfterNamespace
    BY <2>1, PlainUrgent, PlainWrites
  <2>2. CASE Decide \/ Finish \/ Create \/ CreateSecond \/ Store
    BY <2>2, PlainDecides, PlainWrites, PlainStores
  <2>3. CASE CopyOrDrop \/ EraseRelocated \/ FindPending \/ Wipe \/ Salvage
    BY <2>3, PlainCopies, PlainErases, PlainWrites, PlainSalvages
  <2>4. CASE SalvageSecond \/ SalvageRecord \/ EraseSalvaged \/ LoadTables
    BY <2>4, PlainSalvages, PlainErases, PlainWrites
  <2>5. CASE FlagSector \/ EndErase \/ EndEvent
    BY <2>5, PlainErases, PlainWrites
  <2> QED BY <1>2, <2>1, <2>2, <2>3, <2>4, <2>5 DEF Progress
<1>3. CASE RunRelocate \/ RunDefrag
  BY <1>3, PlainBegins
<1> QED BY <1>1, <1>2, <1>3 DEF Next

LEMMA UseStays ==
  ASSUME [Next]_vars PROVE use' = use
BY DEF Next, vars, Environment, Progress, Write, Remove, Begin, ErasePool, ResetBetween,
       ResetInStore, ResetInCopy, PowerUp, Urgent, LowOnSpace, LookupPrevious, CleanNamespace,
       AfterNamespace, Decide, Finish, Create, CreateSecond, Store, CopyOrDrop, EraseRelocated,
       FindPending, Wipe, Salvage, SalvageSecond, SalvageRecord, EraseSalvaged, LoadTables,
       FlagSector, EndErase, EndEvent, RunRelocate, RunDefrag

LEMMA PlainKeeps ==
  ASSUME IInv, Plain, [Next]_vars PROVE Plain'
<1>1. use' = use
  BY UseStays
<1>2. ASSUME ~use.removes PROVE StaysPlain
  <2>1. Unremoved
    BY <1>2, PlainIs DEF Unremoved
  <2>2. CASE UNCHANGED vars
    BY <2>1, <2>2 DEF Unremoved, StaysPlain, vars
  <2>3. CASE Next
    BY <1>2, <2>1, <2>3, PlainSteps
  <2> QED BY <2>2, <2>3
<1> QED BY <1>1, <1>2 DEF Plain, StaysPlain, PlainFlash, PlainStack, PlainFrame, Sectors, NumSectors

LEMMA PlainFirst ==
  ASSUME Init PROVE Plain
<1>1. Removed \notin Values
  BY NvmAssumption
<1>2. PlainStack(stack)
  BY PlainFrames, PlainTuples DEF Init
<1>3. PlainFlash(flash, Sectors)
  <2>1. CASE flash = [p \in Sectors |-> Blank]
    BY <2>1, BlankIs DEF PlainFlash
  <2>2. CASE \E t \in [Pages -> Tokens], v \in [Pages -> Values] :
               flash = [p \in Sectors |-> IF p # 0 THEN Blank ELSE Left(t, v)]
    <3>1. PICK t \in [Pages -> Tokens], v \in [Pages -> Values] :
                 flash = [p \in Sectors |-> IF p # 0 THEN Blank ELSE Left(t, v)]
      BY <2>2
    <3> DEFINE r(g) == [tok |-> t[g], val |-> v[g], seq |-> use.start[g], ok |-> TRUE]
    <3>2. \A g \in Pages : Left(t, v).page[g] = <<r(g)>> /\ r(g).val # Removed
      BY <1>1 DEF Left
    <3>3. \A p \in Sectors : flash[p] = Blank \/ flash[p] = Left(t, v)
      BY <3>1
    <3> HIDE DEF r
    <3>4. \A g \in Pages : \A i \in DOMAIN <<r(g)>> : <<r(g)>>[i].val # Removed
      BY <3>2
    <3> QED BY <3>2, <3>3, <3>4, BlankIs DEF PlainFlash
  <2> QED BY <2>1, <2>2 DEF Init, Left
<1> QED BY <1>2, <1>3, PlainIs

LEMMA DropsHold ==
  ASSUME IInv, Plain, ~(use.cached /\ use.removes) PROVE DropsAreLast
<1> DEFINE it == mem.lut[Min(Coming)]
<1> SUFFICES ASSUME InRelocate, Coming # {}, IsDropped(it),
                    NEW s \in InUse(mem) \ {it.sec}, NEW g \in Pages,
                    NEW i \in DOMAIN PageOf(mem, s, g)
             PROVE  PageOf(mem, s, g)[i].tok # it.tok
  BY DEF DropsAreLast
<1>1. /\ Top \in RelocateFrames(Sectors) /\ Kept(flash, Sectors, use.names, mem, NoSector)
      /\ Moves(flash, Sectors, use.cached, mem, Top, {})
  BY RelocateOnTop
<1>2. Min(Coming) \in DOMAIN mem.lut /\ Min(Coming) >= Top.next
  BY ComingIs
<1>3. ~use.cached
  <2> SUFFICES ASSUME use.cached PROVE FALSE
    OBVIOUS
  <2>1. PlainFlash(flash, Sectors)
    BY PlainIs
  <2>2. /\ it \in ItemsIn(Sectors) /\ mem.phys[it.sec] \in Sectors
        /\ RecordAt(mem, it) = flash[mem.phys[it.sec]].page[it.page][it.idx]
    BY <1>1, <1>2, InvParts, ItemIs
  <2>3. Leads(flash, Sectors, mem.phys, it)
    BY <1>1, <1>2 DEF Kept, ListsIn
  <2> HIDE DEF it
  <2>4. RecordAt(mem, it).val # Removed
    BY <2>1, <2>2, <2>3 DEF PlainFlash, Leads
  <2> QED BY <2>4 DEF IsDropped
<1>4. it.refs = 1
  BY DEF IsDropped
<1>5. \A q \in Sectors : Carries(flash, mem.phys, q, it.tok) => q = it.sec
  BY <1>1, <1>2, <1>3, <1>4 DEF Moves, Exact
<1> HIDE DEF it
<1>6. ~Carries(flash, mem.phys, s, it.tok)
  BY <1>5 DEF InUse
<1> QED BY <1>6 DEF Carries, PageOf, InUse

(* A removal record is dropped only in the last sector that has a record   *)
(* of the token (lines 1560-1561), unless a table of all tokens is kept    *)
(* and tokens are removed: then it is not, as NvmStale shows.              *)
THEOREM NvmDrops == Spec => []((use.cached /\ use.removes) \/ DropsAreLast)
<1>1. Init => IInv /\ Plain
  BY InitKeeps, PlainFirst
<1>2. IInv /\ Plain /\ [Next]_vars => IInv' /\ Plain'
  BY NextKeeps, PlainKeeps
<1>3. IInv /\ Plain => ((use.cached /\ use.removes) \/ DropsAreLast)
  BY DropsHold
<1> QED BY <1>1, <1>2, <1>3, PTL DEF Spec
=============================================================================
