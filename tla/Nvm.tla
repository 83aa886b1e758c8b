-------------------------------- MODULE Nvm --------------------------------
(***************************************************************************)
(* gpNvm on flash (gpNvm_RW_Kx_SubpagedFlash_v2): a pool of sectors, each  *)
(* of two pages, each page a log of records.  A token's value is in the    *)
(* newest record that carries it; a removal is a record too.  Space comes  *)
(* back by copying what is still needed out of a sector and erasing it.    *)
(*                                                                         *)
(* One step is what happens between two changes of the flash, because a    *)
(* reset can come between any two; it can also cut a record short.  The    *)
(* calls in progress are a stack of frames, the top one acts.              *)
(***************************************************************************)
EXTENDS NvmSeq, Sequences, FiniteSets, Functions

CONSTANTS
  Tokens,        \* what records are looked up by
  Values,        \* payloads
  Removed,       \* the empty payload of a removal record
  Length,        \* Length[v]: units that payload v takes
  PageSize,      \* units for records on a page
  NoSector,      \* NVM_SECTORID_INVALID
  Uses           \* the uses considered

(* How the store is used and what happens to it, fixed for a behaviour.    *)
Use == [sectors : Nat \ {0},  \* physical ones, as many as logical ones: 24
        cached  : BOOLEAN,   \* gpNvm_Init keeps a lookup table of all tokens
        removes : BOOLEAN,   \* callers remove tokens
        erases  : BOOLEAN,   \* callers erase the pool
        names   : Nat \ {0},  \* Nvm_NumberOfUniqueTokens: 220
        start   : Seq(0 .. SeqMax),  \* numbers of records left by earlier use
        calls   : Nat,       \* bound on the calls
        resets  : Nat]       \* bound on the resets

ASSUME NvmAssumption ==
  /\ PageSize \in Nat \ {0} /\ Removed \notin Values
  /\ Length \in [Values \cup {Removed} -> Nat] /\ Length[Removed] = 0
  /\ \A v \in Values : Length[v] > 0 /\ Length[v] < PageSize
  /\ Uses \subseteq Use
  /\ \A u \in Uses :
       /\ NoSector \notin 0 .. u.sectors
       /\ u.start # <<>> => /\ Len(u.start) = 2 /\ u.start[1] # u.start[2]
                            /\ u.names >= 2

Pages    == {1, 2}
Payloads == Values \cup {Removed}
Reserve  == 2   \* NVM_NBR_OF_LOGICAL_SECTORS_REQUIRED_FOR_DEFRAG

VARIABLES
  use,     \* a member of Uses
  flash,   \* physical sectors
  mem,     \* the tables in RAM
  events,  \* events listed with gpSched
  stack,   \* frames of the calls in progress, the innermost first
  result,  \* what the last call returned
  failed,  \* an assertion failed
  moved,   \* ghost: sectors relocated by the call or event in progress
  calls,   \* calls so far
  resets   \* resets so far

vars == <<use, flash, mem, events, stack, result, failed, moved, calls, resets>>
NumSectors == use.sectors
Sectors    == 0 .. NumSectors - 1
-----------------------------------------------------------------------------
(* Flash.                                                                  *)

Header   == [id : Sectors \cup {NoSector}, pending : BOOLEAN]
NoHeader == [id |-> NoSector, pending |-> FALSE]
Record   == [tok : Tokens, val : Payloads, seq : 0 .. SeqMax, ok : BOOLEAN]
Blank    == [head |-> [g \in Pages |-> NoHeader], page |-> [g \in Pages |-> <<>>]]

SizeOf(val) == 1 + Length[val]

UsedOf(rs) == MapThenSumSet(LAMBDA i : SizeOf(rs[i].val), DOMAIN rs)

SectorSize == 2 * PageSize

(* The records of a page up to the first one that is cut short.            *)
GoodRecords(rs) ==
  LET bad == {i \in DOMAIN rs : ~rs[i].ok}
  IN  IF bad = {} THEN rs ELSE SubSeq(rs, 1, Min(bad) - 1)

HasValidHeader(p) == flash[p].head[1].id # NoSector
IsFree(p)         == ~HasValidHeader(p)

IsCorrupt(p) ==
  /\ HasValidHeader(p)
  /\ \/ flash[p].head[1] # flash[p].head[2]
     \/ \E g \in Pages : \E i \in DOMAIN flash[p].page[g] : ~flash[p].page[g][i].ok

NumAvailable == Cardinality({p \in Sectors : IsFree(p)})

(* Fault: the reserve is already used up when space gets short.            *)
UrgentLate == NumAvailable < Reserve

IsUrgent == NumAvailable <= Reserve
IsFull   == NumAvailable < Reserve

(* IsExtendedDefragRequired *)
IsFilling    == NumSectors - NumAvailable >= (3 * NumSectors) \div 4

(* GetFreePhySectorId: round robin, from the one allocated last.           *)
FreePhysical(last) ==
  LET at(i) == (last + 1 + i) % NumSectors
  IN  at(Min({i \in 0 .. NumSectors - 1 : IsFree(at(i))}))
-----------------------------------------------------------------------------
(* RAM: SectorLut (phys, locked, inactive), the lookup table of all tokens *)
(* that are in the pool, removed ones included, the number of tokens, the  *)
(* extremes of the sequence numbers, the physical sector allocated last.   *)

InUse(m) == {s \in Sectors : m.phys[s] # NoSector}

FreeLogical(m) == Min(Sectors \ InUse(m))

PageOf(m, s, g) == flash[m.phys[s]].page[g]
RecordAt(m, it) == PageOf(m, it.sec, it.page)[it.idx]

SeqConcat(f, n) ==
  LET upto[i \in 0 .. n] == IF i = 0 THEN <<>> ELSE upto[i - 1] \o f[i]
  IN  upto[n]

(* Nvm_Pool_Iterator: every place of the pool, in order.                   *)
Walk(m) ==
  LET ofPage(s, g) == [i \in DOMAIN PageOf(m, s, g) |->
                         [sec |-> s, page |-> g, idx |-> i]]
  IN  SeqConcat([n \in 1 .. NumSectors |->
                   IF n - 1 \in InUse(m) THEN ofPage(n - 1, 1) \o ofPage(n - 1, 2)
                                         ELSE <<>>], NumSectors)

(* LogSector_Load for every sector: the numbers of all the records.        *)
LoadedSeqs(m, walk) ==
  ExtremesOf({<<RecordAt(m, walk[i]).seq, walk[i].sec>> : i \in DOMAIN walk})

(* TokenLut_Populate for all tokens: each with its newest record, the      *)
(* first one of equals, and the number of sectors that have one.           *)
Populate(m, walk) ==
  LET tokAt(i)   == RecordAt(m, walk[i]).tok
      age(i)     == Unmask(m.seqs, RecordAt(m, walk[i]).seq)
      first      == {i \in DOMAIN walk : \A j \in 1 .. i - 1 : tokAt(j) # tokAt(i)}
      places(t)  == {i \in DOMAIN walk : tokAt(i) = t}
      newest(is) == Min({i \in is : \A j \in is : age(j) <= age(i)})
      item(t)    == LET w == walk[newest(places(t))]
                    IN [tok |-> t, sec |-> w.sec, page |-> w.page, idx |-> w.idx,
                        refs |-> Cardinality({walk[i].sec : i \in places(t)})]
      nth(n)     == CHOOSE i \in first : Cardinality({j \in first : j <= i}) = n
  IN  [n \in 1 .. Cardinality(first) |-> item(tokAt(nth(n)))]

IsItem(m, s, g, i) ==
  \E k \in DOMAIN m.lut : m.lut[k].sec = s /\ m.lut[k].page = g /\ m.lut[k].idx = i

(* CalculateInactiveSums: old records, and removals of tokens that are in  *)
(* no other sector.                                                        *)
InactiveSum(m, s) ==
  LET unneeded(k, r) == r.val = Removed /\ m.lut[k].refs = 1
      counts(g, i) ==
        \/ ~IsItem(m, s, g, i)
        \/ \E k \in DOMAIN m.lut : /\ m.lut[k].sec = s /\ m.lut[k].page = g
                                   /\ m.lut[k].idx = i
                                   /\ unneeded(k, PageOf(m, s, g)[i])
      ofPage(g) == MapThenSumSet(LAMBDA i : SizeOf(PageOf(m, s, g)[i].val),
                     {i \in DOMAIN PageOf(m, s, g) : counts(g, i)})
  IN  ofPage(1) + ofPage(2)

(* SectorLut_Build: the sectors that are valid and not corrupt.            *)
Mapped(s) == {p \in Sectors : HasValidHeader(p) /\ ~IsCorrupt(p) /\ flash[p].head[1].id = s}

WithMap(m) ==
  [m EXCEPT !.phys = [s \in Sectors |-> IF Mapped(s) = {} THEN NoSector ELSE Min(Mapped(s))],
            !.locked = {}]

(* The end of Nvm_Reset: all tables from the flash.                        *)
Loaded(m0) ==
  LET m1 == WithMap(m0)
      w  == Walk(m1)
      m2 == [m1 EXCEPT !.seqs = LoadedSeqs(m1, w)]
      m3 == [m2 EXCEPT !.lut = Populate(m2, w)]
  IN  [m3 EXCEPT !.unique = Len(m3.lut),
                 !.inactive = [s \in Sectors |-> IF s \in InUse(m3)
                                                   THEN InactiveSum(m3, s) ELSE 0]]

NoTables == [phys |-> [s \in Sectors |-> NoSector], locked |-> {},
             inactive |-> [s \in Sectors |-> 0], lut |-> <<>>, unique |-> 0,
             seqs |-> NoExtremes,
             last |-> NumSectors - 1]

ItemOf(m, t) == {k \in DOMAIN m.lut : m.lut[k].tok = t}

(* ReadUnique: the payload that the lookup table leads to.                 *)
Lookup(m, t) ==
  IF ItemOf(m, t) = {} THEN Removed
  ELSE RecordAt(m, m.lut[CHOOSE k \in ItemOf(m, t) : TRUE]).val
-----------------------------------------------------------------------------
(* Choosing a place and a victim.                                          *)

FreeOn(m, s, g) == PageSize - UsedOf(PageOf(m, s, g))

IsCandidate(m, s) == m.inactive[s] > SectorSize \div 4

(* Record_Allocate: unlocked sectors with room that are not to be          *)
(* defragmented; the best fit, or when space is short the least waste.     *)
Fits(m, size) ==
  {s \in InUse(m) \ m.locked : /\ \E g \in Pages : FreeOn(m, s, g) >= size
                               /\ ~IsCandidate(m, s)}

LeastFree(m, s, size) == Min({FreeOn(m, s, g) : g \in Pages} \ 0 .. size - 1)

PickSector(m, size) ==
  LET cost(s) == IF IsUrgent THEN m.inactive[s] ELSE LeastFree(m, s, size)
      fits    == Fits(m, size)
  IN  Min({s \in fits : \A r \in fits : cost(s) <= cost(r)})

PickPage(m, s, size) == IF FreeOn(m, s, 1) = LeastFree(m, s, size) THEN 1 ELSE 2

(* Fault: when space is short, sectors with nothing to reclaim count.      *)
ReclaimableAll(m) == {s \in InUse(m) : IsUrgent \/ IsCandidate(m, s)}

(* ReclaimOutdatedSpace: the sectors worth reclaiming; it takes the first. *)
Reclaimable(m) ==
  IF IsUrgent THEN {s \in InUse(m) : m.inactive[s] > 0}
              ELSE {s \in InUse(m) : IsCandidate(m, s)}

(* ReclaimNamespaceSpace: records of removed tokens, by the table's order  *)
(* and then the pool's.  A sector found for one token is skipped until     *)
(* another one has been found.                                             *)
Namespace(m) ==
  LET walk == Walk(m)
      N    == Len(walk)
      gone(k) == RecordAt(m, m.lut[k]).val = Removed
      none == [count |-> 0, selected |-> NoSector, skip |-> NoSector]
      visit(a, k, w) ==
        IF ~gone(k) \/ w.sec = a.skip \/ RecordAt(m, w).tok # m.lut[k].tok THEN a
        ELSE [count |-> a.count + 1, skip |-> w.sec,
              selected |-> IF a.selected \in {NoSector, m.lut[k].sec}
                             THEN w.sec ELSE a.selected]
      upto[i \in 0 .. Len(m.lut) * N] ==
        IF i = 0 THEN none
        ELSE visit(upto[i - 1], ((i - 1) \div N) + 1, walk[((i - 1) % N) + 1])
  IN  upto[Len(m.lut) * N]
-----------------------------------------------------------------------------
(* A lookup table for one use is made from the flash when none is kept.    *)
Fresh(m) == IF use.cached THEN m ELSE [m EXCEPT !.lut = Populate(m, Walk(m))]

(* ... which counts the tokens when it is one of all tokens.               *)
FreshAll(m) ==
  IF use.cached THEN m ELSE [Fresh(m) EXCEPT !.unique = Len(Fresh(m).lut)]

(* The tables once a record of t is at (sec, page, idx) with number n.     *)
(* prev: the payload and sector of the version before, if any.             *)
NoPrev == [sec |-> NoSector, val |-> Removed]

(* Fault: a token that is listed keeps its place.                          *)
ListNew(lut, t, sec, page, idx) ==
  IF (\E k \in DOMAIN lut : lut[k].tok = t) \/ Len(lut) >= use.names THEN lut
  ELSE Append(lut, [tok |-> t, sec |-> sec, page |-> page, idx |-> idx, refs |-> 0])

ListAt(lut, t, sec, page, idx) ==
  LET is == {k \in DOMAIN lut : lut[k].tok = t}
  IN  IF is # {} THEN [k \in DOMAIN lut |-> IF k \in is
                        THEN [lut[k] EXCEPT !.sec = sec, !.page = page, !.idx = idx]
                        ELSE lut[k]]
      ELSE IF Len(lut) < use.names
        THEN Append(lut, [tok |-> t, sec |-> sec, page |-> page, idx |-> idx, refs |-> 0])
        ELSE lut

(* Fault: the size of the version before is not counted.                   *)
NotedAlone(m, t, sec, page, idx, n, prev) ==
  [m EXCEPT !.seqs = Register(m.seqs, n, sec),
            !.lut = ListAt(m.lut, t, sec, page, idx)]

Noted(m, t, sec, page, idx, n, prev) ==
  [m EXCEPT !.seqs = Register(m.seqs, n, sec),
            !.inactive = [s \in Sectors |-> IF s = prev.sec
                             THEN m.inactive[s] + SizeOf(prev.val) ELSE m.inactive[s]],
            !.lut = ListAt(m.lut, t, sec, page, idx)]

(* Frames.                                                                 *)
Top  == Head(stack)
Idle == stack = <<>>

WriteOf(t, v)        == [op |-> "write", tok |-> t, val |-> v, at |-> "urgent", low |-> FALSE]
AddOf(t, v, prev)    == [op |-> "add", tok |-> t, val |-> v, prev |-> prev,
                         at |-> "allocate", sec |-> NoSector]
RelocateOf(s)        == [op |-> "relocate", sec |-> s, next |-> 1, reset |-> FALSE]
BootFrame            == [op |-> "boot", at |-> "pending", from |-> NoSector, to |-> NoSector]
EraseFrame           == [op |-> "erase", at |-> "flag", p |-> 0]
AfterFrame(ev, more) == [op |-> "after", event |-> ev, more |-> more]

(* Nvm_LogSector_RelocateActiveData begins: its table, the lock.           *)
Relocating(m, s) == [FreshAll(m) EXCEPT !.locked = m.locked \cup {s}]

Goto(at)    == stack' = <<[Top EXCEPT !.at = at]>> \o Tail(stack)
Calling(f)  == stack' = <<f>> \o stack
CallingAt(f, at) == stack' = <<f, [Top EXCEPT !.at = at]>> \o Tail(stack)
Return      == stack' = Tail(stack)
Answer(r)   == Return /\ result' = r
-----------------------------------------------------------------------------
(* Calls and events begin when nothing is in progress.                     *)

CanCall ==
  Idle /\ ~failed /\ calls < use.calls

Begin(f) ==
  /\ CanCall
  /\ calls' = calls + 1 /\ moved' = 0 /\ stack' = <<f>> /\ result' = "none"
  /\ UNCHANGED <<use, flash, mem, events, failed, resets>>

(* gpNvm_Write / Nvm_WriteTag                                              *)
Write(t, v) == Begin(WriteOf(t, v))

(* gpNvm_Remove: of a token that is there.                                 *)
Remove(t) ==
  /\ use.removes /\ CanCall /\ Lookup(Fresh(mem), t) # Removed
  /\ Begin(WriteOf(t, Removed))

(* gpNvm_ErasePool                                                         *)
ErasePool == use.erases /\ Begin(EraseFrame)

(* The scheduled relocation of the oldest records.                         *)
RunRelocate ==
  /\ Idle /\ ~failed /\ "relocate" \in events
  /\ LET s == OldestSec(mem.seqs)
     IN  IF s \in InUse(mem)
         THEN /\ stack' = <<RelocateOf(s), AfterFrame("relocate", FALSE)>>
              /\ mem' = Relocating(mem, s)
              /\ UNCHANGED failed
         ELSE failed' = TRUE /\ UNCHANGED <<stack, mem>>
  /\ events' = events \ {"relocate"}
  /\ moved' = 0
  /\ UNCHANGED <<use, flash, result, calls, resets>>

(* The scheduled defragmentation, one sector at a time.                    *)
RunDefrag ==
  /\ Idle /\ ~failed /\ "defrag" \in events
  /\ events' = events \ {"defrag"}
  /\ LET C == Reclaimable(mem)
     IN  IF C = {} THEN UNCHANGED <<stack, mem>>
         ELSE /\ stack' = <<RelocateOf(Min(C)), AfterFrame("defrag", Cardinality(C) > 1)>>
              /\ mem' = Relocating(mem, Min(C))
  /\ moved' = 0
  /\ UNCHANGED <<use, flash, result, failed, calls, resets>>

EndEvent ==
  /\ ~Idle /\ Top.op = "after"
  /\ events' = IF \/ Top.event = "relocate" /\ TooSpread(mem.seqs)
                  \/ Top.event = "defrag" /\ Top.more
               THEN events \cup {Top.event} ELSE events
  /\ Return
  /\ UNCHANGED <<use, flash, mem, result, failed, moved, calls, resets>>
-----------------------------------------------------------------------------
(* Nvm_Write.                                                              *)

At(op, at) == ~Idle /\ ~failed /\ Top.op = op /\ Top.at = at

(* Urgent defragmentation, as long as there was another candidate.         *)
Urgent ==
  /\ At("write", "urgent")
  /\ LET C == Reclaimable(mem)
     IN  IF (~Top.low /\ ~IsUrgent) \/ C = {}
         THEN /\ stack' = <<[Top EXCEPT !.at = "lookup", !.low = IsUrgent]>>
              /\ UNCHANGED mem
         ELSE /\ mem' = Relocating(mem, Min(C))
              /\ stack' = <<RelocateOf(Min(C)),
                            [Top EXCEPT !.low = TRUE,
                               !.at = IF Cardinality(C) > 1 THEN "urgent" ELSE "low"]>>
  /\ UNCHANGED <<use, flash, events, result, failed, moved, calls, resets>>

LowOnSpace ==
  /\ At("write", "low")
  /\ stack' = <<[Top EXCEPT !.at = "lookup", !.low = IsUrgent]>>
  /\ UNCHANGED <<use, flash, mem, events, result, failed, moved, calls, resets>>

IsListed(m, t) == ItemOf(m, t) # {}

(* Fault: one token more than the table has room for.                      *)
ExhaustedLate(m) == m.unique > use.names

IsNamespaceExhausted(m) == m.unique = use.names

(* The version before: a removed token is one too.                         *)
LookupPrevious ==
  /\ At("write", "lookup")
  /\ LET m == Fresh(mem)
     IN  IF ~IsListed(m, Top.tok)
         THEN IF IsNamespaceExhausted(m)
              THEN Goto("namespace") /\ mem' = m /\ UNCHANGED result
              ELSE Goto("decide") /\ mem' = [m EXCEPT !.unique = @ + 1] /\ UNCHANGED result
         ELSE IF Lookup(m, Top.tok) = Top.val
              THEN Answer("ok") /\ mem' = m
              ELSE Goto("decide") /\ mem' = m /\ UNCHANGED result
  /\ UNCHANGED <<use, flash, events, failed, moved, calls, resets>>

(* Records of removed tokens have to go before a new token fits.           *)
CleanNamespace ==
  /\ At("write", "namespace")
  /\ LET m == FreshAll(mem)
         n == Namespace(m)
     IN  IF n.count = 0 THEN Goto("exhausted") /\ mem' = m
         ELSE /\ CallingAt(RelocateOf(n.selected),
                           IF n.count > 1 THEN "namespace" ELSE "exhausted")
              /\ mem' = Relocating(m, n.selected)
  /\ UNCHANGED <<use, flash, events, result, failed, moved, calls, resets>>

AfterNamespace ==
  /\ At("write", "exhausted")
  /\ IF IsNamespaceExhausted(mem)
     THEN Answer("error") /\ UNCHANGED mem
     ELSE Goto("decide") /\ mem' = [mem EXCEPT !.unique = @ + 1] /\ UNCHANGED result
  /\ UNCHANGED <<use, flash, events, failed, moved, calls, resets>>

(* When space is short, only what frees space or fits is written.          *)
PrevOf(m, t) ==
  IF IsListed(m, t)
  THEN [sec |-> m.lut[CHOOSE k \in ItemOf(m, t) : TRUE].sec, val |-> Lookup(m, t)]
  ELSE NoPrev

Decide ==
  /\ At("write", "decide")
  /\ LET prev   == PrevOf(mem, Top.tok)
         frees  == /\ prev.sec # NoSector
                   /\ prev.val = Removed \/ Length[Top.val] <= Length[prev.val]
         refuse == /\ Top.low /\ ~frees
                   /\ IsFull \/ Fits(mem, SizeOf(Top.val)) = {}
     IN  IF refuse THEN Answer("error")
         ELSE CallingAt(AddOf(Top.tok, Top.val, prev), "stored") /\ UNCHANGED result
  /\ UNCHANGED <<use, flash, mem, events, failed, moved, calls, resets>>

Finish ==
  /\ At("write", "stored")
  /\ events' = events \cup (IF TooSpread(mem.seqs) THEN {"relocate"} ELSE {})
                      \cup (IF IsFilling THEN {"defrag"} ELSE {})
  /\ Answer("ok")
  /\ UNCHANGED <<use, flash, mem, failed, moved, calls, resets>>
-----------------------------------------------------------------------------
(* Nvm_Pool_Record_Add.                                                    *)

WriteHeader(p, g, s) == [flash EXCEPT ![p].head[g] = [id |-> s, pending |-> FALSE]]

CanCreate(m) == (\E p \in Sectors : IsFree(p)) /\ InUse(m) # Sectors

Place == IF Top.sec = NoSector THEN PickSector(mem, SizeOf(Top.val)) ELSE Top.sec

PlacePage == IF Top.sec = NoSector THEN PickPage(mem, Place, SizeOf(Top.val)) ELSE 1

CanStore ==
  \/ At("add", "store")
  \/ At("add", "allocate") /\ Fits(mem, SizeOf(Top.val)) # {}

Appended(ok) ==
  flash' = [flash EXCEPT ![mem.phys[Place]].page[PlacePage] =
              Append(@, [tok |-> Top.tok, val |-> Top.val,
                         seq |-> NextSeq(mem.seqs), ok |-> ok])]

(* Nvm_LogSector_Create in Nvm_Pool_Record_Allocate, page by page.         *)
Create ==
  /\ At("add", "allocate") /\ Fits(mem, SizeOf(Top.val)) = {}
  /\ IF CanCreate(mem)
     THEN LET s == FreeLogical(mem)
              p == FreePhysical(mem.last)
          IN  /\ flash' = [WriteHeader(p, 1, s) EXCEPT ![p].page = Blank.page]
              /\ mem' = [mem EXCEPT !.phys[s] = p, !.last = p]
              /\ stack' = <<[Top EXCEPT !.at = "header", !.sec = s]>> \o Tail(stack)
              /\ UNCHANGED failed
     ELSE failed' = TRUE /\ UNCHANGED <<flash, mem, stack>>
  /\ UNCHANGED <<use, events, result, moved, calls, resets>>

CreateSecond ==
  /\ At("add", "header")
  /\ flash' = WriteHeader(mem.phys[Top.sec], 2, Top.sec)
  /\ Goto("store")
  /\ UNCHANGED <<use, mem, events, result, failed, moved, calls, resets>>

Store ==
  /\ CanStore
  /\ Appended(TRUE)
  /\ mem' = Noted(mem, Top.tok, Place, PlacePage,
                  Len(PageOf(mem, Place, PlacePage)) + 1, NextSeq(mem.seqs), Top.prev)
  /\ Return
  /\ UNCHANGED <<use, events, result, failed, moved, calls, resets>>
-----------------------------------------------------------------------------
(* Nvm_LogSector_RelocateActiveData.                                       *)

InRelocate == ~Idle /\ ~failed /\ Top.op = "relocate"

(* Fault: the item after one that was handled is left out.                 *)
ComingLate == {k \in DOMAIN mem.lut : k > Top.next /\ mem.lut[k].sec = Top.sec}

Coming == {k \in DOMAIN mem.lut : k >= Top.next /\ mem.lut[k].sec = Top.sec}

(* Fault: a removal is dropped wherever it is.                             *)
DroppedAnywhere(it) == RecordAt(mem, it).val = Removed

(* Nothing but a removal would be left of the token.                       *)
IsDropped(it) == RecordAt(mem, it).val = Removed /\ it.refs = 1

CopyOrDrop ==
  /\ InRelocate /\ Coming # {}
  /\ LET k  == Min(Coming)
         it == mem.lut[k]
         r  == RecordAt(mem, it)
         on == [Top EXCEPT !.next = k + 1]
     IN  stack' = IF IsDropped(it) THEN <<[on EXCEPT !.reset = TRUE]>> \o Tail(stack)
                  ELSE <<AddOf(it.tok, r.val, [sec |-> it.sec, val |-> r.val]), on>>
                       \o Tail(stack)
  /\ UNCHANGED <<use, flash, mem, events, result, failed, moved, calls, resets>>

SeqsOn(p) == {r.seq : r \in UNION {Range(flash[p].page[g]) : g \in Pages}}

EraseRelocated ==
  /\ InRelocate /\ Coming = {}
  /\ LET p == mem.phys[Top.sec]
     IN  /\ flash' = [flash EXCEPT ![p] = Blank]
         /\ stack' = IF Top.reset \/ SeqsOn(p) \cap Extremes(mem.seqs) # {}
                     THEN <<BootFrame>> \o Tail(stack) ELSE Tail(stack)
  /\ mem' = [mem EXCEPT !.phys[Top.sec] = NoSector, !.inactive[Top.sec] = 0,
                        !.locked = @ \ {Top.sec}]
  /\ moved' = moved + 1
  /\ UNCHANGED <<use, events, result, failed, calls, resets>>
-----------------------------------------------------------------------------
(* Nvm_Reset, also at power up.                                            *)

IsPending == \E p \in Sectors : flash[p].head[1].pending
Dirty     == {p \in Sectors : flash[p] # Blank}
Corrupt   == {p \in Sectors : IsCorrupt(p)}

FindPending ==
  /\ At("boot", "pending")
  /\ Goto(IF IsPending THEN "wipe" ELSE "corrupt")
  /\ UNCHANGED <<use, flash, mem, events, result, failed, moved, calls, resets>>

(* Nvm_Flash_PhysicalErase, in a reset and in gpNvm_ErasePool              *)
Wipe ==
  /\ At("boot", "wipe") \/ At("erase", "wipe")
  /\ IF Dirty # {} THEN flash' = [flash EXCEPT ![Min(Dirty)] = Blank] /\ UNCHANGED stack
     ELSE /\ UNCHANGED flash
          /\ IF Top.op = "boot" THEN Goto("corrupt") ELSE CallingAt(BootFrame, "done")
  /\ UNCHANGED <<use, mem, events, result, failed, moved, calls, resets>>

(* Nvm_LogSector_SalvageEntriesFromBrokenSector: its good records go to a  *)
(* new sector, to the same places.                                         *)
Salvage ==
  /\ At("boot", "corrupt") /\ Corrupt # {}
  /\ LET m == WithMap(mem)
         s == FreeLogical(m)
         p == FreePhysical(m.last)
     IN  IF CanCreate(m)
         THEN /\ flash' = WriteHeader(p, 1, s)
              /\ mem' = [m EXCEPT !.last = p]
              /\ stack' = <<[Top EXCEPT !.at = "header", !.from = Min(Corrupt), !.to = p]>>
                          \o Tail(stack)
              /\ UNCHANGED failed
         ELSE failed' = TRUE /\ UNCHANGED <<flash, mem, stack>>
  /\ UNCHANGED <<use, events, result, moved, calls, resets>>

SalvageSecond ==
  /\ At("boot", "header")
  /\ flash' = WriteHeader(Top.to, 2, flash[Top.to].head[1].id)
  /\ Goto("copy")
  /\ UNCHANGED <<use, mem, events, result, failed, moved, calls, resets>>

Missing == {g \in Pages : Len(flash[Top.to].page[g])
                            < Len(GoodRecords(flash[Top.from].page[g]))}

Copied(ok) ==
  LET g == Min(Missing)
  IN  flash' = [flash EXCEPT ![Top.to].page[g] =
                  Append(@, [flash[Top.from].page[g][Len(@) + 1] EXCEPT !.ok = ok])]

SalvageRecord ==
  /\ At("boot", "copy") /\ Missing # {}
  /\ Copied(TRUE)
  /\ UNCHANGED <<use, mem, events, stack, result, failed, moved, calls, resets>>

EraseSalvaged ==
  /\ At("boot", "copy") /\ Missing = {}
  /\ flash' = [flash EXCEPT ![Top.from] = Blank]
  /\ Goto("corrupt")
  /\ UNCHANGED <<use, mem, events, result, failed, moved, calls, resets>>

(* The tables; two sectors of one number or too many tokens are errors.    *)
LoadTables ==
  /\ At("boot", "corrupt") /\ Corrupt = {}
  /\ mem' = Loaded(mem)
  /\ failed' = \/ \E s \in Sectors : Cardinality(Mapped(s)) > 1
               \/ Len(mem'.lut) > use.names
  /\ Return
  /\ UNCHANGED <<use, flash, events, result, moved, calls, resets>>
-----------------------------------------------------------------------------
(* gpNvm_ErasePool                                                         *)

FlagSector ==
  /\ At("erase", "flag")
  /\ flash' = [flash EXCEPT ![Top.p].head[1].pending = TRUE]
  /\ stack' = <<[Top EXCEPT !.p = (@ + 1) % NumSectors,
                            !.at = IF Top.p = NumSectors - 1 THEN "wipe" ELSE "flag"]>>
  /\ UNCHANGED <<use, mem, events, result, failed, moved, calls, resets>>

EndErase ==
  /\ At("erase", "done")
  /\ Answer("ok")
  /\ UNCHANGED <<use, flash, mem, events, failed, moved, calls, resets>>
-----------------------------------------------------------------------------
(* A reset of the chip; it cuts a record that is being written short.      *)
PowerUp ==
  /\ resets < use.resets
  /\ resets' = resets + 1
  /\ mem' = NoTables /\ events' = {} /\ stack' = <<BootFrame>>
  /\ result' = "none" /\ failed' = FALSE /\ moved' = 0
  /\ UNCHANGED <<use, calls>>

ResetBetween  == PowerUp /\ UNCHANGED flash
ResetInStore  == CanStore /\ PowerUp /\ Appended(FALSE)
ResetInCopy   == At("boot", "copy") /\ Missing # {} /\ PowerUp /\ Copied(FALSE)

Init ==
  /\ use \in Uses
  /\ \/ use.start = <<>> /\ flash = [p \in Sectors |-> Blank]
     \/ /\ use.start # <<>>
        /\ \E t \in [Pages -> Tokens], v \in [Pages -> Values] :
             flash = [p \in Sectors |-> IF p # 0 THEN Blank
                       ELSE [head |-> [g \in Pages |-> [id |-> 0, pending |-> FALSE]],
                             page |-> [g \in Pages |-> <<[tok |-> t[g], val |-> v[g],
                                          seq |-> use.start[g], ok |-> TRUE]>>]]]
  /\ mem = NoTables /\ events = {} /\ stack = <<BootFrame>>
  /\ result = "none" /\ failed = FALSE /\ moved = 0 /\ calls = 0 /\ resets = 0

Environment ==
  \/ \E t \in Tokens : (\E v \in Values : Write(t, v)) \/ Remove(t)
  \/ ErasePool
  \/ ResetBetween \/ ResetInStore \/ ResetInCopy

Progress ==
  \/ Urgent \/ LowOnSpace \/ LookupPrevious \/ CleanNamespace \/ AfterNamespace
  \/ Decide \/ Finish
  \/ Create \/ CreateSecond \/ Store
  \/ CopyOrDrop \/ EraseRelocated
  \/ FindPending \/ Wipe \/ Salvage \/ SalvageSecond \/ SalvageRecord
  \/ EraseSalvaged \/ LoadTables
  \/ FlagSector \/ EndErase
  \/ EndEvent

Next == Environment \/ Progress \/ RunRelocate \/ RunDefrag

Spec == Init /\ [][Next]_vars
-----------------------------------------------------------------------------
(* What the flash alone says: the newest good record of every token.       *)

GoodRecordsOf(p) == UNION {Range(GoodRecords(flash[p].page[g])) : g \in Pages}

AllRecords == UNION {GoodRecordsOf(p) : p \in {x \in Sectors : HasValidHeader(x)}}

StoredIn(R) ==
  [t \in Tokens |->
     LET of == {r \in R : r.tok = t}
     IN  IF of = {} THEN Removed
         ELSE (CHOOSE r \in of : \A o \in of : NotOlder(r.seq, o.seq)).val]

Stored == StoredIn(AllRecords)

IsWiping == \E i \in DOMAIN stack : stack[i].op \in {"boot", "erase"} /\ stack[i].at = "wipe"

AbsValue == IF IsPending \/ IsWiping THEN [t \in Tokens |-> Removed] ELSE Stored

AbsCall ==
  IF Idle THEN [op |-> "none"]
  ELSE LET f == stack[Len(stack)]
       IN  CASE f.op = "write" -> [op |-> "write", tok |-> f.tok, val |-> f.val,
                                   done |-> f.at = "stored" /\ Len(stack) = 1]
             [] f.op = "erase" -> [op |-> "erase", done |-> f.p # 0 \/ f.at # "flag"]
             [] OTHER          -> [op |-> "none"]

Abs == INSTANCE NvmAbs WITH value <- AbsValue, call <- AbsCall

(* A call changes its token, once, before it returns ok, and nothing else  *)
(* ever changes a token: not relocation (lines 1487-1608), not a reset in  *)
(* the middle of any of it, not salvage (lines 2334-2441), not the numbers *)
(* starting over (lines 1308-1345).                                        *)
Promise == Abs!Spec

TypeOK ==
  /\ use \in Uses
  /\ \A p \in Sectors, g \in Pages :
       /\ flash[p].head[g] \in Header
       /\ Range(flash[p].page[g]) \subseteq Record
       /\ UsedOf(flash[p].page[g]) <= PageSize
  /\ mem.phys \in [Sectors -> Sectors \cup {NoSector}] /\ mem.locked \subseteq Sectors
  /\ mem.inactive \in [Sectors -> Nat] /\ mem.unique \in Nat /\ mem.last \in Sectors
  /\ events \subseteq {"relocate", "defrag"}
  /\ result \in {"none", "ok", "error"} /\ failed \in BOOLEAN
  /\ moved \in Nat /\ calls \in 0 .. use.calls /\ resets \in 0 .. use.resets

(* No assertion fails: there is always a free sector for a copy and for a  *)
(* new sector (lines 1022 and 2085), whatever urgent defragmentation and   *)
(* the refusals of Nvm_Write have left; no two sectors get one number      *)
(* (line 2227) and no more tokens are found than there is room for (1973). *)
NoAssertion == ~failed

(* What the lookup table leads to is what is stored: it is updated by      *)
(* every copy, and its stale entries go before anybody reads (1564-1568).  *)
ReadsStored == Idle /\ ~failed => \A t \in Tokens : Lookup(Fresh(mem), t) = Stored[t]

(* What the comparison of two numbers is right for (lines 1308-1341).      *)
(* Relocation of the oldest records is to keep the numbers so (lines       *)
(* 1392-1429), but its event can come too late: writes do not wait for it, *)
(* and its copies take numbers too.                                        *)
NumbersComparable == Comparable({r.seq : r \in AllRecords})

(* The extremes by which numbers are compared and the oldest sector is     *)
(* found are those of the flash: registered with every record, loaded anew *)
(* when an extreme goes with its sector (lines 1249-1306), and not when    *)
(* any other record does, although the numbers start over.                 *)
ExtremesKept ==
  Idle /\ ~failed =>
    mem.seqs = ExtremesOf(UNION {{<<n, s>> : n \in SeqsOn(mem.phys[s])} : s \in InUse(mem)})

(* Every token of the flash is listed and counted, and the table has room: *)
(* lines 4668-4669 ask "should we allocate more space?" and store a record *)
(* that is not listed; the count taken at line 4471 never lets that be.    *)
NamesBounded ==
  Idle => /\ Len(mem.lut) <= mem.unique /\ mem.unique <= use.names
          /\ \A r \in AllRecords : IsListed(Fresh(mem), r.tok)

(* The space that relocation would free is never under-estimated, or it    *)
(* would never be found again (lines 1635-1653).  Removal records can be   *)
(* counted twice: as unneeded when the tables are loaded (lines 2046-2055) *)
(* and when the token is written again (line 4617).                        *)
SizeOn(s, Counts(_, _)) ==
  LET of(g) == MapThenSumSet(LAMBDA i : SizeOf(PageOf(mem, s, g)[i].val),
                             {i \in DOMAIN PageOf(mem, s, g) : Counts(g, i)})
  IN  of(1) + of(2)

SpaceCounted ==
  Idle => \A s \in InUse(mem) :
    LET old(g, i)  == ~IsItem(Fresh(mem), s, g, i)
        gone(g, i) == PageOf(mem, s, g)[i].val = Removed
    IN  /\ mem.inactive[s] >= SizeOn(s, old)
        /\ mem.inactive[s] <= SizeOn(s, old) + SizeOn(s, gone)

(* A removal record is dropped only where lines 1560-1561 say so: "no      *)
(* other sectors contain this token, we can drop it".  Else an old value   *)
(* of the token comes back.                                                *)
DropsAreLast ==
  InRelocate /\ Coming # {} =>
    LET it == mem.lut[Min(Coming)]
    IN  IsDropped(it) => \A s \in InUse(mem) \ {it.sec}, g \in Pages :
          \A i \in DOMAIN PageOf(mem, s, g) : PageOf(mem, s, g)[i].tok # it.tok

(* The loops of Nvm_Write (lines 4410-4414 and 4460-4463) end: what a call *)
(* relocates does not become a candidate again.                            *)
RelocationsEnd == moved <= NumSectors
=============================================================================
