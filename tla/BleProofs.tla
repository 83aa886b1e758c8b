----------------------------- MODULE BleProofs ------------------------------
(***************************************************************************)
(* What holds of the queue of links for every number of links, connections *)
(* and devices, every configuration and every use; then whose connection   *)
(* is whose; and last, that links take turns.                              *)
(***************************************************************************)
EXTENDS BleLinks, SeqLemmas

(* The states of a link that advertises or is about to stop, and of one    *)
(* that has a place in the queue.                                          *)
Active == Advertising \cup {"StopReconnectingDirect"}
Queued == Waiting \cup Active

(* What a row of the table does with the queue, and from where to where.   *)
Queues(r)    == "add" \in r.calls /\ r.from \notin Queued /\ r.to \in Waiting
GivesUp(r)   == "remove" \in r.calls /\ r.from \in Waiting /\ r.to \notin Queued
Finishes(r)  == "pop" \in r.calls /\ r.from \in Active /\ r.to \notin Queued
Begins(r)    == r.from \in Waiting /\ r.to \in Active /\ r.event = "AdvAvail"
Continues(r) == r.from \in Active /\ r.to \in Active
Outside(r)   == r.from \notin Queued /\ r.to \notin Queued
QueueCalls == {"add", "remove", "pop"}

(* Every row is of one of these kinds, under every configuration.          *)
RowKind(r) ==
  /\ r.from \in States /\ r.to \in States
  /\ \/ Queues(r) /\ r.calls \cap QueueCalls = {"add"}
     \/ GivesUp(r) /\ r.calls \cap QueueCalls = {"remove"}
     \/ Finishes(r) /\ r.calls \cap QueueCalls = {"pop"}
     \/ (Begins(r) \/ Continues(r) \/ Outside(r)) /\ r.calls \cap QueueCalls = {}

LEMMA NewRowKinds ==
  ASSUME NEW conf, NEW r \in NewRows(conf) PROVE RowKind(r)
BY DEF NewRows, Row, RowKind, Queues, GivesUp, Finishes, Begins, Continues, Outside, QueueCalls,
       Queued, Active, Close, Fail, States, Waiting, Directed, Aborting, Connected, Closing, Advertising

LEMMA BondedRowKinds ==
  ASSUME NEW conf, NEW r \in BondedRows(conf) PROVE RowKind(r)
BY DEF BondedRows, Row, RowKind, Queues, GivesUp, Finishes, Begins, Continues, Outside, QueueCalls,
       Queued, Active, Close, Fail, States, Waiting, Directed, Aborting, Connected, Closing, Advertising

LEMMA ReconnectRowKinds ==
  ASSUME NEW conf, NEW r \in ReconnectRows(conf) PROVE RowKind(r)
BY DEF ReconnectRows, Row, RowKind, Queues, GivesUp, Finishes, Begins, Continues, Outside, QueueCalls,
       Queued, Active, Close, Fail, States, Waiting, Directed, Aborting, Connected, Closing, Advertising,
       FirstReconnect

LEMMA RowKinds ==
  ASSUME NEW conf \in SUBSET Flags, NEW r \in Table[conf] PROVE RowKind(r)
<1>1. r \in NewRows(conf) \cup BondedRows(conf) \cup ReconnectRows(conf)
  BY DEF Table
<1> QED BY <1>1, NewRowKinds, BondedRowKinds, ReconnectRowKinds

(* A link that waits for its turn understands that it has come.            *)
LEMMA WaitingIsServed ==
  ASSUME NEW conf \in SUBSET Flags, NEW s \in Waiting
  PROVE  \E r \in Table[conf] : r.from = s /\ r.event = "AdvAvail"
<1>1. CASE s = "WaitConnect"
  <2>1. [from |-> s, event |-> "AdvAvail", to |-> "Connecting", calls |-> {"start"}] \in NewRows(conf)
    BY <1>1 DEF NewRows, Row
  <2> QED BY <2>1 DEF Table
<1>2. CASE s = "WaitReconnect"
  <2>1. [from |-> s, event |-> "AdvAvail", to |-> FirstReconnect(conf), calls |-> {"start"}]
          \in ReconnectRows(conf)
    BY <1>2 DEF ReconnectRows, Row
  <2> QED BY <2>1 DEF Table
<1> QED BY <1>1, <1>2 DEF Waiting
(* ... and does nothing with its place then.                               *)
LEMMA WaitingBegins ==
  ASSUME NEW conf \in SUBSET Flags, NEW r \in Table[conf], r.from \in Waiting, r.event = "AdvAvail"
  PROVE  r.calls \cap QueueCalls = {} /\ r.to \in Active
<1>1. CASE r \in NewRows(conf)
  BY <1>1 DEF NewRows, Row, Waiting, Active, Advertising, Directed, Aborting, QueueCalls, Close, Fail
<1>2. CASE r \in BondedRows(conf)
  BY <1>2 DEF BondedRows, Row, Waiting
<1>3. CASE r \in ReconnectRows(conf)
  BY <1>3 DEF ReconnectRows, Row, Waiting, Active, Advertising, Directed, Aborting, QueueCalls,
              Close, Fail, FirstReconnect
<1> QED BY <1>1, <1>2, <1>3 DEF Table
-----------------------------------------------------------------------------
(* What a handler computes, and computations that leave the links' states  *)
(* and the queue alone and take no event off the list.                     *)
Work == [m : Modules, sched : Seq(SchedEvents), inds : Seq(Inds)]
Keeps(h, g) ==
  /\ g \in Work
  /\ g.m.state = h.m.state /\ g.m.queue = h.m.queue
  /\ Range(h.sched) \subseteq Range(g.sched)

LEMMA KeepsTransitive ==
  ASSUME NEW f, NEW g, NEW h, Keeps(f, g), Keeps(g, h) PROVE Keeps(f, h)
BY DEF Keeps

LEMMA KeepsItself ==
  ASSUME NEW h \in Work PROVE Keeps(h, h)
BY DEF Keeps

LEMMA ListedKeeps ==
  ASSUME NEW h \in Work, NEW e \in SchedEvents
  PROVE  /\ Keeps(h, Listed(h, e))
         /\ Range(Listed(h, e).sched) = Range(h.sched) \cup {e}
<1>1. Append(h.sched, e) \in Seq(SchedEvents) /\ Range(Append(h.sched, e)) = Range(h.sched) \cup {e}
  BY AppendRange DEF Work
<1> QED BY <1>1 DEF Work, Keeps, Listed

LEMMA SentKeeps ==
  ASSUME NEW h \in Work, NEW i \in Inds PROVE Keeps(h, Sent(h, i))
BY DEF Work, Keeps, Sent

LEMMA AdvStartedKeeps ==
  ASSUME NEW h \in Work PROVE Keeps(h, AdvStarted(h))
<1> DEFINE may == Cardinality(h.m.known) < NConns
           adv == IF may /\ h.m.adv = "idle" THEN "starting" ELSE h.m.adv
<1>1. may \in BOOLEAN
  OBVIOUS
<1>2. adv \in {"idle", "starting", "advertising", "stopping", "directed", "cancelling"}
  BY DEF Work, Modules
<1> HIDE DEF may, adv
<1>3. Keeps(h, [h EXCEPT !.m.advRuns = may, !.m.adv = adv])
  BY <1>1, <1>2 DEF Work, Modules, Keeps
<1> QED BY <1>3 DEF AdvStarted, may, adv

LEMMA AdvStoppedKeeps ==
  ASSUME NEW h \in Work PROVE Keeps(h, AdvStopped(h))
BY DEF Work, Modules, Keeps, AdvStopped

(* Changes of one connection, and of one record of the device database.    *)
Ccb    == [state : {"free", "accepting", "open", "closing"}, peer : Peers \cup {None}]
Record == [peer : Peers \cup {None}, valid : BOOLEAN]

LEMMA CcbKeeps ==
  ASSUME NEW h \in Work, NEW c \in Conns, NEW b \in Ccb
  PROVE  Keeps(h, [h EXCEPT !.m.ccb[c] = b])
BY DEF Work, Modules, Keeps, Ccb

LEMMA RecordKeeps ==
  ASSUME NEW h \in Work, NEW l \in Links, NEW r \in Record
  PROVE  Keeps(h, [h EXCEPT !.m.rec[l] = r])
BY DEF Work, Modules, Keeps, Record

LEMMA Elements ==
  ASSUME NEW h \in Work
  PROVE  /\ \A c \in Conns : h.m.ccb[c] \in Ccb
         /\ \A l \in Links : h.m.rec[l] \in Record
BY DEF Work, Modules, Ccb, Record

LEMMA ConnClosedKeeps ==
  ASSUME NEW h \in Work, NEW c \in Conns PROVE Keeps(h, ConnClosed(h, c))
<1> DEFINE open == [h EXCEPT !.m.ccb[c].state = "closing"]
           free == [h EXCEPT !.m.ccb[c] = Free,
                             !.m.adv = IF @ \in {"starting", "advertising", "directed"} THEN "cancelling" ELSE @]
           gone == [event |-> "ConnClose", conn |-> c]
<1>1. Keeps(h, open)
  <2> DEFINE closing == [h.m.ccb[c] EXCEPT !.state = "closing"]
  <2>1. closing \in Ccb
    BY Elements DEF Ccb
  <2>2. open = [h EXCEPT !.m.ccb[c] = closing]
    OBVIOUS
  <2> HIDE DEF closing, open
  <2> QED BY <2>1, <2>2, CcbKeeps
<1>2. free \in Work /\ Keeps(h, free)
  BY DEF Work, Modules, Keeps, Free
<1>3. gone \in Inds
  BY DEF Inds
<1>4. Keeps(h, Sent(free, gone))
  BY <1>2, <1>3, SentKeeps, KeepsTransitive
<1>5. ConnClosed(h, c) \in {open, Sent(free, gone), h}
  BY DEF ConnClosed
<1> QED BY <1>1, <1>4, <1>5, KeepsItself

LEMMA CheckValidKeeps ==
  ASSUME NEW h \in Work, NEW l \in Links \cup {None} PROVE Keeps(h, CheckValidRecord(h, l))
<1> DEFINE gone == [h.m.rec[l] EXCEPT !.peer = None]
           next == [h EXCEPT !.m.rec[l].peer = None]
<1>1. ASSUME l # None PROVE Keeps(h, next)
  <2>1. gone \in Record
    BY <1>1, Elements DEF Record
  <2>2. next = [h EXCEPT !.m.rec[l] = gone]
    OBVIOUS
  <2> HIDE DEF gone, next
  <2> QED BY <1>1, <2>1, <2>2, RecordKeeps
<1> QED BY <1>1, KeepsItself DEF CheckValidRecord

LEMMA CloseConnectionKeeps ==
  ASSUME NEW h \in Work, NEW l \in Links PROVE Keeps(h, CloseConnection(h, l))
<1>1. h.m.connId[l] \in Conns \cup {None}
  BY DEF Work, Modules
<1>2. CASE h.m.connId[l] = None
  BY <1>2, KeepsItself DEF CloseConnection
<1>3. CASE h.m.connId[l] # None
  <2>1. Keeps(h, ConnClosed(h, h.m.connId[l]))
    BY <1>1, <1>3, ConnClosedKeeps
  <2>2. Keeps(ConnClosed(h, h.m.connId[l]), CloseConnection(h, l))
    BY <1>3, <2>1, CheckValidKeeps DEF CloseConnection, Keeps
  <2> QED BY <2>1, <2>2, KeepsTransitive
<1> QED BY <1>2, <1>3

LEMMA StopAdvertisingKeeps ==
  ASSUME NEW h \in Work, NEW l \in Links, NEW s PROVE Keeps(h, StopAdvertising(h, l, s))
<1> DEFINE left == [h EXCEPT !.m.connId[l] = None]
<1>1. h.m.connId[l] \in Conns \cup {None}
  BY DEF Work, Modules
<1>2. left \in Work /\ Keeps(h, left)
  BY DEF Work, Modules, Keeps
<1>3. h.m.connId[l] # None => Keeps(h, ConnClosed(left, h.m.connId[l]))
  BY <1>1, <1>2, ConnClosedKeeps, KeepsTransitive
<1> QED BY <1>1, <1>3, KeepsItself, AdvStoppedKeeps DEF StopAdvertising

(* Directed advertising takes a connection that is free, or the device's.  *)
LEMMA FirstFreeIsFree ==
  ASSUME NEW h, Used(h) # Conns PROVE FirstFree(h) \in Conns
<1>1. Conns \ Used(h) # {} /\ Conns \ Used(h) \in SUBSET Nat
  BY DEF Used, Conns
<1>2. \E c \in Conns \ Used(h) : \A d \in Conns \ Used(h) : c <= d
  BY <1>1, LeastElement
<1> QED BY <1>2 DEF FirstFree

LEMMA DirectAdvertiseKeeps ==
  ASSUME NEW h \in Work, NEW l \in Links PROVE Keeps(h, DirectAdvertise(h, l))
<1> DEFINE p    == h.m.rec[l].peer
           same == {c \in Used(h) : h.m.ccb[c].peer = p}
           c    == IF same # {} THEN CHOOSE d \in same : TRUE ELSE FirstFree(h)
           told == [h EXCEPT !.m.dbHdl[c] = l, !.m.connId[l] = c, !.m.advDirected = TRUE]
           mark == [event |-> "MarkDirectAdvertiseAsInvalid", link |-> l]
           next == [told EXCEPT !.m.ccb[c] = [state |-> "accepting", peer |-> p],
                                !.m.adv = IF @ = "idle" THEN "directed" ELSE @]
<1>1. Keeps(h, Listed(h, mark))
  BY ListedKeeps DEF SchedEvents
<1>2. ASSUME ~ (same = {} /\ Used(h) = Conns)
      PROVE  Keeps(h, told) /\ Keeps(h, next)
  <2>1. c \in Conns /\ p \in Peers \cup {None}
    BY <1>2, FirstFreeIsFree DEF Used, Work, Modules
  <2> HIDE DEF c, p
  <2>2. Keeps(h, told) /\ told \in Work
    BY <2>1 DEF Work, Modules, Keeps
  <2> HIDE DEF told
  <2>3. Keeps(told, next)
    BY <2>1, <2>2 DEF Work, Modules, Keeps
  <2> QED BY <2>2, <2>3, KeepsTransitive
<1>3. DirectAdvertise(h, l) = IF h.m.advRuns \/ (same = {} /\ Used(h) = Conns) THEN Listed(h, mark)
                              ELSE IF same # {} THEN told ELSE next
  BY DEF DirectAdvertise
<1> QED BY <1>1, <1>2, <1>3

LEMMA StartAdvertisingKeeps ==
  ASSUME NEW h \in Work, NEW l \in Links, NEW s PROVE Keeps(h, StartAdvertising(h, l, s))
<1> DEFINE able == [h EXCEPT !.m.bondable = s = "Connecting"]
<1>1. able \in Work /\ Keeps(h, able)
  BY DEF Work, Modules, Keeps
<1>2. Keeps(h, AdvStarted(able))
  BY <1>1, AdvStartedKeeps, KeepsTransitive
<1> QED BY <1>2, DirectAdvertiseKeeps DEF StartAdvertising
-----------------------------------------------------------------------------
(* Of a queue under given states of the links: nobody is in it twice, the  *)
(* first may advertise, and the others wait.                               *)
Turns(st, q) ==
  /\ st \in [Links -> States] /\ q \in Seq(Links) /\ IsInjective(q)
  /\ \A i \in 1 .. Len(q) : st[q[i]] \in (IF i = 1 THEN Queued ELSE Waiting)

(* ... and if the first waits, it has been kicked.                         *)
ServedBy(st, q, kick) == Turns(st, q) /\ (q # <<>> /\ st[q[1]] \in Waiting => kick)

LEMMA Disjoint == Waiting \cap Active = {} /\ Waiting \subseteq States /\ Active \subseteq States
BY DEF Waiting, Active, Advertising, Directed, Aborting, States

(* A link that does not wait or advertise joins.                           *)
LEMMA JoinTurns ==
  ASSUME NEW st, NEW q, NEW kick, ServedBy(st, q, kick),
         NEW l \in Links, st[l] \notin Queued, NEW s \in Waiting
  PROVE  /\ l \notin Range(q)
         /\ ServedBy([st EXCEPT ![l] = s], Append(q, l), kick \/ q = <<>>)
<1> DEFINE new == [st EXCEPT ![l] = s]
           p   == Append(q, l)
<1>1. st \in [Links -> States] /\ q \in Seq(Links) /\ IsInjective(q) /\ Len(q) \in Nat
      /\ \A i \in 1 .. Len(q) : q[i] \in Links
  BY LenProperties, ElementOfSeq DEF ServedBy, Turns
<1>2. \A i \in 1 .. Len(q) : q[i] # l
  BY Disjoint DEF ServedBy, Turns, Queued
<1>3. l \notin Range(q)
  BY <1>1, <1>2, RangeElements
<1>4. p \in Seq(Links) /\ IsInjective(p)
  BY <1>1, <1>3, AppendRange
<1>5. Len(p) = Len(q) + 1 /\ \A i \in 1 .. Len(q) + 1 : p[i] = IF i = Len(q) + 1 THEN l ELSE q[i]
  BY <1>1
<1>6. new \in [Links -> States] /\ new[l] = s /\ \A i \in 1 .. Len(q) : new[q[i]] = st[q[i]]
  BY <1>1, <1>2, Disjoint
<1>7. \A i \in 1 .. Len(p) : new[p[i]] \in (IF i = 1 THEN Queued ELSE Waiting)
  <2> TAKE i \in 1 .. Len(p)
  <2>1. CASE i = Len(q) + 1
    BY <1>5, <1>6, <2>1 DEF Queued
  <2>2. CASE i # Len(q) + 1
    BY <1>1, <1>5, <1>6, <2>2 DEF ServedBy, Turns
  <2> QED BY <2>1, <2>2
<1>8. q # <<>> => p[1] = q[1] /\ new[q[1]] = st[q[1]]
  BY <1>1, <1>5, <1>6, EmptySeq
<1> QED BY <1>3, <1>4, <1>6, <1>7, <1>8 DEF ServedBy, Turns

(* The first of the queue leaves: it or whoever else advertises goes on    *)
(* without a place, and the next is to be kicked.                          *)
LEMMA PopTurns ==
  ASSUME NEW st, NEW q, Turns(st, q), q # <<>>
  PROVE  /\ Turns(st, Tail(q))
         /\ \A i \in 1 .. Len(Tail(q)) : st[Tail(q)[i]] \in Waiting
<1>1. st \in [Links -> States] /\ q \in Seq(Links) /\ IsInjective(q) /\ Len(q) \in Nat \ {0}
  BY LenProperties, EmptySeq DEF Turns
<1>2. /\ Tail(q) \in Seq(Links) /\ IsInjective(Tail(q)) /\ Len(Tail(q)) = Len(q) - 1
      /\ \A i \in 1 .. Len(Tail(q)) : Tail(q)[i] = q[i + 1]
  BY <1>1, TailRange, HeadTailProperties
<1>3. \A i \in 1 .. Len(Tail(q)) : st[Tail(q)[i]] \in Waiting
  BY <1>1, <1>2 DEF Turns
<1> QED BY <1>1, <1>2, <1>3 DEF Turns, Queued

(* A link leaves the queue from wherever it is.                            *)
LEMMA DropTurns ==
  ASSUME NEW st, NEW q, NEW kick, ServedBy(st, q, kick), NEW l \in Range(q), st[l] \in Waiting
  PROVE  LET p == RemoveAt(q, GetIndex(q, l)) IN ServedBy(st, p, kick) /\ l \notin Range(p)
<1> DEFINE i == GetIndex(q, l)
           p == RemoveAt(q, i)
<1>1. st \in [Links -> States] /\ q \in Seq(Links) /\ IsInjective(q) /\ Len(q) \in Nat
  BY LenProperties DEF ServedBy, Turns
<1>2. i \in 1 .. Len(q) /\ q[i] = l
  BY <1>1, LenProperties DEF GetIndex, Range
<1> HIDE DEF i
<1>3. p \in Seq(Links) /\ IsInjective(p) /\ Range(p) = Range(q) \ {l} /\ Len(p) = Len(q) - 1
      /\ \A j \in 1 .. Len(q) - 1 : p[j] = IF j < i THEN q[j] ELSE q[j + 1]
  BY <1>1, <1>2, RemoveAtRange, RemoveAtElements
<1>4. \A j \in 1 .. Len(p) : st[p[j]] \in (IF j = 1 THEN Queued ELSE Waiting)
  BY <1>1, <1>2, <1>3 DEF ServedBy, Turns, Queued
<1>5. p # <<>> /\ st[p[1]] \in Waiting => kick
  <2> HAVE p # <<>> /\ st[p[1]] \in Waiting
  <2>1. Len(p) > 0 /\ q # <<>>
    BY <1>1, <1>2, <1>3, EmptySeq, LenProperties
  <2>2. CASE i = 1
    BY <1>2, <2>1, <2>2 DEF ServedBy
  <2>3. CASE i # 1
    BY <1>2, <1>3, <2>1, <2>3 DEF ServedBy
  <2> QED BY <2>2, <2>3
<1> QED BY <1>1, <1>3, <1>4, <1>5 DEF ServedBy, Turns, i

(* A link without a place changes its state.                               *)
LEMMA OutsideTurns ==
  ASSUME NEW st, NEW q, NEW kick, ServedBy(st, q, kick),
         NEW l \in Links, l \notin Range(q), NEW s \in States
  PROVE  ServedBy([st EXCEPT ![l] = s], q, kick)
<1>1. st \in [Links -> States] /\ q \in Seq(Links) /\ Len(q) \in Nat
      /\ \A i \in 1 .. Len(q) : q[i] \in Links /\ q[i] # l
  BY LenProperties, ElementOfSeq, RangeElements DEF ServedBy, Turns
<1>2. q # <<>> => Len(q) > 0
  BY <1>1, EmptySeq
<1> QED BY <1>1, <1>2 DEF ServedBy, Turns

(* The first one advertises, or goes on to.                                *)
LEMMA FirstTurns ==
  ASSUME NEW st, NEW q, NEW kick, Turns(st, q), q # <<>>, NEW s \in Active
  PROVE  ServedBy([st EXCEPT ![q[1]] = s], q, kick)
<1>1. st \in [Links -> States] /\ q \in Seq(Links) /\ Len(q) \in Nat \ {0}
      /\ \A i \in 1 .. Len(q) : q[i] \in Links /\ (i # 1 => q[i] # q[1])
  BY LenProperties, EmptySeq, ElementOfSeq, RangeElements DEF Turns
<1> QED BY <1>1, Disjoint DEF ServedBy, Turns, Queued

(* An advertising link with a place is the first.                          *)
LEMMA ActiveIsFirst ==
  ASSUME NEW st, NEW q, Turns(st, q), NEW l \in Range(q), st[l] \notin Waiting
  PROVE  q # <<>> /\ l = q[1]
<1>1. PICK i \in 1 .. Len(q) : l = q[i]
  BY RangeElements DEF Turns
<1>2. i = 1
  BY <1>1 DEF Turns
<1> QED BY <1>1, <1>2, EmptySeq, LenProperties DEF Turns
-----------------------------------------------------------------------------
(* The queue in what a handler computes; kick says whether a kick is under *)
(* way besides those the handler lists.                                    *)
Kicks(h) == Kick \in Range(h.sched)
Served(h, kick) == ServedBy(h.m.state, h.m.queue, kick \/ Kicks(h))

LEMMA KeepsServes ==
  ASSUME NEW h, NEW g, NEW kick, Keeps(h, g), Served(h, kick) PROVE Served(g, kick)
BY DEF Keeps, Served, Kicks, ServedBy

(* One link's state changes, and the queue.                                *)
LEMMA StateChange ==
  ASSUME NEW h \in Work, NEW l \in Links, NEW s \in States
  PROVE  LET next == [h EXCEPT !.m.state[l] = s]
         IN /\ next \in Work /\ next.sched = h.sched
            /\ next.m.queue = h.m.queue /\ next.m.state = [h.m.state EXCEPT ![l] = s]
BY DEF Work, Modules

LEMMA QueueChange ==
  ASSUME NEW h \in Work, NEW q \in Seq(Links)
  PROVE  LET next == [h EXCEPT !.m.queue = q]
         IN /\ next \in Work /\ next.sched = h.sched
            /\ next.m.queue = q /\ next.m.state = h.m.state
BY DEF Work, Modules

LEMMA WorkTypes ==
  ASSUME NEW h \in Work
  PROVE  /\ h.m.queue \in Seq(Links) /\ h.m.state \in [Links -> States]
         /\ Range(h.sched) \subseteq SchedEvents
BY RangeElements DEF Work, Modules

LEMMA PoppedEffect ==
  ASSUME NEW h \in Work
  PROVE  LET g == Popped(h)
         IN /\ g \in Work /\ g.m.state = h.m.state /\ Range(h.sched) \subseteq Range(g.sched)
            /\ g.m.queue = (IF h.m.queue = <<>> THEN <<>> ELSE Tail(h.m.queue))
            /\ g.m.queue # <<>> => Kicks(g)
<1> DEFINE rest == IF h.m.queue = <<>> THEN <<>> ELSE Tail(h.m.queue)
           next == [h EXCEPT !.m.queue = rest]
<1>1. rest \in Seq(Links)
  BY WorkTypes, HeadTailProperties, EmptySeq
<1> HIDE DEF rest
<1>2. next \in Work /\ next.sched = h.sched /\ next.m.queue = rest /\ next.m.state = h.m.state
  BY <1>1, QueueChange
<1> HIDE DEF next
<1>3. Keeps(next, Listed(next, Kick)) /\ Kicks(Listed(next, Kick))
  BY <1>2, ListedKeeps DEF SchedEvents, Kicks
<1>4. Popped(h) = IF rest = <<>> THEN next ELSE Listed(next, Kick)
  BY DEF Popped, rest, next
<1> QED BY <1>2, <1>3, <1>4 DEF Keeps, rest

LEMMA AddedEffect ==
  ASSUME NEW h \in Work, NEW l \in Links, l \notin Range(h.m.queue)
  PROVE  LET g == Added(h, l)
         IN /\ g \in Work /\ g.m.state = h.m.state /\ Range(h.sched) \subseteq Range(g.sched)
            /\ g.m.queue = Append(h.m.queue, l)
            /\ h.m.queue = <<>> => Kicks(g)
<1> DEFINE more == Append(h.m.queue, l)
           next == [h EXCEPT !.m.queue = more]
<1>1. more \in Seq(Links)
  BY WorkTypes
<1>2. [h EXCEPT !.m.queue = Append(@, l)] = next
  OBVIOUS
<1> HIDE DEF more
<1>3. next \in Work /\ next.sched = h.sched /\ next.m.queue = more /\ next.m.state = h.m.state
  BY <1>1, QueueChange
<1>4. Keeps(next, Listed(next, Kick)) /\ Kicks(Listed(next, Kick))
  BY <1>3, ListedKeeps DEF SchedEvents, Kicks
<1>5. Added(h, l) = IF h.m.queue = <<>> THEN Listed(next, Kick) ELSE next
  BY <1>2 DEF Added
<1> HIDE DEF next
<1> QED BY <1>3, <1>4, <1>5 DEF Keeps, more

LEMMA DroppedEffect ==
  ASSUME NEW h \in Work, NEW kick, Served(h, kick), NEW l \in Links, h.m.state[l] \in Waiting
  PROVE  LET g == Dropped(h, l)
         IN g \in Work /\ Served(g, kick) /\ g.m.state = h.m.state /\ l \notin Range(g.m.queue)
<1> DEFINE p    == RemoveAt(h.m.queue, GetIndex(h.m.queue, l))
           next == [h EXCEPT !.m.queue = p]
<1>1. CASE l \notin Range(h.m.queue)
  BY <1>1 DEF Dropped
<1>2. CASE l \in Range(h.m.queue)
  <2>1. ServedBy(h.m.state, p, kick \/ Kicks(h)) /\ l \notin Range(p)
    BY <1>2, DropTurns DEF Served
  <2>2. Dropped(h, l) = next
    BY <1>2 DEF Dropped
  <2> HIDE DEF p
  <2>3. p \in Seq(Links)
    BY <2>1 DEF ServedBy, Turns
  <2>4. next \in Work /\ next.sched = h.sched /\ next.m.queue = p /\ next.m.state = h.m.state
    BY <2>3, QueueChange
  <2> HIDE DEF next
  <2> QED BY <2>1, <2>2, <2>4 DEF Served, Kicks
<1> QED BY <1>1, <1>2
-----------------------------------------------------------------------------
(* A transition: between its calls to the queue it leaves the queue alone. *)
LEMMA StopsAndStarts ==
  ASSUME NEW h \in Work, NEW r, NEW l \in Links
  PROVE  LET g == Starts(Stops(h, r, l), r, l) IN g \in Work /\ Keeps(h, g)
<1> DEFINE stopped == Stops(h, r, l)
<1>1. Keeps(h, stopped)
  BY StopAdvertisingKeeps, KeepsItself DEF Stops
<1>2. stopped \in Work
  BY <1>1 DEF Keeps
<1> HIDE DEF stopped
<1>3. Keeps(stopped, Starts(stopped, r, l))
  BY <1>2, StartAdvertisingKeeps, KeepsItself DEF Starts
<1>4. Keeps(h, Starts(stopped, r, l))
  BY <1>1, <1>3, KeepsTransitive
<1> QED BY <1>4 DEF Keeps, stopped

(* A transition that neither adds, removes nor pops.                       *)
LEMMA QuietTransition ==
  ASSUME NEW h \in Work, NEW l \in Links, NEW r, r.to \in States, NEW kick,
         r.calls \cap QueueCalls = {},
         ServedBy([h.m.state EXCEPT ![l] = r.to], h.m.queue, kick \/ Kicks(h))
  PROVE  Follows(h, r, l) \in Work /\ Served(Follows(h, r, l), kick)
<1> DEFINE g == Starts(Stops(h, r, l), r, l)
           f == Settles(g, r, l)
<1>1. g \in Work /\ Keeps(h, g)
  BY StopsAndStarts
<1> HIDE DEF g
<1>2. Keeps(g, f)
  BY <1>1, CloseConnectionKeeps, KeepsItself DEF Settles, QueueCalls
<1>3. Keeps(h, f) /\ f \in Work
  BY <1>1, <1>2, KeepsTransitive DEF Keeps
<1>4. Follows(h, r, l) = [f EXCEPT !.m.state[l] = r.to]
  BY DEF Follows, Leaves, QueueCalls, g
<1> HIDE DEF f
<1>5. /\ Follows(h, r, l) \in Work /\ Follows(h, r, l).sched = f.sched
      /\ Follows(h, r, l).m.queue = f.m.queue
      /\ Follows(h, r, l).m.state = [f.m.state EXCEPT ![l] = r.to]
  BY <1>3, <1>4, StateChange
<1> QED BY <1>3, <1>5 DEF Keeps, Served, Kicks, ServedBy

LEMMA AddingTransition ==
  ASSUME NEW h \in Work, NEW l \in Links, NEW r, NEW kick, Served(h, kick),
         Queues(r), r.calls \cap QueueCalls = {"add"}, h.m.state[l] = r.from
  PROVE  Follows(h, r, l) \in Work /\ Served(Follows(h, r, l), kick)
<1> DEFINE g == Starts(Stops(h, r, l), r, l)
           f == Added(g, l)
           st == [h.m.state EXCEPT ![l] = r.to]
           q  == Append(h.m.queue, l)
<1>1. g \in Work /\ Keeps(h, g)
  BY StopsAndStarts
<1> HIDE DEF g
<1>2. l \notin Range(h.m.queue) /\ ServedBy(st, q, kick \/ Kicks(h) \/ h.m.queue = <<>>)
  BY JoinTurns DEF Served, Queues
<1>3. /\ f \in Work /\ f.m.state = h.m.state /\ Range(h.sched) \subseteq Range(f.sched)
      /\ f.m.queue = q /\ (h.m.queue = <<>> => Kicks(f))
  BY <1>1, <1>2, AddedEffect DEF Keeps
<1>4. Follows(h, r, l) = [f EXCEPT !.m.state[l] = r.to]
  BY DEF Follows, Leaves, Settles, QueueCalls, g
<1> HIDE DEF f
<1>5. r.to \in States /\ f \in Work
  BY <1>3, Disjoint DEF Queues
<1>6. /\ Follows(h, r, l) \in Work /\ Follows(h, r, l).sched = f.sched
      /\ Follows(h, r, l).m.queue = f.m.queue
      /\ Follows(h, r, l).m.state = [f.m.state EXCEPT ![l] = r.to]
  BY <1>4, <1>5, StateChange
<1>7. Follows(h, r, l).m.state = st /\ Follows(h, r, l).m.queue = q
  BY <1>3, <1>6
<1> HIDE DEF q, st
<1>8. Kicks(h) \/ h.m.queue = <<>> => Kicks(Follows(h, r, l))
  BY <1>3, <1>6 DEF Kicks
<1>9. ServedBy(st, q, kick \/ Kicks(Follows(h, r, l)))
  BY <1>2, <1>8 DEF ServedBy
<1> QED BY <1>6, <1>7, <1>9 DEF Served

(* A transition that starts by leaving the queue.                          *)
LEMMA LeavingTransition ==
  ASSUME NEW h, NEW l \in Links, NEW r, r.to \in States, NEW kick,
         "add" \notin r.calls, Leaves(h, r, l) \in Work, Served(Leaves(h, r, l), kick),
         l \notin Range(Leaves(h, r, l).m.queue)
  PROVE  Follows(h, r, l) \in Work /\ Served(Follows(h, r, l), kick)
<1> DEFINE e == Leaves(h, r, l)
           g == Starts(Stops(e, r, l), r, l)
           f == Settles(g, r, l)
<1> HIDE DEF e
<1>1. g \in Work /\ Keeps(e, g)
  BY StopsAndStarts DEF e
<1> HIDE DEF g
<1>2. Keeps(g, f)
  BY <1>1, CloseConnectionKeeps, KeepsItself DEF Settles
<1>3. Keeps(e, f) /\ f \in Work
  BY <1>1, <1>2, KeepsTransitive DEF Keeps
<1>4. Follows(h, r, l) = [f EXCEPT !.m.state[l] = r.to]
  BY DEF Follows, e, f, g
<1> HIDE DEF f
<1>5. Served(f, kick) /\ l \notin Range(f.m.queue)
  BY <1>3, KeepsServes DEF Keeps, e
<1>6. /\ Follows(h, r, l) \in Work /\ Follows(h, r, l).sched = f.sched
      /\ Follows(h, r, l).m.queue = f.m.queue
      /\ Follows(h, r, l).m.state = [f.m.state EXCEPT ![l] = r.to]
  BY <1>3, <1>4, StateChange
<1> QED BY <1>5, <1>6, OutsideTurns DEF Served, Kicks

(* Whatever a link's state machine is told, turns stay served: the link    *)
(* that is told it may advertise is the first of the queue.                *)
LEMMA TransitionServes ==
  ASSUME NEW h \in Work, NEW l \in Links, NEW r, NEW kick, Served(h, kick),
         RowKind(r), h.m.state[l] = r.from,
         r.event = "AdvAvail" => h.m.queue # <<>> /\ l = h.m.queue[1]
  PROVE  Follows(h, r, l) \in Work /\ Served(Follows(h, r, l), kick)
<1> USE DEF RowKind
<1>1. CASE Queues(r) /\ r.calls \cap QueueCalls = {"add"}
  BY <1>1, AddingTransition
<1>2. CASE GivesUp(r) /\ r.calls \cap QueueCalls = {"remove"}
  <2>1. Leaves(h, r, l) = Dropped(h, l) /\ "add" \notin r.calls /\ h.m.state[l] \in Waiting
    BY <1>2 DEF Leaves, QueueCalls, GivesUp
  <2> QED BY <2>1, DroppedEffect, LeavingTransition
<1>3. CASE Finishes(r) /\ r.calls \cap QueueCalls = {"pop"}
  <2> DEFINE g == Popped(h)
  <2>1. Leaves(h, r, l) = g /\ "add" \notin r.calls
    BY <1>3 DEF Leaves, QueueCalls
  <2>2. /\ g \in Work /\ g.m.state = h.m.state /\ (g.m.queue # <<>> => Kicks(g))
        /\ g.m.queue = (IF h.m.queue = <<>> THEN <<>> ELSE Tail(h.m.queue))
    BY PoppedEffect
  <2>3. /\ Turns(h.m.state, g.m.queue)
        /\ \A i \in 1 .. Len(g.m.queue) : h.m.state[g.m.queue[i]] \in Waiting
    BY <2>2, PopTurns, EmptySeq DEF Served, ServedBy
  <2>4. h.m.state[l] \notin Waiting
    BY <1>3, Disjoint DEF Finishes
  <2> HIDE DEF g
  <2>5. l \notin Range(g.m.queue)
    BY <2>3, <2>4, RangeElements DEF Turns
  <2>6. Served(g, kick)
    BY <2>2, <2>3 DEF Served, ServedBy
  <2> QED BY <2>1, <2>2, <2>5, <2>6, LeavingTransition
<1>4. CASE (Begins(r) \/ Continues(r) \/ Outside(r)) /\ r.calls \cap QueueCalls = {}
  <2> SUFFICES ServedBy([h.m.state EXCEPT ![l] = r.to], h.m.queue, kick \/ Kicks(h))
    BY <1>4, QuietTransition
  <2>1. CASE l \notin Range(h.m.queue)
    BY <2>1, OutsideTurns DEF Served
  <2>2. CASE l \in Range(h.m.queue)
    <3>1. \A i \in 1 .. Len(h.m.queue) : h.m.state[h.m.queue[i]] \in Queued
      BY DEF Served, ServedBy, Turns, Queued
    <3>2. h.m.state[l] \in Queued
      BY <2>2, <3>1, WorkTypes, RangeElements
    <3>3. r.to \in Active /\ h.m.queue # <<>> /\ l = h.m.queue[1]
      BY <1>4, <2>2, <3>2, ActiveIsFirst, Disjoint
         DEF Begins, Continues, Outside, Served, ServedBy
    <3> QED BY <3>3, FirstTurns DEF Served, ServedBy
  <2> QED BY <2>1, <2>2
<1> QED BY <1>1, <1>2, <1>3, <1>4
-----------------------------------------------------------------------------
(* The handlers, one by one: each leaves turns served.                     *)
Good(h, kick) == h \in Work /\ Served(h, kick)

LEMMA KeepsGood ==
  ASSUME NEW h, NEW g, NEW kick, Good(h, kick), Keeps(h, g) PROVE Good(g, kick)
BY KeepsServes DEF Good, Keeps

LEMMA Configurations ==
  ASSUME use \in Uses, NEW l \in Links PROVE use.conf[l] \in SUBSET Flags
BY BleAssumption DEF Use

LEMMA SendEventGood ==
  ASSUME use \in Uses, NEW h, NEW kick, Good(h, kick), NEW l \in Links \cup {None}, NEW e,
         e = "AdvAvail" => h.m.queue # <<>> /\ l = h.m.queue[1]
  PROVE  Good(SendEvent(h, e, l), kick)
<1>1. CASE ~ Processed(h, e, l)
  BY <1>1 DEF SendEvent
<1>2. CASE Processed(h, e, l)
  <2> DEFINE r == CHOOSE t \in Transitions(h, e, l) : TRUE
  <2>1. l \in Links /\ r \in Transitions(h, e, l)
    BY <1>2 DEF Processed
  <2> HIDE DEF r
  <2>2. r \in Table[use.conf[l]] /\ r.from = h.m.state[l] /\ r.event = e
    BY <2>1 DEF Transitions
  <2>3. RowKind(r)
    BY <2>1, <2>2, Configurations, RowKinds
  <2>4. Good(Follows(h, r, l), kick)
    BY <2>1, <2>2, <2>3, TransitionServes DEF Good
  <2> QED BY <1>2, <2>4 DEF SendEvent, r
<1> QED BY <1>1, <1>2

(* What lookups find.                                                      *)
LEMMA LeastLink ==
  ASSUME NEW S \in SUBSET Links, S # {}
  PROVE  (CHOOSE l \in S : \A k \in S : l <= k) \in Links
<1>1. \E l \in S : \A k \in S : l <= k
  BY LeastElement DEF Links
<1> QED BY <1>1

LEMMA Lookups ==
  ASSUME NEW h \in Work
  PROVE  /\ GetAdvertisingLinkId(h) \in Links \cup {None}
         /\ \A p : FindByAddr(h, p) \in Links \cup {None}
         /\ \A c \in Conns : h.m.dbHdl[c] \in Links \cup {None}
         /\ \A c \in Conns : GetLinkIdByConnId(h, c) \in Links \cup {None}
         /\ h.m.lastNew \in Links \cup {None}
<1>1. GetAdvertisingLinkId(h) \in Links \cup {None}
  BY LeastLink DEF GetAdvertisingLinkId
<1>2. ASSUME NEW p PROVE FindByAddr(h, p) \in Links \cup {None}
  BY LeastLink DEF FindByAddr
<1>3. /\ \A c \in Conns : h.m.dbHdl[c] \in Links \cup {None}
      /\ h.m.lastNew \in Links \cup {None}
  BY DEF Work, Modules
<1>4. ASSUME NEW c \in Conns PROVE GetLinkIdByConnId(h, c) \in Links \cup {None}
  BY <1>3, LeastLink DEF GetLinkIdByConnId
<1> QED BY <1>1, <1>2, <1>3, <1>4

(* Fields that the turns do not depend on.                                 *)
LEMMA FieldsKeep ==
  ASSUME NEW h \in Work
  PROVE  /\ \A l \in Links \cup {None} : Keeps(h, [h EXCEPT !.m.lastNew = l])
         /\ \A l \in Links, c \in Conns \cup {None} : Keeps(h, [h EXCEPT !.m.connId[l] = c])
         /\ \A c \in Conns : Keeps(h, [h EXCEPT !.m.pairing = @ \cup {c}])
         /\ \A c \in Conns : Keeps(h, [h EXCEPT !.m.advDirected = FALSE, !.m.known = @ \ {c}])
         /\ Keeps(h, [h EXCEPT !.m.advRuns = FALSE])
<1>1. ASSUME NEW l \in Links \cup {None} PROVE Keeps(h, [h EXCEPT !.m.lastNew = l])
  BY DEF Work, Modules, Keeps
<1>2. ASSUME NEW l \in Links, NEW c \in Conns \cup {None} PROVE Keeps(h, [h EXCEPT !.m.connId[l] = c])
  BY DEF Work, Modules, Keeps
<1>3. ASSUME NEW c \in Conns PROVE Keeps(h, [h EXCEPT !.m.pairing = @ \cup {c}])
  BY DEF Work, Modules, Keeps
<1>4. ASSUME NEW c \in Conns PROVE Keeps(h, [h EXCEPT !.m.advDirected = FALSE, !.m.known = @ \ {c}])
  BY DEF Work, Modules, Keeps
<1>5. Keeps(h, [h EXCEPT !.m.advRuns = FALSE])
  BY DEF Work, Modules, Keeps
<1> QED BY <1>1, <1>2, <1>3, <1>4, <1>5

LEMMA ConnFailedGood ==
  ASSUME use \in Uses, NEW h, NEW kick, Good(h, kick), NEW l \in Links \cup {None}
  PROVE  Good(ConnFailed(h, l), kick)
<1>1. CASE l = None
  BY <1>1 DEF ConnFailed
<1>2. CASE l # None
  <2>1. Good([h EXCEPT !.m.connId[l] = None], kick)
    BY <1>2, FieldsKeep, KeepsGood DEF Good
  <2> QED BY <1>2, <2>1, SendEventGood DEF ConnFailed
<1> QED BY <1>1, <1>2

LEMMA AdvStopIndGood ==
  ASSUME use \in Uses, NEW h, NEW kick, Good(h, kick) PROVE Good(AdvStopInd(h), kick)
<1>1. Good([h EXCEPT !.m.advRuns = FALSE], kick)
  BY FieldsKeep, KeepsGood DEF Good
<1>2. GetAdvertisingLinkId(h) \in Links \cup {None}
  BY Lookups DEF Good
<1> QED BY <1>1, <1>2, ConnFailedGood DEF AdvStopInd

LEMMA LinkClosedGood ==
  ASSUME use \in Uses, NEW h, NEW kick, Good(h, kick), NEW l \in Links \cup {None}
  PROVE  Good(LinkClosed(h, l), kick)
<1>1. CASE l = None
  BY <1>1 DEF LinkClosed
<1>2. CASE l # None
  <2> DEFINE new == IF h.m.lastNew = l THEN None ELSE h.m.lastNew
             f == [h EXCEPT !.m.connId[l] = None]
             g == [f EXCEPT !.m.lastNew = new]
  <2>1. new \in Links \cup {None}
    BY Lookups DEF Good
  <2> HIDE DEF new
  <2>2. Good(f, kick) /\ f \in Work
    BY <1>2, FieldsKeep, KeepsGood DEF Good
  <2>3. [h EXCEPT !.m.connId[l] = None, !.m.lastNew = new] = g
    BY DEF Good, Work, Modules
  <2> HIDE DEF f
  <2>4. Good(g, kick)
    BY <2>1, <2>2, FieldsKeep, KeepsGood
  <2>5. LinkClosed(h, l) = SendEvent(g, "ConnCloseExt", l)
    BY <1>2, <2>3 DEF LinkClosed, new
  <2> HIDE DEF g
  <2> QED BY <2>4, <2>5, SendEventGood
<1> QED BY <1>1, <1>2

LEMMA ConnCloseIndGood ==
  ASSUME use \in Uses, NEW h, NEW kick, Good(h, kick), NEW c \in Conns
  PROVE  Good(ConnCloseInd(h, c), kick)
<1> DEFINE f == [h EXCEPT !.m.advDirected = FALSE, !.m.known = @ \ {c}]
           g == CheckValidRecord(f, h.m.dbHdl[c])
<1>1. Good(f, kick) /\ f \in Work /\ h.m.dbHdl[c] \in Links \cup {None}
  BY FieldsKeep, KeepsGood, Lookups DEF Good
<1> HIDE DEF f
<1>2. Good(g, kick)
  BY <1>1, CheckValidKeeps, KeepsGood
<1> HIDE DEF g
<1>3. GetLinkIdByConnId(g, c) \in Links \cup {None}
  BY <1>2, Lookups DEF Good
<1>4. Good(LinkClosed(g, GetLinkIdByConnId(g, c)), kick)
  BY <1>2, <1>3, LinkClosedGood
<1> QED BY <1>4 DEF ConnCloseInd, ConnectionGone, f, g

LEMMA NewDeviceGood ==
  ASSUME use \in Uses, NEW h, NEW kick, Good(h, kick), NEW c \in Conns, NEW adv \in Links
  PROVE  Good(NewDevice(h, c, adv), kick)
<1> DEFINE f == SendEvent(h, "ConnOpenNew", adv)
           g == [f EXCEPT !.m.lastNew = adv]
           i == [g EXCEPT !.m.connId[adv] = c]
           j == SendEvent(h, "ConnFail", adv)
           k == [j EXCEPT !.m.lastNew = None]
<1>1. Good(f, kick) /\ Good(j, kick)
  BY SendEventGood
<1> HIDE DEF f, j
<1>2. Good(g, kick) /\ Good(k, kick)
  BY <1>1, FieldsKeep, KeepsGood DEF Good
<1>3. [f EXCEPT !.m.lastNew = adv, !.m.connId[adv] = c] = i
  BY <1>1 DEF Good, Work, Modules
<1> HIDE DEF g
<1>4. Good(i, kick)
  BY <1>2, FieldsKeep, KeepsGood DEF Good
<1>5. NewDevice(h, c, adv) = IF Processed(h, "ConnOpenNew", adv) THEN i ELSE k
  BY <1>3 DEF NewDevice, f, j
<1> QED BY <1>2, <1>4, <1>5

LEMMA ConnOpenedGood ==
  ASSUME use \in Uses, NEW h, NEW kick, Good(h, kick), NEW c \in Conns, NEW l \in Links \cup {None}
  PROVE  Good(ConnOpened(h, c, l), kick)
<1>1. CASE Processed(h, "ConnOpen", l)
  <2> DEFINE f == SendEvent(h, "ConnOpen", l)
             g == [f EXCEPT !.m.connId[l] = c]
             i == [g EXCEPT !.m.lastNew = None]
  <2>1. Good(f, kick) /\ f \in Work /\ l \in Links
    BY <1>1, SendEventGood DEF Good, Processed
  <2> HIDE DEF f
  <2>2. Good(g, kick)
    BY <2>1, FieldsKeep, KeepsGood
  <2>3. [f EXCEPT !.m.connId[l] = c, !.m.lastNew = None] = i
    BY <2>1 DEF Work, Modules
  <2> HIDE DEF g
  <2>4. Good(i, kick)
    BY <2>2, FieldsKeep, KeepsGood DEF Good
  <2> QED BY <1>1, <2>3, <2>4 DEF ConnOpened, f
<1>2. CASE ~ Processed(h, "ConnOpen", l)
  <2> DEFINE f == ConnClosed(h, c)
  <2>1. Good(f, kick)
    BY ConnClosedKeeps, KeepsGood DEF Good
  <2> HIDE DEF f
  <2>2. Good([f EXCEPT !.m.lastNew = None], kick)
    BY <2>1, FieldsKeep, KeepsGood DEF Good
  <2> QED BY <1>2, <2>2 DEF ConnOpened, f
<1> QED BY <1>1, <1>2

LEMMA KnownDeviceGood ==
  ASSUME use \in Uses, NEW h, NEW kick, Good(h, kick), NEW c \in Conns, NEW adv \in Links
  PROVE  Good(KnownDevice(h, c, adv), kick)
<1> DEFINE f == IF h.m.dbHdl[c] # adv THEN SendEvent(h, "ConnFail", adv) ELSE h
<1>1. Good(f, kick)
  BY SendEventGood
<1>2. GetLinkIdByConnId(h, c) \in Links \cup {None}
  BY Lookups DEF Good
<1> HIDE DEF f
<1>3. Good(ConnOpened(f, c, GetLinkIdByConnId(h, c)), kick)
  BY <1>1, <1>2, ConnOpenedGood
<1> QED BY <1>3 DEF KnownDevice, f

LEMMA ConnOpenIndGood ==
  ASSUME use \in Uses, NEW h, NEW kick, Good(h, kick), NEW c \in Conns, NEW p
  PROVE  Good(ConnOpenInd(h, c, p), kick)
<1> DEFINE runs == h.m.advRuns /\ h.m.advDirected
           hdl  == FindByAddr(h, p)
           adv  == GetAdvertisingLinkId(h)
           f == [h EXCEPT !.m.advRuns = runs, !.m.advDirected = FALSE,
                          !.m.known = @ \cup {c}, !.m.dbHdl[c] = hdl]
<1>1. hdl \in Links \cup {None} /\ adv \in Links \cup {None} /\ runs \in BOOLEAN
  BY Lookups DEF Good
<1>2. f = [h EXCEPT !.m.advRuns = @ /\ h.m.advDirected, !.m.advDirected = FALSE,
                    !.m.known = @ \cup {c}, !.m.dbHdl[c] = FindByAddr(h, p)]
  OBVIOUS
<1> HIDE DEF runs, hdl, adv
<1>3. Keeps(h, f)
  BY <1>1 DEF Good, Work, Modules, Keeps
<1>4. Good(f, kick)
  BY <1>3, KeepsGood
<1>5. ConnOpenInd(h, c, p) = cbConnOpen(f, c, adv)
  BY <1>2 DEF ConnOpenInd, adv
<1> HIDE DEF f
<1>6. CASE adv = None
  <2>1. Good(ConnClosed(f, c), kick)
    BY <1>4, ConnClosedKeeps, KeepsGood DEF Good
  <2> QED BY <1>5, <1>6, <2>1 DEF cbConnOpen
<1>7. CASE adv # None
  BY <1>1, <1>4, <1>5, <1>7, NewDeviceGood, KnownDeviceGood DEF cbConnOpen
<1> QED BY <1>6, <1>7

LEMMA PairIndGood ==
  ASSUME NEW h, NEW kick, Good(h, kick), NEW c \in Conns, NEW p \in Peers
  PROVE  Good(PairInd(h, c, p), kick)
<1> DEFINE l  == h.m.lastNew
           on == IF h.m.ccb[c].state = "open" THEN [h EXCEPT !.m.pairing = @ \cup {c}] ELSE h
           i  == [event |-> "PairFail", conn |-> c]
           r  == [peer |-> p, valid |-> FALSE]
           f  == [on EXCEPT !.m.dbHdl[c] = l]
           g  == [f EXCEPT !.m.rec[l] = r]
<1>1. Good(Sent(h, i), kick)
  BY SentKeeps, KeepsGood DEF Good, Inds
<1>2. Good(on, kick) /\ on \in Work
  BY FieldsKeep, KeepsGood DEF Good
<1> HIDE DEF on
<1>3. ASSUME l \in Links
      PROVE  Good([on EXCEPT !.m.dbHdl[c] = l, !.m.rec[l] = r], kick)
  <2>1. Keeps(on, f)
    BY <1>2, <1>3 DEF Work, Modules, Keeps
  <2>2. Good(f, kick)
    BY <1>2, <2>1, KeepsGood
  <2>3. [on EXCEPT !.m.dbHdl[c] = l, !.m.rec[l] = r] = g
    BY <1>2 DEF Work, Modules
  <2>4. r \in Record
    BY DEF Record
  <2> HIDE DEF f, r
  <2>5. Good(g, kick)
    BY <1>3, <2>2, <2>4, RecordKeeps, KeepsGood DEF Good
  <2> QED BY <2>3, <2>5
<1>4. l \in Links \cup {None}
  BY Lookups DEF Good
<1> QED BY <1>1, <1>2, <1>3, <1>4 DEF PairInd, on

LEMMA PairCmplIndGood ==
  ASSUME use \in Uses, NEW h, NEW kick, Good(h, kick), NEW c \in Conns
  PROVE  Good(PairCmplInd(h, c), kick)
<1> DEFINE f == Validated(h, h.m.dbHdl[c])
           g == SendEvent(f, "PairComplete", GetLinkIdByConnId(f, c))
<1>1. Good(f, kick)
  <2>1. CASE h.m.dbHdl[c] = None
    BY <2>1 DEF Validated
  <2>2. CASE h.m.dbHdl[c] # None
    <3> DEFINE l == h.m.dbHdl[c]
               good == [h.m.rec[l] EXCEPT !.valid = TRUE]
    <3>1. l \in Links /\ h \in Work
      BY <2>2, Lookups DEF Good
    <3> HIDE DEF l
    <3>2. good \in Record
      BY <3>1, Elements DEF Record
    <3>3. [h EXCEPT !.m.rec[l].valid = TRUE] = [h EXCEPT !.m.rec[l] = good]
      OBVIOUS
    <3> HIDE DEF good
    <3>4. Good([h EXCEPT !.m.rec[l] = good], kick)
      BY <3>1, <3>2, RecordKeeps, KeepsGood
    <3> QED BY <2>2, <3>3, <3>4 DEF Validated, l
  <2> QED BY <2>1, <2>2
<1> HIDE DEF f
<1>2. GetLinkIdByConnId(f, c) \in Links \cup {None}
  BY <1>1, Lookups DEF Good
<1>3. Good(g, kick)
  BY <1>1, <1>2, SendEventGood
<1> HIDE DEF g
<1>4. Good([g EXCEPT !.m.lastNew = None], kick)
  BY <1>3, FieldsKeep, KeepsGood DEF Good
<1> QED BY <1>4 DEF PairCmplInd, PairComplete, f, g

LEMMA PairFailIndGood ==
  ASSUME use \in Uses, NEW h, NEW kick, Good(h, kick), NEW c \in Conns
  PROVE  Good(PairFailInd(h, c), kick)
<1> DEFINE g == SendEvent(h, "PairFail", GetLinkIdByConnId(h, c))
<1>1. Good(g, kick)
  BY Lookups, SendEventGood DEF Good
<1> HIDE DEF g
<1>2. Good([g EXCEPT !.m.lastNew = None], kick)
  BY <1>1, FieldsKeep, KeepsGood DEF Good
<1> QED BY <1>2 DEF PairFailInd, g

LEMMA HandleGood ==
  ASSUME use \in Uses, NEW h, NEW kick, Good(h, kick), NEW i \in Inds, i.event # "ResetCmpl"
  PROVE  Good(Handle(h, i), kick)
<1>1. CASE i.event = "AdvStop"
  BY <1>1, AdvStopIndGood DEF Handle
<1>2. CASE i.event = "ConnClose"
  BY <1>2, ConnCloseIndGood DEF Handle, Inds
<1>3. CASE i.event = "ConnOpen"
  BY <1>3, ConnOpenIndGood DEF Handle, Inds
<1>4. CASE i.event = "PairInd"
  BY <1>4, PairIndGood DEF Handle, Inds
<1>5. CASE i.event = "PairCmpl"
  BY <1>5, PairCmplIndGood DEF Handle, Inds
<1>6. CASE i.event = "PairFail"
  BY <1>6, PairFailIndGood DEF Handle, Inds
<1>7. CASE i.event \in {"Encrypt", "EncryptFail"}
  <2>1. i.conn \in Conns
    BY <1>7 DEF Inds
  <2>2. GetLinkIdByConnId(h, i.conn) \in Links \cup {None}
    BY <2>1, Lookups DEF Good
  <2>3. \A e \in {"SecurityEstablished", "SecurityFail"} :
          Good(SendEvent(h, e, GetLinkIdByConnId(h, i.conn)), kick)
    BY <2>2, SendEventGood
  <2>4. CASE i.event = "Encrypt"
    BY <2>3, <2>4 DEF Handle
  <2>5. CASE i.event = "EncryptFail"
    BY <2>3, <2>5 DEF Handle
  <2> QED BY <1>7, <2>4, <2>5
<1> QED BY <1>1, <1>2, <1>3, <1>4, <1>5, <1>6, <1>7 DEF Inds

LEMMA PoppedGood ==
  ASSUME NEW h, NEW kick, Good(h, kick) PROVE Good(Popped(h), kick)
<1> DEFINE g == Popped(h)
<1>1. /\ g \in Work /\ g.m.state = h.m.state /\ (g.m.queue # <<>> => Kicks(g))
      /\ g.m.queue = (IF h.m.queue = <<>> THEN <<>> ELSE Tail(h.m.queue))
  BY PoppedEffect DEF Good
<1> HIDE DEF g
<1>2. Turns(h.m.state, g.m.queue)
  BY <1>1, PopTurns DEF Good, Served, ServedBy
<1>3. Good(g, kick)
  BY <1>1, <1>2 DEF Good, Served, ServedBy
<1> QED BY <1>3 DEF g

(* A kick does what it was listed for: no other is needed.                 *)
LEMMA KickedGood ==
  ASSUME use \in Uses, NEW h \in Work, Turns(h.m.state, h.m.queue)
  PROVE  Good(Kicked(h), FALSE)
<1> DEFINE q == h.m.queue
           l == Head(q)
<1>1. CASE q = <<>>
  BY <1>1 DEF Kicked, Good, Served, ServedBy
<1>2. CASE q # <<>>
  <2>1. l = q[1] /\ l \in Links /\ l \in Range(q) /\ l # None /\ 1 \in 1 .. Len(q)
        /\ \A i \in 1 .. Len(q) : i # 1 => q[i] # l
    BY <1>2, BleAssumption, WorkTypes, HeadTailProperties, EmptySeq, LenProperties, RangeElements
       DEF Turns
  <2>2. CASE h.m.state[l] \in Waiting
    <3> DEFINE r == CHOOSE t \in Transitions(h, "AdvAvail", l) : TRUE
    <3>1. Transitions(h, "AdvAvail", l) # {}
      BY <2>1, <2>2, Configurations, WaitingIsServed DEF Transitions
    <3>2. r \in Transitions(h, "AdvAvail", l)
      BY <3>1
    <3>3. Kicked(h) = Follows(h, r, l)
      BY <1>2, <2>1, <3>1 DEF Kicked, SendEvent, Processed
    <3> HIDE DEF r
    <3>4. r \in Table[use.conf[l]] /\ r.from = h.m.state[l] /\ r.event = "AdvAvail"
      BY <3>2 DEF Transitions
    <3>5. RowKind(r)
      BY <2>1, <3>4, Configurations, RowKinds
    <3>6. r.calls \cap QueueCalls = {} /\ r.to \in Active
      BY <2>2, <3>4, <3>5, WaitingBegins, Configurations, <2>1
    <3>7. ServedBy([h.m.state EXCEPT ![l] = r.to], q, FALSE \/ Kicks(h))
      BY <1>2, <2>1, <3>6, FirstTurns
    <3>8. r.to \in States
      BY <3>5 DEF RowKind
    <3> HIDE DEF q, l
    <3>9. Good(Follows(h, r, l), FALSE)
      BY <2>1, <3>6, <3>7, <3>8, QuietTransition DEF Good, q
    <3> QED BY <3>3, <3>9
  <2>3. CASE h.m.state[l] \notin Waiting
    <3>1. Served(h, FALSE)
      BY <2>1, <2>3 DEF Served, ServedBy
    <3>2. Good(SendEvent(h, "AdvAvail", l), FALSE)
      BY <1>2, <2>1, <3>1, SendEventGood DEF Good
    <3>3. Good(Listed(h, Pop), FALSE)
      BY <3>1, ListedKeeps, KeepsGood DEF Good, SchedEvents
    <3> QED BY <1>2, <3>2, <3>3 DEF Kicked
  <2> QED BY <2>2, <2>3
<1> QED BY <1>1, <1>2

LEMMA ResetCmplGood ==
  ASSUME NEW h \in Work, NEW q \in InOrder(Reconnects(h)), NEW kick
  PROVE  Good(ResetCmpl(h, q), kick)
<1> DEFINE S  == Reconnects(h)
           st == [l \in Links |-> ResetState(h, q, l)]
           f  == [h EXCEPT !.m.queue = q]
           g  == [f EXCEPT !.m.state = st]
<1>1. S \subseteq Links /\ IsFiniteSet(S)
  BY FS_Interval, FS_Subset, BleAssumption DEF Reconnects, Links
<1>2. q \in [1 .. Cardinality(S) -> S] /\ IsInjective(q)
  BY DEF InOrder, SetToSeqs, IsInjective
<1> HIDE DEF S
<1>3. q \in Seq(S) /\ Range(q) = S
  BY <1>1, <1>2, InjectiveEnumeration
<1>4. q \in Seq(Links) /\ Len(q) \in Nat /\ \A i \in 1 .. Len(q) : q[i] \in Links /\ q[i] \in Range(q)
  BY <1>1, <1>3, LenProperties, ElementOfSeq, RangeElements
<1>5. st \in [Links -> States] /\ \A l \in Range(q) : st[l] \in Waiting
  BY <1>1, <1>3 DEF ResetState, States, Waiting
<1>6. Turns(st, q)
  BY <1>2, <1>4, <1>5 DEF Turns, Queued
<1> HIDE DEF st
<1>7. f \in Work
  BY <1>4, QueueChange
<1>8. g \in Work /\ g.m.state = st /\ g.m.queue = q
  BY <1>4, <1>5, <1>7 DEF Work, Modules
<1>9. [h EXCEPT !.m.queue = q, !.m.state = st] = g
  BY DEF Work, Modules
<1> HIDE DEF g
<1>10. Keeps(g, Listed(g, Kick)) /\ Kicks(Listed(g, Kick))
  BY <1>8, ListedKeeps DEF SchedEvents, Kicks
<1>11. ResetCmpl(h, q) = IF q = <<>> THEN g ELSE Listed(g, Kick)
  BY <1>9 DEF ResetCmpl, st
<1> QED BY <1>6, <1>8, <1>10, <1>11 DEF Good, Served, ServedBy, Keeps

LEMMA MarkGood ==
  ASSUME use \in Uses, NEW h, NEW kick, Good(h, kick), NEW l \in Links
  PROVE  Good(SendEvent([h EXCEPT !.m.connId[l] = None], "ConnCloseExt", l), kick)
<1> DEFINE f == [h EXCEPT !.m.connId[l] = None]
<1>1. Good(f, kick)
  BY FieldsKeep, KeepsGood DEF Good
<1> HIDE DEF f
<1>2. Good(SendEvent(f, "ConnCloseExt", l), kick)
  BY <1>1, SendEventGood
<1> QED BY <1>2 DEF f

LEMMA RequestGood ==
  ASSUME use \in Uses, NEW h, NEW kick, Good(h, kick), NEW l \in Links, NEW e \in AppEvents
  PROVE  Good(Request(h, e, l), kick)
<1> DEFINE f == SendEvent(h, e, l)
           gone == [f.m.rec[l] EXCEPT !.peer = None]
           g == [f EXCEPT !.m.rec[l].peer = None]
<1>1. Good(f, kick) /\ f \in Work
  BY SendEventGood DEF AppEvents, Good
<1> HIDE DEF f
<1>2. gone \in Record
  BY <1>1, Elements DEF Record
<1>3. g = [f EXCEPT !.m.rec[l] = gone]
  OBVIOUS
<1> HIDE DEF gone, g
<1>4. Good(g, kick)
  BY <1>1, <1>2, <1>3, RecordKeeps, KeepsGood
<1> QED BY <1>1, <1>4 DEF Request, f, g
-----------------------------------------------------------------------------
(* The inductive invariant: the types, and that the queue is served.       *)
TurnInv == Typed /\ ServedBy(m.state, m.queue, Kick \in Range(sched))

LEMMA RangeOfHeadAndTail ==
  ASSUME NEW S, NEW s \in Seq(S), s # <<>>
  PROVE  /\ Head(s) \in S /\ Tail(s) \in Seq(S)
         /\ Range(s) \subseteq {Head(s)} \cup Range(Tail(s))
<1>1. /\ Len(s) \in Nat \ {0} /\ Tail(s) \in Seq(S) /\ Len(Tail(s)) = Len(s) - 1
      /\ Head(s) = s[1] /\ Head(s) \in S
      /\ \A i \in 1 .. Len(Tail(s)) : Tail(s)[i] = s[i + 1]
  BY HeadTailProperties, EmptySeq, LenProperties
<1>2. ASSUME NEW x \in Range(s), x # s[1] PROVE x \in Range(Tail(s))
  <2>1. PICK i \in 1 .. Len(s) : x = s[i]
    BY <1>2, RangeElements
  <2>2. i - 1 \in 1 .. Len(Tail(s)) /\ i - 1 + 1 = i
    BY <1>1, <1>2, <2>1
  <2>3. Tail(s)[i - 1] = x
    BY <1>1, <2>1, <2>2
  <2> DEFINE t == Tail(s)
  <2> HIDE DEF t
  <2>4. t \in Seq(S)
    BY <1>1 DEF t
  <2>5. Range(t) = {t[j] : j \in 1 .. Len(t)}
    BY <2>4, RangeElements
  <2> QED BY <2>2, <2>3, <2>5 DEF t
<1> QED BY <1>1, <1>2

LEMMA HereIsWork ==
  ASSUME TurnInv
  PROVE  /\ Here \in Work /\ Here.m = m /\ Here.sched = <<>> /\ Here.inds = <<>>
         /\ Turns(m.state, m.queue) /\ use \in Uses
         /\ Good(Here, Kick \in Range(sched))
<1>1. Here \in Work /\ Here.m = m /\ Here.sched = <<>> /\ Here.inds = <<>> /\ use \in Uses
  BY EmptySeq DEF TurnInv, Typed, Here, Work
<1>2. Turns(m.state, m.queue)
  BY DEF TurnInv, ServedBy
<1> HIDE DEF Here
<1>3. Served(Here, Kick \in Range(sched))
  BY <1>1 DEF TurnInv, Served, ServedBy
<1> QED BY <1>1, <1>2, <1>3 DEF Good

(* What a step makes of a handler's work.                                  *)
LEMMA StepKeepsTurns ==
  ASSUME use \in Uses, NEW h, NEW rest \in Seq(SchedEvents), NEW more \in Seq(Inds),
         Good(h, Kick \in Range(rest)),
         use' = use, m' = h.m, sched' = rest \o h.sched, inds' = more \o h.inds
  PROVE  TurnInv'
<1>1. h.m \in Modules /\ h.sched \in Seq(SchedEvents) /\ h.inds \in Seq(Inds)
  BY DEF Good, Work
<1>2. /\ rest \o h.sched \in Seq(SchedEvents) /\ more \o h.inds \in Seq(Inds)
      /\ Range(rest \o h.sched) = Range(rest) \cup Range(h.sched)
  BY <1>1, ConcatRange
<1>3. Typed'
  BY <1>1, <1>2 DEF Typed
<1>4. ServedBy(h.m.state, h.m.queue, Kick \in Range(rest \o h.sched))
  BY <1>2 DEF Good, Served, Kicks, ServedBy
<1> QED BY <1>3, <1>4 DEF TurnInv

LEMMA KeepingStep ==
  ASSUME TurnInv, NEW h, Keeps(Here, h), Becomes(h), use' = use PROVE TurnInv'
<1>1. sched \in Seq(SchedEvents) /\ inds \in Seq(Inds)
  BY DEF TurnInv, Typed
<1>2. Good(h, Kick \in Range(sched))
  BY HereIsWork, KeepsGood
<1> QED BY <1>1, <1>2, HereIsWork, StepKeepsTurns DEF Becomes

LEMMA RunEventStep ==
  ASSUME TurnInv, RunEvent PROVE TurnInv'
<1> DEFINE e == Head(sched)
           rest == Tail(sched)
           h == Run(Here, e)
<1>1. e \in SchedEvents /\ rest \in Seq(SchedEvents) /\ inds \in Seq(Inds)
      /\ (Kick \in Range(sched) => e = Kick \/ Kick \in Range(rest))
  BY RangeOfHeadAndTail DEF RunEvent, TurnInv, Typed
<1>2. m' = h.m /\ sched' = rest \o h.sched /\ inds' = inds \o h.inds /\ use' = use
  BY DEF RunEvent, Ran
<1> HIDE DEF rest, e
<1>3. CASE e = Kick
  <2>1. h = Kicked(Here)
    BY <1>3 DEF Run
  <2>2. Good(Kicked(Here), FALSE)
    BY HereIsWork, KickedGood
  <2>3. Good(h, Kick \in Range(rest))
    BY <2>1, <2>2 DEF Good, Served, ServedBy
  <2> HIDE DEF h
  <2> QED BY <1>1, <1>2, <2>3, HereIsWork, StepKeepsTurns
<1>4. CASE e # Kick
  <2>1. Good(Here, Kick \in Range(rest))
    <3>1. Good(Here, Kick \in Range(sched))
      BY HereIsWork
    <3> QED BY <1>1, <1>4, <3>1 DEF Good, Served, ServedBy
  <2>2. CASE e = Pop
    <3>1. h = Popped(Here)
      BY <1>4, <2>2 DEF Run
    <3>2. Good(h, Kick \in Range(rest))
      BY <2>1, <3>1, PoppedGood
    <3> HIDE DEF h
    <3> QED BY <1>1, <1>2, <3>2, HereIsWork, StepKeepsTurns
  <2>3. CASE e # Pop
    <3>1. e.event = "MarkDirectAdvertiseAsInvalid" /\ e.link \in Links
      BY <1>1, <1>4, <2>3 DEF SchedEvents
    <3>2. h = SendEvent([Here EXCEPT !.m.connId[e.link] = None], "ConnCloseExt", e.link)
      BY <1>4, <2>3, <3>1 DEF Run
    <3>3. Good(h, Kick \in Range(rest))
      BY <2>1, <3>1, <3>2, HereIsWork, MarkGood
    <3> HIDE DEF h
    <3> QED BY <1>1, <1>2, <3>3, HereIsWork, StepKeepsTurns
  <2> QED BY <2>2, <2>3
<1> QED BY <1>3, <1>4

LEMMA HandleIndStep ==
  ASSUME TurnInv, HandleInd PROVE TurnInv'
<1>1. /\ Head(inds) \in Inds /\ Tail(inds) \in Seq(Inds) /\ sched \in Seq(SchedEvents)
      /\ use' = use
  BY RangeOfHeadAndTail DEF HandleInd, TurnInv, Typed
<1>2. \E h : Good(h, Kick \in Range(sched)) /\ Handled(h)
  <2>1. CASE Head(inds).event = "ResetCmpl"
    <3>1. PICK q \in InOrder(Reconnects(Here)) : Handled(ResetCmpl(Here, q))
      BY <2>1 DEF HandleInd
    <3>2. Good(ResetCmpl(Here, q), Kick \in Range(sched))
      BY HereIsWork, ResetCmplGood
    <3> QED BY <3>1, <3>2
  <2>2. CASE Head(inds).event # "ResetCmpl"
    <3>1. Good(Handle(Here, Head(inds)), Kick \in Range(sched))
      BY <1>1, <2>2, HereIsWork, HandleGood
    <3>2. Handled(Handle(Here, Head(inds)))
      BY <2>2 DEF HandleInd
    <3> QED BY <3>1, <3>2
  <2> QED BY <2>1, <2>2
<1>3. PICK h : Good(h, Kick \in Range(sched)) /\ Handled(h)
  BY <1>2
<1> QED BY <1>1, <1>3, HereIsWork, StepKeepsTurns DEF Handled

LEMMA AppRequestStep ==
  ASSUME TurnInv, NEW e \in AppEvents, NEW l \in Links, AppRequest(e, l) PROVE TurnInv'
<1> DEFINE h == Request(Here, e, l)
<1>1. Becomes(h) /\ use' = use /\ sched \in Seq(SchedEvents) /\ inds \in Seq(Inds)
  BY DEF AppRequest, TurnInv, Typed
<1>2. Good(h, Kick \in Range(sched))
  BY HereIsWork, RequestGood
<1> HIDE DEF h
<1> QED BY <1>1, <1>2, HereIsWork, StepKeepsTurns DEF Becomes
-----------------------------------------------------------------------------
(* What the controller and the devices do leaves the links alone.          *)
LEMMA GoneStep ==
  ASSUME TurnInv, NEW c \in Conns, NEW f, Keeps(Here, f), use' = use,
         Becomes(Sent(f, [event |-> "ConnClose", conn |-> c]))
  PROVE  TurnInv'
<1>1. [event |-> "ConnClose", conn |-> c] \in Inds /\ f \in Work
  BY DEF Inds, Keeps
<1>2. Keeps(Here, Sent(f, [event |-> "ConnClose", conn |-> c]))
  BY <1>1, SentKeeps, KeepsTransitive
<1> QED BY <1>2, KeepingStep

LEMMA AdvertisingChanges ==
  ASSUME NEW h \in Work,
         NEW a \in {"idle", "starting", "advertising", "stopping", "directed", "cancelling"}
  PROVE  Keeps(h, [h EXCEPT !.m.adv = a])
BY DEF Work, Modules, Keeps

LEMMA AdvEnabledStep ==
  ASSUME TurnInv, AdvEnabled PROVE TurnInv'
<1> DEFINE f == [Here EXCEPT !.m.adv = "advertising"]
<1>1. Keeps(Here, f)
  BY HereIsWork, AdvertisingChanges
<1>2. Becomes(f) /\ use' = use
  BY DEF AdvEnabled, Reports
<1> QED BY <1>1, <1>2, KeepingStep

LEMMA AdvTimeoutStep ==
  ASSUME TurnInv, AdvTimeout PROVE TurnInv'
<1> DEFINE f == [Here EXCEPT !.m.adv = "stopping"]
<1>1. Keeps(Here, f)
  BY HereIsWork, AdvertisingChanges
<1>2. Becomes(f) /\ use' = use
  BY DEF AdvTimeout, Reports
<1> QED BY <1>1, <1>2, KeepingStep

LEMMA AdvDisabledStep ==
  ASSUME TurnInv, AdvDisabled PROVE TurnInv'
<1> DEFINE f == [Here EXCEPT !.m.adv = "idle"]
           i == [event |-> "AdvStop", conn |-> None]
<1>1. Keeps(Here, f) /\ f \in Work
  BY HereIsWork, AdvertisingChanges DEF Keeps
<1>2. Keeps(Here, Sent(f, i))
  BY <1>1, SentKeeps, KeepsTransitive DEF Inds
<1>3. (Becomes(f) \/ Becomes(Sent(f, i))) /\ use' = use
  BY DEF AdvDisabled, Reports
<1> QED BY <1>1, <1>2, <1>3, KeepingStep

LEMMA EndsStep ==
  ASSUME TurnInv, NEW c \in Conns, DirectedTimeout(c) \/ Disconnected(c) PROVE TurnInv'
<1>1. CASE DirectedTimeout(c)
  <2> DEFINE f == [Here EXCEPT !.m.adv = "idle", !.m.ccb[c] = Free]
  <2>1. Keeps(Here, f)
    BY HereIsWork DEF Work, Modules, Keeps, Free
  <2>2. Becomes(Sent(f, [event |-> "ConnClose", conn |-> c])) /\ use' = use
    BY <1>1 DEF DirectedTimeout, Reports
  <2> HIDE DEF f
  <2> QED BY <2>1, <2>2, GoneStep
<1>2. CASE Disconnected(c)
  <2> DEFINE f == [Here EXCEPT !.m.ccb[c] = Free, !.m.pairing = @ \ {c}]
  <2>1. Keeps(Here, f)
    BY HereIsWork DEF Work, Modules, Keeps, Free
  <2>2. Becomes(Sent(f, [event |-> "ConnClose", conn |-> c])) /\ use' = use
    BY <1>2 DEF Disconnected, Reports
  <2> HIDE DEF f
  <2> QED BY <2>1, <2>2, GoneStep
<1> QED BY <1>1, <1>2

LEMMA ConnectsStep ==
  ASSUME TurnInv, NEW c \in Conns, NEW p \in Peers, Connects(p, c) PROVE TurnInv'
<1> DEFINE f == [Here EXCEPT !.m.adv = "idle", !.m.ccb[c] = [state |-> "open", peer |-> p]]
           i == [event |-> "ConnOpen", conn |-> c, peer |-> p]
<1>1. Keeps(Here, f) /\ f \in Work
  BY HereIsWork DEF Work, Modules, Keeps
<1>2. i \in Inds
  BY DEF Inds
<1>3. Becomes(Sent(f, i)) /\ use' = use
  BY DEF Connects, Reports
<1> HIDE DEF f, i
<1>4. Keeps(Here, Sent(f, i))
  BY <1>1, <1>2, SentKeeps, KeepsTransitive
<1> QED BY <1>3, <1>4, KeepingStep

LEMMA TellingStep ==
  ASSUME TurnInv, NEW c, NEW i \in Inds, Tells(c, i),
         m' \in Modules, m'.state = m.state, m'.queue = m.queue
  PROVE  TurnInv'
<1>1. use' = use /\ sched' = sched /\ inds' = Append(inds, i)
  BY DEF Tells
<1>2. Typed'
  BY <1>1 DEF TurnInv, Typed
<1> QED BY <1>1, <1>2 DEF TurnInv

LEMMA DevicesStep ==
  ASSUME TurnInv, Devices PROVE TurnInv'
<1>1. PICK c \in Conns :
        Pairs(c) \/ PairingEnds(c) \/ Encrypts(c) \/ \E p \in Peers : Connects(p, c)
  BY DEF Devices
<1>2. m \in Modules
  BY DEF TurnInv, Typed
<1>3. CASE Pairs(c)
  <2>1. PICK p \in Peers : Tells(c, [event |-> "PairInd", conn |-> c, peer |-> p])
    BY <1>3 DEF Pairs
  <2>2. [event |-> "PairInd", conn |-> c, peer |-> p] \in Inds /\ m' = m
    BY <1>3 DEF Inds, Pairs
  <2> QED BY <1>2, <2>1, <2>2, TellingStep
<1>4. CASE PairingEnds(c)
  <2>1. PICK e \in {"PairCmpl", "PairFail"} : Tells(c, [event |-> e, conn |-> c])
    BY <1>4 DEF PairingEnds
  <2>2. [event |-> e, conn |-> c] \in Inds
    BY DEF Inds
  <2>3. m' \in Modules /\ m'.state = m.state /\ m'.queue = m.queue
    BY <1>2, <1>4 DEF PairingEnds, Modules
  <2> QED BY <2>1, <2>2, <2>3, TellingStep
<1>5. CASE Encrypts(c)
  <2>1. PICK e \in {"Encrypt", "EncryptFail"} : Tells(c, [event |-> e, conn |-> c])
    BY <1>5 DEF Encrypts
  <2>2. [event |-> e, conn |-> c] \in Inds /\ m' = m
    BY <1>5 DEF Inds, Encrypts
  <2> QED BY <1>2, <2>1, <2>2, TellingStep
<1>6. CASE \E p \in Peers : Connects(p, c)
  BY <1>6, ConnectsStep
<1> QED BY <1>1, <1>3, <1>4, <1>5, <1>6

LEMMA NextKeepsTurns == TurnInv /\ [Next]_vars => TurnInv'
<1> SUFFICES ASSUME TurnInv, [Next]_vars PROVE TurnInv'
  OBVIOUS
<1>1. CASE App
  BY <1>1, AppRequestStep DEF App, OpenConnectionRequest, CloseConnectionRequest,
     UnbindConnectionRequest, AppEvents
<1>2. CASE Ends
  BY <1>2, EndsStep DEF Ends
<1>3. CASE UNCHANGED vars
  BY <1>3 DEF vars, TurnInv, Typed
<1> QED
  BY <1>1, <1>2, <1>3, RunEventStep, HandleIndStep, AdvEnabledStep, AdvTimeoutStep,
     AdvDisabledStep, DevicesStep DEF Next

LEMMA InitTurns == Init => TurnInv
<1> SUFFICES ASSUME Init PROVE TurnInv
  OBVIOUS
<1>1. use \in Uses /\ use.bonds \in [Links -> Peers \cup {None}]
  BY BleAssumption DEF Init, Use
<1>2. sched = <<>> /\ inds \in Seq(Inds)
  <2>1. [event |-> "ResetCmpl", conn |-> None] \in Inds
    BY DEF Inds
  <2> QED BY <2>1 DEF Init
<1>3. m.state \in [Links -> States] /\ m.queue = <<>>
  BY DEF Init, States
<1>4. m \in Modules
  BY <1>1, <1>3, EmptySeq DEF Init, Modules, Free
<1>5. Turns(m.state, m.queue)
  BY <1>3, EmptySeq DEF Turns, IsInjective
<1> QED BY <1>1, <1>2, <1>3, <1>4, <1>5 DEF TurnInv, Typed, ServedBy

(* The invariant says what it is for.                                      *)
LEMMA TurnsServeHead == TurnInv => HeadServed
<1> SUFFICES ASSUME TurnInv, m.queue # <<>> PROVE m.queue[1] = Head(m.queue)
  BY DEF TurnInv, ServedBy, HeadServed
<1> QED BY HeadTailProperties DEF TurnInv, ServedBy, Turns

(* The queue never stalls, whatever the configuration of the links, their  *)
(* number, and the order of connections, closures and stale messages: a    *)
(* link that waits first in gpBleConnectionQueue has a kick listed.        *)
THEOREM QueueNeverStalls == Spec => []HeadServed
<1>1. Spec => []TurnInv
  BY InitTurns, NextKeepsTurns, PTL DEF Spec
<1> QED BY <1>1, TurnsServeHead, PTL

(* The modules' state, the events listed and the messages under way are of *)
(* their types, and no link is twice in the queue.                         *)
THEOREM LinksTyped == Spec => [](Typed /\ IsInjective(m.queue))
<1>1. Spec => []TurnInv
  BY InitTurns, NextKeepsTurns, PTL DEF Spec
<1>2. TurnInv => Typed /\ IsInjective(m.queue)
  BY DEF TurnInv, ServedBy, Turns
<1> QED BY <1>1, <1>2, PTL
-----------------------------------------------------------------------------
(* Whose connection is whose, in uses without directed advertising and in  *)
(* which devices do not pair while another new one is connected.  A        *)
(* connection id is used again only after the end of the connection was    *)
(* handled, so nobody holds an id whose connection is about to be          *)
(* reported; and a device pairs only with the link that holds its          *)
(* connection, which stays on the side of new devices until pairing ends.  *)
-----------------------------------------------------------------------------
(* The uses considered.                                                    *)
Plainly == Undirected /\ ~use.crossed

(* The states of a link with a new device, and of one with its own.        *)
NewSide    == {"Connected", "ClosingConnection"}
BondedSide == {"BondedConnected", "BondedConnectedNoSecurity"}
ByDirection == {"DirectedHighAdv", "DirectedLowAdv"}

(* How rows of the table lead from one side to the other.                  *)
SideRow(conf, r) ==
  /\ r.from \in NewSide /\ r.event \notin {"ConnCloseExt", "PairComplete"} => r.to \in NewSide
  /\ r.to \in BondedSide /\ r.from \notin BondedSide => r.event \in {"ConnOpen", "PairComplete"}
  /\ r.event = "ConnOpen" => r.from \notin NewSide /\ r.to \in BondedSide
  /\ r.event = "ConnOpenNew" /\ r.from \in Advertising => r.to = "Connected"
  /\ r.to \in Directed /\ conf \cap ByDirection = {} => r.from \in Directed

LEMMA NewSideRows ==
  ASSUME NEW conf, NEW r \in NewRows(conf) PROVE SideRow(conf, r)
BY DEF NewRows, Row, SideRow, NewSide, BondedSide, ByDirection, Close, Fail, Directed, Aborting,
       Advertising

LEMMA BondedSideRows ==
  ASSUME NEW conf, NEW r \in BondedRows(conf) PROVE SideRow(conf, r)
BY DEF BondedRows, Row, SideRow, NewSide, BondedSide, ByDirection, Close, Fail, Directed, Aborting,
       Advertising

LEMMA ReconnectSideRows ==
  ASSUME NEW conf, NEW r \in ReconnectRows(conf) PROVE SideRow(conf, r)
BY DEF ReconnectRows, Row, SideRow, NewSide, BondedSide, ByDirection, Close, Fail, Directed, Aborting,
       Advertising, FirstReconnect

LEMMA SideRows ==
  ASSUME NEW conf \in SUBSET Flags, NEW r \in Table[conf] PROVE SideRow(conf, r)
<1>1. r \in NewRows(conf) \cup BondedRows(conf) \cup ReconnectRows(conf)
  BY DEF Table
<1> QED BY <1>1, NewSideRows, BondedSideRows, ReconnectSideRows
-----------------------------------------------------------------------------
(* What most computations leave alone: who holds which connection.  Open   *)
(* connections may be asked to close, and bonds that are not valid go.     *)
Calm(h, g) ==
  /\ g \in Work
  /\ g.m.connId = h.m.connId /\ g.m.dbHdl = h.m.dbHdl /\ g.m.lastNew = h.m.lastNew
  /\ g.m.pairing = h.m.pairing /\ g.inds = h.inds
  /\ \A c \in Conns :
       /\ g.m.ccb[c].peer = h.m.ccb[c].peer
       /\ \/ g.m.ccb[c].state = h.m.ccb[c].state
          \/ h.m.ccb[c].state = "open" /\ g.m.ccb[c].state = "closing"
  /\ \A l \in Links :
       /\ g.m.rec[l].valid = h.m.rec[l].valid
       /\ g.m.rec[l].peer = h.m.rec[l].peer \/ (g.m.rec[l].peer = None /\ ~h.m.rec[l].valid)
  /\ Range(g.sched) \subseteq Range(h.sched) \cup {Kick}

NoneAccepts(h) == \A c \in Conns : h.m.ccb[c].state # "accepting"

LEMMA CalmItself ==
  ASSUME NEW h \in Work PROVE Calm(h, h)
BY DEF Calm

LEMMA CalmTransitive ==
  ASSUME NEW f, NEW g, NEW h, Calm(f, g), Calm(g, h) PROVE Calm(f, h)
BY DEF Calm

LEMMA CalmAccepts ==
  ASSUME NEW h, NEW g, Calm(h, g), NoneAccepts(h) PROVE NoneAccepts(g)
BY DEF Calm, NoneAccepts

LEMMA QueueCalm ==
  ASSUME NEW h \in Work, NEW q \in Seq(Links) PROVE Calm(h, [h EXCEPT !.m.queue = q])
BY DEF Work, Modules, Calm

LEMMA KickCalm ==
  ASSUME NEW h \in Work PROVE Calm(h, Listed(h, Kick))
<1>1. Kick \in SchedEvents
  BY DEF SchedEvents
<1>2. Listed(h, Kick) \in Work /\ Range(Listed(h, Kick).sched) = Range(h.sched) \cup {Kick}
  BY <1>1, ListedKeeps DEF Keeps
<1> QED BY <1>2 DEF Calm, Listed

LEMMA LeavesCalm ==
  ASSUME NEW h \in Work, NEW r, NEW l \in Links PROVE Calm(h, Leaves(h, r, l))
<1> DEFINE q == h.m.queue
           p == RemoveAt(q, GetIndex(q, l))
           rest == IF q = <<>> THEN <<>> ELSE Tail(q)
<1>1. q \in Seq(Links)
  BY WorkTypes
<1>2. Calm(h, Dropped(h, l))
  <2>1. CASE l \notin Range(q)
    BY <2>1, CalmItself DEF Dropped
  <2>2. CASE l \in Range(q)
    <3>1. GetIndex(q, l) \in 1 .. Len(q)
      BY <1>1, <2>2, LenProperties DEF GetIndex, Range
    <3>2. p \in Seq(Links)
      BY <1>1, <3>1, RemoveAtElements
    <3>3. Dropped(h, l) = [h EXCEPT !.m.queue = p]
      BY <2>2 DEF Dropped
    <3> HIDE DEF p
    <3> QED BY <3>2, <3>3, QueueCalm
  <2> QED BY <2>1, <2>2
<1>3. Calm(h, Popped(h))
  <2> DEFINE next == [h EXCEPT !.m.queue = rest]
  <2>1. rest \in Seq(Links)
    BY <1>1, HeadTailProperties, EmptySeq
  <2> HIDE DEF rest
  <2>2. Calm(h, next) /\ next \in Work
    BY <2>1, QueueCalm DEF Calm
  <2>3. Popped(h) = IF rest = <<>> THEN next ELSE Listed(next, Kick)
    BY DEF Popped, rest
  <2> HIDE DEF next
  <2> QED BY <2>2, <2>3, KickCalm, CalmTransitive
<1> QED BY <1>2, <1>3, CalmItself DEF Leaves

LEMMA AddedCalm ==
  ASSUME NEW h \in Work, NEW l \in Links PROVE Calm(h, Added(h, l))
<1> DEFINE more == Append(h.m.queue, l)
           next == [h EXCEPT !.m.queue = more]
<1>1. more \in Seq(Links)
  BY WorkTypes
<1>2. [h EXCEPT !.m.queue = Append(@, l)] = next
  OBVIOUS
<1> HIDE DEF more
<1>3. Calm(h, next) /\ next \in Work
  BY <1>1, QueueCalm DEF Calm
<1>4. Added(h, l) \in {h, next, Listed(next, Kick)}
  BY <1>2 DEF Added
<1> HIDE DEF next
<1> QED BY <1>3, <1>4, KickCalm, CalmItself, CalmTransitive

LEMMA ConnClosedCalm ==
  ASSUME NEW h \in Work, NoneAccepts(h), NEW c \in Conns PROVE Calm(h, ConnClosed(h, c))
<1> DEFINE closing == [h.m.ccb[c] EXCEPT !.state = "closing"]
           next == [h EXCEPT !.m.ccb[c] = closing]
<1>1. closing \in Ccb /\ closing.peer = h.m.ccb[c].peer /\ closing.state = "closing"
  BY Elements DEF Ccb
<1>2. [h EXCEPT !.m.ccb[c].state = "closing"] = next
  OBVIOUS
<1> HIDE DEF closing
<1>3. next \in Work
  BY <1>1, CcbKeeps DEF Keeps
<1>4. CASE h.m.ccb[c].state = "open"
  <2>1. Calm(h, next)
    BY <1>1, <1>3, <1>4 DEF Calm, Work, Modules
  <2> QED BY <1>2, <1>4, <2>1 DEF ConnClosed
<1>5. CASE h.m.ccb[c].state # "open"
  <2>1. h.m.ccb[c].state # "accepting"
    BY DEF NoneAccepts
  <2>2. ConnClosed(h, c) = h
    BY <1>5, <2>1 DEF ConnClosed
  <2> QED BY <2>2, CalmItself
<1> QED BY <1>4, <1>5

LEMMA CheckValidCalm ==
  ASSUME NEW h \in Work, NEW l \in Links \cup {None} PROVE Calm(h, CheckValidRecord(h, l))
<1> DEFINE gone == [h.m.rec[l] EXCEPT !.peer = None]
           next == [h EXCEPT !.m.rec[l] = gone]
<1>1. CASE l = None \/ h.m.rec[l].valid
  BY <1>1, CalmItself DEF CheckValidRecord
<1>2. CASE l # None /\ ~h.m.rec[l].valid
  <2>1. gone \in Record /\ gone.peer = None /\ gone.valid = h.m.rec[l].valid
    BY <1>2, Elements DEF Record
  <2>2. CheckValidRecord(h, l) = next
    BY <1>2 DEF CheckValidRecord
  <2> HIDE DEF gone
  <2>3. next \in Work
    BY <1>2, <2>1, RecordKeeps DEF Keeps
  <2>4. Calm(h, next)
    BY <1>2, <2>1, <2>3 DEF Calm, Work, Modules
  <2> QED BY <2>2, <2>4
<1> QED BY <1>1, <1>2

LEMMA CloseConnectionCalm ==
  ASSUME NEW h \in Work, NoneAccepts(h), NEW l \in Links PROVE Calm(h, CloseConnection(h, l))
<1>1. h.m.connId[l] \in Conns \cup {None}
  BY DEF Work, Modules
<1>2. CASE h.m.connId[l] = None
  BY <1>2, CalmItself DEF CloseConnection
<1>3. CASE h.m.connId[l] # None
  <2>1. Calm(h, ConnClosed(h, h.m.connId[l]))
    BY <1>1, <1>3, ConnClosedCalm
  <2> DEFINE f == ConnClosed(h, h.m.connId[l])
  <2>2. CloseConnection(h, l) = CheckValidRecord(f, l) /\ f \in Work
    BY <1>3, <2>1 DEF CloseConnection, Calm
  <2> HIDE DEF f
  <2>3. Calm(f, CloseConnection(h, l))
    BY <2>2, CheckValidCalm
  <2> QED BY <2>1, <2>3, CalmTransitive DEF f
<1> QED BY <1>2, <1>3

LEMMA AdvStartedCalm ==
  ASSUME NEW h \in Work, NEW b \in BOOLEAN PROVE Calm(h, AdvStarted([h EXCEPT !.m.bondable = b]))
<1> DEFINE f == [h EXCEPT !.m.bondable = b]
           may == Cardinality(f.m.known) < NConns
           adv == IF may /\ f.m.adv = "idle" THEN "starting" ELSE f.m.adv
<1>1. Calm(h, f) /\ f \in Work
  BY DEF Work, Modules, Calm
<1> HIDE DEF f
<1>2. may \in BOOLEAN
  OBVIOUS
<1>3. adv \in {"idle", "starting", "advertising", "stopping", "directed", "cancelling"}
  BY <1>1 DEF Work, Modules
<1> HIDE DEF may, adv
<1>4. Calm(f, [f EXCEPT !.m.advRuns = may, !.m.adv = adv])
  BY <1>1, <1>2, <1>3 DEF Work, Modules, Calm
<1>5. Calm(f, AdvStarted(f))
  BY <1>4 DEF AdvStarted, may, adv
<1>6. Calm(h, AdvStarted(f))
  BY <1>1, <1>5, CalmTransitive
<1> QED BY <1>6 DEF f

LEMMA AdvStoppedCalm ==
  ASSUME NEW h \in Work PROVE Calm(h, AdvStopped(h))
BY DEF Work, Modules, Calm, AdvStopped
-----------------------------------------------------------------------------
(* A transition of a link that does not advertise by direction.            *)
LEMMA StateCalm ==
  ASSUME NEW h \in Work, NEW l \in Links, NEW s \in States
  PROVE  Calm(h, [h EXCEPT !.m.state[l] = s])
<1> DEFINE next == [h EXCEPT !.m.state[l] = s]
<1>1. next \in Work
  BY StateChange
<1>2. /\ next.m.connId = h.m.connId /\ next.m.dbHdl = h.m.dbHdl /\ next.m.lastNew = h.m.lastNew
      /\ next.m.pairing = h.m.pairing /\ next.inds = h.inds /\ next.sched = h.sched
      /\ next.m.ccb = h.m.ccb /\ next.m.rec = h.m.rec
  BY DEF Work, Modules
<1> HIDE DEF next
<1>3. Calm(h, next)
  BY <1>1, <1>2 DEF Calm
<1> QED BY <1>3 DEF next

LEMMA FollowsCalm ==
  ASSUME NEW h \in Work, NoneAccepts(h), NEW l \in Links, NEW r, r.to \in States,
         r.from \notin Directed, r.to \notin Directed
  PROVE  LET g == Follows(h, r, l)
         IN Calm(h, g) /\ g.m.state = [h.m.state EXCEPT ![l] = r.to]
<1> DEFINE a == Leaves(h, r, l)
           b == Stops(a, r, l)
           c == Starts(b, r, l)
           d == Settles(c, r, l)
<1>1. Calm(h, a) /\ a \in Work
  BY LeavesCalm DEF Calm
<1> HIDE DEF a
<1>2. Calm(a, b) /\ b \in Work
  <2>1. Stops(a, r, l) = IF "stop" \in r.calls THEN AdvStopped(a) ELSE a
    BY DEF Stops, StopAdvertising
  <2> QED BY <1>1, <2>1, AdvStoppedCalm, CalmItself DEF Calm
<1> HIDE DEF b
<1>3. Calm(b, c) /\ c \in Work
  <2> DEFINE new == r.to = "Connecting"
  <2> DEFINE f == AdvStarted([b EXCEPT !.m.bondable = new])
  <2>1. c = f \/ c = b
    BY DEF Starts, StartAdvertising
  <2>2. new \in BOOLEAN
    OBVIOUS
  <2> HIDE DEF new, c
  <2>3. Calm(b, f)
    BY <1>2, <2>2, AdvStartedCalm
  <2> HIDE DEF f
  <2>4. Calm(b, b)
    BY <1>2, CalmItself
  <2> QED BY <2>1, <2>3, <2>4 DEF Calm
<1> HIDE DEF c
<1>4. Calm(h, c)
  BY <1>1, <1>2, <1>3, CalmTransitive
<1>5. Calm(c, d)
  <2>1. NoneAccepts(c)
    BY <1>4, CalmAccepts
  <2> QED BY <1>3, <2>1, AddedCalm, CloseConnectionCalm, CalmItself DEF Settles
<1>6. Calm(h, d) /\ d \in Work
  BY <1>4, <1>5, CalmTransitive DEF Calm
<1>7. Follows(h, r, l) = [d EXCEPT !.m.state[l] = r.to]
  BY DEF Follows, a, b, c
<1> HIDE DEF d
<1>8. Calm(d, Follows(h, r, l))
  BY <1>6, <1>7, StateCalm
<1>9. Calm(h, Follows(h, r, l))
  BY <1>6, <1>8, CalmTransitive
<1>10. d.m.state = h.m.state
  <2>1. a.m.state = h.m.state
    <3>1. Popped(h).m.state = h.m.state
      BY PoppedEffect
    <3>2. Dropped(h, l).m.state = h.m.state
      BY DEF Dropped, Work, Modules
    <3> QED BY <3>1, <3>2 DEF Leaves, a
  <2>2. b.m.state = a.m.state
    BY <1>1, StopAdvertisingKeeps DEF Stops, Keeps, b
  <2>3. c.m.state = b.m.state
    BY <1>2, StartAdvertisingKeeps DEF Starts, Keeps, c
  <2>4. d.m.state = c.m.state
    <3>1. Added(c, l).m.state = c.m.state
      BY <1>3, AddedEffect DEF Added
    <3>2. CloseConnection(c, l).m.state = c.m.state
      BY <1>3, CloseConnectionKeeps DEF Keeps
    <3> QED BY <3>1, <3>2 DEF Settles, d
  <2> QED BY <2>1, <2>2, <2>3, <2>4
<1>11. Follows(h, r, l).m.state = [h.m.state EXCEPT ![l] = r.to]
  <2> DEFINE s == r.to
  <2>1. d \in Work /\ s \in States
    BY <1>6
  <2> HIDE DEF s
  <2>2. [d EXCEPT !.m.state[l] = s].m.state = [d.m.state EXCEPT ![l] = s]
    BY <2>1, StateChange
  <2> QED BY <1>7, <1>10, <2>2 DEF s
<1> QED BY <1>9, <1>11
-----------------------------------------------------------------------------
(* The invariant, of the modules' state n and of what is under way: w says *)
(* about which connections there are messages of a kind.                   *)
Tracked == {"ConnClose", "ConnOpen", "PairInd", "PairCmpl", "PairFail"}
Ways == [Tracked -> SUBSET Conns]

HasBond(n, l) == n.rec[l].peer # None /\ n.rec[l].valid
InPairing(n, w) == n.pairing \cup w["PairCmpl"]

(* Link l holds connection c: nobody else does, it is for no other link,   *)
(* it has begun and its end has not been reported, and the link's state    *)
(* says whether the device is new.                                         *)
HeldBy(n, w, l, c) ==
  /\ \A k \in Links : n.connId[k] = c => k = l
  /\ n.dbHdl[c] \in {None, l}
  /\ n.ccb[c].state # "free" \/ c \in w["ConnClose"]
  /\ c \notin w["ConnOpen"]
  /\ n.state[l] \in BondedSide => n.dbHdl[c] = l
  /\ n.dbHdl[c] = None \/ c \in InPairing(n, w) => n.state[l] \in NewSide
Holds(n, w) == \A l \in Links, c \in Conns : n.connId[l] = c => HeldBy(n, w, l, c)

(* A device that pairs does so for the link that holds its connection, and *)
(* that link has no bond.                                                  *)
PairsHere(n, w) == \A c \in InPairing(n, w) :
  n.dbHdl[c] \in Links /\ n.connId[n.dbHdl[c]] = c /\ ~HasBond(n, n.dbHdl[c])

(* The link that a new device connected to last awaits that it pairs.      *)
LastNewHere(n, w) ==
  /\ \A c \in w["PairInd"] :
       n.lastNew \in Links /\ n.connId[n.lastNew] = c /\ n.dbHdl[c] = None
  /\ \A l \in Links, c \in Conns :
       n.lastNew = l /\ n.connId[l] = c /\ n.dbHdl[c] # None /\ n.ccb[c].state = "open"
         => c \in InPairing(n, w) \cup w["PairFail"]

(* Connections that have ended are free, and others have begun.            *)
EndsHere(n, w) ==
  /\ \A c \in w["ConnClose"] : n.ccb[c].state = "free"
  /\ \A c \in w["ConnOpen"] : n.ccb[c].state # "free" \/ c \in w["ConnClose"]
  /\ \A c \in n.pairing : n.ccb[c].state # "free" /\ c \notin w["PairCmpl"]

Plain(n) ==
  /\ \A l \in Links : n.state[l] \notin Directed
  /\ \A c \in Conns : n.ccb[c].state # "accepting"

Owns(n, w) == Plain(n) /\ Holds(n, w) /\ PairsHere(n, w) /\ LastNewHere(n, w) /\ EndsHere(n, w)

(* Calm computations keep it that leave links on their side, but for those *)
(* that hold no connection, or one of their own device that does not pair. *)
SameSide(s, t) == (s \in NewSide => t \in NewSide) /\ (t \in BondedSide => s \in BondedSide)
Settled(n, w, l) ==
  \A c \in Conns : n.connId[l] = c => n.dbHdl[c] = l /\ c \notin InPairing(n, w)

LEMMA CalmOwns ==
  ASSUME NEW h \in Work, NEW g, NEW w \in Ways, Owns(h.m, w), Calm(h, g),
         \A l \in Links : /\ g.m.state[l] \notin Directed
                          /\ Settled(h.m, w, l) \/ SameSide(h.m.state[l], g.m.state[l])
  PROVE  Owns(g.m, w)
<1> DEFINE n == h.m
           o == g.m
<1>1. /\ o.connId = n.connId /\ o.dbHdl = n.dbHdl /\ o.lastNew = n.lastNew /\ o.pairing = n.pairing
      /\ \A c \in Conns : \/ o.ccb[c].state = n.ccb[c].state
                          \/ n.ccb[c].state = "open" /\ o.ccb[c].state = "closing"
      /\ \A l \in Links : o.rec[l].valid = n.rec[l].valid /\ o.rec[l].peer \in {n.rec[l].peer, None}
      /\ n.pairing \subseteq Conns /\ w["PairCmpl"] \subseteq Conns /\ w["ConnClose"] \subseteq Conns
      /\ w["ConnOpen"] \subseteq Conns
      /\ None \notin Conns /\ None \notin Links
  BY BleAssumption DEF Calm, Work, Modules, Ways, Tracked
<1>2. /\ Plain(n) /\ Holds(n, w) /\ PairsHere(n, w) /\ LastNewHere(n, w) /\ EndsHere(n, w)
      /\ \A l \in Links : o.state[l] \notin Directed
                          /\ (Settled(n, w, l) \/ SameSide(n.state[l], o.state[l]))
  BY DEF Owns
<1> HIDE DEF n, o
<1>3. Plain(o)
  BY <1>1, <1>2 DEF Plain
<1>4. Holds(o, w)
  <2> SUFFICES ASSUME NEW l \in Links, NEW c \in Conns, o.connId[l] = c PROVE HeldBy(o, w, l, c)
    BY DEF Holds
  <2>1. HeldBy(n, w, l, c) /\ (Settled(n, w, l) \/ SameSide(n.state[l], o.state[l]))
        /\ n.connId[l] = c
    BY <1>1, <1>2 DEF Holds
  <2>2. CASE SameSide(n.state[l], o.state[l])
    BY <1>1, <2>1, <2>2 DEF HeldBy, SameSide, InPairing
  <2>3. CASE Settled(n, w, l)
    BY <1>1, <2>1, <2>3 DEF HeldBy, Settled, InPairing
  <2> QED BY <2>1, <2>2, <2>3
<1>5. PairsHere(o, w)
  BY <1>1, <1>2 DEF PairsHere, InPairing, HasBond
<1>6. LastNewHere(o, w)
  BY <1>1, <1>2 DEF LastNewHere, InPairing
<1>7. EndsHere(o, w)
  BY <1>1, <1>2 DEF EndsHere
<1>8. Owns(o, w)
  BY <1>3, <1>4, <1>5, <1>6, <1>7 DEF Owns
<1> QED BY <1>8 DEF o

LEMMA CalmKeepsOwns ==
  ASSUME NEW h \in Work, NEW g, NEW w \in Ways, Owns(h.m, w), Calm(h, g), g.m.state = h.m.state
  PROVE  Owns(g.m, w)
<1>1. \A l \in Links : h.m.state[l] \notin Directed
  BY DEF Owns, Plain
<1> QED BY <1>1, CalmOwns DEF SameSide
-----------------------------------------------------------------------------
(* What a link's state machine does when it is told something.             *)
MovedTo(h, g, l, e) ==
  l \in Links /\ \E r \in Table[use.conf[l]] :
    r.from = h.m.state[l] /\ r.event = e /\ g.m.state = [h.m.state EXCEPT ![l] = r.to]

LEMMA SendEventCalm ==
  ASSUME use \in Uses, Undirected, NEW h \in Work, Plain(h.m), NEW l \in Links \cup {None}, NEW e
  PROVE  LET g == SendEvent(h, e, l)
         IN /\ Calm(h, g)
            /\ Processed(h, e, l) => MovedTo(h, g, l, e)
            /\ ~Processed(h, e, l) => g = h
            /\ \A k \in Links : g.m.state[k] \notin Directed
<1>1. NoneAccepts(h) /\ \A k \in Links : h.m.state[k] \notin Directed
  BY DEF Plain, NoneAccepts
<1>2. CASE ~ Processed(h, e, l)
  BY <1>1, <1>2, CalmItself DEF SendEvent
<1>3. CASE Processed(h, e, l)
  <2> DEFINE r == CHOOSE t \in Transitions(h, e, l) : TRUE
             g == Follows(h, r, l)
  <2>1. l \in Links /\ r \in Transitions(h, e, l)
    BY <1>3 DEF Processed
  <2>2. SendEvent(h, e, l) = g
    BY <1>3 DEF SendEvent
  <2> HIDE DEF r
  <2>3. r \in Table[use.conf[l]] /\ r.from = h.m.state[l] /\ r.event = e
    BY <2>1 DEF Transitions
  <2>4. use.conf[l] \in SUBSET Flags /\ use.conf[l] \cap ByDirection = {}
    BY <2>1, Configurations DEF Undirected, ByDirection
  <2>5. RowKind(r) /\ SideRow(use.conf[l], r)
    BY <2>3, <2>4, RowKinds, SideRows
  <2>6. r.to \in States /\ r.from \notin Directed /\ r.to \notin Directed
    BY <1>1, <2>1, <2>3, <2>4, <2>5 DEF RowKind, SideRow
  <2>7. Calm(h, g) /\ g.m.state = [h.m.state EXCEPT ![l] = r.to]
    BY <1>1, <2>1, <2>6, FollowsCalm
  <2> HIDE DEF g
  <2>8. MovedTo(h, g, l, e)
    BY <2>1, <2>3, <2>7 DEF MovedTo
  <2>9. \A k \in Links : g.m.state[k] \notin Directed
    BY <1>1, <2>1, <2>6, <2>7, WorkTypes
  <2> QED BY <1>3, <2>2, <2>7, <2>8, <2>9
<1> QED BY <1>2, <1>3

LEMMA SendEventOwns ==
  ASSUME use \in Uses, Undirected, NEW h \in Work, NEW w \in Ways, Owns(h.m, w),
         NEW l \in Links \cup {None}, NEW e,
         \/ e \notin {"ConnCloseExt", "PairComplete", "ConnOpen"}
         \/ l = None \/ Settled(h.m, w, l)
  PROVE  Owns(SendEvent(h, e, l).m, w) /\ Calm(h, SendEvent(h, e, l))
<1> DEFINE g == SendEvent(h, e, l)
<1>1. /\ Calm(h, g) /\ (Processed(h, e, l) => MovedTo(h, g, l, e)) /\ (~Processed(h, e, l) => g = h)
      /\ \A k \in Links : g.m.state[k] \notin Directed
  BY SendEventCalm DEF Owns
<1> HIDE DEF g
<1>2. ASSUME NEW k \in Links, ~Settled(h.m, w, k)
      PROVE  SameSide(h.m.state[k], g.m.state[k])
  <2>1. CASE g.m.state[k] = h.m.state[k]
    BY <2>1 DEF SameSide
  <2>2. CASE g.m.state[k] # h.m.state[k]
    <3>1. MovedTo(h, g, l, e)
      BY <1>1, <2>2
    <3>2. l \in Links
      BY <3>1 DEF MovedTo
    <3>3. PICK r \in Table[use.conf[l]] :
            r.from = h.m.state[l] /\ r.event = e /\ g.m.state = [h.m.state EXCEPT ![l] = r.to]
      BY <3>1 DEF MovedTo
    <3>4. k = l /\ g.m.state[l] = r.to
      BY <2>2, <3>2, <3>3, WorkTypes
    <3>5. SideRow(use.conf[l], r)
      BY <3>2, <3>3, SideRows, Configurations
    <3>6. l # None
      BY <3>2, BleAssumption
    <3> QED BY <1>2, <3>3, <3>4, <3>5, <3>6 DEF SideRow, SameSide
  <2> QED BY <2>1, <2>2
<1>3. Owns(g.m, w)
  BY <1>1, <1>2, CalmOwns
<1> QED BY <1>1, <1>3 DEF g
-----------------------------------------------------------------------------
(* What a handler has computed that lists kicks and pops only, and has     *)
(* sent nothing.                                                           *)
Owned(h, w) == h \in Work /\ Owns(h.m, w) /\ Range(h.sched) \subseteq {Kick, Pop} /\ h.inds = <<>>

(* The message of kind e about connection c is taken: v is left.           *)
Left(w, v, e, c) ==
  /\ w \in Ways /\ v \in Ways
  /\ v["PairInd"] = {} /\ v["PairCmpl"] = {} /\ c \notin v["ConnOpen"]
  /\ \A x \in Tracked \ {e} : v[x] = w[x]
  /\ e \in Tracked => c \in w[e] /\ v[e] \subseteq w[e] /\ w[e] \subseteq v[e] \cup {c}

NobodyHolds(h, c) == \A l \in Links : h.m.connId[l] # c

LEMMA CalmOwned ==
  ASSUME NEW h, NEW g, NEW w \in Ways, Owned(h, w), Calm(h, g), g.m.state = h.m.state
  PROVE  Owned(g, w)
<1>1. Owns(g.m, w)
  BY CalmKeepsOwns DEF Owned
<1> QED BY <1>1 DEF Owned, Calm

LEMMA SendEventOwned ==
  ASSUME use \in Uses, Undirected, NEW h, NEW w \in Ways, Owned(h, w),
         NEW l \in Links \cup {None}, NEW e,
         \/ e \notin {"ConnCloseExt", "PairComplete", "ConnOpen"}
         \/ l = None \/ Settled(h.m, w, l)
  PROVE  Owned(SendEvent(h, e, l), w) /\ Calm(h, SendEvent(h, e, l))
<1>1. Owns(SendEvent(h, e, l).m, w) /\ Calm(h, SendEvent(h, e, l))
  BY SendEventOwns DEF Owned
<1> QED BY <1>1 DEF Owned, Calm

(* The connection that a link holds is found by its id.                    *)
LEMMA HolderFound ==
  ASSUME NEW h, NEW w \in Ways, Owned(h, w), NEW l \in Links, NEW c \in Conns, h.m.connId[l] = c
  PROVE  GetLinkIdByConnId(h, c) = l
<1>1. HeldBy(h.m, w, l, c)
  BY DEF Owned, Owns, Holds
<1>2. {k \in Links : h.m.connId[k] = c} = {l}
  BY <1>1 DEF HeldBy
<1>3. (CHOOSE i \in {l} : \A k \in {l} : i <= k) = l
  BY DEF Links
<1> QED BY <1>1, <1>2, <1>3 DEF HeldBy, GetLinkIdByConnId

(* Nobody holds a connection whose beginning is not reported.              *)
LEMMA NobodyHoldsNew ==
  ASSUME NEW h, NEW w \in Ways, Owned(h, w), NEW c \in w["ConnOpen"] PROVE NobodyHolds(h, c)
<1>1. c \in Conns
  BY DEF Ways, Tracked
<1> QED BY <1>1 DEF Owned, Owns, Holds, HeldBy, NobodyHolds

(* A link that holds a connection of a device that pairs is on the side of *)
(* new devices, and has no bond.                                           *)
LEMMA PairingLink ==
  ASSUME NEW h, NEW w \in Ways, Owned(h, w), NEW l \in Links, h.m.connId[l] \in InPairing(h.m, w)
  PROVE  h.m.state[l] \in NewSide /\ ~HasBond(h.m, l) /\ h.m.dbHdl[h.m.connId[l]] = l
<1> DEFINE c == h.m.connId[l]
           d == h.m.dbHdl[c]
<1>1. c \in Conns
  BY DEF Owned, Work, Modules, Ways, Tracked, InPairing
<1>2. HeldBy(h.m, w, l, c)
  BY <1>1 DEF Owned, Owns, Holds
<1>3. d \in Links /\ h.m.connId[d] = c /\ ~HasBond(h.m, d)
  BY DEF Owned, Owns, PairsHere
<1>4. d = l
  BY <1>2, <1>3 DEF HeldBy
<1> QED BY <1>2, <1>3, <1>4 DEF HeldBy

(* Nobody is the last to have a new device any more.                       *)
LEMMA ForgetOwned ==
  ASSUME NEW h, NEW w \in Ways, NEW v \in Ways, Owned(h, w), v["PairInd"] = {},
         v["ConnClose"] = w["ConnClose"], v["ConnOpen"] = w["ConnOpen"],
         v["PairCmpl"] \subseteq w["PairCmpl"]
  PROVE  Owned([h EXCEPT !.m.lastNew = None], v)
<1> DEFINE g == [h EXCEPT !.m.lastNew = None]
           n == h.m
           o == g.m
<1>1. g \in Work
  BY FieldsKeep DEF Owned, Keeps
<1>2. /\ o.connId = n.connId /\ o.dbHdl = n.dbHdl /\ o.pairing = n.pairing /\ o.state = n.state
      /\ o.ccb = n.ccb /\ o.rec = n.rec /\ o.lastNew = None
      /\ g.sched = h.sched /\ g.inds = h.inds /\ None \notin Links
  BY BleAssumption DEF Owned, Work, Modules
<1>3. /\ Plain(n) /\ Holds(n, w) /\ PairsHere(n, w) /\ EndsHere(n, w)
      /\ Range(h.sched) \subseteq {Kick, Pop} /\ h.inds = <<>>
  BY DEF Owned, Owns
<1> HIDE DEF g, n, o
<1>4. Plain(o) /\ PairsHere(o, v) /\ LastNewHere(o, v) /\ EndsHere(o, v)
  BY <1>2, <1>3 DEF Plain, PairsHere, InPairing, HasBond, LastNewHere, EndsHere
<1>5. Holds(o, v)
  <2> SUFFICES ASSUME NEW l \in Links, NEW c \in Conns, o.connId[l] = c PROVE HeldBy(o, v, l, c)
    BY DEF Holds
  <2>1. HeldBy(n, w, l, c)
    BY <1>2, <1>3 DEF Holds
  <2> QED BY <1>2, <2>1 DEF HeldBy, InPairing
<1>6. Owned(g, v)
  BY <1>1, <1>2, <1>3, <1>4, <1>5 DEF Owned, Owns, o
<1> QED BY <1>6 DEF g

(* A link loses its connection, which does not pair.                       *)
LEMMA ReleaseOwned ==
  ASSUME NEW h, NEW w \in Ways, Owned(h, w), NEW l \in Links, w["PairInd"] = {},
         h.m.connId[l] \notin InPairing(h.m, w)
  PROVE  LET g == [h EXCEPT !.m.connId[l] = None]
         IN /\ Owned(g, w) /\ Settled(g.m, w, l) /\ g.m.state = h.m.state
            /\ g.m.connId[l] = None /\ g.m.lastNew = h.m.lastNew
            /\ \A k \in Links \ {l} : g.m.connId[k] = h.m.connId[k]
<1> DEFINE g == [h EXCEPT !.m.connId[l] = None]
           n == h.m
           o == g.m
<1>1. g \in Work
  BY FieldsKeep DEF Owned, Keeps
<1>2. /\ o.connId = [n.connId EXCEPT ![l] = None] /\ n.connId \in [Links -> Conns \cup {None}]
      /\ o.dbHdl = n.dbHdl /\ o.pairing = n.pairing /\ o.state = n.state
      /\ o.ccb = n.ccb /\ o.rec = n.rec /\ o.lastNew = n.lastNew
      /\ g.sched = h.sched /\ g.inds = h.inds /\ None \notin Conns
  BY BleAssumption DEF Owned, Work, Modules
<1>3. /\ Plain(n) /\ Holds(n, w) /\ PairsHere(n, w) /\ LastNewHere(n, w) /\ EndsHere(n, w)
      /\ Range(h.sched) \subseteq {Kick, Pop} /\ h.inds = <<>> /\ n.connId[l] \notin InPairing(n, w)
  BY DEF Owned, Owns
<1> HIDE DEF g, n, o
<1>4. Plain(o) /\ PairsHere(o, w) /\ EndsHere(o, w)
  BY <1>2, <1>3 DEF Plain, PairsHere, InPairing, HasBond, EndsHere
<1>5. LastNewHere(o, w)
  BY <1>2, <1>3 DEF LastNewHere, InPairing
<1>6. Holds(o, w)
  <2> SUFFICES ASSUME NEW k \in Links, NEW c \in Conns, o.connId[k] = c PROVE HeldBy(o, w, k, c)
    BY DEF Holds
  <2>1. k # l /\ HeldBy(n, w, k, c)
    BY <1>2, <1>3 DEF Holds
  <2> QED BY <1>2, <2>1 DEF HeldBy, InPairing
<1>7. Owned(g, w)
  BY <1>1, <1>2, <1>3, <1>4, <1>5, <1>6 DEF Owned, Owns, o
<1>8. Settled(o, w, l) /\ o.connId[l] = None /\ \A k \in Links \ {l} : o.connId[k] = n.connId[k]
  BY <1>2 DEF Settled
<1> QED BY <1>2, <1>7, <1>8 DEF g, n, o

(* A link gets a connection that nobody has: for a new device, or its own. *)
LEMMA AttachOwned ==
  ASSUME NEW h, NEW w \in Ways, Owned(h, w), NEW l \in Links, NEW c \in Conns, NEW last,
         NobodyHolds(h, c), h.m.ccb[c].state # "free" \/ c \in w["ConnClose"],
         c \notin w["ConnOpen"], w["PairInd"] = {}, h.m.connId[l] \notin InPairing(h.m, w),
         \/ last = l /\ h.m.dbHdl[c] = None /\ h.m.state[l] = "Connected"
         \/ last = None /\ h.m.dbHdl[c] = l
  PROVE  Owned([h EXCEPT !.m.lastNew = last, !.m.connId[l] = c], w)
<1> DEFINE g == [h EXCEPT !.m.lastNew = last, !.m.connId[l] = c]
           n == h.m
           o == g.m
<1>1. g \in Work
  <2>1. h \in Work /\ last \in Links \cup {None}
    BY DEF Owned
  <2> QED BY <2>1 DEF Work, Modules
<1>2. /\ o.connId = [n.connId EXCEPT ![l] = c] /\ n.connId \in [Links -> Conns \cup {None}]
      /\ o.dbHdl = n.dbHdl /\ o.pairing = n.pairing /\ o.state = n.state
      /\ o.ccb = n.ccb /\ o.rec = n.rec /\ o.lastNew = last
      /\ g.sched = h.sched /\ g.inds = h.inds /\ None \notin Conns /\ None \notin Links
  BY BleAssumption DEF Owned, Work, Modules
<1>3. /\ Plain(n) /\ Holds(n, w) /\ PairsHere(n, w) /\ LastNewHere(n, w) /\ EndsHere(n, w)
      /\ Range(h.sched) \subseteq {Kick, Pop} /\ h.inds = <<>> /\ n.connId[l] \notin InPairing(n, w)
      /\ \A k \in Links : n.connId[k] # c
      /\ n.ccb[c].state # "free" \/ c \in w["ConnClose"]
      /\ \/ last = l /\ n.dbHdl[c] = None /\ n.state[l] = "Connected"
         \/ last = None /\ n.dbHdl[c] = l
  BY DEF Owned, Owns, NobodyHolds
<1> HIDE DEF g, n, o
<1>4. c \notin InPairing(n, w)
  BY <1>3 DEF PairsHere
<1>5. Plain(o) /\ PairsHere(o, w) /\ EndsHere(o, w)
  <2>1. PairsHere(o, w)
    BY <1>2, <1>3 DEF PairsHere, InPairing, HasBond
  <2> QED BY <1>2, <1>3, <2>1 DEF Plain, EndsHere
<1>6. LastNewHere(o, w)
  BY <1>2, <1>3 DEF LastNewHere, InPairing
<1>7. Holds(o, w)
  <2> SUFFICES ASSUME NEW k \in Links, NEW d \in Conns, o.connId[k] = d PROVE HeldBy(o, w, k, d)
    BY DEF Holds
  <2>1. CASE k = l
    BY <1>2, <1>3, <1>4, <2>1 DEF HeldBy, InPairing, NewSide, BondedSide
  <2>2. CASE k # l
    <3>1. HeldBy(n, w, k, d) /\ d # c
      BY <1>2, <1>3, <2>2 DEF Holds
    <3> QED BY <1>2, <2>2, <3>1 DEF HeldBy, InPairing
  <2> QED BY <2>1, <2>2
<1>8. Owned(g, w)
  BY <1>1, <1>2, <1>3, <1>5, <1>6, <1>7 DEF Owned, Owns, o
<1> QED BY <1>8 DEF g
-----------------------------------------------------------------------------
(* The handlers of messages, one by one.                                   *)
LEMMA AdvertisingLink ==
  ASSUME NEW h \in Work, GetAdvertisingLinkId(h) # None
  PROVE  /\ GetAdvertisingLinkId(h) \in Links
         /\ h.m.state[GetAdvertisingLinkId(h)] \in Advertising
<1> DEFINE hits == {l \in Links : h.m.state[l] \in Advertising}
<1>1. hits # {} /\ GetAdvertisingLinkId(h) = CHOOSE l \in hits : \A k \in hits : l <= k
  BY DEF GetAdvertisingLinkId
<1>2. \E l \in hits : \A k \in hits : l <= k
  BY <1>1, LeastElement DEF Links
<1>3. GetAdvertisingLinkId(h) \in hits
  BY <1>1, <1>2
<1> QED BY <1>3

(* The connection of a link that advertises does not pair.                 *)
LEMMA AdvertisingIsNotPairing ==
  ASSUME NEW h, NEW w \in Ways, Owned(h, w), NEW l \in Links, h.m.state[l] \in Advertising
  PROVE  h.m.connId[l] \notin InPairing(h.m, w)
<1>1. h.m.state[l] \notin NewSide
  BY DEF Advertising, Directed, Aborting, NewSide
<1> QED BY <1>1, PairingLink

LEMMA AdvStopIndOwned ==
  ASSUME use \in Uses, Undirected, NEW h, NEW w \in Ways, Owned(h, w), w["PairInd"] = {}
  PROVE  Owned(AdvStopInd(h), w)
<1> DEFINE f == [h EXCEPT !.m.advRuns = FALSE]
           l == GetAdvertisingLinkId(h)
           g == [f EXCEPT !.m.connId[l] = None]
<1>1. Calm(h, f) /\ f.m.state = h.m.state
  BY DEF Owned, Work, Modules, Calm
<1>2. Owned(f, w)
  BY <1>1, CalmOwned
<1>3. AdvStopInd(h) = ConnFailed(f, l)
  BY DEF AdvStopInd
<1> HIDE DEF f, l
<1>4. CASE l = None
  BY <1>2, <1>3, <1>4 DEF ConnFailed
<1>5. CASE l # None
  <2>1. l \in Links /\ f.m.state[l] \in Advertising
    BY <1>1, <1>5, AdvertisingLink DEF Owned, l
  <2>2. Owned(g, w)
    BY <1>2, <2>1, AdvertisingIsNotPairing, ReleaseOwned
  <2>3. ConnFailed(f, l) = SendEvent(g, "ConnFail", l)
    BY <1>5 DEF ConnFailed
  <2> HIDE DEF g
  <2> QED BY <1>3, <2>1, <2>2, <2>3, SendEventOwned
<1> QED BY <1>4, <1>5

(* A connection that nobody holds is done with.                            *)
LEMMA DoneOwned ==
  ASSUME NEW h, NEW w, NEW v, NEW c \in Conns, Owned(h, w), Left(w, v, "ConnClose", c),
         NobodyHolds(h, c)
  PROVE  Owned(h, v)
<1> DEFINE n == h.m
<1>1. /\ Plain(n) /\ Holds(n, w) /\ PairsHere(n, w) /\ LastNewHere(n, w) /\ EndsHere(n, w)
      /\ \A l \in Links : n.connId[l] # c
  BY DEF Owned, Owns, NobodyHolds
<1>2. /\ v["PairInd"] = w["PairInd"] /\ v["PairCmpl"] = w["PairCmpl"] /\ v["PairFail"] = w["PairFail"]
      /\ v["ConnOpen"] = w["ConnOpen"] /\ c \notin v["ConnOpen"]
      /\ v["ConnClose"] \subseteq w["ConnClose"] /\ w["ConnClose"] \subseteq v["ConnClose"] \cup {c}
  BY DEF Left, Tracked
<1> HIDE DEF n
<1>3. PairsHere(n, v) /\ LastNewHere(n, v) /\ EndsHere(n, v)
  BY <1>1, <1>2 DEF PairsHere, LastNewHere, EndsHere, InPairing
<1>4. Holds(n, v)
  <2> SUFFICES ASSUME NEW l \in Links, NEW d \in Conns, n.connId[l] = d PROVE HeldBy(n, v, l, d)
    BY DEF Holds
  <2>1. HeldBy(n, w, l, d) /\ d # c
    BY <1>1 DEF Holds
  <2> QED BY <1>2, <2>1 DEF HeldBy, InPairing
<1> QED BY <1>1, <1>3, <1>4 DEF Owned, Owns, n

(* A connection that has ended does not pair, nor does that of a link with *)
(* a bond.                                                                 *)
LEMMA ClosedIsNotPairing ==
  ASSUME NEW h, NEW w \in Ways, Owned(h, w), NEW l \in Links, w["PairCmpl"] = {},
         HasBond(h.m, l) \/ h.m.connId[l] \in w["ConnClose"]
  PROVE  h.m.connId[l] \notin InPairing(h.m, w)
<1>1. CASE HasBond(h.m, l)
  BY <1>1, PairingLink
<1>2. CASE h.m.connId[l] \in w["ConnClose"]
  BY <1>2 DEF Owned, Owns, EndsHere, InPairing
<1> QED BY <1>1, <1>2

LEMMA FoundLink ==
  ASSUME NEW h \in Work, NEW c \in Conns, GetLinkIdByConnId(h, c) # None
  PROVE  LET l == GetLinkIdByConnId(h, c)
         IN l \in Links /\ ((l = h.m.dbHdl[c] /\ HasBond(h.m, l)) \/ h.m.connId[l] = c)
<1> DEFINE d == h.m.dbHdl[c]
           hits == {l \in Links : h.m.connId[l] = c}
           l == GetLinkIdByConnId(h, c)
<1>1. CASE d # None /\ Bonded(h, d)
  <2>1. l = d
    BY <1>1 DEF GetLinkIdByConnId
  <2> QED BY <1>1, <2>1, Lookups DEF Bonded, HasBond
<1>2. CASE ~ (d # None /\ Bonded(h, d))
  <2>1. hits # {} /\ l = CHOOSE i \in hits : \A k \in hits : i <= k
    BY <1>2 DEF GetLinkIdByConnId
  <2>2. \E i \in hits : \A k \in hits : i <= k
    BY <2>1, LeastElement DEF Links
  <2>3. l \in hits
    BY <2>1, <2>2
  <2> QED BY <2>3
<1> QED BY <1>1, <1>2

LEMMA LinkClosedOwned ==
  ASSUME use \in Uses, Undirected, NEW h, NEW w \in Ways, Owned(h, w),
         w["PairInd"] = {}, w["PairCmpl"] = {}, NEW c \in w["ConnClose"]
  PROVE  /\ Owned(ConnectionGone(h, c), w)
         /\ NobodyHolds(ConnectionGone(h, c), c)
<1> DEFINE l == GetLinkIdByConnId(h, c)
           f == [h EXCEPT !.m.connId[l] = None]
           g == [f EXCEPT !.m.lastNew = None]
           i == IF h.m.lastNew = l THEN g ELSE f
           j == SendEvent(i, "ConnCloseExt", l)
<1>1. c \in Conns /\ h \in Work /\ ConnectionGone(h, c) = LinkClosed(h, l)
  BY DEF Ways, Tracked, Owned, ConnectionGone
<1>2. \A k \in Links : h.m.connId[k] = c => k = l
  BY <1>1, HolderFound
<1>3. l # None => l \in Links /\ (HasBond(h.m, l) \/ h.m.connId[l] = c)
  BY <1>1, FoundLink
<1> HIDE DEF l
<1>4. CASE l = None
  BY <1>1, <1>2, <1>4, BleAssumption DEF LinkClosed, NobodyHolds
<1>5. CASE l # None
  <2>1. l \in Links /\ h.m.connId[l] \notin InPairing(h.m, w)
    BY <1>3, <1>5, ClosedIsNotPairing
  <2>2. /\ Owned(f, w) /\ Settled(f.m, w, l) /\ f.m.connId[l] = None
        /\ f.m.lastNew = h.m.lastNew /\ \A k \in Links \ {l} : f.m.connId[k] = h.m.connId[k]
    BY <2>1, ReleaseOwned
  <2>3. j = LinkClosed(h, l)
    <3>1. [h EXCEPT !.m.connId[l] = None, !.m.lastNew = IF @ = l THEN None ELSE @] = i
      BY <1>1, <2>1 DEF Work, Modules
    <3> QED BY <1>5, <3>1 DEF LinkClosed
  <2> HIDE DEF f
  <2>4. Owned(g, w)
    BY <2>2, ForgetOwned
  <2>5. g.m.connId = f.m.connId /\ g.m.dbHdl = f.m.dbHdl /\ g.m.pairing = f.m.pairing
    BY <2>2 DEF Owned, Work, Modules
  <2>6. Settled(g.m, w, l)
    BY <2>2, <2>5 DEF Settled, InPairing
  <2> HIDE DEF g
  <2>7. Owned(i, w) /\ Settled(i.m, w, l) /\ i.m.connId = f.m.connId
    BY <2>2, <2>4, <2>5, <2>6
  <2> HIDE DEF i
  <2>8. Owned(j, w) /\ Calm(i, j)
    BY <2>1, <2>7, SendEventOwned
  <2>9. NobodyHolds(j, c)
    <3> SUFFICES ASSUME NEW k \in Links PROVE j.m.connId[k] # c
      BY DEF NobodyHolds
    <3>1. j.m.connId[k] = f.m.connId[k]
      BY <2>7, <2>8 DEF Calm
    <3>2. f.m.connId[k] # c
      BY <1>1, <1>2, <2>2, BleAssumption
    <3> QED BY <3>1, <3>2
  <2> HIDE DEF j
  <2> QED BY <1>1, <2>3, <2>8, <2>9
<1> QED BY <1>4, <1>5

LEMMA ConnCloseIndOwned ==
  ASSUME use \in Uses, Undirected, NEW h, NEW w, NEW v, NEW c \in Conns, Owned(h, w),
         Left(w, v, "ConnClose", c)
  PROVE  Owned(ConnCloseInd(h, c), v)
<1> DEFINE f == [h EXCEPT !.m.advDirected = FALSE, !.m.known = @ \ {c}]
           g == CheckValidRecord(f, h.m.dbHdl[c])
<1>1. /\ w \in Ways /\ v \in Ways /\ c \in w["ConnClose"]
      /\ w["PairInd"] = {} /\ w["PairCmpl"] = {}
  BY DEF Left, Tracked
<1>2. Calm(h, f) /\ f.m.state = h.m.state
  BY DEF Owned, Work, Modules, Calm
<1>3. Owned(f, w)
  BY <1>1, <1>2, CalmOwned
<1>4. h.m.dbHdl[c] \in Links \cup {None}
  BY Lookups DEF Owned
<1> HIDE DEF f
<1>5. Owned(g, w)
  <2>1. f \in Work
    BY <1>3 DEF Owned
  <2>2. Calm(f, g) /\ Keeps(f, g)
    BY <1>4, <2>1, CheckValidCalm, CheckValidKeeps
  <2> QED BY <1>1, <1>3, <2>2, CalmOwned DEF Keeps
<1> HIDE DEF g
<1>6. Owned(ConnectionGone(g, c), w) /\ NobodyHolds(ConnectionGone(g, c), c)
  BY <1>1, <1>5, LinkClosedOwned
<1>7. Owned(ConnectionGone(g, c), v)
  BY <1>6, DoneOwned
<1> QED BY <1>7 DEF ConnCloseInd, f, g
-----------------------------------------------------------------------------
(* A device connects.                                                      *)
LEMMA NewDeviceOwned ==
  ASSUME use \in Uses, Undirected, NEW h, NEW w \in Ways, Owned(h, w), NEW c \in Conns,
         NEW l \in Links, h.m.state[l] \in Advertising,
         NobodyHolds(h, c), h.m.ccb[c].state # "free" \/ c \in w["ConnClose"],
         c \notin w["ConnOpen"], w["PairInd"] = {}, h.m.dbHdl[c] = None
  PROVE  Owned(NewDevice(h, c, l), w)
<1>1. CASE Processed(h, "ConnOpenNew", l)
  <2> DEFINE f == SendEvent(h, "ConnOpenNew", l)
             g == [f EXCEPT !.m.lastNew = l, !.m.connId[l] = c]
  <2>1. Owned(f, w) /\ Calm(h, f)
    BY SendEventOwned
  <2>2. MovedTo(h, f, l, "ConnOpenNew")
    BY <1>1, SendEventCalm DEF Owned, Owns
  <2> HIDE DEF f
  <2>3. f.m.state[l] = "Connected"
    <3>1. PICK r \in Table[use.conf[l]] : /\ r.from = h.m.state[l] /\ r.event = "ConnOpenNew"
                                          /\ f.m.state = [h.m.state EXCEPT ![l] = r.to]
      BY <2>2 DEF MovedTo
    <3>2. SideRow(use.conf[l], r)
      BY SideRows, Configurations
    <3> QED BY <3>1, <3>2, WorkTypes DEF SideRow, Owned
  <2>4. NobodyHolds(f, c) /\ f.m.dbHdl[c] = None
        /\ (f.m.ccb[c].state # "free" \/ c \in w["ConnClose"])
        /\ f.m.connId[l] \notin InPairing(f.m, w)
    <3>1. h.m.connId[l] \notin InPairing(h.m, w)
      BY AdvertisingIsNotPairing
    <3> QED BY <2>1, <3>1 DEF Calm, NobodyHolds, InPairing
  <2>5. Owned(g, w)
    BY <2>1, <2>3, <2>4, AttachOwned
  <2> QED BY <1>1, <2>5 DEF NewDevice, f
<1>2. CASE ~Processed(h, "ConnOpenNew", l)
  <2> DEFINE f == SendEvent(h, "ConnFail", l)
  <2>1. Owned(f, w)
    BY SendEventOwned
  <2> HIDE DEF f
  <2>2. Owned([f EXCEPT !.m.lastNew = None], w)
    BY <2>1, ForgetOwned
  <2> QED BY <1>2, <2>2 DEF NewDevice, f
<1> QED BY <1>1, <1>2

LEMMA ConnOpenedOwned ==
  ASSUME use \in Uses, Undirected, NEW h, NEW w \in Ways, Owned(h, w), NEW c \in Conns,
         NEW l \in Links \cup {None}, l # None => l = h.m.dbHdl[c] /\ HasBond(h.m, l),
         NobodyHolds(h, c), h.m.ccb[c].state # "free" \/ c \in w["ConnClose"],
         c \notin w["ConnOpen"], w["PairInd"] = {}
  PROVE  Owned(ConnOpened(h, c, l), w)
<1>1. CASE Processed(h, "ConnOpen", l)
  <2> DEFINE f == SendEvent(h, "ConnOpen", l)
             g == [f EXCEPT !.m.lastNew = None, !.m.connId[l] = c]
  <2>1. l \in Links /\ l = h.m.dbHdl[c] /\ HasBond(h.m, l)
    BY <1>1 DEF Processed
  <2>2. h.m.connId[l] \notin InPairing(h.m, w)
    BY <2>1, PairingLink
  <2>3. MovedTo(h, f, l, "ConnOpen")
    BY <1>1, SendEventCalm DEF Owned, Owns
  <2>4. h.m.state[l] \notin NewSide
    <3>1. PICK r \in Table[use.conf[l]] : r.from = h.m.state[l] /\ r.event = "ConnOpen"
      BY <2>3 DEF MovedTo
    <3>2. SideRow(use.conf[l], r)
      BY <2>1, SideRows, Configurations
    <3> QED BY <3>1, <3>2 DEF SideRow
  <2>5. Settled(h.m, w, l)
    <3> SUFFICES ASSUME NEW d \in Conns, h.m.connId[l] = d PROVE h.m.dbHdl[d] = l
      BY <2>2 DEF Settled
    <3>1. HeldBy(h.m, w, l, d)
      BY <2>1 DEF Owned, Owns, Holds
    <3> QED BY <2>4, <3>1 DEF HeldBy
  <2>6. Owned(f, w) /\ Calm(h, f)
    BY <2>5, SendEventOwned
  <2> HIDE DEF f
  <2>7. NobodyHolds(f, c) /\ f.m.dbHdl[c] = l /\ f.m.connId[l] \notin InPairing(f.m, w)
        /\ (f.m.ccb[c].state # "free" \/ c \in w["ConnClose"])
    BY <2>1, <2>2, <2>6 DEF Calm, NobodyHolds, InPairing
  <2>8. Owned(g, w)
    BY <2>1, <2>6, <2>7, AttachOwned
  <2>9. [f EXCEPT !.m.connId[l] = c, !.m.lastNew = None] = g
    BY <2>6 DEF Owned, Work, Modules
  <2> QED BY <1>1, <2>8, <2>9 DEF ConnOpened, f
<1>2. CASE ~ Processed(h, "ConnOpen", l)
  <2> DEFINE f == ConnClosed(h, c)
  <2>1. NoneAccepts(h) /\ h \in Work
    BY DEF Owned, Owns, Plain, NoneAccepts
  <2>2. Calm(h, f) /\ Keeps(h, f)
    BY <2>1, ConnClosedCalm, ConnClosedKeeps
  <2> HIDE DEF f
  <2>3. Owned(f, w)
    BY <2>2, CalmOwned DEF Keeps
  <2>4. Owned([f EXCEPT !.m.lastNew = None], w)
    BY <2>3, ForgetOwned
  <2> QED BY <1>2, <2>4 DEF ConnOpened, f
<1> QED BY <1>1, <1>2

LEMMA KnownDeviceOwned ==
  ASSUME use \in Uses, Undirected, NEW h, NEW w \in Ways, Owned(h, w), NEW c \in Conns,
         NEW l \in Links, NobodyHolds(h, c), h.m.ccb[c].state # "free" \/ c \in w["ConnClose"],
         c \notin w["ConnOpen"], w["PairInd"] = {}
  PROVE  Owned(KnownDevice(h, c, l), w)
<1> DEFINE f == IF h.m.dbHdl[c] # l THEN SendEvent(h, "ConnFail", l) ELSE h
           d == GetLinkIdByConnId(h, c)
<1>1. Owned(f, w) /\ Calm(h, f)
  BY SendEventOwned, CalmItself DEF Owned
<1>2. d \in Links \cup {None} /\ (d # None => d = h.m.dbHdl[c] /\ HasBond(h.m, d) /\ d \in Links)
  BY Lookups, FoundLink DEF Owned, NobodyHolds
<1>3. KnownDevice(h, c, l) = ConnOpened(f, c, d)
  BY DEF KnownDevice
<1> HIDE DEF f, d
<1>4. (d # None => d = f.m.dbHdl[c] /\ HasBond(f.m, d)) /\ NobodyHolds(f, c)
      /\ (f.m.ccb[c].state # "free" \/ c \in w["ConnClose"])
  BY <1>1, <1>2 DEF Calm, HasBond, NobodyHolds
<1> QED BY <1>1, <1>2, <1>3, <1>4, ConnOpenedOwned

LEMMA ConnOpenIndOwned ==
  ASSUME use \in Uses, Undirected, NEW h, NEW w, NEW v, NEW c \in Conns, NEW p, Owned(h, w),
         Left(w, v, "ConnOpen", c)
  PROVE  Owned(ConnOpenInd(h, c, p), v)
<1> DEFINE runs == h.m.advRuns /\ h.m.advDirected
           hdl  == FindByAddr(h, p)
           adv  == GetAdvertisingLinkId(h)
           f == [h EXCEPT !.m.advRuns = runs, !.m.advDirected = FALSE,
                          !.m.known = @ \cup {c}, !.m.dbHdl[c] = hdl]
           n == h.m
           o == f.m
<1>1. hdl \in Links \cup {None} /\ runs \in BOOLEAN /\ h \in Work
  BY Lookups DEF Owned
<1>2. f = [h EXCEPT !.m.advRuns = @ /\ h.m.advDirected, !.m.advDirected = FALSE,
                    !.m.known = @ \cup {c}, !.m.dbHdl[c] = FindByAddr(h, p)]
  OBVIOUS
<1>3. ConnOpenInd(h, c, p) = cbConnOpen(f, c, adv)
  BY <1>2 DEF ConnOpenInd
<1> HIDE DEF runs, hdl
<1>4. f \in Work
  BY <1>1 DEF Work, Modules
<1>5. /\ o.connId = n.connId /\ o.pairing = n.pairing /\ o.state = n.state
      /\ o.ccb = n.ccb /\ o.rec = n.rec /\ o.lastNew = n.lastNew
      /\ \A d \in Conns \ {c} : o.dbHdl[d] = n.dbHdl[d]
      /\ f.sched = h.sched /\ f.inds = h.inds
  BY <1>1 DEF Work, Modules
<1>6. /\ w \in Ways /\ v \in Ways /\ c \in w["ConnOpen"] /\ c \notin v["ConnOpen"]
      /\ w["PairInd"] = {} /\ v["PairInd"] = {} /\ v["PairCmpl"] = w["PairCmpl"]
      /\ v["PairFail"] = w["PairFail"] /\ v["ConnClose"] = w["ConnClose"]
      /\ v["ConnOpen"] \subseteq w["ConnOpen"]
  BY DEF Left, Tracked
<1>7. NobodyHolds(h, c)
  BY <1>6, NobodyHoldsNew
<1>8. /\ Plain(n) /\ Holds(n, w) /\ PairsHere(n, w) /\ LastNewHere(n, w) /\ EndsHere(n, w)
      /\ Range(h.sched) \subseteq {Kick, Pop} /\ h.inds = <<>> /\ \A l \in Links : n.connId[l] # c
  BY <1>7 DEF Owned, Owns, NobodyHolds
<1>9. InPairing(n, w) \subseteq Conns \ {c}
  <2>1. InPairing(n, w) \subseteq Conns
    BY <1>1, <1>6 DEF InPairing, Ways, Tracked, Work, Modules
  <2> QED BY <1>8, <2>1 DEF PairsHere
<1> HIDE DEF adv, n, o
<1>10. Plain(o) /\ EndsHere(o, v) /\ PairsHere(o, v) /\ LastNewHere(o, v)
  <2>1. Plain(o) /\ EndsHere(o, v)
    BY <1>5, <1>6, <1>8 DEF Plain, EndsHere
  <2>2. PairsHere(o, v)
    BY <1>5, <1>6, <1>8, <1>9 DEF PairsHere, InPairing, HasBond
  <2>3. LastNewHere(o, v)
    BY <1>5, <1>6, <1>8 DEF LastNewHere, InPairing
  <2> QED BY <2>1, <2>2, <2>3
<1>11. Holds(o, v)
  <2> SUFFICES ASSUME NEW l \in Links, NEW d \in Conns, o.connId[l] = d PROVE HeldBy(o, v, l, d)
    BY DEF Holds
  <2>1. HeldBy(n, w, l, d) /\ d # c
    BY <1>5, <1>8 DEF Holds
  <2> QED BY <1>5, <1>6, <2>1 DEF HeldBy, InPairing
<1>12. Owned(f, v)
  BY <1>4, <1>5, <1>8, <1>10, <1>11 DEF Owned, Owns, o
<1>13. NobodyHolds(f, c) /\ (f.m.ccb[c].state # "free" \/ c \in v["ConnClose"])
  BY <1>5, <1>6, <1>8 DEF NobodyHolds, EndsHere, o
<1>14. adv # None => adv \in Links /\ f.m.state[adv] \in Advertising
  BY <1>1, <1>5, AdvertisingLink DEF adv, n, o
<1> HIDE DEF f
<1>15. CASE adv = None
  <2>1. NoneAccepts(f) /\ f \in Work
    BY <1>12 DEF Owned, Owns, Plain, NoneAccepts
  <2>2. Calm(f, ConnClosed(f, c)) /\ Keeps(f, ConnClosed(f, c))
    BY <2>1, ConnClosedCalm, ConnClosedKeeps
  <2>3. Owned(ConnClosed(f, c), v)
    BY <1>6, <1>12, <2>2, CalmOwned DEF Keeps
  <2> QED BY <1>3, <1>15, <2>3 DEF cbConnOpen
<1>16. CASE adv # None /\ f.m.dbHdl[c] = None
  <2>1. Owned(NewDevice(f, c, adv), v)
    BY <1>6, <1>12, <1>13, <1>14, <1>16, NewDeviceOwned
  <2> QED BY <1>3, <1>16, <2>1 DEF cbConnOpen
<1>17. CASE adv # None /\ f.m.dbHdl[c] # None
  <2>1. Owned(KnownDevice(f, c, adv), v)
    BY <1>6, <1>12, <1>13, <1>14, <1>17, KnownDeviceOwned
  <2> QED BY <1>3, <1>17, <2>1 DEF cbConnOpen
<1> QED BY <1>15, <1>16, <1>17
-----------------------------------------------------------------------------
(* A device pairs.  The answer that it may not is sent by the handler.     *)
LEMMA PairIndOwned ==
  ASSUME NEW h, NEW w, NEW v, NEW c \in Conns, NEW p \in Peers, Owned(h, w),
         Left(w, v, "PairInd", c)
  PROVE  \/ Owned(PairInd(h, c, p), v)
         \/ PairInd(h, c, p) = Sent(h, [event |-> "PairFail", conn |-> c])
            /\ Owned(h, [v EXCEPT !["PairFail"] = @ \cup {c}])
<1> DEFINE l == h.m.lastNew
           n == h.m
<1>1. /\ w \in Ways /\ v \in Ways /\ c \in w["PairInd"]
      /\ v["PairInd"] = {} /\ v["PairCmpl"] = {} /\ w["PairCmpl"] = {}
      /\ v["PairFail"] = w["PairFail"] /\ v["ConnClose"] = w["ConnClose"]
      /\ v["ConnOpen"] = w["ConnOpen"]
  BY DEF Left, Tracked
<1>2. /\ Plain(n) /\ Holds(n, w) /\ PairsHere(n, w) /\ LastNewHere(n, w) /\ EndsHere(n, w)
      /\ Range(h.sched) \subseteq {Kick, Pop} /\ h.inds = <<>> /\ h \in Work
  BY DEF Owned, Owns
<1>3. l \in Links /\ n.connId[l] = c /\ n.dbHdl[c] = None /\ l # None
  BY <1>1, <1>2, BleAssumption DEF LastNewHere
<1>4. HeldBy(n, w, l, c)
  BY <1>2, <1>3 DEF Holds
<1>5. CASE ~h.m.bondable
  <2> DEFINE u == [v EXCEPT !["PairFail"] = @ \cup {c}]
  <2>1. PairInd(h, c, p) = Sent(h, [event |-> "PairFail", conn |-> c])
    BY <1>5 DEF PairInd
  <2>2. /\ u["PairInd"] = {} /\ u["PairCmpl"] = {} /\ u["PairFail"] = w["PairFail"] \cup {c}
        /\ u["ConnClose"] = w["ConnClose"] /\ u["ConnOpen"] = w["ConnOpen"]
    BY <1>1 DEF Ways, Tracked
  <2> HIDE DEF u, n
  <2>3. Holds(n, u)
    <3> SUFFICES ASSUME NEW k \in Links, NEW d \in Conns, n.connId[k] = d PROVE HeldBy(n, u, k, d)
      BY DEF Holds
    <3>1. HeldBy(n, w, k, d)
      BY <1>2 DEF Holds
    <3> QED BY <1>1, <2>2, <3>1 DEF HeldBy, InPairing
  <2>4. PairsHere(n, u) /\ LastNewHere(n, u) /\ EndsHere(n, u)
    BY <1>1, <1>2, <2>2 DEF PairsHere, LastNewHere, EndsHere, InPairing
  <2>5. Owned(h, u)
    BY <1>2, <2>3, <2>4 DEF Owned, Owns, n
  <2> QED BY <2>1, <2>5 DEF u
<1>6. CASE h.m.bondable
  <2> DEFINE on == IF h.m.ccb[c].state = "open" THEN [h EXCEPT !.m.pairing = @ \cup {c}] ELSE h
             r  == [peer |-> p, valid |-> FALSE]
             g  == [on EXCEPT !.m.dbHdl[c] = l, !.m.rec[l] = r]
             o  == g.m
  <2>1. PairInd(h, c, p) = g
    BY <1>3, <1>6 DEF PairInd
  <2>2. on \in Work /\ on.sched = h.sched /\ on.inds = h.inds
        /\ on.m.connId = n.connId /\ on.m.dbHdl = n.dbHdl /\ on.m.state = n.state
        /\ on.m.ccb = n.ccb /\ on.m.rec = n.rec /\ on.m.lastNew = n.lastNew
        /\ on.m.pairing = IF n.ccb[c].state = "open" THEN n.pairing \cup {c} ELSE n.pairing
    BY <1>2 DEF Work, Modules
  <2> HIDE DEF on, l, n
  <2>3. g \in Work /\ g.sched = h.sched /\ g.inds = h.inds
    BY <1>3, <2>2 DEF Work, Modules
  <2>4. /\ o.connId = n.connId /\ o.state = n.state /\ o.ccb = n.ccb /\ o.lastNew = n.lastNew
        /\ o.pairing = (IF n.ccb[c].state = "open" THEN n.pairing \cup {c} ELSE n.pairing)
        /\ o.dbHdl[c] = l /\ ~HasBond(o, l)
        /\ \A d \in Conns \ {c} : o.dbHdl[d] = n.dbHdl[d]
        /\ \A k \in Links \ {l} : o.rec[k] = n.rec[k]
    BY <1>3, <2>2 DEF Work, Modules, HasBond
  <2> HIDE DEF g
  <2>5. Plain(o) /\ EndsHere(o, v)
    BY <1>1, <1>2, <2>4 DEF Plain, EndsHere
  <2>6. InPairing(o, v) \subseteq InPairing(n, w) \cup {c} /\ InPairing(n, w) \subseteq Conns
    BY <1>1, <1>2, <2>4 DEF InPairing, Work, Modules, n
  <2>7. PairsHere(o, v)
    <3> SUFFICES ASSUME NEW d \in InPairing(o, v)
                 PROVE  o.dbHdl[d] \in Links /\ o.connId[o.dbHdl[d]] = d /\ ~HasBond(o, o.dbHdl[d])
      BY DEF PairsHere
    <3>1. CASE d = c
      BY <1>3, <2>4, <3>1
    <3>2. CASE d # c
      <4>1. n.dbHdl[d] \in Links /\ n.connId[n.dbHdl[d]] = d /\ ~HasBond(n, n.dbHdl[d])
            /\ o.dbHdl[d] = n.dbHdl[d]
        BY <1>2, <2>4, <2>6, <3>2 DEF PairsHere
      <4>2. n.dbHdl[d] # l
        BY <1>3, <3>2, <4>1
      <4> QED BY <2>4, <4>1, <4>2 DEF HasBond
    <3> QED BY <3>1, <3>2
  <2>8. LastNewHere(o, v)
    BY <1>1, <1>2, <1>3, <2>4 DEF LastNewHere, InPairing, l, n
  <2>9. Holds(o, v)
    <3> SUFFICES ASSUME NEW k \in Links, NEW d \in Conns, o.connId[k] = d PROVE HeldBy(o, v, k, d)
      BY DEF Holds
    <3>1. HeldBy(n, w, k, d)
      BY <1>2, <2>4 DEF Holds
    <3>2. CASE d = c
      <4>1. k = l
        BY <1>4, <2>4, <3>2 DEF HeldBy
      <4> QED BY <1>1, <1>3, <2>4, <3>1, <3>2, <4>1 DEF HeldBy
    <3>3. CASE d # c
      BY <1>1, <2>4, <2>6, <3>1, <3>3 DEF HeldBy
    <3> QED BY <3>2, <3>3
  <2>10. Owned(g, v)
    BY <1>2, <2>3, <2>5, <2>7, <2>8, <2>9 DEF Owned, Owns, n
  <2> QED BY <2>1, <2>10
<1> QED BY <1>5, <1>6
-----------------------------------------------------------------------------
(* Pairing ends: the record is valid before the link is told, which is     *)
(* then on the other side.                                                 *)
LEMMA ValidatedOwned ==
  ASSUME NEW h, NEW w, NEW v, NEW c \in Conns, Owned(h, w), Left(w, v, "PairCmpl", c)
  PROVE  LET f == Validated(h, h.m.dbHdl[c])
             u == [v EXCEPT !["PairFail"] = @ \cup {c}]
         IN /\ Owned(f, u) /\ u \in Ways
            /\ h.m.dbHdl[c] \in Links /\ f.m.connId[h.m.dbHdl[c]] = c
            /\ f.m.dbHdl[c] = h.m.dbHdl[c] /\ c \notin InPairing(f.m, u)
            /\ u["PairInd"] = {} /\ u["PairCmpl"] = v["PairCmpl"]
            /\ u["ConnClose"] = v["ConnClose"] /\ u["ConnOpen"] = v["ConnOpen"]
<1> DEFINE n == h.m
           l == n.dbHdl[c]
           good == [h.m.rec[l] EXCEPT !.valid = TRUE]
           f == [h EXCEPT !.m.rec[l] = good]
           o == f.m
           u == [v EXCEPT !["PairFail"] = @ \cup {c}]
<1>1. /\ w \in Ways /\ v \in Ways /\ c \in w["PairCmpl"] /\ w["PairInd"] = {}
      /\ v["PairInd"] = {} /\ v["PairCmpl"] = {} /\ w["PairCmpl"] = {c}
      /\ v["PairFail"] = w["PairFail"] /\ v["ConnClose"] = w["ConnClose"]
      /\ v["ConnOpen"] = w["ConnOpen"]
  BY DEF Left, Tracked
<1>2. /\ Plain(n) /\ Holds(n, w) /\ PairsHere(n, w) /\ LastNewHere(n, w) /\ EndsHere(n, w)
      /\ Range(h.sched) \subseteq {Kick, Pop} /\ h.inds = <<>> /\ h \in Work
  BY DEF Owned, Owns
<1>3. l \in Links /\ n.connId[l] = c /\ l # None
  BY <1>1, <1>2, BleAssumption DEF PairsHere, InPairing
<1>4. HeldBy(n, w, l, c)
  BY <1>2, <1>3 DEF Holds
<1>5. Validated(h, l) = f
  BY <1>3 DEF Validated
<1>6. good \in Record
  <2>1. h \in Work /\ l \in Links
    BY <1>2, <1>3
  <2> HIDE DEF l
  <2>2. h.m.rec[l] \in Record
    BY <2>1, Elements
  <2> QED BY <2>2 DEF Record
<1> HIDE DEF good
<1>7. f \in Work /\ f.sched = h.sched /\ f.inds = h.inds
      /\ o.connId = n.connId /\ o.dbHdl = n.dbHdl /\ o.state = n.state /\ o.ccb = n.ccb
      /\ o.lastNew = n.lastNew /\ o.pairing = n.pairing
      /\ \A k \in Links \ {l} : o.rec[k] = n.rec[k]
  BY <1>2, <1>3, <1>6 DEF Work, Modules, Record
<1>8. /\ u["PairInd"] = {} /\ u["PairCmpl"] = {} /\ u["PairFail"] = w["PairFail"] \cup {c}
      /\ u["ConnClose"] = w["ConnClose"] /\ u["ConnOpen"] = w["ConnOpen"] /\ u \in Ways
  BY <1>1 DEF Ways, Tracked
<1> HIDE DEF f, u, l, n
<1>9. InPairing(o, u) = n.pairing /\ c \notin n.pairing /\ InPairing(n, w) = n.pairing \cup {c}
      /\ n.pairing \subseteq Conns
  BY <1>1, <1>2, <1>7, <1>8 DEF InPairing, EndsHere, Work, Modules, n
<1>10. Plain(o) /\ EndsHere(o, u)
  BY <1>1, <1>2, <1>7, <1>8 DEF Plain, EndsHere
<1>11. PairsHere(o, u)
  <2> SUFFICES ASSUME NEW d \in n.pairing
               PROVE  o.dbHdl[d] \in Links /\ o.connId[o.dbHdl[d]] = d /\ ~HasBond(o, o.dbHdl[d])
    BY <1>9 DEF PairsHere
  <2>1. n.dbHdl[d] \in Links /\ n.connId[n.dbHdl[d]] = d /\ ~HasBond(n, n.dbHdl[d]) /\ d # c
    BY <1>2, <1>9 DEF PairsHere
  <2>2. n.dbHdl[d] # l
    BY <1>3, <2>1
  <2> QED BY <1>7, <2>1, <2>2 DEF HasBond
<1>12. LastNewHere(o, u)
  BY <1>2, <1>7, <1>8, <1>9 DEF LastNewHere
<1>13. Holds(o, u)
  <2> SUFFICES ASSUME NEW k \in Links, NEW d \in Conns, o.connId[k] = d PROVE HeldBy(o, u, k, d)
    BY DEF Holds
  <2>1. HeldBy(n, w, k, d)
    BY <1>2, <1>7 DEF Holds
  <2> QED BY <1>7, <1>8, <1>9, <2>1 DEF HeldBy
<1>14. Owned(f, u)
  BY <1>2, <1>7, <1>10, <1>11, <1>12, <1>13 DEF Owned, Owns
<1>15. o.connId[l] = c /\ o.dbHdl[c] = l /\ c \notin InPairing(o, u)
  BY <1>3, <1>7, <1>9 DEF l
<1> QED BY <1>1, <1>3, <1>5, <1>8, <1>14, <1>15 DEF f, l, n, u

LEMMA PairCmplIndOwned ==
  ASSUME use \in Uses, Undirected, NEW h, NEW w, NEW v, NEW c \in Conns, Owned(h, w),
         Left(w, v, "PairCmpl", c)
  PROVE  Owned(PairCmplInd(h, c), v)
<1> DEFINE f == Validated(h, h.m.dbHdl[c])
           u == [v EXCEPT !["PairFail"] = @ \cup {c}]
           l == h.m.dbHdl[c]
           g == SendEvent(f, "PairComplete", l)
<1>1. /\ Owned(f, u) /\ u \in Ways
      /\ l \in Links /\ f.m.connId[l] = c
      /\ f.m.dbHdl[c] = l /\ c \notin InPairing(f.m, u)
      /\ u["PairInd"] = {} /\ u["PairCmpl"] = v["PairCmpl"]
      /\ u["ConnClose"] = v["ConnClose"] /\ u["ConnOpen"] = v["ConnOpen"]
  BY ValidatedOwned
<1>2. v \in Ways /\ v["PairInd"] = {}
  BY DEF Left
<1> HIDE DEF f, u, l
<1>3. GetLinkIdByConnId(f, c) = l
  BY <1>1, HolderFound
<1>4. Settled(f.m, u, l)
  BY <1>1 DEF Settled
<1>5. Owned(g, u)
  BY <1>1, <1>4, SendEventOwned
<1> HIDE DEF g
<1>6. Owned([g EXCEPT !.m.lastNew = None], v)
  BY <1>1, <1>2, <1>5, ForgetOwned
<1> QED BY <1>3, <1>6 DEF PairCmplInd, PairComplete, f, l, g

LEMMA PairFailIndOwned ==
  ASSUME use \in Uses, Undirected, NEW h, NEW w, NEW v, NEW c \in Conns, Owned(h, w),
         Left(w, v, "PairFail", c)
  PROVE  Owned(PairFailInd(h, c), v)
<1> DEFINE g == SendEvent(h, "PairFail", GetLinkIdByConnId(h, c))
<1>1. /\ w \in Ways /\ v \in Ways /\ v["PairInd"] = {} /\ v["PairCmpl"] = w["PairCmpl"]
      /\ v["ConnClose"] = w["ConnClose"] /\ v["ConnOpen"] = w["ConnOpen"]
  BY DEF Left, Tracked
<1>2. Owned(g, w)
  <2>1. GetLinkIdByConnId(h, c) \in Links \cup {None}
    BY Lookups DEF Owned
  <2> QED BY <1>1, <2>1, SendEventOwned
<1> HIDE DEF g
<1>3. Owned([g EXCEPT !.m.lastNew = None], v)
  BY <1>1, <1>2, ForgetOwned
<1> QED BY <1>3 DEF PairFailInd, g

(* Messages that are not tracked leave what is under way.                  *)
LEMMA LeftUntracked ==
  ASSUME NEW w, NEW v, NEW e, NEW c, Left(w, v, e, c), e \notin Tracked
  PROVE  w = v /\ w \in Ways /\ w["PairInd"] = {}
BY DEF Left, Ways

LEMMA HandleOwned ==
  ASSUME use \in Uses, Undirected, NEW h, NEW w, NEW v, NEW i \in Inds, i.event # "ResetCmpl",
         Owned(h, w), Left(w, v, i.event, i.conn)
  PROVE  \/ Owned(Handle(h, i), v)
         \/ /\ i.event = "PairInd" /\ i.conn \in Conns
            /\ Handle(h, i) = Sent(h, [event |-> "PairFail", conn |-> i.conn])
            /\ Owned(h, [v EXCEPT !["PairFail"] = @ \cup {i.conn}])
<1>1. CASE i.event = "AdvStop"
  <2>1. w = v /\ w \in Ways /\ w["PairInd"] = {}
    BY <1>1, LeftUntracked DEF Tracked
  <2> QED BY <1>1, <2>1, AdvStopIndOwned DEF Handle
<1>2. CASE i.event = "ConnClose"
  BY <1>2, ConnCloseIndOwned DEF Handle, Inds
<1>3. CASE i.event = "ConnOpen"
  BY <1>3, ConnOpenIndOwned DEF Handle, Inds
<1>4. CASE i.event = "PairInd"
  <2>1. i.conn \in Conns /\ i.peer \in Peers /\ Left(w, v, "PairInd", i.conn)
    BY <1>4 DEF Inds
  <2>2. Handle(h, i) = PairInd(h, i.conn, i.peer)
    BY <1>4 DEF Handle
  <2> QED BY <1>4, <2>1, <2>2, PairIndOwned
<1>5. CASE i.event = "PairCmpl"
  BY <1>5, PairCmplIndOwned DEF Handle, Inds
<1>6. CASE i.event = "PairFail"
  BY <1>6, PairFailIndOwned DEF Handle, Inds
<1>7. CASE i.event \in {"Encrypt", "EncryptFail"}
  <2>1. w = v /\ w \in Ways
    BY <1>7, LeftUntracked DEF Tracked
  <2>2. GetLinkIdByConnId(h, i.conn) \in Links \cup {None}
    BY <1>7, Lookups DEF Owned, Inds
  <2>3. \A e \in {"SecurityEstablished", "SecurityFail"} :
          Owned(SendEvent(h, e, GetLinkIdByConnId(h, i.conn)), v)
    BY <2>1, <2>2, SendEventOwned
  <2>4. CASE i.event = "Encrypt"
    BY <2>3, <2>4 DEF Handle
  <2>5. CASE i.event = "EncryptFail"
    BY <2>3, <2>5 DEF Handle
  <2> QED BY <1>7, <2>4, <2>5
<1> QED BY <1>1, <1>2, <1>3, <1>4, <1>5, <1>6, <1>7 DEF Inds

(* At start no link has a connection.                                      *)
LEMMA ResetCmplOwned ==
  ASSUME NEW h, NEW w, NEW v, NEW c, Owned(h, w), Left(w, v, "ResetCmpl", c),
         \A l \in Links : h.m.connId[l] = None, NEW q \in InOrder(Reconnects(h))
  PROVE  Owned(ResetCmpl(h, q), v)
<1> DEFINE st == [l \in Links |-> ResetState(h, q, l)]
           f  == [h EXCEPT !.m.queue = q]
           g  == [f EXCEPT !.m.state = st]
           n == h.m
           o == g.m
<1>1. w = v /\ w \in Ways /\ w["PairInd"] = {} /\ h \in Work
  BY LeftUntracked DEF Tracked, Owned
<1>2. ResetCmpl(h, q) \in Work /\ ResetCmpl(h, q) \in {g, Listed(g, Kick)}
  <2>1. Good(ResetCmpl(h, q), FALSE)
    BY <1>1, ResetCmplGood
  <2>2. [h EXCEPT !.m.queue = q, !.m.state = st] = g
    BY <1>1 DEF Work, Modules
  <2> QED BY <2>1, <2>2 DEF ResetCmpl, Good
<1>3. \A l \in Links : st[l] \notin Directed
  BY DEF ResetState, Directed
<1>4. Listed(g, Kick).m = o /\ Listed(g, Kick).inds = g.inds
      /\ Listed(g, Kick).sched = Append(h.sched, Kick) /\ g.sched = h.sched /\ g.inds = h.inds
  BY <1>1 DEF Listed, Work
<1>5. /\ o.connId = n.connId /\ o.dbHdl = n.dbHdl /\ o.ccb = n.ccb /\ o.rec = n.rec
      /\ o.lastNew = n.lastNew /\ o.pairing = n.pairing /\ o.state = st
  BY <1>1 DEF Work, Modules
<1> HIDE DEF st, g, n
<1>6. /\ Plain(n) /\ Holds(n, w) /\ PairsHere(n, w) /\ LastNewHere(n, w) /\ EndsHere(n, w)
      /\ Range(h.sched) \subseteq {Kick, Pop} /\ h.inds = <<>> /\ None \notin Conns
      /\ \A l \in Links : n.connId[l] = None
  BY BleAssumption DEF Owned, Owns, n
<1>7. InPairing(n, w) \subseteq Conns
  BY <1>1 DEF InPairing, Ways, Tracked, Work, Modules, n
<1>8. Plain(o) /\ Holds(o, w) /\ PairsHere(o, w) /\ LastNewHere(o, w) /\ EndsHere(o, w)
  BY <1>3, <1>5, <1>6, <1>7 DEF Plain, Holds, PairsHere, LastNewHere, EndsHere, InPairing, HasBond
<1>9. Range(Append(h.sched, Kick)) = Range(h.sched) \cup {Kick}
  BY <1>1, AppendRange DEF Work, SchedEvents
<1>10. /\ ResetCmpl(h, q).m = o /\ ResetCmpl(h, q).inds = <<>>
       /\ Range(ResetCmpl(h, q).sched) \subseteq {Kick, Pop}
  BY <1>2, <1>4, <1>6, <1>9
<1> QED BY <1>1, <1>2, <1>8, <1>10 DEF Owned, Owns
-----------------------------------------------------------------------------
(* The scheduler's events, and the application.                            *)
LEMMA PoppedOwned ==
  ASSUME NEW h, NEW w \in Ways, Owned(h, w)
  PROVE  Owned(Popped(h), w) /\ Popped(h).m.connId = h.m.connId
<1> DEFINE r == [calls |-> {"pop"}]
           l == 1
<1>1. Popped(h).m.state = h.m.state /\ l \in Links
  BY PoppedEffect, BleAssumption DEF Owned, Links
<1>2. Leaves(h, r, l) = Popped(h)
  BY DEF Leaves
<1>3. Calm(h, Popped(h))
  BY <1>1, <1>2, LeavesCalm DEF Owned
<1> QED BY <1>1, <1>3, CalmOwned DEF Calm

LEMMA KickedOwned ==
  ASSUME use \in Uses, Undirected, NEW h, NEW w \in Ways, Owned(h, w)
  PROVE  Owned(Kicked(h), w) /\ Kicked(h).m.connId = h.m.connId
<1>1. CASE h.m.queue = <<>>
  BY <1>1 DEF Kicked
<1>2. CASE h.m.queue # <<>>
  <2>1. Head(h.m.queue) \in Links
    BY <1>2, WorkTypes, HeadTailProperties DEF Owned
  <2>2. /\ Owned(SendEvent(h, "AdvAvail", Head(h.m.queue)), w)
        /\ Calm(h, SendEvent(h, "AdvAvail", Head(h.m.queue)))
    BY <2>1, SendEventOwned
  <2>3. Owned(Listed(h, Pop), w) /\ Listed(h, Pop).m = h.m
    <3>1. Pop \in SchedEvents /\ h \in Work
      BY DEF SchedEvents, Owned
    <3>2. Keeps(h, Listed(h, Pop)) /\ Range(Listed(h, Pop).sched) = Range(h.sched) \cup {Pop}
          /\ Listed(h, Pop).m = h.m /\ Listed(h, Pop).inds = h.inds
      BY <3>1, ListedKeeps DEF Listed, Work
    <3> QED BY <3>2 DEF Owned, Keeps
  <2> QED BY <1>2, <2>2, <2>3 DEF Kicked, Calm
<1> QED BY <1>1, <1>2

LEMMA RequestOwned ==
  ASSUME use \in Uses, Undirected, NEW h, NEW w \in Ways, Owned(h, w), NEW e \in AppEvents,
         NEW l \in Links
  PROVE  Owned(Request(h, e, l), w) /\ Request(h, e, l).m.connId = h.m.connId
<1> DEFINE f == SendEvent(h, e, l)
           gone == [f.m.rec[l] EXCEPT !.peer = None]
           g == [f EXCEPT !.m.rec[l].peer = None]
           n == f.m
           o == g.m
<1>1. Owned(f, w) /\ f \in Work /\ n.connId = h.m.connId
  BY SendEventOwned DEF AppEvents, Owned, Calm
<1> HIDE DEF f
<1>2. gone \in Record /\ gone.peer = None
  BY <1>1, Elements DEF Record
<1>3. g = [f EXCEPT !.m.rec[l] = gone]
  OBVIOUS
<1> HIDE DEF gone
<1>4. g \in Work /\ g.sched = f.sched /\ g.inds = f.inds
  <2>1. g \in Work
    <3> HIDE DEF g
    <3> QED BY <1>1, <1>2, <1>3, RecordKeeps DEF Keeps
  <2> QED BY <1>1, <2>1 DEF Work
<1>5. /\ o.connId = n.connId /\ o.dbHdl = n.dbHdl /\ o.ccb = n.ccb /\ o.state = n.state
      /\ o.lastNew = n.lastNew /\ o.pairing = n.pairing
      /\ \A k \in Links \ {l} : o.rec[k] = n.rec[k]
      /\ ~HasBond(o, l)
  BY <1>1, <1>2, <1>3 DEF Work, Modules, HasBond
<1> HIDE DEF g, n
<1>6. /\ Plain(n) /\ Holds(n, w) /\ PairsHere(n, w) /\ LastNewHere(n, w) /\ EndsHere(n, w)
  BY <1>1 DEF Owned, Owns, n
<1>7. Plain(o) /\ PairsHere(o, w) /\ LastNewHere(o, w) /\ EndsHere(o, w)
  <2>1. PairsHere(o, w)
    BY <1>5, <1>6 DEF PairsHere, InPairing, HasBond
  <2> QED BY <1>5, <1>6, <2>1 DEF Plain, LastNewHere, EndsHere, InPairing
<1>8. Holds(o, w)
  <2> SUFFICES ASSUME NEW k \in Links, NEW d \in Conns, o.connId[k] = d PROVE HeldBy(o, w, k, d)
    BY DEF Holds
  <2>1. HeldBy(n, w, k, d)
    BY <1>5, <1>6 DEF Holds
  <2> QED BY <1>5, <2>1 DEF HeldBy, InPairing
<1>9. Owned(g, w)
  BY <1>1, <1>4, <1>7, <1>8 DEF Owned, Owns
<1> QED BY <1>1, <1>5, <1>9 DEF Request, f, g, n
-----------------------------------------------------------------------------
(* The messages under way, and their order: those of pairing, and that the *)
(* host stack is reset, are sent when no others are, and a connection      *)
(* begins after all that was said of its id.                               *)
About(q, e) == {c \in Conns : \E i \in 1 .. Len(q) : q[i].event = e /\ q[i].conn = c}
Underway(q) == [e \in Tracked |-> About(q, e)]
AtStart(q)  == \E i \in 1 .. Len(q) : q[i].event = "ResetCmpl"

InOrderOf(q) ==
  /\ \A i \in 1 .. Len(q) : q[i].event \in {"ResetCmpl", "PairInd", "PairCmpl"} => i = 1
  /\ \A i, j \in 1 .. Len(q) : i < j /\ q[j].event = "ConnOpen" => q[i].conn # q[j].conn

LEMMA FirstTaken ==
  ASSUME NEW q \in Seq(Inds), q # <<>>, InOrderOf(q)
  PROVE  /\ InOrderOf(Tail(q)) /\ ~AtStart(Tail(q))
         /\ Left(Underway(q), Underway(Tail(q)), Head(q).event, Head(q).conn)
<1> DEFINE t == Tail(q)
           x == Head(q)
<1>1. /\ Len(q) \in Nat \ {0} /\ Len(t) = Len(q) - 1 /\ x = q[1] /\ x \in Inds
      /\ \A i \in 1 .. Len(t) : t[i] = q[i + 1]
  BY HeadTailProperties, EmptySeq, LenProperties
<1> HIDE DEF t, x
<1>2. \A i \in 1 .. Len(t) : i + 1 \in 1 .. Len(q) /\ i + 1 # 1 /\ t[i] = q[i + 1] /\ 1 < i + 1
  BY <1>1
<1>3. 1 \in 1 .. Len(q)
  BY <1>1
<1>4. \A i \in 1 .. Len(t) : /\ t[i].event \notin {"ResetCmpl", "PairInd", "PairCmpl"}
                             /\ t[i].event = "ConnOpen" => t[i].conn # x.conn
  BY <1>1, <1>2, <1>3 DEF InOrderOf
<1>5. InOrderOf(t) /\ ~AtStart(t)
  <2>1. ASSUME NEW i \in 1 .. Len(t), NEW j \in 1 .. Len(t), i < j, t[j].event = "ConnOpen"
        PROVE  t[i].conn # t[j].conn
    <3>1. i + 1 < j + 1
      BY <2>1
    <3> QED BY <1>2, <2>1, <3>1 DEF InOrderOf
  <2> QED BY <1>4, <2>1 DEF InOrderOf, AtStart
<1>6. ASSUME NEW e, NEW c \in Conns
      PROVE  c \in About(q, e) <=> (x.event = e /\ x.conn = c) \/ c \in About(t, e)
  <2>1. ASSUME c \in About(q, e) PROVE (x.event = e /\ x.conn = c) \/ c \in About(t, e)
    <3>1. PICK i \in 1 .. Len(q) : q[i].event = e /\ q[i].conn = c
      BY <2>1 DEF About
    <3>2. CASE i = 1
      BY <1>1, <3>1, <3>2
    <3>3. CASE i # 1
      <4>1. i - 1 \in 1 .. Len(t) /\ i - 1 + 1 = i
        BY <1>1, <3>3
      <4>2. t[i - 1] = q[i]
        BY <1>2, <4>1
      <4> QED BY <3>1, <4>1, <4>2 DEF About
    <3> QED BY <3>2, <3>3
  <2>2. ASSUME c \in About(t, e) PROVE c \in About(q, e)
    BY <1>2, <2>2 DEF About
  <2>3. ASSUME x.event = e, x.conn = c PROVE c \in About(q, e)
    BY <1>1, <1>3, <2>3 DEF About
  <2> QED BY <2>1, <2>2, <2>3
<1>7. Underway(q) \in Ways /\ Underway(t) \in Ways
  BY DEF Underway, Ways, About
<1>8. \A e \in Tracked : Underway(q)[e] = About(q, e) /\ Underway(t)[e] = About(t, e)
                         /\ About(q, e) \subseteq Conns /\ About(t, e) \subseteq Conns
  BY DEF Underway, About
<1>9. About(t, "PairInd") = {} /\ About(t, "PairCmpl") = {} /\ x.conn \notin About(t, "ConnOpen")
  BY <1>4 DEF About
<1>10. x.event \in Tracked => x.conn \in Conns
  BY <1>1 DEF Tracked, Inds
<1>11. \A e \in Tracked \ {x.event} : About(t, e) = About(q, e)
  BY <1>6, <1>8
<1>12. x.event \in Tracked => /\ x.conn \in About(q, x.event)
                              /\ About(t, x.event) \subseteq About(q, x.event)
                              /\ About(q, x.event) \subseteq About(t, x.event) \cup {x.conn}
  BY <1>6, <1>8, <1>10
<1>13. Left(Underway(q), Underway(t), x.event, x.conn)
  <2>1. {"PairInd", "PairCmpl", "ConnOpen"} \subseteq Tracked
    BY DEF Tracked
  <2> HIDE DEF Underway, About, Tracked
  <2> QED BY <1>7, <1>8, <1>9, <1>11, <1>12, <2>1 DEF Left
<1> QED BY <1>5, <1>13 DEF t, x

(* A message is sent: what is under way then.                              *)
With(w, i) == [e \in Tracked |-> w[e] \cup {c \in Conns : i.event = e /\ i.conn = c}]

LEMMA OneSent ==
  ASSUME NEW q \in Seq(Inds), NEW i \in Inds, InOrderOf(q), i.event # "ResetCmpl",
         i.event \in {"PairInd", "PairCmpl"} => q = <<>>,
         i.event = "ConnOpen" => \A j \in 1 .. Len(q) : q[j].conn # i.conn
  PROVE  /\ InOrderOf(Append(q, i)) /\ (AtStart(Append(q, i)) => AtStart(q))
         /\ Underway(Append(q, i)) = With(Underway(q), i)
<1> DEFINE a == Append(q, i)
<1>1. /\ Len(q) \in Nat /\ Len(a) = Len(q) + 1 /\ a[Len(q) + 1] = i
      /\ \A j \in 1 .. Len(q) : a[j] = q[j]
      /\ q = <<>> => Len(q) = 0
  BY AppendProperties, LenProperties, EmptySeq
<1> HIDE DEF a
<1>2. 1 .. Len(a) = 1 .. Len(q) \cup {Len(q) + 1}
  BY <1>1
<1>3. ASSUME NEW j \in 1 .. Len(a), a[j].event \in {"ResetCmpl", "PairInd", "PairCmpl"} PROVE j = 1
  <2>1. CASE j \in 1 .. Len(q)
    BY <1>1, <1>3, <2>1 DEF InOrderOf
  <2>2. CASE j = Len(q) + 1
    BY <1>1, <1>3, <2>2
  <2> QED BY <1>2, <2>1, <2>2
<1>4. ASSUME NEW j \in 1 .. Len(a), NEW k \in 1 .. Len(a), j < k, a[k].event = "ConnOpen"
      PROVE  a[j].conn # a[k].conn
  <2>1. j \in 1 .. Len(q)
    BY <1>1, <1>4
  <2>2. CASE k \in 1 .. Len(q)
    BY <1>1, <1>4, <2>1, <2>2 DEF InOrderOf
  <2>3. CASE k = Len(q) + 1
    BY <1>1, <1>4, <2>1, <2>3
  <2> QED BY <1>2, <2>2, <2>3
<1>5. InOrderOf(a)
  BY <1>3, <1>4 DEF InOrderOf
<1>6. AtStart(a) => AtStart(q)
  BY <1>1, <1>2 DEF AtStart
<1>7. \A e \in Tracked : About(a, e) = About(q, e) \cup {c \in Conns : i.event = e /\ i.conn = c}
  BY <1>1, <1>2 DEF About
<1>8. Underway(a) = With(Underway(q), i)
  BY <1>7 DEF Underway, With
<1> QED BY <1>5, <1>6, <1>8 DEF a
-----------------------------------------------------------------------------
(* The inductive invariant of who holds which connection.                  *)
OwnInv ==
  /\ InOrderOf(inds) /\ Owns(m, Underway(inds)) /\ Range(sched) \subseteq {Kick, Pop}
  /\ AtStart(inds) => \A l \in Links : m.connId[l] = None

LEMMA UnderwayWays ==
  ASSUME NEW q PROVE Underway(q) \in Ways
BY DEF Underway, Ways, About

LEMMA HereOwned ==
  ASSUME TurnInv, OwnInv PROVE Owned(Here, Underway(inds))
<1>1. Range(<<>>) = {}
  BY DEF Range
<1> QED BY <1>1, HereIsWork DEF Owned, OwnInv

(* A handler's step keeps it.                                              *)
LEMMA WorkStep ==
  ASSUME NEW h, NEW rest \in Seq(SchedEvents), NEW more \in Seq(Inds),
         Owned(h, Underway(more)), InOrderOf(more), Range(rest) \subseteq {Kick, Pop},
         AtStart(more) => \A l \in Links : h.m.connId[l] = None,
         m' = h.m, sched' = rest \o h.sched, inds' = more \o h.inds
  PROVE  OwnInv'
<1>1. h.sched \in Seq(SchedEvents) /\ h.inds = <<>> /\ Range(h.sched) \subseteq {Kick, Pop}
      /\ Owns(h.m, Underway(more))
  BY DEF Owned, Work
<1>2. inds' = more
  BY <1>1, ConcatEmptySeq
<1>3. Range(sched') \subseteq {Kick, Pop}
  BY <1>1, ConcatRange
<1> QED BY <1>1, <1>2, <1>3 DEF OwnInv

(* A step that sends a message keeps it.                                   *)
LEMMA SendingStep ==
  ASSUME TurnInv, OwnInv, NEW i \in Inds, i.event # "ResetCmpl",
         i.event \in {"PairInd", "PairCmpl"} => inds = <<>>,
         i.event = "ConnOpen" => \A j \in 1 .. Len(inds) : inds[j].conn # i.conn,
         inds' = Append(inds, i), sched' = sched,
         Owns(m', With(Underway(inds), i)), m'.connId = m.connId
  PROVE  OwnInv'
<1>1. inds \in Seq(Inds) /\ InOrderOf(inds)
  BY DEF TurnInv, Typed, OwnInv
<1>2. /\ InOrderOf(Append(inds, i)) /\ (AtStart(Append(inds, i)) => AtStart(inds))
      /\ Underway(Append(inds, i)) = With(Underway(inds), i)
  BY <1>1, OneSent
<1> QED BY <1>2 DEF OwnInv

(* What Becomes does with what the host stack sends.                       *)
LEMMA BecomesSent ==
  ASSUME TurnInv, NEW f, NEW i, f.sched = <<>>, f.inds = <<>>, i \in Inds
  PROVE  /\ Becomes(f) => m' = f.m /\ sched' = sched /\ inds' = inds
         /\ f \in Work /\ Becomes(Sent(f, i)) => m' = f.m /\ sched' = sched /\ inds' = Append(inds, i)
<1>1. sched \in Seq(SchedEvents) /\ inds \in Seq(Inds)
  BY DEF TurnInv, Typed
<1>2. sched \o <<>> = sched /\ inds \o <<>> = inds
  BY <1>1, ConcatEmptySeq
<1>3. inds \o <<i>> = Append(inds, i)
  BY <1>1, AppendIsConcat
<1>4. Append(<<>>, i) = <<i>>
  OBVIOUS
<1>5. ASSUME f \in Work
      PROVE  Sent(f, i).m = f.m /\ Sent(f, i).sched = <<>> /\ Sent(f, i).inds = <<i>>
  BY <1>4, <1>5 DEF Sent, Work
<1>6. ASSUME Becomes(f) PROVE m' = f.m /\ sched' = sched /\ inds' = inds
  BY <1>2, <1>6 DEF Becomes
<1>7. ASSUME f \in Work, Becomes(Sent(f, i))
      PROVE  m' = f.m /\ sched' = sched /\ inds' = Append(inds, i)
  <2> DEFINE g == Sent(f, i)
  <2>1. g.m = f.m /\ g.sched = <<>> /\ g.inds = <<i>> /\ Becomes(g)
    BY <1>5, <1>7
  <2> HIDE DEF g
  <2> QED BY <1>2, <1>3, <2>1 DEF Becomes
<1> QED BY <1>6, <1>7
-----------------------------------------------------------------------------
(* The scheduler's task, the module's DM handler, and the application.     *)
LEMMA RunEventOwn ==
  ASSUME TurnInv, OwnInv, Undirected, RunEvent PROVE OwnInv'
<1> DEFINE e == Head(sched)
           rest == Tail(sched)
<1>1. e \in {Kick, Pop} /\ rest \in Seq(SchedEvents) /\ Range(rest) \subseteq {Kick, Pop}
      /\ inds \in Seq(Inds)
  <2>1. sched \in Seq({Kick, Pop})
    <3>1. sched \in Seq(SchedEvents) /\ Range(sched) \subseteq {Kick, Pop}
      BY DEF TurnInv, Typed, OwnInv
    <3>2. Range(sched) = {sched[i] : i \in 1 .. Len(sched)}
      BY <3>1, RangeElements
    <3>3. \A i \in 1 .. Len(sched) : sched[i] \in {Kick, Pop}
      BY <3>1, <3>2
    <3> QED BY <3>1, <3>3, ElementOfSeq, SeqDef
  <2>2. e \in {Kick, Pop} /\ rest \in Seq({Kick, Pop})
    BY <2>1, RangeOfHeadAndTail DEF RunEvent
  <2>3. Range(rest) \subseteq {Kick, Pop}
    <3> HIDE DEF rest
    <3> QED BY <2>2, RangeElements
  <2>4. rest \in Seq(SchedEvents) /\ inds \in Seq(Inds)
    BY RangeOfHeadAndTail DEF RunEvent, TurnInv, Typed
  <2> QED BY <2>2, <2>3, <2>4
<1>2. PICK h : h = Run(Here, e) /\ m' = h.m /\ sched' = rest \o h.sched /\ inds' = inds \o h.inds
  BY DEF RunEvent, Ran
<1> HIDE DEF rest
<1>3. Run(Here, e) \in {Kicked(Here), Popped(Here)}
  BY <1>1 DEF Run
<1>4. Owned(h, Underway(inds)) /\ h.m.connId = m.connId
  BY <1>2, <1>3, HereOwned, HereIsWork, UnderwayWays, KickedOwned, PoppedOwned
<1>5. InOrderOf(inds) /\ (AtStart(inds) => \A l \in Links : h.m.connId[l] = None)
  BY <1>4 DEF OwnInv
<1> QED BY <1>1, <1>2, <1>4, <1>5, WorkStep

LEMMA HandleIndOwn ==
  ASSUME TurnInv, OwnInv, Undirected, HandleInd PROVE OwnInv'
<1> DEFINE i == Head(inds)
           rest == Tail(inds)
           w == Underway(inds)
           v == Underway(rest)
<1>1. /\ i \in Inds /\ rest \in Seq(Inds) /\ sched \in Seq(SchedEvents) /\ inds \in Seq(Inds)
      /\ inds # <<>> /\ Range(sched) \subseteq {Kick, Pop} /\ use \in Uses
  BY RangeOfHeadAndTail DEF HandleInd, TurnInv, Typed, OwnInv
<1>2. Owned(Here, w) /\ InOrderOf(rest) /\ ~AtStart(rest) /\ Left(w, v, i.event, i.conn)
  BY <1>1, HereOwned, FirstTaken DEF OwnInv
<1>3. i.event = "ResetCmpl" => \A l \in Links : Here.m.connId[l] = None
  <2>1. 1 \in 1 .. Len(inds) /\ inds[1] = i
    BY <1>1, HeadTailProperties, EmptySeq, LenProperties
  <2> QED BY <2>1, HereIsWork DEF OwnInv, AtStart
<1>4. CASE i.event = "ResetCmpl"
  <2>1. PICK q \in InOrder(Reconnects(Here)) : Handled(ResetCmpl(Here, q))
    BY <1>4 DEF HandleInd
  <2>2. Owned(ResetCmpl(Here, q), v)
    BY <1>2, <1>3, <1>4, ResetCmplOwned
  <2>3. PICK h : h = ResetCmpl(Here, q)
    OBVIOUS
  <2> HIDE DEF i, rest
  <2>4. Owned(h, v) /\ m' = h.m /\ sched' = sched \o h.sched /\ inds' = rest \o h.inds
    BY <2>1, <2>2, <2>3 DEF Handled, rest
  <2> QED BY <1>1, <1>2, <2>4, WorkStep
<1>5. CASE i.event # "ResetCmpl"
  <2>1. PICK h : h = Handle(Here, i)
    OBVIOUS
  <2>2. Handled(h)
    BY <1>5, <2>1 DEF HandleInd
  <2> HIDE DEF i, rest
  <2>3. m' = h.m /\ sched' = sched \o h.sched /\ inds' = rest \o h.inds
    BY <2>2 DEF Handled, rest
  <2>4. CASE Owned(h, v)
    BY <1>1, <1>2, <2>3, <2>4, WorkStep
  <2>5. CASE /\ i.conn \in Conns /\ h = Sent(Here, [event |-> "PairFail", conn |-> i.conn])
             /\ Owned(Here, [v EXCEPT !["PairFail"] = @ \cup {i.conn}])
    <3> DEFINE x == [event |-> "PairFail", conn |-> i.conn]
    <3>1. x \in Inds /\ Here.m = m /\ Here.sched = <<>> /\ Here.inds = <<>> /\ Here \in Work
      BY <2>5, HereIsWork DEF Inds
    <3>2. h.m = m /\ h.sched = <<>> /\ h.inds = <<x>>
      <4>1. Append(<<>>, x) = <<x>>
        OBVIOUS
      <4> QED BY <2>5, <3>1, <4>1 DEF Sent, Work
    <3>3. m' = m /\ sched' = sched /\ inds' = Append(rest, x)
      BY <1>1, <2>3, <3>1, <3>2, ConcatEmptySeq, AppendIsConcat
    <3>4. InOrderOf(Append(rest, x)) /\ ~AtStart(Append(rest, x))
          /\ Underway(Append(rest, x)) = With(v, x)
      BY <1>1, <1>2, <3>1, OneSent
    <3>5. With(v, x) = [v EXCEPT !["PairFail"] = @ \cup {i.conn}]
      <4>1. v \in Ways
        BY UnderwayWays
      <4> HIDE DEF v
      <4> QED BY <2>5, <4>1 DEF With, Ways, Tracked
    <3>6. Owns(m, With(v, x))
      BY <2>5, <3>1, <3>5 DEF Owned
    <3> HIDE DEF x, v
    <3> QED BY <1>1, <3>3, <3>4, <3>6 DEF OwnInv
  <2>6. \/ Owned(h, v)
        \/ /\ i.conn \in Conns /\ h = Sent(Here, [event |-> "PairFail", conn |-> i.conn])
           /\ Owned(Here, [v EXCEPT !["PairFail"] = @ \cup {i.conn}])
    <3> HIDE DEF v, w
    <3> QED BY <1>1, <1>2, <1>5, <2>1, HandleOwned
  <2> QED BY <2>4, <2>5, <2>6
<1> QED BY <1>4, <1>5

LEMMA AppRequestOwn ==
  ASSUME TurnInv, OwnInv, Undirected, NEW e \in AppEvents, NEW l \in Links, AppRequest(e, l)
  PROVE  OwnInv'
<1>1. PICK h : h = Request(Here, e, l) /\ m' = h.m /\ sched' = sched \o h.sched
               /\ inds' = inds \o h.inds
  BY DEF AppRequest, Becomes
<1>2. Owned(h, Underway(inds)) /\ h.m.connId = m.connId
  BY <1>1, HereOwned, HereIsWork, UnderwayWays, RequestOwned
<1>3. /\ sched \in Seq(SchedEvents) /\ inds \in Seq(Inds)
      /\ InOrderOf(inds) /\ Range(sched) \subseteq {Kick, Pop}
      /\ AtStart(inds) => \A k \in Links : h.m.connId[k] = None
  BY <1>2 DEF TurnInv, Typed, OwnInv
<1> QED BY <1>1, <1>2, <1>3, WorkStep
-----------------------------------------------------------------------------
(* The controller and the devices.                                         *)
LEMMA AdvertisingOwn ==
  ASSUME TurnInv, OwnInv, AdvEnabled \/ AdvTimeout \/ AdvDisabled PROVE OwnInv'
<1> DEFINE x == [event |-> "AdvStop", conn |-> None]
<1>1. PICK a \in {"idle", "starting", "advertising", "stopping", "directed", "cancelling"} :
        Becomes([Here EXCEPT !.m.adv = a]) \/ Becomes(Sent([Here EXCEPT !.m.adv = a], x))
  BY DEF AdvEnabled, AdvTimeout, AdvDisabled, Reports
<1> DEFINE f == [Here EXCEPT !.m.adv = a]
<1>2. Calm(Here, f) /\ f.m.state = Here.m.state /\ f.m.connId = m.connId
      /\ f.sched = <<>> /\ f.inds = <<>> /\ f \in Work
  BY HereIsWork DEF Calm, Work, Modules
<1>3. x \in Inds /\ x.event \notin Tracked \cup {"ResetCmpl"}
  BY DEF Inds, Tracked
<1> HIDE DEF f
<1>4. Owns(f.m, Underway(inds))
  BY <1>2, HereOwned, UnderwayWays, CalmOwned DEF Owned
<1>5. With(Underway(inds), x) = Underway(inds)
  <2>1. Underway(inds) \in Ways
    BY UnderwayWays
  <2> HIDE DEF x
  <2> QED BY <1>3, <2>1 DEF With, Ways
<1>6. CASE Becomes(f)
  <2>1. m' = f.m /\ sched' = sched /\ inds' = inds
    BY <1>2, <1>3, <1>6, BecomesSent
  <2> QED BY <1>2, <1>4, <2>1 DEF OwnInv
<1>7. CASE Becomes(Sent(f, x))
  <2>1. m' = f.m /\ sched' = sched /\ inds' = Append(inds, x)
    BY <1>2, <1>3, <1>7, BecomesSent
  <2>2. x.event \notin {"PairInd", "PairCmpl", "ConnOpen", "ResetCmpl"}
    OBVIOUS
  <2> HIDE DEF x
  <2> QED BY <1>2, <1>3, <1>4, <1>5, <2>1, <2>2, SendingStep
<1> QED BY <1>1, <1>6, <1>7 DEF f

LEMMA EndsOwn ==
  ASSUME TurnInv, OwnInv, NEW c \in Conns, DirectedTimeout(c) \/ Disconnected(c) PROVE OwnInv'
<1> DEFINE f == [Here EXCEPT !.m.ccb[c] = Free, !.m.pairing = @ \ {c}]
           x == [event |-> "ConnClose", conn |-> c]
           w == Underway(inds)
           v == With(w, x)
           o == f.m
<1>1. /\ Plain(m) /\ Holds(m, w) /\ PairsHere(m, w) /\ LastNewHere(m, w) /\ EndsHere(m, w)
      /\ w \in Ways /\ m \in Modules
  BY UnderwayWays DEF OwnInv, Owns, TurnInv, Typed
<1>2. Disconnected(c)
  BY <1>1 DEF DirectedTimeout, Plain
<1>3. /\ o.connId = m.connId /\ o.dbHdl = m.dbHdl /\ o.lastNew = m.lastNew /\ o.rec = m.rec
      /\ o.state = m.state /\ o.pairing = m.pairing \ {c}
      /\ o.ccb[c].state = "free" /\ \A d \in Conns \ {c} : o.ccb[d] = m.ccb[d]
      /\ f.sched = <<>> /\ f.inds = <<>> /\ f \in Work
  BY <1>1, HereIsWork DEF Work, Modules, Free, Here
<1>4. m' = f.m /\ sched' = sched /\ inds' = Append(inds, x) /\ x \in Inds
  <2>1. x \in Inds
    BY DEF Inds
  <2>2. Becomes(Sent(f, x))
    BY <1>2 DEF Disconnected, Reports
  <2> HIDE DEF f, x
  <2> QED BY <1>3, <2>1, <2>2, BecomesSent
<1>5. /\ v \in Ways /\ v["ConnClose"] = w["ConnClose"] \cup {c}
      /\ \A e \in Tracked \ {"ConnClose"} : v[e] = w[e]
  <2> HIDE DEF w
  <2> QED BY <1>1 DEF With, Ways, Tracked
<1>6. /\ v["ConnOpen"] = w["ConnOpen"] /\ v["PairInd"] = w["PairInd"]
      /\ v["PairCmpl"] = w["PairCmpl"] /\ v["PairFail"] = w["PairFail"]
  BY <1>5 DEF Tracked
<1> HIDE DEF f, w, v
<1>7. Plain(o)
  BY <1>1, <1>3 DEF Plain
<1>8. Holds(o, v)
  BY <1>1, <1>3, <1>5, <1>6 DEF Holds, HeldBy, InPairing
<1>9. PairsHere(o, v)
  BY <1>1, <1>3, <1>6 DEF PairsHere, InPairing, HasBond
<1>10. LastNewHere(o, v)
  BY <1>1, <1>3, <1>6 DEF LastNewHere, InPairing
<1>11. EndsHere(o, v)
  <2>1. w["ConnClose"] \subseteq Conns /\ w["ConnOpen"] \subseteq Conns /\ m.pairing \subseteq Conns
    BY <1>1 DEF Ways, Tracked, Modules
  <2> QED BY <1>1, <1>3, <1>5, <1>6, <2>1 DEF EndsHere
<1>12. Owns(o, v)
  BY <1>7, <1>8, <1>9, <1>10, <1>11 DEF Owns
<1>13. x.event \notin {"PairInd", "PairCmpl", "ConnOpen", "ResetCmpl"}
  OBVIOUS
<1> HIDE DEF x
<1> QED BY <1>3, <1>4, <1>12, <1>13, SendingStep DEF v, w

LEMMA ConnectsOwn ==
  ASSUME TurnInv, OwnInv, NEW c \in Conns, NEW p \in Peers, Connects(p, c) PROVE OwnInv'
<1> DEFINE f == [Here EXCEPT !.m.adv = "idle", !.m.ccb[c] = [state |-> "open", peer |-> p]]
           x == [event |-> "ConnOpen", conn |-> c, peer |-> p]
           w == Underway(inds)
           v == With(w, x)
           o == f.m
<1>1. /\ Plain(m) /\ Holds(m, w) /\ PairsHere(m, w) /\ LastNewHere(m, w) /\ EndsHere(m, w)
      /\ w \in Ways /\ m \in Modules /\ inds \in Seq(Inds)
  BY UnderwayWays DEF OwnInv, Owns, TurnInv, Typed
<1>2. /\ Used(Here) # Conns /\ c = FirstFree(Here) /\ \A i \in Range(inds) : i.conn # c
  BY <1>1 DEF Connects, Plain
<1>3. c \notin Used(Here)
  <2>1. Conns \ Used(Here) # {} /\ Conns \ Used(Here) \in SUBSET Nat
    BY <1>2 DEF Used, Conns
  <2>2. \E d \in Conns \ Used(Here) : \A e \in Conns \ Used(Here) : d <= e
    BY <2>1, LeastElement
  <2> QED BY <1>2, <2>2 DEF FirstFree
<1>4. m.ccb[c].state = "free" /\ \A j \in 1 .. Len(inds) : inds[j].conn # c
  BY <1>1, <1>2, <1>3, HereIsWork, RangeElements DEF Used
<1>5. \A e \in Tracked : c \notin w[e]
  BY <1>4 DEF Underway, About
<1>6. NobodyHolds(Here, c)
  <2>1. "ConnClose" \in Tracked
    BY DEF Tracked
  <2> QED BY <1>1, <1>4, <1>5, <2>1, HereIsWork DEF NobodyHolds, Holds, HeldBy
<1>7. /\ o.connId = m.connId /\ o.dbHdl = m.dbHdl /\ o.lastNew = m.lastNew /\ o.rec = m.rec
      /\ o.state = m.state /\ o.pairing = m.pairing
      /\ o.ccb[c].state = "open" /\ \A d \in Conns \ {c} : o.ccb[d] = m.ccb[d]
      /\ f.sched = <<>> /\ f.inds = <<>> /\ f \in Work
  BY <1>1, HereIsWork DEF Work, Modules, Here
<1>8. m' = f.m /\ sched' = sched /\ inds' = Append(inds, x) /\ x \in Inds
  <2>1. x \in Inds
    BY DEF Inds
  <2>2. Becomes(Sent(f, x))
    BY DEF Connects, Reports
  <2> HIDE DEF f, x
  <2> QED BY <1>7, <2>1, <2>2, BecomesSent
<1>9. /\ v \in Ways /\ v["ConnOpen"] = w["ConnOpen"] \cup {c}
      /\ \A e \in Tracked \ {"ConnOpen"} : v[e] = w[e]
  <2> HIDE DEF w
  <2> QED BY <1>1 DEF With, Ways, Tracked
<1>10. /\ v["ConnClose"] = w["ConnClose"] /\ v["PairInd"] = w["PairInd"]
       /\ v["PairCmpl"] = w["PairCmpl"] /\ v["PairFail"] = w["PairFail"]
       /\ c \notin w["ConnClose"]
  BY <1>5, <1>9 DEF Tracked
<1>11. \A l \in Links : m.connId[l] # c
  BY <1>6, HereIsWork DEF NobodyHolds
<1> HIDE DEF f, w, v
<1>12. Plain(o)
  BY <1>1, <1>7 DEF Plain
<1>13. Holds(o, v)
  BY <1>1, <1>7, <1>9, <1>10, <1>11 DEF Holds, HeldBy, InPairing
<1>14. PairsHere(o, v)
  BY <1>1, <1>7, <1>10 DEF PairsHere, InPairing, HasBond
<1>15. LastNewHere(o, v)
  BY <1>1, <1>7, <1>10, <1>11 DEF LastNewHere, InPairing
<1>16. EndsHere(o, v)
  <2>1. w["ConnClose"] \subseteq Conns /\ w["ConnOpen"] \subseteq Conns /\ m.pairing \subseteq Conns
    BY <1>1 DEF Ways, Tracked, Modules
  <2> QED BY <1>1, <1>7, <1>9, <1>10, <2>1 DEF EndsHere
<1>17. Owns(o, v)
  BY <1>12, <1>13, <1>14, <1>15, <1>16 DEF Owns
<1>18. x.event \notin {"PairInd", "PairCmpl", "ResetCmpl"} /\ x.conn = c
  OBVIOUS
<1> HIDE DEF x
<1> QED BY <1>4, <1>7, <1>8, <1>17, <1>18, SendingStep DEF v, w

(* A device pairs, or encrypts, when no messages are under way.            *)
LEMMA NoneUnderway ==
  ASSUME inds = <<>>, NEW x, NEW e \in Tracked
  PROVE  /\ Underway(inds)[e] = {} /\ With(Underway(inds), x) \in Ways
         /\ With(Underway(inds), x)[e] = {c \in Conns : x.event = e /\ x.conn = c}
<1>1. \A k \in Tracked : Underway(inds)[k] = {}
  BY EmptySeq DEF Underway, About
<1> QED BY <1>1 DEF With, Ways

LEMMA PairsOwn ==
  ASSUME TurnInv, OwnInv, ~use.crossed, NEW c \in Conns, Pairs(c) PROVE OwnInv'
<1> DEFINE w == Underway(inds)
<1>1. /\ Plain(m) /\ Holds(m, w) /\ PairsHere(m, w) /\ LastNewHere(m, w) /\ EndsHere(m, w)
      /\ inds = <<>> /\ m.ccb[c].state = "open" /\ c \notin m.pairing
      /\ m.lastNew # None /\ m.connId[m.lastNew] = c /\ m \in Modules
  BY DEF OwnInv, Owns, TurnInv, Typed, Pairs, Open
<1>2. PICK p \in Peers : Tells(c, [event |-> "PairInd", conn |-> c, peer |-> p])
  BY DEF Pairs
<1> DEFINE x == [event |-> "PairInd", conn |-> c, peer |-> p]
           v == With(w, x)
<1>3. x \in Inds /\ inds' = Append(inds, x) /\ sched' = sched /\ m' = m
  BY <1>2 DEF Inds, Tells, Pairs
<1>4. /\ w["ConnClose"] = {} /\ w["ConnOpen"] = {} /\ w["PairCmpl"] = {} /\ w["PairFail"] = {}
      /\ v["ConnClose"] = {} /\ v["ConnOpen"] = {} /\ v["PairCmpl"] = {} /\ v["PairFail"] = {}
      /\ v["PairInd"] = {c}
  BY <1>1, NoneUnderway DEF Tracked
<1>5. m.lastNew \in Links
  BY <1>1 DEF Modules
<1> HIDE DEF v, w
<1>6. m.dbHdl[c] = None
  BY <1>1, <1>4, <1>5 DEF LastNewHere, InPairing
<1>7. Plain(m) /\ Holds(m, v) /\ PairsHere(m, v) /\ EndsHere(m, v)
  BY <1>1, <1>4 DEF Holds, HeldBy, PairsHere, EndsHere, InPairing
<1>8. LastNewHere(m, v)
  BY <1>1, <1>4, <1>5, <1>6 DEF LastNewHere, InPairing
<1>9. Owns(m', v)
  BY <1>3, <1>7, <1>8 DEF Owns
<1>10. x.event \notin {"ConnOpen", "ResetCmpl"}
  OBVIOUS
<1> HIDE DEF x
<1> QED BY <1>1, <1>3, <1>9, <1>10, SendingStep DEF v, w

LEMMA PairingEndsOwn ==
  ASSUME TurnInv, OwnInv, NEW c \in Conns, PairingEnds(c) PROVE OwnInv'
<1> DEFINE w == Underway(inds)
           o == [m EXCEPT !.pairing = @ \ {c}]
<1>1. /\ Plain(m) /\ Holds(m, w) /\ PairsHere(m, w) /\ LastNewHere(m, w) /\ EndsHere(m, w)
      /\ inds = <<>> /\ m.ccb[c].state = "open" /\ c \in m.pairing /\ m \in Modules
  BY DEF OwnInv, Owns, TurnInv, Typed, PairingEnds, Open
<1>2. PICK e \in {"PairCmpl", "PairFail"} : Tells(c, [event |-> e, conn |-> c])
  BY DEF PairingEnds
<1> DEFINE x == [event |-> e, conn |-> c]
           v == With(w, x)
<1>3. x \in Inds /\ inds' = Append(inds, x) /\ sched' = sched /\ m' = o
  BY <1>2 DEF Inds, Tells, PairingEnds
<1>4. /\ w["ConnClose"] = {} /\ w["ConnOpen"] = {} /\ w["PairCmpl"] = {} /\ w["PairFail"] = {}
      /\ w["PairInd"] = {}
      /\ v["ConnClose"] = {} /\ v["ConnOpen"] = {} /\ v["PairInd"] = {}
      /\ \/ v["PairCmpl"] = {c} /\ v["PairFail"] = {}
         \/ v["PairCmpl"] = {} /\ v["PairFail"] = {c}
  BY <1>1, NoneUnderway DEF Tracked
<1>5. /\ o.connId = m.connId /\ o.dbHdl = m.dbHdl /\ o.lastNew = m.lastNew /\ o.rec = m.rec
      /\ o.state = m.state /\ o.ccb = m.ccb /\ o.pairing = m.pairing \ {c}
  BY <1>1 DEF Modules
<1> HIDE DEF v, w, o
<1>6. InPairing(o, v) \subseteq InPairing(m, w)
      /\ InPairing(m, w) \subseteq InPairing(o, v) \cup v["PairFail"]
  BY <1>1, <1>4, <1>5 DEF InPairing
<1>7. Holds(o, v)
  BY <1>1, <1>4, <1>5, <1>6 DEF Holds, HeldBy
<1>8. PairsHere(o, v)
  BY <1>1, <1>5, <1>6 DEF PairsHere, HasBond
<1>9. LastNewHere(o, v)
  BY <1>1, <1>4, <1>5, <1>6 DEF LastNewHere
<1>10. Plain(o) /\ EndsHere(o, v)
  BY <1>1, <1>4, <1>5 DEF Plain, EndsHere
<1>11. Owns(m', v)
  BY <1>3, <1>7, <1>8, <1>9, <1>10 DEF Owns
<1>12. x.event \notin {"ConnOpen", "ResetCmpl"}
  OBVIOUS
<1> HIDE DEF x
<1> QED BY <1>1, <1>3, <1>5, <1>11, <1>12, SendingStep DEF v, w

LEMMA EncryptsOwn ==
  ASSUME TurnInv, OwnInv, NEW c \in Conns, Encrypts(c) PROVE OwnInv'
<1>1. PICK e \in {"Encrypt", "EncryptFail"} : Tells(c, [event |-> e, conn |-> c])
  BY DEF Encrypts
<1> DEFINE x == [event |-> e, conn |-> c]
<1>2. x \in Inds /\ inds' = Append(inds, x) /\ sched' = sched /\ m' = m
  BY <1>1 DEF Inds, Tells, Encrypts
<1>3. x.event \notin Tracked \cup {"ResetCmpl"}
  BY DEF Tracked
<1>4. With(Underway(inds), x) = Underway(inds)
  <2>1. Underway(inds) \in Ways
    BY UnderwayWays
  <2> HIDE DEF x
  <2> QED BY <1>3, <2>1 DEF With, Ways
<1>5. x.event \notin {"PairInd", "PairCmpl", "ConnOpen", "ResetCmpl"}
  OBVIOUS
<1> HIDE DEF x
<1> QED BY <1>2, <1>4, <1>5, SendingStep DEF OwnInv
-----------------------------------------------------------------------------
BondInv == TurnInv /\ (Plainly => OwnInv)

LEMMA NextKeepsBonds == BondInv /\ [Next]_vars => BondInv'
<1> SUFFICES ASSUME BondInv, [Next]_vars PROVE BondInv'
  OBVIOUS
<1>1. TurnInv /\ TurnInv' /\ (Plainly => OwnInv)
  BY NextKeepsTurns DEF BondInv
<1>2. use' = use
  BY DEF Next, RunEvent, HandleInd, App, OpenConnectionRequest, CloseConnectionRequest,
     UnbindConnectionRequest, AppRequest, AdvEnabled, AdvTimeout, AdvDisabled, Reports, Ends,
     DirectedTimeout, Disconnected, Devices, Connects, Pairs, PairingEnds, Encrypts, Tells, vars
<1>3. Plainly' => Plainly
  BY <1>2 DEF Plainly, Undirected
<1>4. ASSUME Plainly PROVE OwnInv'
  <2>1. OwnInv /\ Undirected /\ ~use.crossed
    BY <1>1, <1>4 DEF Plainly
  <2>2. CASE App
    BY <1>1, <2>1, <2>2, AppRequestOwn DEF App, OpenConnectionRequest, CloseConnectionRequest,
       UnbindConnectionRequest, AppEvents
  <2>3. CASE Ends
    BY <1>1, <2>1, <2>3, EndsOwn DEF Ends
  <2>4. CASE Devices
    BY <1>1, <2>1, <2>4, PairsOwn, PairingEndsOwn, EncryptsOwn, ConnectsOwn DEF Devices
  <2>5. CASE UNCHANGED vars
    BY <2>1, <2>5 DEF vars, OwnInv
  <2> QED
    BY <1>1, <2>1, <2>2, <2>3, <2>4, <2>5, RunEventOwn, HandleIndOwn, AdvertisingOwn DEF Next
<1> QED BY <1>1, <1>3, <1>4 DEF BondInv

LEMMA InitBonds == Init => BondInv
<1> SUFFICES ASSUME Init PROVE OwnInv
  BY InitTurns DEF BondInv
<1> DEFINE x == [event |-> "ResetCmpl", conn |-> None]
           w == Underway(inds)
<1>1. inds = <<x>> /\ Len(inds) = 1 /\ inds[1] = x /\ sched = <<>>
  BY DEF Init
<1>2. None \notin Conns /\ None \notin Links
  BY BleAssumption
<1>3. InOrderOf(inds)
  BY <1>1 DEF InOrderOf
<1>4. \A e \in Tracked : w[e] = {}
  BY <1>1, <1>2 DEF Underway, About
<1>5. w["ConnClose"] = {} /\ w["ConnOpen"] = {} /\ w["PairCmpl"] = {} /\ w["PairInd"] = {}
  BY <1>4 DEF Tracked
<1>6. /\ \A l \in Links : m.connId[l] = None /\ m.state[l] = "BLEHostInitialising"
      /\ \A c \in Conns : m.ccb[c].state = "free"
      /\ m.pairing = {} /\ m.lastNew = None
  BY DEF Init, Free
<1> HIDE DEF w
<1>7. Plain(m)
  BY <1>6 DEF Plain, Directed
<1>8. Holds(m, w) /\ PairsHere(m, w) /\ LastNewHere(m, w) /\ EndsHere(m, w)
  BY <1>2, <1>5, <1>6 DEF Holds, PairsHere, LastNewHere, EndsHere, InPairing
<1>9. Range(sched) \subseteq {Kick, Pop}
  BY <1>1 DEF Range
<1> QED BY <1>3, <1>6, <1>7, <1>8, <1>9 DEF OwnInv, Owns, w

LEMMA BondsAreOwn == BondInv => OwnBond
<1> SUFFICES ASSUME BondInv, Plainly, NEW k \in Links, NEW l \in Links, m.connId[l] # None
             PROVE  /\ m.connId[k] = m.connId[l] => k = l
                    /\ m.state[l] = "BondedConnected" => m.dbHdl[m.connId[l]] = l
  BY DEF OwnBond, Plainly
<1>1. HeldBy(m, Underway(inds), l, m.connId[l])
  BY DEF BondInv, OwnInv, Owns, Holds, TurnInv, Typed, Modules
<1> QED BY <1>1 DEF HeldBy, BondedSide

(* A connection belongs to one link, and that of a bonded link was made by *)
(* the device of that link's record: however connections begin and end,    *)
(* ids are used again, messages wait in the module's queue and the         *)
(* application closes and unbinds, whatever the number of links and        *)
(* devices, when no link advertises to one device only and no device pairs *)
(* while another new one is connected.                                     *)
THEOREM BondsStayApart == Spec => []OwnBond
<1>1. Spec => []BondInv
  BY InitBonds, NextKeepsBonds, PTL DEF Spec
<1> QED BY <1>1, BondsAreOwn, PTL
-----------------------------------------------------------------------------
(***************************************************************************)
(* Links take turns to advertise, for every number of links, connections   *)
(* and devices, in uses in which no link leaves the queue while it waits.  *)
(*                                                                         *)
(* The argument: a link that waits is told that its turn has come only     *)
(* when it is the queue's first and nobody advertises, for the one event   *)
(* of the scheduler that may be listed says so; and the link that          *)
(* advertises hears one outcome, that a device connected or that           *)
(* advertising stopped, which reaches it and nobody else, because until    *)
(* then every other connection that the module knows is held by the link   *)
(* it is recorded for, and the device is that link's or a stranger.        *)
(***************************************************************************)

-----------------------------------------------------------------------------
(* Whose turn it is, in uses in which no link leaves the queue while it    *)
(* waits.  What the rows of the table say of links without directed        *)
(* advertising.                                                            *)
AtRest == Connected \cup Closing
TurnRow(conf, r) ==
  /\ r.from \in Waiting => r.event \in {"AdvAvail", "AdvFail", "ConnOpen"} \cup Close
  /\ r.from \in Advertising \ Directed =>
       \/ r.to \in Advertising /\ r.event \in Close
       \/ r.to \notin Advertising /\ r.event \in {"ConnOpenNew", "ConnOpen", "ConnFail"}
  /\ r.to \in Advertising => r.from \in Advertising \/ (r.event = "AdvAvail" /\ r.from \in Waiting)
  /\ r.from \in AtRest /\ r.event # "ConnCloseExt" /\ "EncryptedOnly" \notin conf => r.to \in AtRest
  /\ r.from = "BLEHostInitialising" => r.event = "BLEHostResetComplete"
  /\ r.to = "StopReconnectingDirect" => r.from \in Directed
  /\ "start" \in r.calls /\ r.from \notin Directed => r.event = "AdvAvail" /\ r.from \in Waiting
  /\ "start" \in r.calls => "close" \notin r.calls
  /\ r.event = "AdvAvail" /\ r.from \in Waiting => r.calls \cap QueueCalls = {}

LEMMA NewTurnRows ==
  ASSUME NEW conf, NEW r \in NewRows(conf) PROVE TurnRow(conf, r)
BY DEF NewRows, Row, TurnRow, AtRest, QueueCalls, Waiting, Advertising, Directed, Aborting,
       Connected, Closing, Close, Fail

LEMMA BondedTurnRows ==
  ASSUME NEW conf, NEW r \in BondedRows(conf) PROVE TurnRow(conf, r)
BY DEF BondedRows, Row, TurnRow, AtRest, QueueCalls, Waiting, Advertising, Directed, Aborting,
       Connected, Closing, Close, Fail

LEMMA ReconnectTurnRows ==
  ASSUME NEW conf, NEW r \in ReconnectRows(conf) PROVE TurnRow(conf, r)
BY DEF ReconnectRows, Row, TurnRow, AtRest, QueueCalls, Waiting, Advertising, Directed, Aborting,
       Connected, Closing, Close, Fail, FirstReconnect

LEMMA TurnRows ==
  ASSUME NEW conf \in SUBSET Flags, NEW r \in Table[conf] PROVE TurnRow(conf, r)
<1>1. r \in NewRows(conf) \cup BondedRows(conf) \cup ReconnectRows(conf)
  BY DEF Table
<1> QED BY <1>1, NewTurnRows, BondedTurnRows, ReconnectTurnRows
-----------------------------------------------------------------------------
(* Computations that leave the queue and the list of events alone, and of  *)
(* advertising stop it at most.                                            *)
Quiet(h, g) ==
  /\ g.sched = h.sched /\ g.m.queue = h.m.queue /\ g.m.state = h.m.state
  /\ g.m.advDirected = h.m.advDirected
  /\ g.m.adv = h.m.adv \/ (h.m.adv = "advertising" /\ g.m.adv = "stopping")

LEMMA QuietItself ==
  ASSUME NEW h PROVE Quiet(h, h)
BY DEF Quiet

LEMMA QuietTransitive ==
  ASSUME NEW f, NEW g, NEW h, Quiet(f, g), Quiet(g, h) PROVE Quiet(f, h)
BY DEF Quiet

LEMMA ConnClosedQuiet ==
  ASSUME NEW h \in Work, NoneAccepts(h), NEW c \in Conns PROVE Quiet(h, ConnClosed(h, c))
<1>1. CASE h.m.ccb[c].state = "open"
  BY <1>1 DEF ConnClosed, Quiet, Work, Modules
<1>2. CASE h.m.ccb[c].state # "open"
  <2>1. ConnClosed(h, c) = h
    BY <1>2 DEF ConnClosed, NoneAccepts
  <2> QED BY <2>1, QuietItself
<1> QED BY <1>1, <1>2

LEMMA CheckValidQuiet ==
  ASSUME NEW h \in Work, NEW l PROVE Quiet(h, CheckValidRecord(h, l))
BY DEF CheckValidRecord, Quiet, Work, Modules

LEMMA CloseConnectionQuiet ==
  ASSUME NEW h \in Work, NoneAccepts(h), NEW l \in Links PROVE Quiet(h, CloseConnection(h, l))
<1>1. CASE h.m.connId[l] = None
  BY <1>1, QuietItself DEF CloseConnection
<1>2. CASE h.m.connId[l] # None
  <2> DEFINE f == ConnClosed(h, h.m.connId[l])
  <2>1. h.m.connId[l] \in Conns
    BY <1>2 DEF Work, Modules
  <2>2. Quiet(h, f) /\ f \in Work
    BY <2>1, ConnClosedQuiet, ConnClosedCalm DEF Calm
  <2>3. CloseConnection(h, l) = CheckValidRecord(f, l)
    BY <1>2 DEF CloseConnection
  <2> HIDE DEF f
  <2> QED BY <2>2, <2>3, CheckValidQuiet, QuietTransitive
<1> QED BY <1>1, <1>2

LEMMA AdvStoppedQuiet ==
  ASSUME NEW h \in Work PROVE Quiet(h, AdvStopped(h))
BY DEF AdvStopped, Quiet, Work, Modules

(* What advertising starts with.                                           *)
LEMMA AdvStartedEffect ==
  ASSUME NEW h \in Work, NEW b
  PROVE  LET g == AdvStarted([h EXCEPT !.m.bondable = b])
         IN /\ g.sched = h.sched /\ g.m.queue = h.m.queue /\ g.m.state = h.m.state
            /\ g.m.advDirected = h.m.advDirected
            /\ g.m.adv = h.m.adv \/ (h.m.adv = "idle" /\ g.m.adv = "starting")
<1> DEFINE f == [h EXCEPT !.m.bondable = b]
           may == Cardinality(f.m.known) < NConns
           adv == IF may /\ f.m.adv = "idle" THEN "starting" ELSE f.m.adv
           g == [f EXCEPT !.m.advRuns = may, !.m.adv = adv]
<1>1. /\ f.sched = h.sched /\ f.m.queue = h.m.queue /\ f.m.state = h.m.state
      /\ f.m.advDirected = h.m.advDirected /\ f.m.adv = h.m.adv
  BY DEF Work, Modules
<1>2. /\ g.sched = h.sched /\ g.m.queue = h.m.queue /\ g.m.state = h.m.state
      /\ g.m.advDirected = h.m.advDirected /\ g.m.adv = adv
  <2> HIDE DEF may, adv
  <2> QED BY DEF Work, Modules
<1>3. AdvStarted(f) = g
  BY DEF AdvStarted
<1>4. adv = h.m.adv \/ (h.m.adv = "idle" /\ adv = "starting")
  BY <1>1
<1> HIDE DEF f, may, adv, g
<1>5. AdvStarted(f).sched = h.sched /\ AdvStarted(f).m.queue = h.m.queue
      /\ AdvStarted(f).m.state = h.m.state /\ AdvStarted(f).m.advDirected = h.m.advDirected
      /\ (AdvStarted(f).m.adv = h.m.adv \/ (h.m.adv = "idle" /\ AdvStarted(f).m.adv = "starting"))
  BY <1>2, <1>3, <1>4
<1> QED BY <1>5 DEF f
-----------------------------------------------------------------------------
(* The queue and the list of events after a link joins or the first one    *)
(* leaves: exactly one kick, and only if somebody has become the first.    *)
LEMMA PoppedLine ==
  ASSUME NEW h \in Work
  PROVE  LET g == Popped(h)
         IN /\ g.m.queue = (IF h.m.queue = <<>> THEN <<>> ELSE Tail(h.m.queue))
            /\ g.sched = (IF g.m.queue = <<>> THEN h.sched ELSE Append(h.sched, Kick))
            /\ g.m.adv = h.m.adv /\ g.m.advDirected = h.m.advDirected
<1> DEFINE rest == IF h.m.queue = <<>> THEN <<>> ELSE Tail(h.m.queue)
           next == [h EXCEPT !.m.queue = rest]
           kicked == [next EXCEPT !.sched = Append(@, Kick)]
<1> HIDE DEF rest
<1>1. next.sched = h.sched /\ next.m.queue = rest /\ next.m.adv = h.m.adv
      /\ next.m.advDirected = h.m.advDirected
  BY DEF Work, Modules
<1>2. kicked.sched = Append(h.sched, Kick) /\ kicked.m = next.m
  BY <1>1 DEF Work, Modules
<1>3. Popped(h) = IF rest = <<>> THEN next ELSE kicked
  BY DEF Popped, Listed, rest
<1> HIDE DEF next, kicked
<1> QED BY <1>1, <1>2, <1>3 DEF rest

LEMMA AddedLine ==
  ASSUME NEW h \in Work, NEW l \in Links
  PROVE  LET g == Added(h, l)
         IN /\ l \notin Range(h.m.queue) =>
                 /\ g.m.queue = Append(h.m.queue, l)
                 /\ g.sched = (IF h.m.queue = <<>> THEN Append(h.sched, Kick) ELSE h.sched)
            /\ g.m.adv = h.m.adv /\ g.m.advDirected = h.m.advDirected
<1> DEFINE more == Append(h.m.queue, l)
           next == [h EXCEPT !.m.queue = more]
           kicked == [next EXCEPT !.sched = Append(@, Kick)]
<1>3. Added(h, l) = IF l \in Range(h.m.queue) THEN h
                    ELSE IF h.m.queue = <<>> THEN kicked ELSE next
  <2>1. [h EXCEPT !.m.queue = Append(@, l)] = next
    OBVIOUS
  <2> HIDE DEF next, more
  <2> QED BY <2>1 DEF Added, Listed
<1> HIDE DEF more
<1>1. next.sched = h.sched /\ next.m.queue = more /\ next.m.adv = h.m.adv
      /\ next.m.advDirected = h.m.advDirected
  BY DEF Work, Modules
<1>2. kicked.sched = Append(h.sched, Kick) /\ kicked.m = next.m
  BY <1>1 DEF Work, Modules
<1> HIDE DEF next, kicked
<1> QED BY <1>1, <1>2, <1>3 DEF more

(* What becomes of advertising, and of the rest, when a transition is      *)
(* followed.                                                               *)
AdvMoves(r, a, b) ==
  b = a \/ (a = "advertising" /\ b = "stopping") \/ ("start" \in r.calls /\ a = "idle" /\ b = "starting")

Along(r, h, g) ==
  /\ g.sched = h.sched /\ g.m.queue = h.m.queue
  /\ g.m.advDirected = h.m.advDirected /\ AdvMoves(r, h.m.adv, g.m.adv)

LEMMA QuietAlong ==
  ASSUME NEW r, NEW h, NEW g, Quiet(h, g) PROVE Along(r, h, g)
BY DEF Quiet, Along, AdvMoves

LEMMA StopsStartsAlong ==
  ASSUME NEW h \in Work, NEW l \in Links, NEW r, r.from \notin Directed, r.to \notin Directed
  PROVE  Along(r, h, Starts(Stops(h, r, l), r, l))
<1> DEFINE f == Stops(h, r, l)
           g == Starts(f, r, l)
<1>1. f \in Work /\ Quiet(h, f)
  <2>1. f = IF "stop" \in r.calls THEN AdvStopped(h) ELSE h
    BY DEF Stops, StopAdvertising
  <2> HIDE DEF f
  <2> QED BY <2>1, AdvStoppedQuiet, AdvStoppedCalm, QuietItself DEF Calm
<1> HIDE DEF f
<1>2. CASE "start" \in r.calls
  <2> DEFINE new == r.to = "Connecting"
             k == AdvStarted([f EXCEPT !.m.bondable = new])
  <2>1. g = k
    BY <1>2 DEF Starts, StartAdvertising
  <2>2. /\ k.sched = f.sched /\ k.m.queue = f.m.queue /\ k.m.advDirected = f.m.advDirected
        /\ k.m.adv = f.m.adv \/ (f.m.adv = "idle" /\ k.m.adv = "starting")
    <3> HIDE DEF new
    <3> QED BY <1>1, AdvStartedEffect
  <2> HIDE DEF g, k
  <2>3. Along(r, h, g)
    BY <1>1, <1>2, <2>1, <2>2 DEF Quiet, Along, AdvMoves
  <2> QED BY <2>3 DEF g, f
<1>3. CASE "start" \notin r.calls
  <2>1. g = f
    BY <1>3 DEF Starts
  <2> HIDE DEF g
  <2>2. Along(r, h, g)
    BY <1>1, <2>1, QuietAlong
  <2> QED BY <2>2 DEF g, f
<1> QED BY <1>2, <1>3

LEMMA AlongQuiet ==
  ASSUME NEW r, NEW f, NEW g, NEW h, Along(r, f, g), Quiet(g, h) PROVE
    \/ Along(r, f, h)
    \/ "start" \in r.calls
BY DEF Quiet, Along, AdvMoves

(* A transition that leaves the queue alone, that pops, and that adds.     *)
LEMMA FollowsLine ==
  ASSUME NEW h \in Work, NoneAccepts(h), NEW l \in Links, NEW r, r.to \in States,
         r.from \notin Directed, r.to \notin Directed, "start" \in r.calls => "close" \notin r.calls,
         "remove" \notin r.calls
  PROVE  LET g == Follows(h, r, l)
             a == Leaves(h, r, l)
         IN /\ a.m.adv = h.m.adv /\ a.m.advDirected = h.m.advDirected
            /\ a = (IF "pop" \in r.calls THEN Popped(h) ELSE h)
            /\ "add" \notin r.calls => Along(r, a, g)
            /\ "add" \in r.calls =>
                 /\ g.m.advDirected = h.m.advDirected /\ AdvMoves(r, h.m.adv, g.m.adv)
                 /\ l \notin Range(a.m.queue) =>
                      /\ g.m.queue = Append(a.m.queue, l)
                      /\ g.sched = (IF a.m.queue = <<>> THEN Append(a.sched, Kick) ELSE a.sched)
<1> DEFINE a == Leaves(h, r, l)
           b == Stops(a, r, l)
           c == Starts(b, r, l)
           d == Settles(c, r, l)
           g == [d EXCEPT !.m.state[l] = r.to]
<1>1. a = (IF "pop" \in r.calls THEN Popped(h) ELSE h)
  BY DEF Leaves
<1>2. Calm(h, a) /\ a \in Work /\ a.m.adv = h.m.adv /\ a.m.advDirected = h.m.advDirected
  <2>1. Calm(h, a) /\ a \in Work
    BY LeavesCalm DEF Calm
  <2> HIDE DEF a
  <2> QED BY <1>1, <2>1, PoppedLine
<1>3. NoneAccepts(a)
  BY <1>2, CalmAccepts
<1> HIDE DEF a
<1>4. Along(r, a, c) /\ c \in Work /\ NoneAccepts(c)
  <2>1. Along(r, a, c)
    BY <1>2, StopsStartsAlong
  <2>2. b \in Work /\ Calm(a, b)
    <3>1. b = IF "stop" \in r.calls THEN AdvStopped(a) ELSE a
      BY DEF Stops, StopAdvertising
    <3> HIDE DEF b
    <3>2. Calm(a, AdvStopped(a)) /\ Calm(a, a)
      BY <1>2, AdvStoppedCalm, CalmItself
    <3>3. Calm(a, b)
      BY <3>1, <3>2
    <3> QED BY <3>3 DEF Calm
  <2> HIDE DEF b
  <2>3. Calm(b, c)
    <3> DEFINE new == r.to = "Connecting"
               f == AdvStarted([b EXCEPT !.m.bondable = new])
    <3>1. c = f \/ c = b
      BY DEF Starts, StartAdvertising
    <3>2. new \in BOOLEAN
      OBVIOUS
    <3> HIDE DEF new, c
    <3>3. Calm(b, f) /\ Calm(b, b)
      BY <2>2, <3>2, AdvStartedCalm, CalmItself
    <3> HIDE DEF f
    <3> QED BY <3>1, <3>3
  <2> HIDE DEF c
  <2>4. NoneAccepts(b)
    BY <1>3, <2>2, CalmAccepts
  <2>5. NoneAccepts(c)
    BY <2>3, <2>4, CalmAccepts
  <2> QED BY <2>1, <2>3, <2>5 DEF Calm
<1> HIDE DEF b, c
<1>5. d \in Work
  <2>1. Added(c, l) \in Work /\ CloseConnection(c, l) \in Work
    BY <1>4, AddedCalm, CloseConnectionCalm DEF Calm
  <2> QED BY <1>4, <2>1 DEF Settles
<1>6. Follows(h, r, l) = g
  BY DEF Follows, d, c, b, a
<1>7. /\ g.sched = d.sched /\ g.m.queue = d.m.queue
      /\ g.m.advDirected = d.m.advDirected /\ g.m.adv = d.m.adv
  <2> HIDE DEF d
  <2> QED BY <1>5 DEF Work, Modules
<1>8. "add" \notin r.calls => Along(r, a, d)
  <2>1. ASSUME "add" \notin r.calls, "close" \in r.calls PROVE Along(r, a, d)
    <3>1. d = CloseConnection(c, l)
      BY <2>1 DEF Settles
    <3> HIDE DEF d
    <3>2. Quiet(c, d)
      BY <1>4, <3>1, CloseConnectionQuiet
    <3> QED BY <1>4, <2>1, <3>2, AlongQuiet
  <2>2. ASSUME "add" \notin r.calls, "close" \notin r.calls PROVE d = c
    BY <2>2 DEF Settles
  <2> QED BY <1>4, <2>1, <2>2
<1>9. "add" \in r.calls => d = Added(c, l)
  BY DEF Settles
<1>10. "add" \in r.calls =>
         /\ d.m.advDirected = c.m.advDirected /\ d.m.adv = c.m.adv
         /\ l \notin Range(c.m.queue) =>
              /\ d.m.queue = Append(c.m.queue, l)
              /\ d.sched = (IF c.m.queue = <<>> THEN Append(c.sched, Kick) ELSE c.sched)
  BY <1>4, <1>9, AddedLine
<1> HIDE DEF d, g
<1>11. "add" \notin r.calls => Along(r, a, g)
  BY <1>7, <1>8 DEF Along
<1>12. "add" \in r.calls =>
         /\ g.m.advDirected = h.m.advDirected /\ AdvMoves(r, h.m.adv, g.m.adv)
         /\ l \notin Range(a.m.queue) =>
              /\ g.m.queue = Append(a.m.queue, l)
              /\ g.sched = (IF a.m.queue = <<>> THEN Append(a.sched, Kick) ELSE a.sched)
  BY <1>2, <1>4, <1>7, <1>10 DEF Along
<1> QED BY <1>1, <1>2, <1>6, <1>11, <1>12 DEF a
-----------------------------------------------------------------------------
Nobody(n) == \A l \in Links : n.state[l] \notin Advertising

(* Every link that waits or advertises has its place in the queue, and a   *)
(* kick is under way only while nobody advertises and somebody waits.      *)
InLine(n, s) ==
  /\ \A l \in Links : n.state[l] \in Queued => l \in Range(n.queue)
  /\ \A l \in Links : n.state[l] # "StopReconnectingDirect"
  /\ s = <<>> \/ (s = <<Kick>> /\ n.queue # <<>> /\ Nobody(n))

(* What a link may be told: when it waits, only that its turn has come.    *)
MayTell(h, s, e, l) ==
  l \in Links /\ h.m.state[l] \in Waiting =>
    /\ e \notin {"AdvFail", "ConnOpen"} \cup Close
    /\ e = "AdvAvail" => h.m.queue # <<>> /\ l = h.m.queue[1] /\ s = <<>> /\ Nobody(h.m)

LEMMA QueuedStates ==
  /\ Waiting \subseteq Queued /\ Advertising \subseteq Queued /\ Active \subseteq Queued
  /\ Waiting \cap Advertising = {} /\ Waiting \cap Active = {}
  /\ \A s \in Active : s # "StopReconnectingDirect" => s \in Advertising
  /\ "StopReconnectingDirect" \in Queued /\ "StopReconnectingDirect" \notin Waiting
  /\ Queued \cap AtRest = {}
BY DEF Queued, Active, Waiting, Advertising, Directed, Aborting, AtRest, Connected, Closing

(* Of the links that have a place in the queue none is outside.            *)
LEMMA PlacesAreQueued ==
  ASSUME NEW st, NEW q, Turns(st, q), NEW l \in Range(q) PROVE st[l] \in Queued
<1>1. PICK i \in 1 .. Len(q) : l = q[i]
  BY RangeElements DEF Turns
<1> QED BY <1>1, QueuedStates DEF Turns

(* The one that advertises is the first.                                   *)
LEMMA AdvertiserIsFirst ==
  ASSUME NEW n, NEW s, Turns(n.state, n.queue), InLine(n, s), NEW l \in Links,
         n.state[l] \in Advertising
  PROVE  n.queue # <<>> /\ l = n.queue[1] /\ s = <<>>
<1>1. l \in Range(n.queue) /\ n.state[l] \notin Waiting
  BY QueuedStates DEF InLine
<1>2. n.queue # <<>> /\ l = n.queue[1]
  BY <1>1, ActiveIsFirst
<1>3. s = <<>>
  BY DEF InLine, Nobody
<1> QED BY <1>2, <1>3

LEMMA OnlyKick ==
  ASSUME NEW s \in Seq(SchedEvents)
  PROVE  /\ Append(<<>>, Kick) = <<Kick>> /\ <<>> \o <<>> = <<>> /\ s \o <<>> = s
         /\ <<>> \o <<Kick>> = <<Kick>>
<1>1. <<Kick>> \in Seq(SchedEvents) /\ <<>> \in Seq(SchedEvents)
  BY DEF SchedEvents
<1> QED BY <1>1, ConcatEmptySeq

(* A link joins.                                                           *)
LEMMA JoinsInLine ==
  ASSUME NEW n, NEW o, NEW s \in Seq(SchedEvents), NEW k, InLine(n, s), Turns(n.state, n.queue),
         NEW l \in Links, n.state[l] \notin Queued, NEW t \in Waiting,
         o.state = [n.state EXCEPT ![l] = t], o.queue = Append(n.queue, l),
         k = (IF n.queue = <<>> THEN <<Kick>> ELSE <<>>)
  PROVE  InLine(o, s \o k)
<1>1. n.queue \in Seq(Links) /\ n.state \in [Links -> States]
  BY DEF Turns
<1>2. Range(o.queue) = Range(n.queue) \cup {l} /\ o.queue # <<>>
  <2>1. Append(n.queue, l) # <<>> /\ Range(Append(n.queue, l)) = Range(n.queue) \cup {l}
    BY <1>1, AppendRange
  <2> QED BY <2>1
<1>3. \A x \in Links : o.state[x] \in Queued => x \in Range(o.queue)
  BY <1>1, <1>2 DEF InLine
<1>4. \A x \in Links : o.state[x] # "StopReconnectingDirect"
  BY <1>1, QueuedStates DEF InLine
<1>5. Nobody(n) => Nobody(o)
  BY <1>1, QueuedStates DEF Nobody
<1>6. CASE n.queue = <<>>
  <2>1. s = <<>>
    BY <1>6 DEF InLine
  <2>2. Nobody(n)
    <3>1. Range(n.queue) = {}
      BY <1>6 DEF Range
    <3> QED BY <3>1, QueuedStates DEF Nobody, InLine
  <2>3. s \o k = <<Kick>>
    BY <1>6, <2>1, OnlyKick
  <2> QED BY <1>2, <1>3, <1>4, <1>5, <2>2, <2>3 DEF InLine
<1>7. CASE n.queue # <<>>
  <2>1. s \o k = s
    BY <1>7, OnlyKick
  <2> QED BY <1>2, <1>3, <1>4, <1>5, <2>1 DEF InLine
<1> QED BY <1>6, <1>7

(* The one that advertises leaves.                                         *)
LEMMA LeavesInLine ==
  ASSUME NEW n, NEW o, NEW s \in Seq(SchedEvents), NEW k, InLine(n, s), Turns(n.state, n.queue),
         NEW l \in Links, n.state[l] \in Active, NEW t \in States, t \notin Queued,
         o.state = [n.state EXCEPT ![l] = t],
         o.queue = (IF n.queue = <<>> THEN <<>> ELSE Tail(n.queue)),
         k = (IF o.queue = <<>> THEN <<>> ELSE <<Kick>>)
  PROVE  InLine(o, s \o k)
<1>1. n.queue \in Seq(Links) /\ n.state \in [Links -> States] /\ IsInjective(n.queue)
  BY DEF Turns
<1>2. n.state[l] \in Advertising
  BY QueuedStates DEF InLine
<1>3. n.queue # <<>> /\ l = n.queue[1] /\ s = <<>>
  BY <1>2, AdvertiserIsFirst
<1>4. o.queue = Tail(n.queue) /\ Range(o.queue) = Range(n.queue) \ {l}
  <2>1. Head(n.queue) = l
    BY <1>1, <1>3
  <2>2. Range(Tail(n.queue)) = Range(n.queue) \ {Head(n.queue)}
    BY <1>1, <1>3, TailRange
  <2> QED BY <1>3, <2>1, <2>2
<1>5. \A x \in Links : o.state[x] \in Queued => x \in Range(o.queue)
  BY <1>1, <1>4 DEF InLine
<1>6. \A x \in Links : o.state[x] # "StopReconnectingDirect"
  BY <1>1, QueuedStates DEF InLine
<1>7. Nobody(o)
  <2> SUFFICES ASSUME NEW x \in Links, o.state[x] \in Advertising PROVE FALSE
    BY DEF Nobody
  <2>1. x # l /\ n.state[x] \in Advertising
    BY <1>1, QueuedStates
  <2> QED BY <1>3, <2>1, AdvertiserIsFirst
<1>8. s \o k = k
  BY <1>3, OnlyKick
<1> QED BY <1>5, <1>6, <1>7, <1>8 DEF InLine

(* A link's state changes that keeps its place, or has none.               *)
LEMMA StaysInLine ==
  ASSUME NEW n, NEW o, NEW s \in Seq(SchedEvents), InLine(n, s), Turns(n.state, n.queue),
         NEW l \in Links, NEW t \in States, t # "StopReconnectingDirect",
         o.state = [n.state EXCEPT ![l] = t], o.queue = n.queue,
         n.state[l] \in Queued \/ t \notin Queued,
         n.state[l] \in Advertising \/ t \notin Advertising \/ s = <<>>
  PROVE  InLine(o, s \o <<>>)
<1>1. n.state \in [Links -> States]
  BY DEF Turns
<1>2. s \o <<>> = s
  BY OnlyKick
<1>3. \A x \in Links : o.state[x] \in Queued => x \in Range(o.queue)
  BY <1>1 DEF InLine
<1>4. \A x \in Links : o.state[x] # "StopReconnectingDirect"
  BY <1>1 DEF InLine
<1>5. Nobody(n) => Nobody(o) \/ s = <<>>
  BY <1>1 DEF Nobody
<1> QED BY <1>2, <1>3, <1>4, <1>5 DEF InLine
-----------------------------------------------------------------------------
(* A link is told something: the queue, and what becomes of advertising.   *)
AdvChange(e, a, b) ==
  b = a \/ (a = "advertising" /\ b = "stopping") \/ (e = "AdvAvail" /\ a = "idle" /\ b = "starting")

LEMMA TransitionInLine ==
  ASSUME NEW h \in Work, NoneAccepts(h), h.sched = <<>>, NEW s \in Seq(SchedEvents),
         InLine(h.m, s), Turns(h.m.state, h.m.queue), NEW l \in Links,
         NEW conf \in SUBSET Flags, NEW r \in Table[conf], r.from = h.m.state[l],
         r.from \notin Directed, r.to \notin Directed, MayTell(h, s, r.event, l)
  PROVE  LET g == Follows(h, r, l)
         IN /\ InLine(g.m, s \o g.sched) /\ g.m.advDirected = h.m.advDirected
            /\ AdvChange(r.event, h.m.adv, g.m.adv)
<1> DEFINE g == Follows(h, r, l)
           a == Leaves(h, r, l)
<1>1. RowKind(r) /\ TurnRow(conf, r) /\ r.from \in States /\ r.to \in States
  BY RowKinds, TurnRows DEF RowKind
<1>2. g.m.state = [h.m.state EXCEPT ![l] = r.to]
  BY <1>1, FollowsCalm
<1>3. ~ GivesUp(r) /\ "remove" \notin r.calls
  <2>1. GivesUp(r) => "remove" \in r.calls /\ r.calls \cap QueueCalls = {}
    BY <1>1 DEF GivesUp, TurnRow, MayTell
  <2> QED BY <1>1, <2>1 DEF RowKind, QueueCalls
<1>4. /\ a.m.adv = h.m.adv /\ a.m.advDirected = h.m.advDirected
      /\ a = (IF "pop" \in r.calls THEN Popped(h) ELSE h)
      /\ "add" \notin r.calls => Along(r, a, g)
      /\ "add" \in r.calls =>
           /\ g.m.advDirected = h.m.advDirected /\ AdvMoves(r, h.m.adv, g.m.adv)
           /\ l \notin Range(a.m.queue) =>
                /\ g.m.queue = Append(a.m.queue, l)
                /\ g.sched = (IF a.m.queue = <<>> THEN Append(a.sched, Kick) ELSE a.sched)
  <2>1. "start" \in r.calls => "close" \notin r.calls
    BY <1>1 DEF TurnRow
  <2> QED BY <1>1, <1>3, <2>1, FollowsLine
<1> HIDE DEF g, a
<1>5. g.m.advDirected = h.m.advDirected /\ AdvMoves(r, h.m.adv, g.m.adv)
  BY <1>4 DEF Along
<1>6. AdvChange(r.event, h.m.adv, g.m.adv)
  <2>1. "start" \in r.calls => r.event = "AdvAvail"
    BY <1>1 DEF TurnRow
  <2> QED BY <1>5, <2>1 DEF AdvMoves, AdvChange
<1>7. Append(<<>>, Kick) = <<Kick>>
  BY OnlyKick
<1>8. r.to # "StopReconnectingDirect"
  BY <1>1 DEF TurnRow
<1>9. InLine(g.m, s \o g.sched)
  <2>1. CASE Queues(r) /\ r.calls \cap QueueCalls = {"add"}
    <3>1. "add" \in r.calls /\ "pop" \notin r.calls /\ r.to \in Waiting /\ h.m.state[l] \notin Queued
      BY <2>1 DEF Queues, QueueCalls
    <3>2. l \notin Range(h.m.queue)
      BY <3>1, PlacesAreQueued
    <3>3. g.m.queue = Append(h.m.queue, l)
          /\ g.sched = (IF h.m.queue = <<>> THEN <<Kick>> ELSE <<>>)
      BY <1>4, <1>7, <3>1, <3>2
    <3> QED BY <1>2, <3>1, <3>3, JoinsInLine
  <2>2. CASE Finishes(r) /\ r.calls \cap QueueCalls = {"pop"}
    <3>1. "add" \notin r.calls /\ "pop" \in r.calls /\ r.to \notin Queued /\ h.m.state[l] \in Active
      BY <2>2 DEF Finishes, QueueCalls
    <3>2. g.m.queue = a.m.queue /\ g.sched = a.sched /\ a = Popped(h)
      BY <1>4, <3>1 DEF Along
    <3>3. g.m.queue = (IF h.m.queue = <<>> THEN <<>> ELSE Tail(h.m.queue))
          /\ g.sched = (IF g.m.queue = <<>> THEN <<>> ELSE <<Kick>>)
      BY <1>7, <3>2, PoppedLine
    <3> QED BY <1>1, <1>2, <3>1, <3>3, LeavesInLine
  <2>3. CASE (Begins(r) \/ Continues(r) \/ Outside(r)) /\ r.calls \cap QueueCalls = {}
    <3>1. "add" \notin r.calls /\ "pop" \notin r.calls
      BY <2>3 DEF QueueCalls
    <3>2. g.m.queue = h.m.queue /\ g.sched = <<>>
      BY <1>4, <3>1 DEF Along
    <3>3. Begins(r) => s = <<>> /\ h.m.state[l] \in Queued
      BY QueuedStates DEF Begins, MayTell
    <3>4. Continues(r) => h.m.state[l] \in Queued /\ h.m.state[l] \in Advertising
      BY QueuedStates DEF Continues, InLine
    <3>5. Outside(r) => r.to \notin Queued /\ r.to \notin Advertising
      BY QueuedStates DEF Outside
    <3> QED BY <1>1, <1>2, <1>8, <2>3, <3>2, <3>3, <3>4, <3>5, StaysInLine
  <2> QED BY <1>1, <1>3, <2>1, <2>2, <2>3 DEF RowKind
<1> QED BY <1>5, <1>6, <1>9 DEF g

LEMMA TellInLine ==
  ASSUME use \in Uses, Undirected, NEW h \in Work, Plain(h.m), h.sched = <<>>,
         NEW s \in Seq(SchedEvents), InLine(h.m, s), Turns(h.m.state, h.m.queue),
         NEW l \in Links \cup {None}, NEW e, MayTell(h, s, e, l)
  PROVE  LET g == SendEvent(h, e, l)
         IN /\ InLine(g.m, s \o g.sched) /\ g.m.advDirected = h.m.advDirected
            /\ AdvChange(e, h.m.adv, g.m.adv)
<1>1. NoneAccepts(h) /\ \A k \in Links : h.m.state[k] \notin Directed
  BY DEF Plain, NoneAccepts
<1>2. CASE ~ Processed(h, e, l)
  <2>1. SendEvent(h, e, l) = h /\ s \o h.sched = s
    BY <1>2, OnlyKick DEF SendEvent
  <2> QED BY <2>1 DEF AdvChange
<1>3. CASE Processed(h, e, l)
  <2> DEFINE r == CHOOSE t \in Transitions(h, e, l) : TRUE
             g == Follows(h, r, l)
  <2>1. l \in Links /\ r \in Transitions(h, e, l)
    BY <1>3 DEF Processed
  <2>2. SendEvent(h, e, l) = g
    BY <1>3 DEF SendEvent
  <2> HIDE DEF r
  <2>3. r \in Table[use.conf[l]] /\ r.from = h.m.state[l] /\ r.event = e
    BY <2>1 DEF Transitions
  <2>4. use.conf[l] \in SUBSET Flags /\ use.conf[l] \cap ByDirection = {}
    BY <2>1, Configurations DEF Undirected, ByDirection
  <2>5. SideRow(use.conf[l], r)
    BY <2>3, <2>4, SideRows
  <2>6. r.from \notin Directed /\ r.to \notin Directed
    BY <1>1, <2>1, <2>3, <2>4, <2>5 DEF SideRow
  <2>7. /\ InLine(g.m, s \o g.sched) /\ g.m.advDirected = h.m.advDirected
        /\ AdvChange(e, h.m.adv, g.m.adv)
    BY <1>1, <2>1, <2>3, <2>4, <2>6, TransitionInLine
  <2> HIDE DEF g
  <2> QED BY <2>2, <2>7
<1> QED BY <1>2, <1>3

(* What the table says of the state in which that leaves the link.         *)
LEMMA TellStates ==
  ASSUME use \in Uses, Undirected, NEW h \in Work, Plain(h.m), NEW l \in Links \cup {None}, NEW e
  PROVE  LET g == SendEvent(h, e, l)
         IN /\ \A k \in Links : k # l \/ ~Processed(h, e, l) => g.m.state[k] = h.m.state[k]
            /\ \A k \in Links : h.m.state[k] \in Advertising /\ g.m.state[k] \notin Advertising =>
                 e \in {"ConnOpenNew", "ConnOpen", "ConnFail"} /\ k = l
            /\ \A k \in Links : g.m.state[k] \in Advertising /\ h.m.state[k] \notin Advertising =>
                 e = "AdvAvail" /\ k = l /\ h.m.state[k] \in Waiting
            /\ \A k \in Links : h.m.state[k] \in AtRest /\ g.m.state[k] \notin AtRest =>
                 k = l /\ (e = "ConnCloseExt" \/ "EncryptedOnly" \in use.conf[k])
            /\ \A k \in Links : h.m.state[k] = "BLEHostInitialising" /\ e # "BLEHostResetComplete" =>
                 g.m.state[k] = h.m.state[k]
<1> DEFINE g == SendEvent(h, e, l)
<1>1. /\ Processed(h, e, l) => MovedTo(h, g, l, e)
      /\ ~Processed(h, e, l) => g = h
      /\ \A k \in Links : h.m.state[k] \notin Directed
  BY SendEventCalm DEF Plain
<1> HIDE DEF g
<1>2. CASE ~Processed(h, e, l)
  BY <1>1, <1>2 DEF g
<1>3. CASE Processed(h, e, l)
  <2>1. PICK r \in Table[use.conf[l]] :
          r.from = h.m.state[l] /\ r.event = e /\ g.m.state = [h.m.state EXCEPT ![l] = r.to]
    BY <1>1, <1>3 DEF MovedTo
  <2>2. l \in Links
    BY <1>1, <1>3 DEF MovedTo
  <2>3. TurnRow(use.conf[l], r) /\ l # None /\ r.from \notin Directed
    BY <1>1, <2>1, <2>2, TurnRows, Configurations, BleAssumption
  <2>4. /\ \A k \in Links \ {l} : g.m.state[k] = h.m.state[k]
        /\ g.m.state[l] = r.to
    BY <2>1, <2>2, WorkTypes
  <2>5. r.from \in Advertising /\ r.to \notin Advertising => e \in {"ConnOpenNew", "ConnOpen", "ConnFail"}
    BY <2>1, <2>3 DEF TurnRow
  <2>6. r.to \in Advertising /\ r.from \notin Advertising => e = "AdvAvail" /\ r.from \in Waiting
    BY <2>1, <2>3 DEF TurnRow
  <2>7. r.from \in AtRest /\ r.to \notin AtRest => e = "ConnCloseExt" \/ "EncryptedOnly" \in use.conf[l]
    BY <2>1, <2>3 DEF TurnRow
  <2>8. r.from = "BLEHostInitialising" => e = "BLEHostResetComplete"
    BY <2>1, <2>3 DEF TurnRow
  <2> QED BY <1>3, <2>1, <2>2, <2>4, <2>5, <2>6, <2>7, <2>8 DEF g
<1> QED BY <1>2, <1>3
-----------------------------------------------------------------------------
(* What the host stack still owes the link that advertises: one outcome,   *)
(* that advertising stopped or that a device connected.                    *)
Outcomes == {"AdvStop", "ConnOpen"}
Pending(q) == \E i \in 1 .. Len(q) : q[i].event \in Outcomes
Awaited(n, q) == n.adv # "idle" \/ Pending(q)

(* Links that hold a connection are connected, or close it; a bond that is *)
(* not valid yet is that of the connection that the link holds.            *)
HoldersAtRest(n) == \A l \in Links : n.connId[l] # None => n.state[l] \in AtRest
NewRecord(n, l) == n.rec[l].peer # None /\ ~n.rec[l].valid
NewRecordsHeld(n) == \A l \in Links : NewRecord(n, l) => n.connId[l] \in Conns /\ n.dbHdl[n.connId[l]] = l
EndsOnce(q) == \A i, j \in 1 .. Len(q) :
  i < j /\ q[i].event = "ConnClose" /\ q[j].event = "ConnClose" => q[i].conn # q[j].conn
Common(n, q) ==
  /\ HoldersAtRest(n) /\ NewRecordsHeld(n) /\ EndsOnce(q) /\ ~n.advDirected
  /\ n.adv \in {"idle", "starting", "advertising", "stopping"}

(* One outcome at a time, and only when somebody advertises.               *)
OneOutcome(n, q) ==
  /\ \A i \in 1 .. Len(q) : q[i].event \in Outcomes =>
       n.adv = "idle" /\ \A j \in 1 .. Len(q) : q[j].event \in Outcomes => j = i
  /\ Awaited(n, q) => ~Nobody(n)

(* A connection known to the module, and not ended yet, that is a link's   *)
(* own is held by that link, but for one that connected while the link was *)
(* about to stop: then nobody else will advertise.                         *)
Seen(n, q, c) ==
  (n.ccb[c].state # "free" \/ c \in About(q, "ConnClose")) /\ c \notin About(q, "ConnOpen")
OwnHeld(n, q, c) == n.dbHdl[c] # None => n.connId[n.dbHdl[c]] = c
OwnKept(n, q, c) == OwnHeld(n, q, c) \/ (n.state[n.dbHdl[c]] \in Advertising /\ ~Awaited(n, q))
HeldBut(n, q, x) == \A c \in Conns \ {x} : Seen(n, q, c) => OwnHeld(n, q, c)
AllKept(n, q) == \A c \in Conns : Seen(n, q, c) => OwnKept(n, q, c)

(* The device that has connected is that of the link that advertises, or   *)
(* nobody's by the time that this is handled.                              *)
First(n, p, a) ==
  n.state[a] \in Advertising /\ n.rec[a].peer = p /\ \A k \in Links : k < a => n.rec[k].peer # p
Ended(q, i, c) == \E j \in 1 .. Len(q) : j < i /\ q[j].event = "ConnClose" /\ q[j].conn = c
Dropping(n, q, i, d) == ~n.rec[d].valid /\ About(q, "PairCmpl") = {} /\ Ended(q, i, n.connId[d])
ExpectedAt(n, q, i) ==
  \/ \E a \in Links : First(n, q[i].peer, a)
  \/ \A d \in Links : n.rec[d].peer = q[i].peer => Dropping(n, q, i, d)
AllExpected(n, q) == \A i \in 1 .. Len(q) : q[i].event = "ConnOpen" => ExpectedAt(n, q, i)

Fair(n, q) == Common(n, q) /\ OneOutcome(n, q) /\ AllKept(n, q) /\ AllExpected(n, q)
(* ... and while no outcome is awaited, but for a connection x.            *)
Firm(n, q, x) == Common(n, q) /\ ~Awaited(n, q) /\ HeldBut(n, q, x)

LEMMA FirmIsFair ==
  ASSUME NEW n, NEW q, NEW x, Firm(n, q, x),
         x \in Conns => n.dbHdl[x] = None \/ n.state[n.dbHdl[x]] \in Advertising
  PROVE  Fair(n, q)
<1>1. OneOutcome(n, q) /\ AllExpected(n, q)
  BY DEF Firm, OneOutcome, AllExpected, Awaited, Pending, Outcomes
<1>2. AllKept(n, q)
  BY DEF Firm, HeldBut, AllKept, OwnKept, OwnHeld
<1> QED BY <1>1, <1>2 DEF Fair, Firm

(* While nobody advertises, none is awaited.                               *)
LEMMA NobodyIsFirm ==
  ASSUME NEW n, NEW q, Fair(n, q), Nobody(n),
         \A c \in Conns : n.dbHdl[c] \in Links \cup {None}
  PROVE  Firm(n, q, None)
<1>1. ~Awaited(n, q)
  BY DEF Fair, OneOutcome
<1>2. HeldBut(n, q, None)
  BY DEF Fair, AllKept, OwnKept, HeldBut, Nobody, OwnHeld
<1> QED BY <1>1, <1>2 DEF Fair, Firm
-----------------------------------------------------------------------------
(* The messages after the first is taken.                                  *)
After(q, x, t) ==
  /\ x \in Inds /\ q[1] = x /\ 1 \in 1 .. Len(q) /\ Len(q) \in Nat /\ Len(t) \in Nat
  /\ \A i \in 1 .. Len(t) : i + 1 \in 1 .. Len(q) /\ 1 < i + 1 /\ t[i] = q[i + 1]
  /\ \A i \in 1 .. Len(q) : i # 1 => i - 1 \in 1 .. Len(t) /\ 1 < i /\ q[i] = t[i - 1]

LEMMA TailIsAfter ==
  ASSUME NEW q \in Seq(Inds), q # <<>> PROVE After(q, Head(q), Tail(q)) /\ Tail(q) \in Seq(Inds)
<1> DEFINE t == Tail(q)
           x == Head(q)
<1>1. /\ Len(q) \in Nat \ {0} /\ Len(t) = Len(q) - 1 /\ x = q[1] /\ x \in Inds
      /\ \A i \in 1 .. Len(t) : t[i] = q[i + 1]
      /\ t \in Seq(Inds)
  BY HeadTailProperties, EmptySeq, LenProperties
<1> HIDE DEF t, x
<1>2. 1 \in 1 .. Len(q) /\ Len(t) \in Nat
  BY <1>1
<1>3. \A i \in 1 .. Len(t) : i + 1 \in 1 .. Len(q) /\ 1 < i + 1 /\ t[i] = q[i + 1]
  BY <1>1
<1>4. ASSUME NEW i \in 1 .. Len(q), i # 1
      PROVE  i - 1 \in 1 .. Len(t) /\ 1 < i /\ q[i] = t[i - 1]
  <2>1. i - 1 \in 1 .. Len(t) /\ 1 < i /\ (i - 1) + 1 = i
    BY <1>1, <1>4
  <2> QED BY <1>1, <2>1
<1> QED BY <1>1, <1>2, <1>3, <1>4 DEF After, t, x

LEMMA AboutAfter ==
  ASSUME NEW q, NEW x, NEW t, After(q, x, t), NEW e
  PROVE  /\ About(t, e) \subseteq About(q, e)
         /\ \A c \in About(q, e) : c \in About(t, e) \/ (x.event = e /\ x.conn = c)
         /\ x.event = e /\ x.conn \in Conns => x.conn \in About(q, e)
<1>1. About(t, e) \subseteq About(q, e)
  BY DEF After, About
<1>2. ASSUME NEW c \in About(q, e) PROVE c \in About(t, e) \/ (x.event = e /\ x.conn = c)
  <2>1. PICK i \in 1 .. Len(q) : q[i].event = e /\ q[i].conn = c
    BY DEF About
  <2>2. CASE i = 1
    BY <2>1, <2>2 DEF After
  <2>3. CASE i # 1
    BY <2>1, <2>3 DEF After, About
  <2> QED BY <2>2, <2>3
<1>3. x.event = e /\ x.conn \in Conns => x.conn \in About(q, e)
  BY DEF After, About
<1> QED BY <1>1, <1>2, <1>3

LEMMA CommonAfter ==
  ASSUME NEW n, NEW q, NEW x, NEW t, After(q, x, t), Common(n, q)
  PROVE  Common(n, t) /\ (x.event = "ConnClose" => x.conn \notin About(t, "ConnClose"))
<1>1. EndsOnce(t)
  <2> SUFFICES ASSUME NEW i \in 1 .. Len(t), NEW j \in 1 .. Len(t), i < j,
                      t[i].event = "ConnClose", t[j].event = "ConnClose"
               PROVE  t[i].conn # t[j].conn
    BY DEF EndsOnce
  <2>1. i + 1 < j + 1 /\ i + 1 \in 1 .. Len(q) /\ j + 1 \in 1 .. Len(q)
        /\ t[i] = q[i + 1] /\ t[j] = q[j + 1]
    BY DEF After
  <2> QED BY <2>1 DEF Common, EndsOnce
<1>2. ASSUME x.event = "ConnClose", x.conn \in About(t, "ConnClose") PROVE FALSE
  <2>1. PICK i \in 1 .. Len(t) : t[i].event = "ConnClose" /\ t[i].conn = x.conn
    BY <1>2 DEF About
  <2>2. 1 < i + 1 /\ 1 \in 1 .. Len(q) /\ i + 1 \in 1 .. Len(q) /\ q[i + 1] = t[i] /\ q[1] = x
    BY DEF After
  <2> QED BY <1>2, <2>1, <2>2 DEF Common, EndsOnce
<1> QED BY <1>1, <1>2 DEF Common

(* The outcome itself is taken.                                            *)
LEMMA OutcomeTaken ==
  ASSUME NEW n, NEW q, NEW x, NEW t, After(q, x, t), Fair(n, q), x.event \in Outcomes
  PROVE  ~Nobody(n) /\ Firm(n, t, x.conn)
<1>1. n.adv = "idle" /\ \A j \in 1 .. Len(q) : q[j].event \in Outcomes => j = 1
  BY DEF After, Fair, OneOutcome
<1>2. ~Awaited(n, t)
  BY <1>1 DEF After, Awaited, Pending
<1>3. Awaited(n, q)
  BY DEF Awaited, Pending, After
<1>4. ~Nobody(n)
  BY <1>3 DEF Fair, OneOutcome
<1>5. ASSUME NEW c \in Conns \ {x.conn}, Seen(n, t, c)
      PROVE  OwnHeld(n, t, c)
  <2>1. About(t, "ConnClose") \subseteq About(q, "ConnClose")
    BY AboutAfter
  <2>2. c \notin About(q, "ConnOpen")
    BY <1>5, AboutAfter DEF Seen
  <2>3. Seen(n, q, c)
    BY <1>5, <2>1, <2>2 DEF Seen
  <2> QED BY <1>3, <2>3 DEF Fair, AllKept, OwnKept, OwnHeld
<1> QED BY <1>2, <1>4, <1>5, CommonAfter DEF Fair, Firm, HeldBut

(* Another message is taken.                                               *)
ExpectedAfter(n, x, t) == \A i \in 1 .. Len(t) : t[i].event = "ConnOpen" =>
  \/ \E a \in Links : First(n, t[i].peer, a)
  \/ \A d \in Links : n.rec[d].peer = t[i].peer =>
       /\ x.event # "PairCmpl"
       /\ \/ Dropping(n, t, i, d)
          \/ x.event = "ConnClose" /\ ~n.rec[d].valid /\ n.connId[d] = x.conn

LEMMA OtherTaken ==
  ASSUME NEW n, NEW q, NEW x, NEW t, After(q, x, t), Fair(n, q), x.event \notin Outcomes
  PROVE  /\ Common(n, t) /\ OneOutcome(n, t) /\ AllKept(n, t) /\ ExpectedAfter(n, x, t)
         /\ Awaited(n, t) <=> Awaited(n, q)
<1>1. Pending(t) <=> Pending(q)
  <2>1. ASSUME Pending(q) PROVE Pending(t)
    <3>1. PICK i \in 1 .. Len(q) : q[i].event \in Outcomes
      BY <2>1 DEF Pending
    <3>2. i # 1
      BY <3>1 DEF After
    <3> QED BY <3>1, <3>2 DEF After, Pending
  <2> QED BY <2>1 DEF After, Pending
<1>2. Awaited(n, t) <=> Awaited(n, q)
  BY <1>1 DEF Awaited
<1>3. OneOutcome(n, t)
  <2>1. ASSUME NEW i \in 1 .. Len(t), t[i].event \in Outcomes
        PROVE  n.adv = "idle" /\ \A j \in 1 .. Len(t) : t[j].event \in Outcomes => j = i
    <3>1. i + 1 \in 1 .. Len(q) /\ t[i] = q[i + 1]
      BY DEF After
    <3>2. n.adv = "idle" /\ \A j \in 1 .. Len(q) : q[j].event \in Outcomes => j = i + 1
      BY <2>1, <3>1 DEF Fair, OneOutcome
    <3> QED BY <3>2 DEF After
  <2> QED BY <1>2, <2>1 DEF Fair, OneOutcome
<1>4. AllKept(n, t)
  <2> SUFFICES ASSUME NEW c \in Conns, Seen(n, t, c) PROVE OwnKept(n, t, c)
    BY DEF AllKept
  <2>1. About(t, "ConnClose") \subseteq About(q, "ConnClose") /\ x.event # "ConnOpen"
    BY AboutAfter DEF Outcomes
  <2>2. c \notin About(q, "ConnOpen")
    BY <2>1, AboutAfter DEF Seen
  <2>3. Seen(n, q, c)
    BY <2>1, <2>2 DEF Seen
  <2> QED BY <1>2, <2>3 DEF Fair, AllKept, OwnKept, OwnHeld
<1>5. ExpectedAfter(n, x, t)
  <2> SUFFICES ASSUME NEW i \in 1 .. Len(t), t[i].event = "ConnOpen",
                      \A a \in Links : ~First(n, t[i].peer, a),
                      NEW d \in Links, n.rec[d].peer = t[i].peer
               PROVE  /\ x.event # "PairCmpl"
                      /\ \/ Dropping(n, t, i, d)
                         \/ x.event = "ConnClose" /\ ~n.rec[d].valid /\ n.connId[d] = x.conn
    BY DEF ExpectedAfter
  <2>1. i + 1 \in 1 .. Len(q) /\ t[i] = q[i + 1]
    BY DEF After
  <2>2. Dropping(n, q, i + 1, d)
    BY <2>1 DEF Fair, AllExpected, ExpectedAt
  <2>3. ~n.rec[d].valid /\ About(q, "PairCmpl") = {} /\ About(t, "PairCmpl") = {}
    BY <2>2, AboutAfter DEF Dropping
  <2>4. x.event # "PairCmpl"
    <3>1. x.event = "PairCmpl" => x.conn \in Conns
      BY DEF After, Inds
    <3> QED BY <2>3, <3>1, AboutAfter
  <2>5. PICK j \in 1 .. Len(q) : j < i + 1 /\ q[j].event = "ConnClose" /\ q[j].conn = n.connId[d]
    BY <2>2 DEF Dropping, Ended
  <2>6. CASE j = 1
    BY <2>3, <2>4, <2>5, <2>6 DEF After
  <2>7. CASE j # 1
    <3>1. j - 1 \in 1 .. Len(t) /\ q[j] = t[j - 1]
      BY <2>7 DEF After
    <3>2. j - 1 < i
      BY <2>5, <3>1
    <3>3. Ended(t, i, n.connId[d])
      BY <2>5, <3>1, <3>2 DEF Ended
    <3> QED BY <2>3, <2>4, <3>3 DEF Dropping
  <2> QED BY <2>6, <2>7
<1> QED BY <1>2, <1>3, <1>4, <1>5, CommonAfter DEF Fair
-----------------------------------------------------------------------------
(* Computations that keep who holds what keep all of this, when links that *)
(* hold a connection stay connected and nobody stops or starts to          *)
(* advertise.                                                              *)
Fairly(n, x, t) == Common(n, t) /\ OneOutcome(n, t) /\ AllKept(n, t) /\ ExpectedAfter(n, x, t)
RestKept(h, g) == \A l \in Links :
  h.m.connId[l] # None /\ h.m.state[l] \in AtRest => g.m.state[l] \in AtRest
AdvertisersKept(h, g) == \A l \in Links : h.m.state[l] \in Advertising => g.m.state[l] \in Advertising

LEMMA CalmCommon ==
  ASSUME NEW h \in Work, NEW g, NEW t, NEW e, Calm(h, g), Common(h.m, t), RestKept(h, g),
         g.m.advDirected = h.m.advDirected, AdvChange(e, h.m.adv, g.m.adv)
  PROVE  Common(g.m, t)
<1>1. HoldersAtRest(g.m)
  BY DEF Calm, Common, HoldersAtRest, RestKept
<1>2. NewRecordsHeld(g.m)
  BY DEF Calm, Common, NewRecordsHeld, NewRecord
<1>3. g.m.adv \in {"idle", "starting", "advertising", "stopping"} /\ ~g.m.advDirected
  BY DEF Common, AdvChange
<1> QED BY <1>1, <1>2, <1>3 DEF Common

LEMMA CalmSeen ==
  ASSUME NEW h, NEW g, NEW t, NEW c \in Conns, Calm(h, g)
  PROVE  (Seen(g.m, t, c) => Seen(h.m, t, c)) /\ (OwnHeld(h.m, t, c) => OwnHeld(g.m, t, c))
BY DEF Calm, Seen, OwnHeld

LEMMA CalmFirm ==
  ASSUME NEW h \in Work, NEW g, NEW t, NEW x, NEW e, Calm(h, g), Firm(h.m, t, x), RestKept(h, g),
         g.m.advDirected = h.m.advDirected, AdvChange(e, h.m.adv, g.m.adv), e # "AdvAvail"
  PROVE  Firm(g.m, t, x)
<1>1. Common(g.m, t)
  BY CalmCommon DEF Firm
<1>2. ~Awaited(g.m, t)
  BY DEF Firm, Awaited, AdvChange
<1>3. HeldBut(g.m, t, x)
  BY CalmSeen DEF Firm, HeldBut
<1> QED BY <1>1, <1>2, <1>3 DEF Firm

LEMMA CalmExpected ==
  ASSUME NEW h \in Work, NEW g, NEW t \in Seq(Inds), NEW x, Calm(h, g), Common(h.m, t),
         ExpectedAfter(h.m, x, t), AdvertisersKept(h, g)
  PROVE  ExpectedAfter(g.m, x, t)
<1> SUFFICES ASSUME NEW i \in 1 .. Len(t), t[i].event = "ConnOpen"
             PROVE  \/ \E a \in Links : First(g.m, t[i].peer, a)
                    \/ \A d \in Links : g.m.rec[d].peer = t[i].peer =>
                         /\ x.event # "PairCmpl"
                         /\ \/ Dropping(g.m, t, i, d)
                            \/ x.event = "ConnClose" /\ ~g.m.rec[d].valid /\ g.m.connId[d] = x.conn
  BY DEF ExpectedAfter
<1>1. t[i].peer # None
  <2>1. t[i] \in Inds
    BY ElementOfSeq
  <2> QED BY <2>1, BleAssumption DEF Inds
<1>2. ASSUME NEW a \in Links, First(h.m, t[i].peer, a)
      PROVE  First(g.m, t[i].peer, a)
  <2>1. h.m.rec[a].valid
    <3>1. h.m.rec[a].valid \in BOOLEAN
      BY DEF Work, Modules
    <3>2. ~h.m.rec[a].valid => NewRecord(h.m, a)
      BY <1>1, <1>2 DEF First, NewRecord
    <3>3. NewRecord(h.m, a) => h.m.connId[a] # None
      BY BleAssumption DEF Common, NewRecordsHeld
    <3>4. h.m.state[a] \notin AtRest
      BY <1>2, QueuedStates DEF First
    <3> QED BY <3>2, <3>3, <3>4 DEF Common, HoldersAtRest
  <2>2. g.m.rec[a].peer = t[i].peer
    BY <1>2, <2>1 DEF Calm, First
  <2>3. \A k \in Links : k < a => g.m.rec[k].peer # t[i].peer
    BY <1>1, <1>2 DEF Calm, First
  <2> QED BY <1>2, <2>2, <2>3 DEF First, AdvertisersKept
<1>3. ASSUME NEW d \in Links, g.m.rec[d].peer = t[i].peer
      PROVE  /\ h.m.rec[d].peer = t[i].peer
             /\ g.m.rec[d].valid = h.m.rec[d].valid /\ g.m.connId[d] = h.m.connId[d]
  BY <1>1, <1>3 DEF Calm
<1> QED BY <1>2, <1>3 DEF ExpectedAfter, Dropping

LEMMA CalmFairly ==
  ASSUME NEW h \in Work, NEW g, NEW t \in Seq(Inds), NEW x, NEW e, Calm(h, g), Fairly(h.m, x, t),
         RestKept(h, g), AdvertisersKept(h, g),
         g.m.advDirected = h.m.advDirected, AdvChange(e, h.m.adv, g.m.adv), e # "AdvAvail"
  PROVE  Fairly(g.m, x, t)
<1>1. Common(g.m, t) /\ ExpectedAfter(g.m, x, t)
  BY CalmCommon, CalmExpected DEF Fairly
<1>2. (g.m.adv = "idle" <=> h.m.adv = "idle") /\ (Awaited(g.m, t) <=> Awaited(h.m, t))
  BY DEF AdvChange, Awaited
<1>3. OneOutcome(g.m, t)
  BY <1>2 DEF Fairly, OneOutcome, Nobody, AdvertisersKept
<1>4. AllKept(g.m, t)
  <2> SUFFICES ASSUME NEW c \in Conns, Seen(g.m, t, c) PROVE OwnKept(g.m, t, c)
    BY DEF AllKept
  <2>1. OwnKept(h.m, t, c)
    BY CalmSeen DEF Fairly, AllKept
  <2>2. CASE OwnHeld(h.m, t, c)
    BY <2>2, CalmSeen DEF OwnKept
  <2>3. CASE ~OwnHeld(h.m, t, c)
    <3>1. h.m.dbHdl[c] \in Links /\ h.m.state[h.m.dbHdl[c]] \in Advertising /\ ~Awaited(h.m, t)
      BY <2>1, <2>3 DEF OwnKept, OwnHeld, Work, Modules
    <3> QED BY <1>2, <3>1 DEF Calm, OwnKept, AdvertisersKept
  <2> QED BY <2>2, <2>3
<1> QED BY <1>1, <1>3, <1>4 DEF Fairly

(* Any message but the end of a pairing or a connection is done with.      *)
LEMMA FairlyIsFair ==
  ASSUME NEW n, NEW x, NEW t, Fairly(n, x, t), x.event # "ConnClose" PROVE Fair(n, t)
BY DEF Fairly, ExpectedAfter, Fair, AllExpected, ExpectedAt

LEMMA FairIsFairly ==
  ASSUME NEW n, NEW x, NEW t, Fair(n, t), x.event # "PairCmpl" PROVE Fairly(n, x, t)
BY DEF Fairly, ExpectedAfter, Fair, AllExpected, ExpectedAt
-----------------------------------------------------------------------------
(* A link is told something.                                               *)
Ready(h, s) ==
  /\ use \in Uses /\ Patient /\ h \in Work /\ Plain(h.m) /\ h.sched = <<>>
  /\ s \in Seq(SchedEvents) /\ InLine(h.m, s) /\ Turns(h.m.state, h.m.queue)

LEMMA TellFirm ==
  ASSUME NEW h, NEW s, Ready(h, s), NEW l \in Links \cup {None}, NEW e, MayTell(h, s, e, l),
         e # "AdvAvail", NEW t, NEW x, Firm(h.m, t, x),
         e = "ConnCloseExt" /\ l \in Links => h.m.connId[l] = None
  PROVE  LET g == SendEvent(h, e, l)
         IN InLine(g.m, s \o g.sched) /\ Firm(g.m, t, x) /\ Calm(h, g)
<1> DEFINE g == SendEvent(h, e, l)
<1>1. /\ InLine(g.m, s \o g.sched) /\ g.m.advDirected = h.m.advDirected
      /\ AdvChange(e, h.m.adv, g.m.adv)
  BY TellInLine DEF Ready, Patient
<1>2. Calm(h, g)
  BY SendEventCalm DEF Ready, Patient
<1>3. \A k \in Links : h.m.state[k] \in AtRest /\ g.m.state[k] \notin AtRest =>
        k = l /\ (e = "ConnCloseExt" \/ "EncryptedOnly" \in use.conf[k])
  BY TellStates DEF Ready, Patient
<1> HIDE DEF g
<1>4. RestKept(h, g)
  BY <1>3 DEF RestKept, Ready, Patient
<1>5. h \in Work
  BY DEF Ready
<1>6. Firm(g.m, t, x)
  BY <1>1, <1>2, <1>4, <1>5, CalmFirm
<1> QED BY <1>1, <1>2, <1>6 DEF g

LEMMA TellFairly ==
  ASSUME NEW h, NEW s, Ready(h, s), NEW l \in Links \cup {None}, NEW e, MayTell(h, s, e, l),
         e \notin {"AdvAvail", "ConnOpenNew", "ConnOpen", "ConnFail"},
         NEW x, NEW t \in Seq(Inds), Fairly(h.m, x, t),
         e = "ConnCloseExt" /\ l \in Links => h.m.connId[l] = None
  PROVE  LET g == SendEvent(h, e, l)
         IN InLine(g.m, s \o g.sched) /\ Fairly(g.m, x, t) /\ Calm(h, g)
<1> DEFINE g == SendEvent(h, e, l)
<1>1. /\ InLine(g.m, s \o g.sched) /\ g.m.advDirected = h.m.advDirected
      /\ AdvChange(e, h.m.adv, g.m.adv)
  BY TellInLine DEF Ready, Patient
<1>2. Calm(h, g)
  BY SendEventCalm DEF Ready, Patient
<1>3. /\ \A k \in Links : h.m.state[k] \in AtRest /\ g.m.state[k] \notin AtRest =>
           k = l /\ (e = "ConnCloseExt" \/ "EncryptedOnly" \in use.conf[k])
      /\ \A k \in Links : h.m.state[k] \in Advertising /\ g.m.state[k] \notin Advertising =>
           e \in {"ConnOpenNew", "ConnOpen", "ConnFail"} /\ k = l
  BY TellStates DEF Ready, Patient
<1> HIDE DEF g
<1>4. RestKept(h, g) /\ AdvertisersKept(h, g)
  BY <1>3 DEF RestKept, AdvertisersKept, Ready, Patient
<1>5. h \in Work
  BY DEF Ready
<1>6. Fairly(g.m, x, t)
  BY <1>1, <1>2, <1>4, <1>5, CalmFairly
<1> QED BY <1>1, <1>2, <1>6 DEF g
-----------------------------------------------------------------------------
(* Fields that none of this depends on.                                    *)
SameView(n, o) ==
  /\ o.state = n.state /\ o.queue = n.queue /\ o.connId = n.connId /\ o.rec = n.rec
  /\ o.dbHdl = n.dbHdl /\ o.ccb = n.ccb /\ o.adv = n.adv /\ o.advDirected = n.advDirected

LEMMA SameViewFair ==
  ASSUME NEW n, NEW o, SameView(n, o), NEW t
  PROVE  /\ Fair(n, t) => Fair(o, t)
         /\ \A x : Firm(n, t, x) => Firm(o, t, x)
         /\ \A x : Fairly(n, x, t) => Fairly(o, x, t)
         /\ \A s : InLine(n, s) => InLine(o, s)
<1>1. /\ Common(n, t) => Common(o, t)
      /\ Awaited(n, t) <=> Awaited(o, t)
      /\ Nobody(n) <=> Nobody(o)
  BY DEF SameView, Common, HoldersAtRest, NewRecordsHeld, NewRecord, Awaited, Nobody
<1>2. OneOutcome(n, t) => OneOutcome(o, t)
  BY <1>1 DEF SameView, OneOutcome
<1>3. \A c : Seen(n, t, c) <=> Seen(o, t, c)
  BY DEF SameView, Seen
<1>4. \A c : OwnHeld(n, t, c) <=> OwnHeld(o, t, c)
  BY DEF SameView, OwnHeld
<1>5. AllKept(n, t) => AllKept(o, t)
  BY <1>1, <1>3, <1>4 DEF SameView, AllKept, OwnKept
<1>6. \A x : HeldBut(n, t, x) => HeldBut(o, t, x)
  BY <1>3, <1>4 DEF HeldBut
<1>7. \A p, a : First(n, p, a) <=> First(o, p, a)
  BY DEF SameView, First
<1>8. \A i, d : Dropping(n, t, i, d) <=> Dropping(o, t, i, d)
  BY DEF SameView, Dropping
<1>9. AllExpected(n, t) => AllExpected(o, t)
  BY <1>7, <1>8 DEF SameView, AllExpected, ExpectedAt
<1>10. \A x : ExpectedAfter(n, x, t) => ExpectedAfter(o, x, t)
  BY <1>7, <1>8 DEF SameView, ExpectedAfter
<1>11. \A s : InLine(n, s) => InLine(o, s)
  BY <1>1 DEF SameView, InLine
<1> QED BY <1>1, <1>2, <1>5, <1>6, <1>9, <1>10, <1>11 DEF Fair, Firm, Fairly

LEMMA SameViewReady ==
  ASSUME NEW h, NEW g \in Work, NEW s, Ready(h, s), SameView(h.m, g.m), g.sched = <<>>
  PROVE  Ready(g, s)
<1>1. InLine(g.m, s)
  BY SameViewFair DEF Ready
<1>2. Plain(g.m) /\ Turns(g.m.state, g.m.queue)
  BY DEF Ready, SameView, Plain
<1> QED BY <1>1, <1>2 DEF Ready

(* A computation that leaves the links where they are.                     *)
LEMMA CalmReady ==
  ASSUME NEW h, NEW g \in Work, NEW s, Ready(h, s), Calm(h, g), g.m.state = h.m.state,
         g.m.queue = h.m.queue, g.sched = <<>>
  PROVE  Ready(g, s)
<1>1. InLine(g.m, s)
  BY DEF Ready, InLine, Nobody
<1>2. Plain(g.m)
  BY DEF Ready, Plain, Calm
<1> QED BY <1>1, <1>2 DEF Ready

(* A link is told something that does not end its turn.                    *)
Neither == [event |-> "PairFail", conn |-> None]

LEMMA TellFair ==
  ASSUME NEW h, NEW s, Ready(h, s), NEW l \in Links \cup {None}, NEW e, MayTell(h, s, e, l),
         e \notin {"AdvAvail", "ConnOpenNew", "ConnOpen", "ConnFail"},
         NEW t \in Seq(Inds), Fair(h.m, t),
         e = "ConnCloseExt" /\ l \in Links => h.m.connId[l] = None
  PROVE  LET g == SendEvent(h, e, l)
         IN InLine(g.m, s \o g.sched) /\ Fair(g.m, t) /\ Calm(h, g)
<1>1. Neither.event \notin {"PairCmpl", "ConnClose"}
  BY DEF Neither
<1>2. Fairly(h.m, Neither, t)
  BY <1>1, FairIsFairly
<1>3. LET g == SendEvent(h, e, l)
      IN InLine(g.m, s \o g.sched) /\ Fairly(g.m, Neither, t) /\ Calm(h, g)
  BY <1>2, TellFairly
<1> QED BY <1>1, <1>3, FairlyIsFair

(* The outcome is that advertising has stopped.                            *)
LEMMA AdvStopFair ==
  ASSUME NEW h, NEW s, Ready(h, s), NEW t, Firm(h.m, t, None)
  PROVE  LET g == AdvStopInd(h) IN InLine(g.m, s \o g.sched) /\ Fair(g.m, t)
<1> DEFINE l == GetAdvertisingLinkId(h)
           f == [h EXCEPT !.m.advRuns = FALSE]
           k == [f EXCEPT !.m.connId[l] = None]
<1>1. h \in Work /\ h.sched = <<>>
  BY DEF Ready
<1>2. f \in Work /\ SameView(h.m, f.m) /\ f.sched = <<>>
  BY <1>1 DEF Work, Modules, SameView
<1>3. Ready(f, s) /\ Firm(f.m, t, None)
  BY <1>2, SameViewReady, SameViewFair
<1>4. AdvStopInd(h) = ConnFailed(f, l)
  BY DEF AdvStopInd
<1>5. l # None => l \in Links /\ f.m.state[l] \in Advertising
  BY <1>1, <1>2, AdvertisingLink DEF SameView
<1> HIDE DEF f, l
<1>6. CASE l = None
  <2>1. AdvStopInd(h) = f
    BY <1>4, <1>6 DEF ConnFailed
  <2>2. InLine(f.m, s \o f.sched)
    BY <1>2, <1>3, OnlyKick DEF Ready
  <2>3. Fair(f.m, t)
    BY <1>3, FirmIsFair, BleAssumption
  <2> QED BY <2>1, <2>2, <2>3
<1>7. CASE l # None
  <2>1. l \in Links /\ f.m.connId[l] = None
    BY <1>3, <1>5, <1>7, QueuedStates DEF Firm, Common, HoldersAtRest
  <2>2. k \in Work /\ SameView(f.m, k.m) /\ k.sched = <<>>
    BY <1>2, <2>1 DEF Work, Modules, SameView
  <2> HIDE DEF k
  <2>3. Ready(k, s) /\ Firm(k.m, t, None)
    BY <1>3, <2>2, SameViewReady, SameViewFair
  <2>4. MayTell(k, s, "ConnFail", l)
    BY DEF MayTell, Close
  <2> DEFINE g == SendEvent(k, "ConnFail", l)
  <2>5. InLine(g.m, s \o g.sched) /\ Firm(g.m, t, None)
    BY <2>1, <2>3, <2>4, TellFirm
  <2>6. AdvStopInd(h) = g
    BY <1>4, <1>7 DEF ConnFailed, k
  <2> HIDE DEF g
  <2>7. Fair(g.m, t)
    BY <2>5, FirmIsFair, BleAssumption
  <2> QED BY <2>5, <2>6, <2>7
<1> QED BY <1>6, <1>7
-----------------------------------------------------------------------------
(* A connection has ended.  The bond that was being made goes with it.     *)
LEMMA PeerConnected ==
  ASSUME NEW t \in Seq(Inds), NEW i \in 1 .. Len(t), t[i].event = "ConnOpen"
  PROVE  t[i].peer \in Peers /\ t[i].peer # None
<1>1. t[i] \in Inds
  BY ElementOfSeq
<1> QED BY <1>1, BleAssumption DEF Inds

LEMMA PeerDropped ==
  ASSUME NEW h \in Work, NEW l \in Links
  PROVE  ~NewRecord([h EXCEPT !.m.rec[l].peer = None].m, l)
<1> DEFINE gone == [h.m.rec[l] EXCEPT !.peer = None]
           next == [h EXCEPT !.m.rec[l] = gone]
<1>1. gone.peer = None
  BY Elements DEF Record
<1>2. [h EXCEPT !.m.rec[l].peer = None] = next
  OBVIOUS
<1> HIDE DEF gone
<1>3. next.m.rec[l] = gone
  BY DEF Work, Modules
<1> HIDE DEF next
<1> QED BY <1>1, <1>2, <1>3 DEF NewRecord

LEMMA DroppedIsFair ==
  ASSUME NEW n, NEW x, NEW t \in Seq(Inds), Fairly(n, x, t),
         \A l \in Links : n.connId[l] = x.conn => ~NewRecord(n, l)
  PROVE  Fair(n, t)
<1> SUFFICES ASSUME NEW i \in 1 .. Len(t), t[i].event = "ConnOpen" PROVE ExpectedAt(n, t, i)
  BY DEF Fairly, Fair, AllExpected
<1>1. t[i].peer # None
  BY PeerConnected
<1>2. ASSUME NEW d \in Links, n.rec[d].peer = t[i].peer, ~n.rec[d].valid PROVE n.connId[d] # x.conn
  BY <1>1, <1>2 DEF NewRecord
<1> QED BY <1>2 DEF Fairly, ExpectedAfter, ExpectedAt

Releases(n, o, l) ==
  /\ o.connId = [n.connId EXCEPT ![l] = None] /\ o.state = n.state
  /\ o.rec = n.rec /\ o.dbHdl = n.dbHdl /\ o.ccb = n.ccb
  /\ o.adv = n.adv /\ o.advDirected = n.advDirected
HoldsNone(n, t, l) == \A c \in Conns : Seen(n, t, c) => n.connId[l] # c

LEMMA ReleaseFair ==
  ASSUME NEW n \in Modules, NEW o, NEW l \in Links, NEW t \in Seq(Inds), Fair(n, t), ~NewRecord(n, l),
         Releases(n, o, l), HoldsNone(n, t, l)
  PROVE  Fair(o, t)
<1> USE DEF Releases
<1>1. \A k \in Links : o.connId[k] = IF k = l THEN None ELSE n.connId[k]
  BY DEF Modules
<1>2. Common(o, t)
  <2>1. HoldersAtRest(o)
    BY <1>1 DEF Fair, Common, HoldersAtRest
  <2>2. NewRecordsHeld(o)
    BY <1>1 DEF Fair, Common, NewRecordsHeld, NewRecord
  <2> QED BY <2>1, <2>2 DEF Fair, Common
<1>3. (Awaited(o, t) <=> Awaited(n, t)) /\ OneOutcome(o, t)
  BY DEF Awaited, Fair, OneOutcome, Nobody
<1>4. AllKept(o, t)
  <2> SUFFICES ASSUME NEW c \in Conns, Seen(n, t, c) PROVE OwnKept(o, t, c)
    BY DEF AllKept, Seen
  <2>1. OwnKept(n, t, c) /\ n.dbHdl[c] \in Links \cup {None}
    BY DEF Fair, AllKept, Modules
  <2> QED BY <1>1, <1>3, <2>1 DEF OwnKept, OwnHeld, HoldsNone
<1>5. AllExpected(o, t)
  <2> SUFFICES ASSUME NEW i \in 1 .. Len(t), t[i].event = "ConnOpen" PROVE ExpectedAt(o, t, i)
    BY DEF AllExpected
  <2>1. ExpectedAt(n, t, i) /\ t[i].peer # None
    BY PeerConnected DEF Fair, AllExpected
  <2>2. \A d \in Links : n.rec[d].peer = t[i].peer /\ Dropping(n, t, i, d) => d # l
    BY <2>1 DEF Dropping, NewRecord
  <2> QED BY <1>1, <2>1, <2>2 DEF ExpectedAt, First, Dropping
<1> QED BY <1>2, <1>3, <1>4, <1>5 DEF Fair

LEMMA ConnCloseFair ==
  ASSUME NEW h, NEW s, Ready(h, s), NEW t \in Seq(Inds), NEW x, NEW c \in Conns, x.conn = c,
         Fairly(h.m, x, t), c \notin About(t, "ConnClose"), h.m.ccb[c].state = "free",
         h.m.dbHdl[c] # None =>
           h.m.connId[h.m.dbHdl[c]] = c \/ h.m.state[h.m.dbHdl[c]] \in Advertising
  PROVE  LET g == ConnCloseInd(h, c) IN InLine(g.m, s \o g.sched) /\ Fair(g.m, t)
<1> DEFINE d == h.m.dbHdl[c]
           e == [h EXCEPT !.m.advDirected = FALSE, !.m.known = @ \ {c}]
           f == CheckValidRecord(e, d)
           l == GetLinkIdByConnId(f, c)
           k == [f EXCEPT !.m.connId[l] = None, !.m.lastNew = IF @ = l THEN None ELSE @]
<1>1. h \in Work /\ h.sched = <<>> /\ ~h.m.advDirected /\ d \in Links \cup {None}
  BY DEF Ready, Fairly, Common, Work, Modules
<1>2. e \in Work /\ SameView(h.m, e.m) /\ e.sched = <<>>
  BY <1>1 DEF Work, Modules, SameView
<1>3. ConnCloseInd(h, c) = LinkClosed(f, l)
  BY DEF ConnCloseInd, ConnectionGone
<1> HIDE DEF e
<1>4. Ready(e, s) /\ Fairly(e.m, x, t)
  BY <1>2, SameViewReady, SameViewFair
<1>5. Calm(e, f) /\ Quiet(e, f)
  BY <1>1, <1>2, CheckValidCalm, CheckValidQuiet
<1>6. d \in Links => ~NewRecord(f.m, d)
  <2> SUFFICES ASSUME d \in Links PROVE ~NewRecord(f.m, d)
    OBVIOUS
  <2>1. d # None
    BY BleAssumption
  <2>2. CASE e.m.rec[d].valid
    <3>1. f = e
      BY <2>2 DEF CheckValidRecord
    <3> QED BY <2>2, <3>1 DEF NewRecord
  <2>3. CASE ~e.m.rec[d].valid
    <3>1. f = [e EXCEPT !.m.rec[d].peer = None]
      BY <2>1, <2>3 DEF CheckValidRecord
    <3> HIDE DEF f, d
    <3> QED BY <1>2, <3>1, PeerDropped
  <2> QED BY <2>2, <2>3
<1> HIDE DEF f
<1>7. f \in Work /\ f.sched = <<>> /\ f.m.state = h.m.state /\ f.m.queue = e.m.queue
      /\ f.m.advDirected = e.m.advDirected /\ AdvChange("ConnFail", e.m.adv, f.m.adv)
      /\ f.m.dbHdl = h.m.dbHdl /\ f.m.connId = h.m.connId /\ f.m.ccb[c].state = "free"
  BY <1>2, <1>5 DEF Calm, Quiet, SameView, AdvChange
<1>8. Ready(f, s)
  BY <1>2, <1>4, <1>5, <1>7, CalmReady DEF SameView
<1>9. Fairly(f.m, x, t)
  <2>1. RestKept(e, f) /\ AdvertisersKept(e, f)
    BY <1>2, <1>7 DEF RestKept, AdvertisersKept, SameView
  <2> QED BY <1>2, <1>4, <1>5, <1>7, <2>1, CalmFairly
<1>10. \A j \in Links : f.m.connId[j] = c => ~NewRecord(f.m, j)
  <2> SUFFICES ASSUME NEW j \in Links, f.m.connId[j] = c, NewRecord(f.m, j) PROVE FALSE
    OBVIOUS
  <2>1. f.m.dbHdl[c] = j
    BY <1>9 DEF Fairly, Common, NewRecordsHeld
  <2> QED BY <1>6, <1>7, <2>1
<1>11. Fair(f.m, t)
  BY <1>9, <1>10, DroppedIsFair
<1>12. l # None => l \in Links /\ ((l = d /\ HasBond(f.m, l)) \/ f.m.connId[l] = c)
  BY <1>7, FoundLink
<1> HIDE DEF l, d
<1>13. CASE l = None
  <2>1. ConnCloseInd(h, c) = f
    BY <1>3, <1>13 DEF LinkClosed
  <2> QED BY <1>7, <1>8, <1>11, <2>1, OnlyKick DEF Ready
<1>14. CASE l # None
  <2>1. l \in Links /\ ((l = d /\ HasBond(f.m, l)) \/ f.m.connId[l] = c)
    BY <1>12, <1>14
  <2>2. ~NewRecord(f.m, l)
    BY <1>10, <2>1 DEF HasBond, NewRecord
  <2>3. HoldersAtRest(f.m)
    BY <1>9 DEF Fairly, Common
  <2>4. f.m.connId[l] = c \/ (f.m.state[l] \in Advertising /\ f.m.connId[l] = None)
    <3>1. CASE f.m.connId[l] = c
      BY <3>1
    <3>2. CASE f.m.connId[l] # c
      <4>1. l = d /\ d # None
        BY <1>14, <2>1, <3>2
      <4>2. f.m.state[l] \in Advertising
        BY <1>7, <3>2, <4>1 DEF d
      <4> QED BY <2>1, <2>3, <4>2, QueuedStates DEF HoldersAtRest
    <3> QED BY <3>1, <3>2
  <2>5. f.m.state[l] \notin Waiting
    <3>1. c # None
      BY BleAssumption
    <3> QED BY <2>1, <2>3, <2>4, <3>1, QueuedStates DEF HoldersAtRest
  <2>6. HoldsNone(f.m, t, l)
    <3> SUFFICES ASSUME NEW b \in Conns, Seen(f.m, t, b), f.m.connId[l] = b PROVE FALSE
      BY DEF HoldsNone
    <3>1. b = c
      BY <2>4, BleAssumption
    <3> QED BY <1>7, <3>1 DEF Seen
  <2>7. /\ k \in Work /\ k.sched = <<>>
        /\ k.m.connId = [f.m.connId EXCEPT ![l] = None]
        /\ k.m.state = f.m.state /\ k.m.rec = f.m.rec /\ k.m.dbHdl = f.m.dbHdl
        /\ k.m.ccb = f.m.ccb /\ k.m.adv = f.m.adv /\ k.m.advDirected = f.m.advDirected
        /\ k.m.queue = f.m.queue /\ k.m.connId[l] = None
    <3> DEFINE last == IF f.m.lastNew = l THEN None ELSE f.m.lastNew
    <3>1. last \in Links \cup {None}
      BY <1>7 DEF Work, Modules
    <3>2. k = [f EXCEPT !.m.connId[l] = None, !.m.lastNew = last]
      OBVIOUS
    <3> HIDE DEF last
    <3> QED BY <1>7, <2>1, <3>1, <3>2 DEF Work, Modules
  <2> HIDE DEF k
  <2>8. f.m \in Modules
    BY <1>7 DEF Work
  <2>9. Fair(k.m, t)
    <3>1. Releases(f.m, k.m, l)
      BY <2>7 DEF Releases
    <3> QED BY <1>11, <2>1, <2>2, <2>6, <2>8, <3>1, ReleaseFair
  <2>10. Ready(k, s)
    <3>1. InLine(k.m, s) /\ Plain(k.m)
      BY <1>8, <2>7 DEF Ready, InLine, Nobody, Plain
    <3> QED BY <1>8, <2>7, <3>1 DEF Ready
  <2>11. MayTell(k, s, "ConnCloseExt", l)
    BY <2>5, <2>7 DEF MayTell
  <2>12. ConnCloseInd(h, c) = SendEvent(k, "ConnCloseExt", l)
    BY <1>3, <1>14 DEF LinkClosed, k
  <2>13. LET g == SendEvent(k, "ConnCloseExt", l)
         IN InLine(g.m, s \o g.sched) /\ Fair(g.m, t)
    BY <2>1, <2>7, <2>9, <2>10, <2>11, TellFair
  <2> QED BY <2>12, <2>13
<1> QED BY <1>13, <1>14
-----------------------------------------------------------------------------
(* Devices pair, fail to, and encrypt.                                     *)
LEMMA ForgetLast ==
  ASSUME NEW g \in Work, NEW s, NEW t, InLine(g.m, s \o g.sched), Fair(g.m, t)
  PROVE  LET k == [g EXCEPT !.m.lastNew = None]
         IN k \in Work /\ InLine(k.m, s \o k.sched) /\ Fair(k.m, t)
<1> DEFINE k == [g EXCEPT !.m.lastNew = None]
<1>1. k \in Work /\ SameView(g.m, k.m) /\ k.sched = g.sched
  BY DEF Work, Modules, SameView
<1> HIDE DEF k
<1>2. InLine(k.m, s \o k.sched) /\ Fair(k.m, t)
  BY <1>1, SameViewFair
<1> QED BY <1>1, <1>2 DEF k

LEMMA PairEventFair ==
  ASSUME NEW h, NEW s, Ready(h, s), NEW c \in Conns, NEW t \in Seq(Inds), Fair(h.m, t),
         NEW e \in {"PairComplete", "PairFail", "SecurityEstablished", "SecurityFail"}
  PROVE  LET g == SendEvent(h, e, GetLinkIdByConnId(h, c))
         IN g \in Work /\ InLine(g.m, s \o g.sched) /\ Fair(g.m, t)
<1> DEFINE l == GetLinkIdByConnId(h, c)
           g == SendEvent(h, e, l)
<1>1. l \in Links \cup {None}
  BY Lookups DEF Ready
<1> HIDE DEF l
<1>2. MayTell(h, s, e, l)
  BY DEF MayTell, Close
<1>3. InLine(g.m, s \o g.sched) /\ Fair(g.m, t) /\ Calm(h, g)
  BY <1>1, <1>2, TellFair
<1> QED BY <1>3 DEF Calm, l

(* A bond becomes valid.                                                   *)
Validates(n, o) ==
  /\ o.state = n.state /\ o.connId = n.connId /\ o.dbHdl = n.dbHdl /\ o.ccb = n.ccb
  /\ o.adv = n.adv /\ o.advDirected = n.advDirected /\ o.queue = n.queue
  /\ \A l \in Links : o.rec[l].peer = n.rec[l].peer /\ (n.rec[l].valid => o.rec[l].valid)

LEMMA ValidatedView ==
  ASSUME NEW h \in Work, NEW d \in Links \cup {None}
  PROVE  LET f == Validated(h, d)
         IN f \in Work /\ f.sched = h.sched /\ Validates(h.m, f.m)
<1> DEFINE valid == [h.m.rec[d] EXCEPT !.valid = TRUE]
           f == [h EXCEPT !.m.rec[d] = valid]
<1>1. CASE d = None
  BY <1>1 DEF Validated, Validates
<1>2. CASE d # None
  <2>1. d \in Links /\ valid \in Record /\ valid.peer = h.m.rec[d].peer /\ valid.valid
    BY <1>2, Elements DEF Record
  <2>2. Validated(h, d) = f
    BY <1>2 DEF Validated
  <2> HIDE DEF valid
  <2>3. f \in Work /\ f.sched = h.sched
    BY <2>1 DEF Work, Modules, Record
  <2>4. Validates(h.m, f.m)
    BY <2>1 DEF Work, Modules, Validates
  <2> QED BY <2>2, <2>3, <2>4
<1> QED BY <1>1, <1>2

LEMMA ValidatesFair ==
  ASSUME NEW n, NEW o, Validates(n, o), NEW x, x.event = "PairCmpl", NEW t, Fairly(n, x, t)
  PROVE  Fair(o, t)
<1> USE DEF Validates
<1>1. Common(o, t)
  BY DEF Fairly, Common, HoldersAtRest, NewRecordsHeld, NewRecord
<1>2. (Awaited(o, t) <=> Awaited(n, t)) /\ OneOutcome(o, t)
  BY DEF Awaited, Fairly, OneOutcome, Nobody
<1>3. AllKept(o, t)
  BY <1>2 DEF Fairly, AllKept, OwnKept, OwnHeld, Seen
<1>4. AllExpected(o, t)
  BY DEF Fairly, ExpectedAfter, AllExpected, ExpectedAt, First
<1> QED BY <1>1, <1>2, <1>3, <1>4 DEF Fair

LEMMA PairCmplFair ==
  ASSUME NEW h, NEW s, Ready(h, s), NEW c \in Conns, NEW t \in Seq(Inds), NEW x,
         x.event = "PairCmpl", Fairly(h.m, x, t)
  PROVE  LET g == PairCmplInd(h, c) IN InLine(g.m, s \o g.sched) /\ Fair(g.m, t)
<1> DEFINE d == h.m.dbHdl[c]
           f == Validated(h, d)
           g == SendEvent(f, "PairComplete", GetLinkIdByConnId(f, c))
<1>1. d \in Links \cup {None} /\ h \in Work /\ h.sched = <<>>
  BY DEF Ready, Work, Modules
<1>2. f \in Work /\ f.sched = <<>> /\ Validates(h.m, f.m)
  BY <1>1, ValidatedView
<1> HIDE DEF f
<1>3. Fair(f.m, t)
  BY <1>2, ValidatesFair
<1>4. Ready(f, s)
  <2>1. InLine(f.m, s) /\ Plain(f.m)
    BY <1>2 DEF Ready, Validates, InLine, Nobody, Plain
  <2> QED BY <1>2, <2>1 DEF Ready, Validates
<1>5. g \in Work /\ InLine(g.m, s \o g.sched) /\ Fair(g.m, t)
  BY <1>3, <1>4, PairEventFair
<1>6. PairCmplInd(h, c) = [g EXCEPT !.m.lastNew = None]
  BY DEF PairCmplInd, PairComplete, f
<1> HIDE DEF g
<1> QED BY <1>5, <1>6, ForgetLast

LEMMA PairFailFair ==
  ASSUME NEW h, NEW s, Ready(h, s), NEW c \in Conns, NEW t \in Seq(Inds), Fair(h.m, t)
  PROVE  LET g == PairFailInd(h, c) IN InLine(g.m, s \o g.sched) /\ Fair(g.m, t)
<1> DEFINE g == SendEvent(h, "PairFail", GetLinkIdByConnId(h, c))
<1>1. g \in Work /\ InLine(g.m, s \o g.sched) /\ Fair(g.m, t)
  BY PairEventFair
<1>2. PairFailInd(h, c) = [g EXCEPT !.m.lastNew = None]
  BY DEF PairFailInd
<1> HIDE DEF g
<1> QED BY <1>1, <1>2, ForgetLast

(* A device without a record gets that of the link that holds its          *)
(* connection; if it has connected again, this one is about to end.        *)
Records(n, o, c, l, p) ==
  /\ o.state = n.state /\ o.connId = n.connId /\ o.ccb = n.ccb /\ o.queue = n.queue
  /\ o.adv = n.adv /\ o.advDirected = n.advDirected
  /\ o.dbHdl = [n.dbHdl EXCEPT ![c] = l]
  /\ o.rec = [n.rec EXCEPT ![l] = [peer |-> p, valid |-> FALSE]]
Stranger(n, t, c, p) ==
  /\ \A k \in Links : n.rec[k].peer # p
  /\ \A j \in 1 .. Len(t) : t[j].event = "ConnOpen" /\ t[j].peer = p => Ended(t, j, c)

LEMMA RecordsFair ==
  ASSUME NEW n \in Modules, NEW o, NEW c \in Conns, NEW l \in Links, NEW p, Records(n, o, c, l, p),
         NEW t, Fair(n, t), n.connId[l] = c, n.dbHdl[c] = None,
         About(t, "PairCmpl") = {}, Stranger(n, t, c, p)
  PROVE  Fair(o, t)
<1>1. /\ \A b \in Conns : o.dbHdl[b] = IF b = c THEN l ELSE n.dbHdl[b]
      /\ \A k \in Links \ {l} : o.rec[k] = n.rec[k]
      /\ o.rec[l].peer = p /\ ~o.rec[l].valid
      /\ o.state = n.state /\ o.connId = n.connId /\ o.ccb = n.ccb
      /\ o.adv = n.adv /\ o.advDirected = n.advDirected
  BY DEF Records, Modules
<1>2. None \notin Links /\ None \notin Conns
  BY BleAssumption
<1>3. Common(o, t)
  <2>1. HoldersAtRest(o)
    BY <1>1 DEF Fair, Common, HoldersAtRest
  <2>2. NewRecordsHeld(o)
    <3> SUFFICES ASSUME NEW k \in Links, NewRecord(o, k)
                 PROVE  o.connId[k] \in Conns /\ o.dbHdl[o.connId[k]] = k
      BY DEF NewRecordsHeld
    <3>1. CASE k = l
      BY <1>1, <3>1
    <3>2. CASE k # l
      <4>1. NewRecord(n, k)
        BY <1>1, <3>2 DEF NewRecord
      <4>2. n.connId[k] \in Conns /\ n.dbHdl[n.connId[k]] = k
        BY <4>1 DEF Fair, Common, NewRecordsHeld
      <4> QED BY <1>1, <1>2, <4>2
    <3> QED BY <3>1, <3>2
  <2> QED BY <1>1, <2>1, <2>2 DEF Fair, Common
<1>4. (Awaited(o, t) <=> Awaited(n, t)) /\ OneOutcome(o, t)
  BY <1>1 DEF Awaited, Fair, OneOutcome, Nobody
<1>5. AllKept(o, t)
  BY <1>1, <1>4 DEF Fair, AllKept, OwnKept, OwnHeld, Seen
<1>6. AllExpected(o, t)
  <2> SUFFICES ASSUME NEW i \in 1 .. Len(t), t[i].event = "ConnOpen" PROVE ExpectedAt(o, t, i)
    BY DEF AllExpected
  <2>1. ExpectedAt(n, t, i)
    BY DEF Fair, AllExpected
  <2>2. ASSUME NEW a \in Links, First(n, t[i].peer, a) PROVE First(o, t[i].peer, a)
    <3>1. t[i].peer # p
      BY <2>2 DEF First, Stranger
    <3>2. a # l
      <4>1. n.state[a] \notin AtRest
        BY <2>2, QueuedStates DEF First
      <4> QED BY <1>2, <4>1 DEF Fair, Common, HoldersAtRest
    <3> QED BY <1>1, <2>2, <3>1, <3>2 DEF First
  <2>3. ASSUME \A d \in Links : n.rec[d].peer = t[i].peer => Dropping(n, t, i, d),
               NEW d \in Links, o.rec[d].peer = t[i].peer
        PROVE  Dropping(o, t, i, d)
    <3>1. CASE d = l
      <4>1. Ended(t, i, c)
        BY <1>1, <2>3, <3>1 DEF Stranger
      <4> QED BY <1>1, <3>1, <4>1 DEF Dropping
    <3>2. CASE d # l
      BY <1>1, <2>3, <3>2 DEF Dropping
    <3> QED BY <3>1, <3>2
  <2> QED BY <2>1, <2>2, <2>3 DEF ExpectedAt
<1> QED BY <1>3, <1>4, <1>5, <1>6 DEF Fair

LEMMA PairingView ==
  ASSUME NEW h \in Work, NEW S \in SUBSET Conns
  PROVE  LET f == [h EXCEPT !.m.pairing = S]
         IN f \in Work /\ f.sched = h.sched /\ SameView(h.m, f.m)
BY DEF Work, Modules, SameView

LEMMA PairIndFair ==
  ASSUME NEW h, NEW s, Ready(h, s), NEW c \in Conns, NEW p \in Peers, NEW t, Fair(h.m, t),
         About(t, "PairCmpl") = {}, Stranger(h.m, t, c, p),
         h.m.lastNew \in Links, h.m.connId[h.m.lastNew] = c, h.m.dbHdl[c] = None
  PROVE  LET g == PairInd(h, c, p)
         IN \/ InLine(g.m, s \o g.sched) /\ Fair(g.m, t)
            \/ g = Sent(h, [event |-> "PairFail", conn |-> c])
<1> DEFINE l == h.m.lastNew
           x == [event |-> "PairFail", conn |-> c]
           on == IF h.m.ccb[c].state = "open" THEN [h EXCEPT !.m.pairing = @ \cup {c}] ELSE h
           k == [on EXCEPT !.m.dbHdl[c] = l, !.m.rec[l] = [peer |-> p, valid |-> FALSE]]
<1>1. PairInd(h, c, p) = (IF ~h.m.bondable \/ (h.m.dbHdl[c] = None /\ l = None) THEN Sent(h, x)
                          ELSE IF h.m.dbHdl[c] # None THEN on ELSE k)
  BY DEF PairInd
<1> HIDE DEF x
<1>2. h \in Work /\ h.sched = <<>> /\ l # None /\ l \in Links
  BY BleAssumption DEF Ready
<1>3. on \in Work /\ on.sched = <<>> /\ SameView(h.m, on.m)
  <2> DEFINE pairs == h.m.pairing \cup {c}
             f == [h EXCEPT !.m.pairing = pairs]
  <2>1. pairs \in SUBSET Conns
    BY <1>2 DEF Work, Modules
  <2>2. on = f \/ on = h
    OBVIOUS
  <2> HIDE DEF pairs, on
  <2>3. f \in Work /\ f.sched = <<>> /\ SameView(h.m, f.m)
    BY <1>2, <2>1, PairingView
  <2>4. SameView(h.m, h.m)
    BY DEF SameView
  <2> HIDE DEF f
  <2> QED BY <1>2, <2>2, <2>3, <2>4
<1> HIDE DEF on, l
<1>4. Fair(on.m, t) /\ InLine(on.m, s)
  BY <1>3, SameViewFair DEF Ready
<1>5. Records(on.m, k.m, c, l, p) /\ k.sched = <<>>
  BY <1>2, <1>3 DEF Records, Work, Modules
<1> HIDE DEF k
<1>6. on.m \in Modules /\ on.m.connId[l] = c /\ on.m.dbHdl[c] = None /\ Stranger(on.m, t, c, p)
  BY <1>3 DEF Work, SameView, Stranger, l
<1>7. Fair(k.m, t)
  BY <1>2, <1>4, <1>5, <1>6, RecordsFair
<1>8. InLine(k.m, s \o k.sched)
  BY <1>4, <1>5, OnlyKick DEF Records, InLine, Nobody, Ready
<1>9. h.m.bondable => PairInd(h, c, p) = k
  BY <1>1, <1>2
<1>10. ~h.m.bondable => PairInd(h, c, p) = Sent(h, x)
  BY <1>1
<1> QED BY <1>7, <1>8, <1>9, <1>10 DEF x
-----------------------------------------------------------------------------
(* A device has connected to the link that advertises.                     *)
Identifies(n, o, c, d) ==
  /\ o.dbHdl = [n.dbHdl EXCEPT ![c] = d]
  /\ o.state = n.state /\ o.queue = n.queue /\ o.connId = n.connId /\ o.rec = n.rec
  /\ o.ccb = n.ccb /\ o.adv = n.adv /\ o.advDirected = FALSE

LEMMA IdentifiedFirm ==
  ASSUME NEW n \in Modules, NEW o, NEW c \in Conns, NEW d, Identifies(n, o, c, d), NEW t,
         Firm(n, t, c), \A l \in Links : n.connId[l] # c
  PROVE  Firm(o, t, c)
<1>1. \A b \in Conns : b # c => o.dbHdl[b] = n.dbHdl[b]
  BY DEF Modules, Identifies
<1>2. Common(o, t)
  BY <1>1 DEF Firm, Common, HoldersAtRest, NewRecordsHeld, NewRecord, Identifies
<1>3. ~Awaited(o, t) /\ HeldBut(o, t, c)
  BY <1>1 DEF Firm, Awaited, HeldBut, Seen, OwnHeld, Identifies
<1> QED BY <1>2, <1>3 DEF Firm

(* The link holds the connection then.                                     *)
Attaches(n, o, l, c) ==
  /\ o.connId = [n.connId EXCEPT ![l] = c]
  /\ o.state = n.state /\ o.queue = n.queue /\ o.dbHdl = n.dbHdl /\ o.rec = n.rec
  /\ o.ccb = n.ccb /\ o.adv = n.adv /\ o.advDirected = n.advDirected

LEMMA AttachedFair ==
  ASSUME NEW n \in Modules, NEW o, NEW l \in Links, NEW c \in Conns, Attaches(n, o, l, c), NEW t,
         Firm(n, t, c), n.state[l] \in AtRest, n.connId[l] = None, n.dbHdl[c] \in {None, l}
  PROVE  Fair(o, t)
<1>1. o.connId[l] = c /\ \A k \in Links : k # l => o.connId[k] = n.connId[k]
  BY DEF Modules, Attaches
<1>2. None \notin Conns /\ n.dbHdl \in [Conns -> Links \cup {None}]
  BY BleAssumption DEF Modules
<1>3. ~NewRecord(n, l)
  BY <1>2 DEF Firm, Common, NewRecordsHeld
<1>4. Common(o, t)
  BY <1>1, <1>3 DEF Firm, Common, HoldersAtRest, NewRecordsHeld, NewRecord, Attaches
<1>5. ~Awaited(o, t)
  BY DEF Firm, Awaited, Attaches
<1>6. HeldBut(o, t, None)
  <2> SUFFICES ASSUME NEW b \in Conns, Seen(o, t, b), o.dbHdl[b] # None
               PROVE  o.connId[o.dbHdl[b]] = b
    BY DEF HeldBut, OwnHeld
  <2>1. Seen(n, t, b) /\ o.dbHdl[b] = n.dbHdl[b] /\ n.dbHdl[b] \in Links
    BY <1>2 DEF Seen, Attaches
  <2>2. CASE b = c
    BY <1>1, <2>1, <2>2, <1>2
  <2>3. CASE b # c
    <3>1. n.connId[n.dbHdl[b]] = b
      BY <2>1, <2>3, <1>2 DEF Firm, HeldBut, OwnHeld
    <3> QED BY <1>1, <1>2, <2>1, <3>1
  <2> QED BY <2>2, <2>3
<1>7. Firm(o, t, None)
  BY <1>4, <1>5, <1>6 DEF Firm
<1> QED BY <1>2, <1>7, FirmIsFair

(* The link is told, and goes on to be connected.                          *)
LEMMA OpenedRow ==
  ASSUME use \in Uses, Undirected, NEW h \in Work, Plain(h.m), NEW l \in Links,
         NEW e \in {"ConnOpenNew", "ConnOpen"}, Processed(h, e, l), h.m.state[l] \in Advertising
  PROVE  SendEvent(h, e, l).m.state[l] \in AtRest
<1> DEFINE g == SendEvent(h, e, l)
<1>1. MovedTo(h, g, l, e)
  BY SendEventCalm
<1> HIDE DEF g
<1>2. PICK r \in Table[use.conf[l]] :
        r.from = h.m.state[l] /\ r.event = e /\ g.m.state = [h.m.state EXCEPT ![l] = r.to]
  BY <1>1 DEF MovedTo
<1>3. SideRow(use.conf[l], r)
  BY Configurations, SideRows
<1>4. r.to \in AtRest
  BY <1>2, <1>3 DEF SideRow, AtRest, Connected, BondedSide
<1>5. h.m.state \in [Links -> States]
  BY WorkTypes
<1> QED BY <1>2, <1>4, <1>5 DEF g

LEMMA OpenedFair ==
  ASSUME NEW h, NEW s, Ready(h, s), NEW c \in Conns, NEW l \in Links, NEW t, Firm(h.m, t, c),
         h.m.state[l] \in Advertising, h.m.connId[l] = None, h.m.dbHdl[c] \in {None, l},
         NEW e \in {"ConnOpenNew", "ConnOpen"}, Processed(h, e, l), NEW g,
         Attaches(SendEvent(h, e, l).m, g.m, l, c), g.sched = SendEvent(h, e, l).sched
  PROVE  InLine(g.m, s \o g.sched) /\ Fair(g.m, t)
<1> DEFINE f == SendEvent(h, e, l)
<1>1. MayTell(h, s, e, l)
  BY QueuedStates DEF MayTell
<1>2. InLine(f.m, s \o f.sched) /\ Firm(f.m, t, c) /\ Calm(h, f)
  BY <1>1, TellFirm
<1>3. f.m.state[l] \in AtRest
  BY OpenedRow DEF Ready, Patient
<1>4. Attaches(f.m, g.m, l, c) /\ g.sched = f.sched
  OBVIOUS
<1> HIDE DEF f
<1>5. f.m \in Modules /\ f.m.connId[l] = None /\ f.m.dbHdl[c] \in {None, l}
  BY <1>2 DEF Calm, Work
<1>6. Fair(g.m, t)
  BY <1>2, <1>3, <1>4, <1>5, AttachedFair
<1>7. InLine(g.m, s \o g.sched)
  BY <1>2, <1>4 DEF InLine, Nobody, Attaches
<1> QED BY <1>6, <1>7

LEMMA ToldIsWork ==
  ASSUME NEW h, NEW s, Ready(h, s), NEW l \in Links, NEW e
  PROVE  SendEvent(h, e, l) \in Work
<1>1. use \in Uses /\ Undirected /\ h \in Work /\ Plain(h.m) /\ l \in Links \cup {None}
  BY DEF Ready, Patient
<1>2. Calm(h, SendEvent(h, e, l))
  BY <1>1, SendEventCalm
<1> QED BY <1>2 DEF Calm
-----------------------------------------------------------------------------
(* ... or it is told that advertising has stopped, when the device is not  *)
(* the one that it expects.                                                *)
LEMMA NewDeviceFair ==
  ASSUME NEW h, NEW s, Ready(h, s), NEW c \in Conns, NEW l \in Links, NEW t, Firm(h.m, t, c),
         h.m.state[l] \in Advertising, h.m.connId[l] = None, h.m.dbHdl[c] = None
  PROVE  LET g == NewDevice(h, c, l) IN InLine(g.m, s \o g.sched) /\ Fair(g.m, t)
<1>1. CASE Processed(h, "ConnOpenNew", l)
  <2> DEFINE f == SendEvent(h, "ConnOpenNew", l)
             g == [f EXCEPT !.m.lastNew = l, !.m.connId[l] = c]
  <2>1. NewDevice(h, c, l) = g /\ f \in Work
    BY <1>1, ToldIsWork DEF NewDevice
  <2> HIDE DEF f
  <2>2. Attaches(f.m, g.m, l, c) /\ g.sched = f.sched
    BY <2>1 DEF Work, Modules, Attaches
  <2> HIDE DEF g
  <2>3. InLine(g.m, s \o g.sched) /\ Fair(g.m, t)
    BY <1>1, <2>2, OpenedFair DEF f
  <2> QED BY <2>1, <2>3
<1>2. CASE ~Processed(h, "ConnOpenNew", l)
  <2> DEFINE g == SendEvent(h, "ConnFail", l)
  <2>1. MayTell(h, s, "ConnFail", l)
    BY QueuedStates DEF MayTell
  <2>2. InLine(g.m, s \o g.sched) /\ Firm(g.m, t, c) /\ Calm(h, g)
    BY <2>1, TellFirm
  <2>3. NewDevice(h, c, l) = [g EXCEPT !.m.lastNew = None]
    BY <1>2 DEF NewDevice
  <2> HIDE DEF g
  <2>4. g \in Work /\ g.m.dbHdl[c] = None
    BY <2>2 DEF Calm
  <2>5. Fair(g.m, t)
    BY <2>2, <2>4, FirmIsFair
  <2> QED BY <2>2, <2>3, <2>4, <2>5, ForgetLast
<1> QED BY <1>1, <1>2

LEMMA KnownDeviceFair ==
  ASSUME NEW h, NEW s, Ready(h, s), NEW c \in Conns, NEW l \in Links, NEW t, Firm(h.m, t, c),
         h.m.state[l] \in Advertising, h.m.connId[l] = None, h.m.dbHdl[c] = l, HasBond(h.m, l)
  PROVE  LET g == KnownDevice(h, c, l) IN InLine(g.m, s \o g.sched) /\ Fair(g.m, t)
<1>1. l # None /\ None \in Links \cup {None}
  BY BleAssumption
<1>2. KnownDevice(h, c, l) = ConnOpened(h, c, l)
  BY <1>1 DEF KnownDevice, GetLinkIdByConnId, Bonded, HasBond
<1>3. CASE Processed(h, "ConnOpen", l)
  <2> DEFINE f == SendEvent(h, "ConnOpen", l)
             g == [f EXCEPT !.m.connId[l] = c, !.m.lastNew = None]
  <2>1. KnownDevice(h, c, l) = g /\ f \in Work
    BY <1>2, <1>3, ToldIsWork DEF ConnOpened
  <2> HIDE DEF f
  <2>2. Attaches(f.m, g.m, l, c) /\ g.sched = f.sched
    BY <2>1 DEF Work, Modules, Attaches
  <2> HIDE DEF g
  <2>3. InLine(g.m, s \o g.sched) /\ Fair(g.m, t)
    BY <1>3, <2>2, OpenedFair DEF f
  <2> QED BY <2>1, <2>3
<1>4. CASE ~Processed(h, "ConnOpen", l)
  <2> DEFINE g == ConnClosed(h, c)
  <2>1. h \in Work /\ NoneAccepts(h) /\ h.sched = <<>> /\ s \in Seq(SchedEvents) /\ InLine(h.m, s)
    BY DEF Ready, Plain, NoneAccepts
  <2>2. Quiet(h, g) /\ Calm(h, g)
    BY <2>1, ConnClosedQuiet, ConnClosedCalm
  <2>3. KnownDevice(h, c, l) = [g EXCEPT !.m.lastNew = None]
    BY <1>2, <1>4 DEF ConnOpened
  <2> HIDE DEF g
  <2>4. RestKept(h, g) /\ AdvChange("ConnOpen", h.m.adv, g.m.adv) /\ g.m.advDirected = h.m.advDirected
    BY <2>2 DEF RestKept, AdvChange, Quiet
  <2>5. Firm(g.m, t, c)
    BY <2>1, <2>2, <2>4, CalmFirm
  <2>6. g \in Work /\ g.m.dbHdl[c] = l /\ g.m.state[l] \in Advertising
    BY <2>2 DEF Calm, Quiet
  <2>7. Fair(g.m, t)
    BY <2>5, <2>6, FirmIsFair
  <2>8. InLine(g.m, s \o g.sched)
    BY <2>1, <2>2, OnlyKick DEF InLine, Nobody, Quiet
  <2> QED BY <2>3, <2>6, <2>7, <2>8, ForgetLast
<1> QED BY <1>3, <1>4

(* The device's record is looked up.                                       *)
LEMMA FoundFirst ==
  ASSUME NEW h \in Work, NEW p, NEW a \in Links, First(h.m, p, a)
  PROVE  FindByAddr(h, p) = a
<1> DEFINE hits == {l \in Links : h.m.rec[l].peer = p}
           d == FindByAddr(h, p)
<1>1. a \in hits /\ \A k \in hits : a <= k
  BY DEF First, Links
<1>2. d = CHOOSE l \in hits : \A k \in hits : l <= k
  BY <1>1 DEF FindByAddr
<1>3. d \in hits /\ \A k \in hits : d <= k
  BY <1>1, <1>2
<1>4. a <= d /\ d <= a /\ d \in Links
  BY <1>1, <1>3
<1> HIDE DEF d
<1>5. d = a
  BY <1>4, BleAssumption DEF Links
<1> QED BY <1>5 DEF d

LEMMA FoundAdvertiser ==
  ASSUME NEW h, NEW s, Ready(h, s), NEW a \in Links, h.m.state[a] \in Advertising
  PROVE  GetAdvertisingLinkId(h) = a
<1> DEFINE d == GetAdvertisingLinkId(h)
           hits == {l \in Links : h.m.state[l] \in Advertising}
<1>1. \A l \in hits : l = h.m.queue[1]
  BY AdvertiserIsFirst DEF Ready
<1>2. a \in hits /\ hits = {a}
  BY <1>1
<1>3. \A k \in hits : a <= k
  BY <1>2 DEF Links
<1>4. d = CHOOSE l \in hits : \A k \in hits : l <= k
  BY <1>2 DEF GetAdvertisingLinkId
<1> QED BY <1>2, <1>3, <1>4

LEMMA IdentifiedView ==
  ASSUME NEW h, NEW s, Ready(h, s), NEW c \in Conns, NEW d \in Links \cup {None},
         NEW runs \in BOOLEAN
  PROVE  LET f == [h EXCEPT !.m.advRuns = runs, !.m.advDirected = FALSE,
                            !.m.known = @ \cup {c}, !.m.dbHdl[c] = d]
         IN Ready(f, s) /\ Identifies(h.m, f.m, c, d)
<1> DEFINE f == [h EXCEPT !.m.advRuns = runs, !.m.advDirected = FALSE,
                          !.m.known = @ \cup {c}, !.m.dbHdl[c] = d]
<1>1. h \in Work
  BY DEF Ready
<1>2. f \in Work
  BY <1>1 DEF Work, Modules
<1>3. f.sched = h.sched /\ Identifies(h.m, f.m, c, d)
  BY <1>1 DEF Work, Modules, Identifies
<1> HIDE DEF f
<1>4. InLine(f.m, s) /\ Plain(f.m) /\ Turns(f.m.state, f.m.queue)
  BY <1>3 DEF Ready, Identifies, InLine, Nobody, Plain
<1>5. Ready(f, s)
  BY <1>2, <1>3, <1>4 DEF Ready
<1> QED BY <1>3, <1>5 DEF f

LEMMA ConnOpenFair ==
  ASSUME NEW h, NEW s, Ready(h, s), NEW c \in Conns, NEW p \in Peers, NEW t, Firm(h.m, t, c),
         ~Nobody(h.m), NobodyHolds(h, c),
         (\E a \in Links : First(h.m, p, a)) \/ \A l \in Links : h.m.rec[l].peer # p
  PROVE  LET g == ConnOpenInd(h, c, p) IN InLine(g.m, s \o g.sched) /\ Fair(g.m, t)
<1> DEFINE d == FindByAddr(h, p)
           runs == h.m.advRuns /\ h.m.advDirected
           f == [h EXCEPT !.m.advRuns = runs, !.m.advDirected = FALSE,
                          !.m.known = @ \cup {c}, !.m.dbHdl[c] = d]
<1>1. h \in Work /\ d \in Links \cup {None} /\ runs \in BOOLEAN
  BY Lookups DEF Ready
<1>2. PICK l \in Links : h.m.state[l] \in Advertising
  BY DEF Nobody
<1>3. GetAdvertisingLinkId(h) = l /\ l # None
  BY <1>2, FoundAdvertiser, BleAssumption
<1>4. ConnOpenInd(h, c, p) = cbConnOpen(f, c, l)
  BY <1>3 DEF ConnOpenInd
<1>5. d = None \/ (d = l /\ h.m.rec[l].peer = p)
  <2>1. CASE \E a \in Links : First(h.m, p, a)
    <3>1. PICK a \in Links : First(h.m, p, a)
      BY <2>1
    <3>2. a = l
      BY <1>3, <3>1, FoundAdvertiser DEF First
    <3> QED BY <1>1, <3>1, <3>2, FoundFirst DEF First
  <2>2. CASE \A k \in Links : h.m.rec[k].peer # p
    BY <2>2 DEF FindByAddr
  <2> QED BY <2>1, <2>2
<1> HIDE DEF d, runs
<1>6. Ready(f, s) /\ Identifies(h.m, f.m, c, d)
  BY <1>1, IdentifiedView
<1> HIDE DEF f
<1>7. Firm(f.m, t, c)
  BY <1>1, <1>6, IdentifiedFirm DEF Work, NobodyHolds
<1>8. f.m.state[l] \in Advertising /\ f.m.dbHdl[c] = d /\ f.m.connId[l] = None
  BY <1>1, <1>2, <1>6, <1>7, QueuedStates DEF Identifies, Work, Modules, Firm, Common, HoldersAtRest
<1>9. CASE d = None
  BY <1>3, <1>4, <1>6, <1>7, <1>8, <1>9, NewDeviceFair DEF cbConnOpen
<1>10. CASE d = l /\ h.m.rec[l].peer = p
  <2>1. HasBond(f.m, l)
    BY <1>6, <1>7, <1>8, <1>10, BleAssumption
       DEF Identifies, Firm, Common, NewRecordsHeld, NewRecord, HasBond
  <2>2. ConnOpenInd(h, c, p) = KnownDevice(f, c, l)
    BY <1>3, <1>4, <1>8, <1>10 DEF cbConnOpen
  <2> QED BY <1>6, <1>7, <1>8, <1>10, <2>1, <2>2, KnownDeviceFair
<1> QED BY <1>5, <1>9, <1>10
-----------------------------------------------------------------------------
(* At start nobody has a turn, and those that reconnect get in line.       *)
LEMMA NobodyQueues ==
  ASSUME NEW st, NEW q, Turns(st, q), \A l \in Links : st[l] = "BLEHostInitialising"
  PROVE  q = <<>>
<1> SUFFICES ASSUME q # <<>> PROVE FALSE
  OBVIOUS
<1>1. 1 \in 1 .. Len(q) /\ q[1] \in Links
  BY EmptySeq, LenProperties, ElementOfSeq DEF Turns
<1>2. st[q[1]] \in Queued
  BY <1>1 DEF Turns
<1> QED BY <1>1, <1>2 DEF Queued, Active, Waiting, Advertising, Directed, Aborting

LEMMA ResetFair ==
  ASSUME NEW h, NEW s, Ready(h, s), NEW t, Firm(h.m, t, None),
         \A l \in Links : h.m.state[l] = "BLEHostInitialising",
         NEW q \in InOrder(Reconnects(h))
  PROVE  LET g == ResetCmpl(h, q) IN InLine(g.m, s \o g.sched) /\ Fair(g.m, t)
<1> DEFINE st == [l \in Links |-> ResetState(h, q, l)]
           k  == [h EXCEPT !.m.queue = q, !.m.state = st]
           g  == ResetCmpl(h, q)
<1>1. h \in Work /\ h.sched = <<>> /\ s \in Seq(SchedEvents) /\ InLine(h.m, s)
      /\ Turns(h.m.state, h.m.queue) /\ h.m.queue \in Seq(Links)
  BY DEF Ready, Work, Modules
<1>2. s = <<>>
  BY <1>1, NobodyQueues DEF InLine
<1>3. g = IF q = <<>> THEN k ELSE Listed(k, Kick)
  BY DEF ResetCmpl
<1>4. /\ k.sched = <<>> /\ k.m.queue = q /\ k.m.state = st /\ k.m.connId = h.m.connId
      /\ k.m.rec = h.m.rec /\ k.m.dbHdl = h.m.dbHdl /\ k.m.ccb = h.m.ccb /\ k.m.adv = h.m.adv
      /\ k.m.advDirected = h.m.advDirected
  BY <1>1 DEF Work, Modules
<1>5. g.m = k.m /\ g.sched = IF q = <<>> THEN <<>> ELSE <<Kick>>
  <2>1. k = [k EXCEPT !.sched = k.sched] /\ Append(<<>>, Kick) = <<Kick>>
    BY <1>1, OnlyKick DEF Work
  <2> HIDE DEF k
  <2>2. Listed(k, Kick).m = k.m /\ Listed(k, Kick).sched = <<Kick>>
    BY <1>4, <2>1 DEF Listed
  <2> QED BY <1>3, <1>4, <2>2
<1>6. \A l \in Links : /\ st[l] \in {"WaitReconnect", "BondedNoConnection", "Idle"}
                       /\ st[l] = "WaitReconnect" => l \in Range(q)
  BY DEF ResetState
<1> HIDE DEF st, k, g
<1>7. InLine(g.m, s \o g.sched)
  <2>1. s \o g.sched = IF q = <<>> THEN <<>> ELSE <<Kick>>
    BY <1>2, <1>5, OnlyKick
  <2>2. Nobody(g.m)
    BY <1>4, <1>5, <1>6 DEF Nobody, Advertising, Directed, Aborting
  <2>3. \A l \in Links : g.m.state[l] \in Queued => l \in Range(q)
    BY <1>4, <1>5, <1>6 DEF Queued, Active, Waiting, Advertising, Directed, Aborting
  <2>4. \A l \in Links : g.m.state[l] # "StopReconnectingDirect"
    BY <1>4, <1>5, <1>6
  <2> QED BY <1>4, <1>5, <2>1, <2>2, <2>3, <2>4 DEF InLine
<1>8. Firm(g.m, t, None)
  <2>1. \A l \in Links : h.m.connId[l] = None
    BY DEF Firm, Common, HoldersAtRest, AtRest, Connected, Closing
  <2> QED BY <1>4, <1>5, <2>1
          DEF Firm, Common, HoldersAtRest, NewRecordsHeld, NewRecord, Awaited, HeldBut, Seen, OwnHeld
<1>9. Fair(g.m, t)
  BY <1>8, FirmIsFair, BleAssumption
<1> QED BY <1>7, <1>9 DEF g

(* The first in line is told that its turn has come.                       *)
LEMMA KickedFair ==
  ASSUME NEW h, NEW t, Ready(h, <<Kick>>), Fair(h.m, t)
  PROVE  LET g == Kicked(h) IN InLine(g.m, g.sched) /\ Fair(g.m, t) /\ Calm(h, g)
<1> DEFINE q == h.m.queue
           l == Head(q)
           g == SendEvent(h, "AdvAvail", l)
<1>1. /\ h \in Work /\ h.sched = <<>> /\ q \in Seq(Links) /\ use \in Uses /\ Undirected /\ Plain(h.m)
      /\ Turns(h.m.state, q) /\ \A k \in Links : "EncryptedOnly" \notin use.conf[k]
  BY DEF Ready, Work, Modules, Patient
<1>2. q # <<>> /\ Nobody(h.m) /\ InLine(h.m, <<>>)
  <2>1. <<Kick>> # <<>>
    OBVIOUS
  <2> QED BY <2>1 DEF Ready, InLine
<1>3. l = q[1] /\ l \in Links /\ l # None /\ 1 \in 1 .. Len(q)
  BY <1>1, <1>2, BleAssumption, HeadTailProperties, EmptySeq, LenProperties
<1>4. h.m.state[l] \in Waiting
  <2>1. h.m.state[l] \in Queued
    BY <1>1, <1>3 DEF Turns
  <2>2. h.m.state[l] \notin Advertising /\ h.m.state[l] # "StopReconnectingDirect"
    BY <1>2, <1>3 DEF Nobody, InLine
  <2> QED BY <2>1, <2>2 DEF Queued, Active
<1>5. Processed(h, "AdvAvail", l)
  BY <1>1, <1>3, <1>4, Configurations, WaitingIsServed DEF Processed, Transitions
<1>6. Kicked(h) = g
  BY <1>2, <1>5 DEF Kicked
<1>7. MovedTo(h, g, l, "AdvAvail") /\ Calm(h, g)
  BY <1>1, <1>3, <1>5, SendEventCalm
<1>8. <<>> \in Seq(SchedEvents) /\ MayTell(h, <<>>, "AdvAvail", l)
  BY <1>2, <1>3 DEF MayTell, Close
<1>9. InLine(g.m, <<>> \o g.sched) /\ g.m.advDirected = h.m.advDirected
      /\ AdvChange("AdvAvail", h.m.adv, g.m.adv)
  BY <1>1, <1>2, <1>3, <1>8, TellInLine
<1>10. \A k \in Links : k # l => g.m.state[k] = h.m.state[k]
  BY <1>1, <1>3, TellStates
<1> HIDE DEF g, l
<1>11. g \in Work /\ <<>> \o g.sched = g.sched
  <2>1. g \in Work
    BY <1>7 DEF Calm
  <2> QED BY <2>1, ConcatEmptySeq DEF Work
<1>12. g.m.state[l] \in Advertising
  <2>1. PICK r \in Table[use.conf[l]] :
          r.from = h.m.state[l] /\ r.event = "AdvAvail" /\ g.m.state = [h.m.state EXCEPT ![l] = r.to]
    BY <1>7 DEF MovedTo
  <2>2. r.to \in Active
    BY <1>1, <1>3, <1>4, <2>1, Configurations, WaitingBegins
  <2>3. g.m.state[l] = r.to
    BY <1>1, <1>3, <2>1, WorkTypes
  <2> QED BY <1>3, <1>9, <2>2, <2>3, QueuedStates DEF InLine
<1>13. Firm(h.m, t, None)
  BY <1>1, <1>2, NobodyIsFirm DEF Work, Modules
<1>14. RestKept(h, g)
  BY <1>4, <1>10, QueuedStates DEF RestKept
<1>15. Common(g.m, t) /\ ~Nobody(g.m) /\ ~Pending(t)
  BY <1>1, <1>3, <1>7, <1>9, <1>12, <1>13, <1>14, CalmCommon DEF Firm, Awaited, Nobody
<1>16. OneOutcome(g.m, t)
  BY <1>15 DEF OneOutcome, Pending
<1>17. AllExpected(g.m, t)
  BY <1>15 DEF AllExpected, Pending, Outcomes
<1>18. AllKept(g.m, t)
  BY <1>7, <1>13, CalmSeen, BleAssumption DEF AllKept, OwnKept, Firm, HeldBut
<1> QED BY <1>6, <1>7, <1>9, <1>11, <1>15, <1>16, <1>17, <1>18 DEF Fair
-----------------------------------------------------------------------------
(* The application asks a link that does not wait to close, or unbinds it: *)
(* its record goes.                                                        *)
Unbinds(n, o, l) ==
  /\ o.rec[l].peer = None /\ \A k \in Links : k # l => o.rec[k] = n.rec[k]
  /\ o.state = n.state /\ o.queue = n.queue /\ o.connId = n.connId /\ o.dbHdl = n.dbHdl
  /\ o.ccb = n.ccb /\ o.adv = n.adv /\ o.advDirected = n.advDirected

LEMMA UnbindsFair ==
  ASSUME NEW n, NEW o, NEW l \in Links, Unbinds(n, o, l), NEW t \in Seq(Inds), Fair(n, t),
         n.state[l] \notin Advertising
  PROVE  Fair(o, t)
<1> USE DEF Unbinds
<1>1. Common(o, t)
  BY DEF Fair, Common, HoldersAtRest, NewRecordsHeld, NewRecord
<1>2. (Awaited(o, t) <=> Awaited(n, t)) /\ OneOutcome(o, t)
  BY DEF Awaited, Fair, OneOutcome, Nobody
<1>3. AllKept(o, t)
  BY <1>2 DEF Fair, AllKept, OwnKept, OwnHeld, Seen
<1>4. ASSUME NEW i \in 1 .. Len(t), t[i].event = "ConnOpen" PROVE ExpectedAt(o, t, i)
  <2>1. t[i].peer # None /\ ExpectedAt(n, t, i)
    BY <1>4, PeerConnected DEF Fair, AllExpected
  <2>2. CASE \E a \in Links : First(n, t[i].peer, a)
    <3>1. PICK a \in Links : First(n, t[i].peer, a)
      BY <2>2
    <3>2. First(o, t[i].peer, a)
      BY <2>1, <3>1 DEF First
    <3> QED BY <3>2 DEF ExpectedAt
  <2>3. CASE \A d \in Links : n.rec[d].peer = t[i].peer => Dropping(n, t, i, d)
    <3>1. \A d \in Links : o.rec[d].peer = t[i].peer => Dropping(o, t, i, d)
      BY <2>1, <2>3 DEF Dropping
    <3> QED BY <3>1 DEF ExpectedAt
  <2> QED BY <2>1, <2>2, <2>3 DEF ExpectedAt
<1>5. AllExpected(o, t)
  BY <1>4 DEF AllExpected
<1> QED BY <1>1, <1>2, <1>3, <1>5 DEF Fair

LEMMA UnboundView ==
  ASSUME NEW f \in Work, NEW l \in Links
  PROVE  LET g == [f EXCEPT !.m.rec[l].peer = None]
         IN Unbinds(f.m, g.m, l) /\ g.sched = f.sched
<1> DEFINE gone == [f.m.rec[l] EXCEPT !.peer = None]
           g == [f EXCEPT !.m.rec[l] = gone]
<1>1. gone \in Record /\ gone.peer = None
  BY Elements DEF Record
<1>2. g = [f EXCEPT !.m.rec[l].peer = None]
  OBVIOUS
<1> HIDE DEF gone
<1>3. Unbinds(f.m, g.m, l) /\ g.sched = f.sched
  BY <1>1 DEF Work, Modules, Unbinds
<1> QED BY <1>2, <1>3

LEMMA RequestFair ==
  ASSUME NEW h, NEW s, Ready(h, s), NEW e \in AppEvents, NEW l \in Links, NEW t \in Seq(Inds),
         Fair(h.m, t), e # "ConnReq" => h.m.state[l] \in use.closes
  PROVE  LET g == Request(h, e, l) IN InLine(g.m, s \o g.sched) /\ Fair(g.m, t)
<1> DEFINE f == SendEvent(h, e, l)
           g == [f EXCEPT !.m.rec[l].peer = None]
<1>1. MayTell(h, s, e, l)
  BY DEF MayTell, Ready, Patient, AppEvents, Close
<1>2. e \notin {"AdvAvail", "ConnOpenNew", "ConnOpen", "ConnFail", "ConnCloseExt"}
  BY DEF AppEvents
<1>3. InLine(f.m, s \o f.sched) /\ Fair(f.m, t) /\ Calm(h, f)
  BY <1>1, <1>2, TellFair
<1>4. use \in Uses /\ Undirected /\ h \in Work /\ Plain(h.m)
  BY DEF Ready, Patient
<1>5. CASE e = "UnbindApp" /\ Processed(h, e, l)
  <2>1. Request(h, e, l) = g
    BY <1>5 DEF Request
  <2>2. h.m.state[l] \notin Advertising
    <3>1. MovedTo(h, f, l, e)
      BY <1>4, <1>5, SendEventCalm
    <3>2. PICK r \in Table[use.conf[l]] : r.from = h.m.state[l] /\ r.event = e
      BY <3>1 DEF MovedTo
    <3>3. TurnRow(use.conf[l], r)
      BY <1>4, Configurations, TurnRows
    <3>4. r.from \notin Directed
      BY <1>4, <3>2 DEF Plain
    <3> QED BY <1>5, <3>2, <3>3, <3>4 DEF TurnRow, Close
  <2>3. f.m.state[l] \notin Advertising
    BY <1>2, <1>4, <2>2, TellStates
  <2>4. f \in Work
    BY <1>3 DEF Calm
  <2> HIDE DEF f
  <2>5. Unbinds(f.m, g.m, l) /\ g.sched = f.sched
    BY <2>4, UnboundView
  <2> HIDE DEF g
  <2>6. Fair(g.m, t)
    BY <1>3, <2>3, <2>5, UnbindsFair
  <2>7. InLine(g.m, s \o g.sched)
    BY <1>3, <2>5 DEF InLine, Nobody, Unbinds
  <2> QED BY <2>1, <2>6, <2>7
<1>6. CASE ~(e = "UnbindApp" /\ Processed(h, e, l))
  <2>1. Request(h, e, l) = f
    BY <1>6 DEF Request
  <2> QED BY <1>3, <2>1
<1> QED BY <1>5, <1>6
-----------------------------------------------------------------------------
(* Message x joins messages q, which are r then.                           *)
Joined(q, x, r) ==
  /\ Len(q) \in Nat /\ Len(r) \in 1 .. Len(r) /\ r[Len(r)] = x
  /\ \A i \in 1 .. Len(q) : i \in 1 .. Len(r) /\ i < Len(r) /\ r[i] = q[i]
  /\ \A i \in 1 .. Len(r) : i \in 1 .. Len(q) \/ i = Len(r)

LEMMA AppendJoins ==
  ASSUME NEW q \in Seq(Inds), NEW x \in Inds PROVE Joined(q, x, Append(q, x))
<1> DEFINE r == Append(q, x)
<1>1. /\ Len(q) \in Nat /\ Len(r) = Len(q) + 1 /\ r[Len(q) + 1] = x
      /\ \A j \in 1 .. Len(q) : r[j] = q[j]
  BY AppendProperties, LenProperties
<1> HIDE DEF r
<1>2. Len(r) \in 1 .. Len(r) /\ r[Len(r)] = x
  BY <1>1
<1>3. \A i \in 1 .. Len(q) : i \in 1 .. Len(r) /\ i < Len(r) /\ r[i] = q[i]
  BY <1>1
<1>4. \A i \in 1 .. Len(r) : i \in 1 .. Len(q) \/ i = Len(r)
  BY <1>1
<1> QED BY <1>1, <1>2, <1>3, <1>4 DEF Joined, r

LEMMA AboutJoined ==
  ASSUME NEW q, NEW x, NEW r, Joined(q, x, r), NEW e
  PROVE  /\ About(r, e) = About(q, e) \cup {c \in Conns : x.event = e /\ x.conn = c}
         /\ \A c : \A i \in 1 .. Len(q) : Ended(q, i, c) => Ended(r, i, c)
         /\ Pending(r) <=> Pending(q) \/ x.event \in Outcomes
<1>1. ASSUME NEW c \in About(r, e) PROVE c \in About(q, e) \/ (x.event = e /\ x.conn = c)
  <2>1. PICK i \in 1 .. Len(r) : r[i].event = e /\ r[i].conn = c
    BY DEF About
  <2> QED BY <2>1 DEF Joined, About
<1>2. About(q, e) \subseteq About(r, e)
  BY DEF Joined, About
<1>3. ASSUME NEW c \in Conns, x.event = e, x.conn = c PROVE c \in About(r, e)
  BY <1>3 DEF Joined, About
<1>4. About(r, e) \subseteq Conns
  BY DEF About
<1>5. \A c : \A i \in 1 .. Len(q) : Ended(q, i, c) => Ended(r, i, c)
  BY DEF Joined, Ended
<1>6. Pending(r) <=> Pending(q) \/ x.event \in Outcomes
  BY DEF Joined, Pending
<1> QED BY <1>1, <1>2, <1>3, <1>4, <1>5, <1>6

(* What the controller and the devices report, in terms of who holds what. *)
Reported(n, o, q, x) ==
  /\ o.state = n.state /\ o.rec = n.rec /\ o.connId = n.connId /\ o.dbHdl = n.dbHdl
  /\ o.advDirected = n.advDirected
  /\ o.adv \in {"idle", "starting", "advertising", "stopping"}
  /\ x.event \in Outcomes => n.adv # "idle" /\ o.adv = "idle"
  /\ x.event \notin Outcomes => (o.adv # "idle" <=> n.adv # "idle")
  /\ x.event = "ConnClose" => x.conn \in Conns /\ x.conn \notin About(q, "ConnClose")
  /\ x.event = "PairCmpl" => ~Pending(q)
  /\ x.event = "ConnOpen" =>
       (\E a \in Links : First(n, x.peer, a)) \/ \A d \in Links : n.rec[d].peer # x.peer
SeesNoMore(n, q, o, r) == \A c \in Conns : Seen(o, r, c) => Seen(n, q, c)

LEMMA ReportedCommon ==
  ASSUME NEW n, NEW o, NEW q, NEW x, NEW r, Joined(q, x, r), Common(n, q), Reported(n, o, q, x)
  PROVE  Common(o, r)
<1>1. EndsOnce(r)
  <2> SUFFICES ASSUME NEW i \in 1 .. Len(r), NEW j \in 1 .. Len(r), i < j, r[i].event = "ConnClose",
                      r[j].event = "ConnClose"
               PROVE  r[i].conn # r[j].conn
    BY DEF EndsOnce
  <2>1. i \in 1 .. Len(q) /\ r[i] = q[i]
    BY DEF Joined
  <2>2. CASE j \in 1 .. Len(q)
    BY <2>1, <2>2 DEF Joined, Common, EndsOnce
  <2>3. CASE j = Len(r)
    <3>1. x.event = "ConnClose" /\ x.conn = r[j].conn
      BY <2>3 DEF Joined
    <3> QED BY <2>1, <3>1 DEF Reported, About
  <2> QED BY <2>2, <2>3 DEF Joined
<1> QED BY <1>1 DEF Common, Reported, HoldersAtRest, NewRecordsHeld, NewRecord

LEMMA ReportedOutcome ==
  ASSUME NEW n, NEW o, NEW q, NEW x, NEW r, Joined(q, x, r), OneOutcome(n, q), Reported(n, o, q, x)
  PROVE  OneOutcome(o, r) /\ (Awaited(o, r) <=> Awaited(n, q))
<1>1. Pending(q) => n.adv = "idle"
  BY DEF OneOutcome, Pending
<1>2. Pending(r) <=> Pending(q) \/ x.event \in Outcomes
  BY AboutJoined
<1>3. Awaited(o, r) <=> Awaited(n, q)
  BY <1>2 DEF Awaited, Reported
<1>4. ASSUME NEW i \in 1 .. Len(r), r[i].event \in Outcomes
      PROVE  o.adv = "idle" /\ \A j \in 1 .. Len(r) : r[j].event \in Outcomes => j = i
  <2>1. CASE x.event \in Outcomes
    <3>1. ~Pending(q)
      BY <1>1, <2>1 DEF Reported
    <3>2. \A j \in 1 .. Len(r) : r[j].event \in Outcomes => j = Len(r)
      BY <3>1 DEF Pending, Joined
    <3> QED BY <1>4, <2>1, <3>2 DEF Reported
  <2>2. CASE x.event \notin Outcomes
    <3>1. \A j \in 1 .. Len(r) : r[j].event \in Outcomes => j \in 1 .. Len(q) /\ r[j] = q[j]
      BY <2>2 DEF Joined
    <3> QED BY <1>4, <2>2, <3>1 DEF OneOutcome, Reported
  <2> QED BY <2>1, <2>2
<1>5. Awaited(o, r) => ~Nobody(o)
  BY <1>3 DEF OneOutcome, Nobody, Reported
<1> QED BY <1>3, <1>4, <1>5 DEF OneOutcome

LEMMA ReportedExpected ==
  ASSUME NEW n, NEW o, NEW q, NEW x, NEW r, Joined(q, x, r), AllExpected(n, q), Reported(n, o, q, x)
  PROVE  AllExpected(o, r)
<1> SUFFICES ASSUME NEW i \in 1 .. Len(r), r[i].event = "ConnOpen" PROVE ExpectedAt(o, r, i)
  BY DEF AllExpected
<1>1. CASE i = Len(r)
  <2>1. x.event = "ConnOpen" /\ r[i].peer = x.peer
    BY <1>1 DEF Joined
  <2>2. (\E a \in Links : First(o, x.peer, a)) \/ \A d \in Links : o.rec[d].peer # x.peer
    BY <2>1 DEF Reported, First
  <2> QED BY <2>1, <2>2 DEF ExpectedAt
<1>2. CASE i \in 1 .. Len(q)
  <2>1. r[i] = q[i] /\ ExpectedAt(n, q, i)
    BY <1>2 DEF Joined, AllExpected
  <2>2. x.event # "PairCmpl"
    BY <1>2, <2>1 DEF Reported, Pending, Outcomes
  <2>3. About(q, "PairCmpl") = {} => About(r, "PairCmpl") = {}
    BY <2>2, AboutJoined
  <2>4. \A c : Ended(q, i, c) => Ended(r, i, c)
    BY <1>2, AboutJoined
  <2>5. \A d \in Links : Dropping(n, q, i, d) => Dropping(o, r, i, d)
    BY <2>3, <2>4 DEF Dropping, Reported
  <2> QED BY <2>1, <2>5 DEF ExpectedAt, Reported, First
<1> QED BY <1>1, <1>2 DEF Joined

LEMMA ReportedFair ==
  ASSUME NEW n, NEW o, NEW q, NEW x, NEW r, Joined(q, x, r), Fair(n, q), Reported(n, o, q, x),
         SeesNoMore(n, q, o, r)
  PROVE  Fair(o, r)
<1>1. Common(o, r) /\ OneOutcome(o, r) /\ (Awaited(o, r) <=> Awaited(n, q)) /\ AllExpected(o, r)
  BY ReportedCommon, ReportedOutcome, ReportedExpected DEF Fair
<1>2. AllKept(o, r)
  BY <1>1 DEF Fair, AllKept, OwnKept, OwnHeld, SeesNoMore, Reported
<1> QED BY <1>1, <1>2 DEF Fair
-----------------------------------------------------------------------------
(* A device that pairs is in no record.  It may have connected again by    *)
(* the time that this is handled, but not before its connection ended.     *)
StrangerAt(n, q, i) ==
  /\ \A l \in Links : n.rec[l].peer # q[i].peer
  /\ n.ccb[q[i].conn].peer = q[i].peer \/ q[i].conn \in About(q, "ConnClose")
  /\ \A j \in 1 .. Len(q) : q[j].event = "ConnOpen" /\ q[j].peer = q[i].peer => Ended(q, j, q[i].conn)
Strangers(n, q) == \A i \in 1 .. Len(q) : q[i].event = "PairInd" => StrangerAt(n, q, i)
Started(n, q) == AtStart(q) => \A l \in Links : n.state[l] = "BLEHostInitialising"

(* The inductive invariant of whose turn it is.                            *)
LineInv == InLine(m, sched) /\ Fair(m, inds) /\ Strangers(m, inds) /\ Started(m, inds)

(* What is reported, in terms of who is a stranger.                        *)
Meets(n, o, q, x) ==
  /\ o.rec = n.rec
  /\ \A i \in 1 .. Len(q) : q[i].event = "PairInd" =>
       \/ o.ccb[q[i].conn].peer = n.ccb[q[i].conn].peer
       \/ x.event = "ConnClose" /\ x.conn = q[i].conn
  /\ x.event = "PairInd" =>
       /\ Len(q) = 0 /\ o.ccb[x.conn].peer = x.peer /\ \A l \in Links : n.rec[l].peer # x.peer
  /\ x.event = "ConnOpen" => \A i \in 1 .. Len(q) :
       q[i].event = "PairInd" /\ q[i].peer = x.peer => q[i].conn \in About(q, "ConnClose")

LEMMA StrangersJoined ==
  ASSUME NEW q \in Seq(Inds), NEW x, NEW r, Joined(q, x, r), NEW n, NEW o, Strangers(n, q),
         Meets(n, o, q, x)
  PROVE  Strangers(o, r)
<1> SUFFICES ASSUME NEW i \in 1 .. Len(r), r[i].event = "PairInd" PROVE StrangerAt(o, r, i)
  BY DEF Strangers
<1>1. CASE i \in 1 .. Len(q)
  <2>1. r[i] = q[i] /\ q[i] \in Inds /\ StrangerAt(n, q, i)
    BY <1>1, ElementOfSeq DEF Joined, Strangers
  <2>2. q[i].conn \in Conns
    BY <2>1 DEF Inds
  <2>3. \A l \in Links : o.rec[l].peer # r[i].peer
    BY <2>1 DEF StrangerAt, Meets
  <2>4. o.ccb[r[i].conn].peer = r[i].peer \/ r[i].conn \in About(r, "ConnClose")
    <3>1. q[i].conn \in About(q, "ConnClose") => r[i].conn \in About(r, "ConnClose")
      BY <2>1, AboutJoined
    <3>2. x.event = "ConnClose" /\ x.conn = q[i].conn => r[i].conn \in About(r, "ConnClose")
      BY <2>1, <2>2, AboutJoined
    <3>3. \/ o.ccb[q[i].conn].peer = n.ccb[q[i].conn].peer
          \/ x.event = "ConnClose" /\ x.conn = q[i].conn
      BY <1>1, <2>1 DEF Meets
    <3> QED BY <2>1, <3>1, <3>2, <3>3 DEF StrangerAt
  <2>5. ASSUME NEW j \in 1 .. Len(r), r[j].event = "ConnOpen", r[j].peer = r[i].peer
        PROVE  Ended(r, j, r[i].conn)
    <3>1. CASE j \in 1 .. Len(q)
      <4>1. Ended(q, j, q[i].conn)
        BY <2>1, <2>5, <3>1 DEF Joined, StrangerAt
      <4> QED BY <2>1, <3>1, <4>1, AboutJoined
    <3>2. CASE j = Len(r)
      <4>1. x.event = "ConnOpen" /\ x.peer = q[i].peer
        BY <2>1, <2>5, <3>2 DEF Joined
      <4>2. q[i].conn \in About(q, "ConnClose")
        BY <1>1, <2>1, <4>1 DEF Meets
      <4>3. PICK k \in 1 .. Len(q) : q[k].event = "ConnClose" /\ q[k].conn = q[i].conn
        BY <4>2 DEF About
      <4> QED BY <2>1, <3>2, <4>3 DEF Joined, Ended
    <3> QED BY <3>1, <3>2 DEF Joined
  <2> QED BY <2>3, <2>4, <2>5 DEF StrangerAt
<1>2. CASE i = Len(r)
  <2>1. r[i] = x /\ x.event = "PairInd" /\ Len(q) = 0
    BY <1>2 DEF Joined, Meets
  <2>2. \A j \in 1 .. Len(r) : r[j].event # "ConnOpen"
    BY <2>1 DEF Joined
  <2> QED BY <2>1, <2>2 DEF Meets, StrangerAt
<1> QED BY <1>1, <1>2 DEF Joined

(* A step that sends a message and leaves the links alone.                 *)
LEMMA SendingLine ==
  ASSUME TurnInv, LineInv, NEW x \in Inds, x.event # "ResetCmpl",
         inds' = Append(inds, x), sched' = sched, m'.queue = m.queue,
         Reported(m, m', inds, x), SeesNoMore(m, inds, m', inds'), Meets(m, m', inds, x)
  PROVE  LineInv'
<1>1. inds \in Seq(Inds) /\ Joined(inds, x, inds')
  BY AppendJoins DEF TurnInv, Typed
<1>2. Fair(m', inds')
  BY <1>1, ReportedFair DEF LineInv
<1>3. Strangers(m', inds')
  BY <1>1, StrangersJoined DEF LineInv
<1>4. Started(m', inds')
  BY <1>1 DEF LineInv, Started, AtStart, Joined, Reported
<1>5. InLine(m', sched')
  BY DEF LineInv, InLine, Nobody, Reported
<1> QED BY <1>2, <1>3, <1>4, <1>5 DEF LineInv
-----------------------------------------------------------------------------
(* The controller's answers and timeouts.                                  *)
LEMMA AdvertisingStays ==
  ASSUME TurnInv, LineInv, NEW a \in {"starting", "advertising", "stopping"},
         m.adv # "idle", m' = [m EXCEPT !.adv = a], sched' = sched, inds' = inds
  PROVE  LineInv'
<1> DEFINE o == [m EXCEPT !.adv = a]
<1>1. /\ o.state = m.state /\ o.queue = m.queue /\ o.connId = m.connId /\ o.rec = m.rec
      /\ o.dbHdl = m.dbHdl /\ o.ccb = m.ccb /\ o.advDirected = m.advDirected /\ o.adv = a
  BY DEF TurnInv, Typed, Modules
<1>2. m' = o
  OBVIOUS
<1> HIDE DEF o
<1>3. (Awaited(o, inds) <=> Awaited(m, inds)) /\ OneOutcome(o, inds)
  BY <1>1 DEF LineInv, Fair, OneOutcome, Awaited, Nobody
<1>4. Common(o, inds)
  BY <1>1 DEF LineInv, Fair, Common, HoldersAtRest, NewRecordsHeld, NewRecord
<1>5. AllKept(o, inds)
  BY <1>1, <1>3 DEF LineInv, Fair, AllKept, OwnKept, OwnHeld, Seen
<1>6. AllExpected(o, inds)
  BY <1>1 DEF LineInv, Fair, AllExpected, ExpectedAt, First, Dropping
<1>7. Strangers(o, inds)
  BY <1>1 DEF LineInv, Strangers, StrangerAt
<1>8. InLine(o, sched) /\ Started(o, inds)
  BY <1>1 DEF LineInv, InLine, Nobody, Started
<1> QED BY <1>2, <1>3, <1>4, <1>5, <1>6, <1>7, <1>8 DEF LineInv, Fair

LEMMA AdvertisingLine ==
  ASSUME TurnInv, LineInv, AdvEnabled \/ AdvTimeout PROVE LineInv'
<1>1. PICK a \in {"advertising", "stopping"} : m.adv # "idle" /\ Becomes([Here EXCEPT !.m.adv = a])
  BY DEF AdvEnabled, AdvTimeout, Reports
<1> DEFINE f == [Here EXCEPT !.m.adv = a]
           x == [event |-> "AdvStop", conn |-> None]
<1>2. f.sched = <<>> /\ f.inds = <<>> /\ f.m = [m EXCEPT !.adv = a]
  BY DEF Here
<1>3. x \in Inds
  BY DEF Inds
<1>4. Becomes(f)
  BY <1>1
<1> HIDE DEF f, x
<1>5. m' = f.m /\ sched' = sched /\ inds' = inds
  BY <1>2, <1>3, <1>4, BecomesSent
<1> QED BY <1>1, <1>2, <1>5, AdvertisingStays

LEMMA AdvDisabledLine ==
  ASSUME TurnInv, LineInv, AdvDisabled PROVE LineInv'
<1> DEFINE f == [Here EXCEPT !.m.adv = "idle"]
           x == [event |-> "AdvStop", conn |-> None]
           o == f.m
<1>1. m.adv = "stopping"
  BY DEF AdvDisabled, LineInv, Fair, Common
<1>2. Becomes(Sent(f, x))
  BY <1>1 DEF AdvDisabled, Reports
<1>3. /\ f.sched = <<>> /\ f.inds = <<>> /\ f \in Work
      /\ o.state = m.state /\ o.queue = m.queue /\ o.connId = m.connId /\ o.rec = m.rec
      /\ o.dbHdl = m.dbHdl /\ o.ccb = m.ccb /\ o.advDirected = m.advDirected /\ o.adv = "idle"
  BY HereIsWork DEF Here, Work, Modules
<1>4. x \in Inds /\ x.event = "AdvStop"
  BY DEF Inds
<1> HIDE DEF f, x
<1>5. m' = o /\ sched' = sched /\ inds' = Append(inds, x)
  BY <1>2, <1>3, <1>4, BecomesSent
<1>6. Reported(m, o, inds, x)
  BY <1>1, <1>3, <1>4 DEF Reported, Outcomes
<1>7. Joined(inds, x, inds')
  BY <1>4, <1>5, AppendJoins DEF TurnInv, Typed
<1>8. /\ About(inds', "ConnClose") = About(inds, "ConnClose")
      /\ About(inds', "ConnOpen") = About(inds, "ConnOpen")
  <2>1. \A e \in {"ConnClose", "ConnOpen"} :
          About(inds', e) = About(inds, e) \cup {b \in Conns : x.event = e /\ x.conn = b}
    BY <1>7, AboutJoined
  <2> QED BY <1>4, <2>1
<1>9. SeesNoMore(m, inds, o, inds')
  BY <1>3, <1>8 DEF SeesNoMore, Seen
<1>10. Meets(m, o, inds, x)
  BY <1>3, <1>4 DEF Meets
<1> QED BY <1>3, <1>4, <1>5, <1>6, <1>9, <1>10, SendingLine

(* A connection ends.                                                      *)
LEMMA EndsLine ==
  ASSUME TurnInv, OwnInv, LineInv, NEW c \in Conns, DirectedTimeout(c) \/ Disconnected(c)
  PROVE  LineInv'
<1> DEFINE f == [Here EXCEPT !.m.ccb[c] = Free, !.m.pairing = @ \ {c}]
           x == [event |-> "ConnClose", conn |-> c]
           o == f.m
<1>1. Plain(m) /\ EndsHere(m, Underway(inds)) /\ m \in Modules
  BY DEF OwnInv, Owns, TurnInv, Typed
<1>2. Disconnected(c) /\ m.ccb[c].state # "free"
  BY <1>1 DEF DirectedTimeout, Disconnected, Plain
<1>3. /\ o.connId = m.connId /\ o.dbHdl = m.dbHdl /\ o.rec = m.rec
      /\ o.state = m.state /\ o.queue = m.queue /\ o.adv = m.adv /\ o.advDirected = m.advDirected
      /\ o.ccb[c].state = "free" /\ \A d \in Conns \ {c} : o.ccb[d] = m.ccb[d]
      /\ f.sched = <<>> /\ f.inds = <<>> /\ f \in Work
  BY <1>1, HereIsWork DEF Work, Modules, Free, Here
<1>4. x \in Inds /\ x.event = "ConnClose" /\ x.conn = c
  BY DEF Inds
<1>5. Becomes(Sent(f, x))
  BY <1>2 DEF Disconnected, Reports
<1> HIDE DEF f, x
<1>6. m' = o /\ sched' = sched /\ inds' = Append(inds, x)
  BY <1>3, <1>4, <1>5, BecomesSent
<1>7. c \notin About(inds, "ConnClose")
  BY <1>1, <1>2 DEF EndsHere, Underway, Tracked
<1>8. Reported(m, o, inds, x)
  BY <1>3, <1>4, <1>7 DEF Reported, Outcomes, LineInv, Fair, Common
<1>9. Joined(inds, x, inds') /\ inds \in Seq(Inds)
  BY <1>4, <1>6, AppendJoins DEF TurnInv, Typed
<1>10. /\ About(inds', "ConnClose") = About(inds, "ConnClose") \cup {c}
       /\ About(inds', "ConnOpen") = About(inds, "ConnOpen")
  <2>1. \A e \in {"ConnClose", "ConnOpen"} :
          About(inds', e) = About(inds, e) \cup {b \in Conns : x.event = e /\ x.conn = b}
    BY <1>9, AboutJoined
  <2> QED BY <1>4, <2>1
<1>11. SeesNoMore(m, inds, o, inds')
  BY <1>2, <1>3, <1>10 DEF SeesNoMore, Seen
<1>12. Meets(m, o, inds, x)
  <2>1. \A i \in 1 .. Len(inds) : inds[i].event = "PairInd" => inds[i].conn \in Conns
    BY <1>9, ElementOfSeq DEF Inds
  <2> QED BY <1>3, <1>4, <2>1 DEF Meets
<1> QED BY <1>3, <1>4, <1>6, <1>8, <1>11, <1>12, SendingLine
-----------------------------------------------------------------------------
(* A device connects.                                                      *)
LEMMA FoundRecord ==
  ASSUME NEW h \in Work, NEW p
  PROVE  LET d == FindByAddr(h, p)
         IN /\ d = None => \A l \in Links : h.m.rec[l].peer # p
            /\ d # None => /\ d \in Links /\ h.m.rec[d].peer = p
                           /\ \A k \in Links : k < d => h.m.rec[k].peer # p
<1> DEFINE hits == {l \in Links : h.m.rec[l].peer = p}
           d == FindByAddr(h, p)
<1>1. CASE hits = {}
  BY <1>1 DEF FindByAddr
<1>2. CASE hits # {}
  <2>1. d = CHOOSE l \in hits : \A k \in hits : l <= k
    BY <1>2 DEF FindByAddr
  <2>2. hits \in SUBSET Nat
    BY DEF Links
  <2>3. \E l \in hits : \A k \in hits : l <= k
    BY <1>2, <2>2, LeastElement
  <2>4. d \in hits /\ \A k \in hits : d <= k
    BY <2>1, <2>3
  <2>5. d \in Links /\ h.m.rec[d].peer = p /\ d # None
    BY <2>4, BleAssumption
  <2>6. ASSUME NEW k \in Links, k < d PROVE h.m.rec[k].peer # p
    <3>1. k \in Nat /\ d \in Nat
      BY <2>5, BleAssumption DEF Links
    <3> QED BY <2>4, <2>6, <3>1
  <2> HIDE DEF d
  <2> QED BY <2>5, <2>6 DEF d
<1> QED BY <1>1, <1>2

LEMMA ConnectsLine ==
  ASSUME TurnInv, OwnInv, LineInv, Patient, NEW c \in Conns, NEW p \in Peers, Connects(p, c)
  PROVE  LineInv'
<1> DEFINE f == [Here EXCEPT !.m.adv = "idle", !.m.ccb[c] = [state |-> "open", peer |-> p]]
           x == [event |-> "ConnOpen", conn |-> c, peer |-> p]
           o == f.m
<1>1. Plain(m) /\ m \in Modules /\ inds \in Seq(Inds) /\ Here \in Work /\ Here.m = m
  BY HereIsWork DEF OwnInv, Owns, TurnInv, Typed
<1>2. /\ m.adv \in {"advertising", "stopping"} /\ Used(Here) # Conns /\ c = FirstFree(Here)
      /\ \A i \in Range(inds) : i.conn # c
  BY <1>1 DEF Connects, Plain
<1>3. \A j \in 1 .. Len(inds) : inds[j].conn # c
  BY <1>1, <1>2, RangeElements
<1>4. /\ o.connId = m.connId /\ o.dbHdl = m.dbHdl /\ o.rec = m.rec
      /\ o.state = m.state /\ o.queue = m.queue /\ o.adv = "idle" /\ o.advDirected = m.advDirected
      /\ \A d \in Conns \ {c} : o.ccb[d] = m.ccb[d]
      /\ f.sched = <<>> /\ f.inds = <<>> /\ f \in Work
  BY <1>1, HereIsWork DEF Work, Modules, Here
<1>5. x \in Inds /\ x.event = "ConnOpen" /\ x.conn = c /\ x.peer = p
  BY DEF Inds
<1>6. Becomes(Sent(f, x))
  BY DEF Connects, Reports
<1> HIDE DEF f, x
<1>7. m' = o /\ sched' = sched /\ inds' = Append(inds, x)
  BY <1>4, <1>5, <1>6, BecomesSent
<1>8. (\E a \in Links : First(m, p, a)) \/ \A d \in Links : m.rec[d].peer # p
  <2> DEFINE d == FindByAddr(Here, p)
  <2>1. CASE d = None
    BY <1>1, <2>1, FoundRecord
  <2>2. CASE d # None
    <3>1. d \in Links /\ m.rec[d].peer = p /\ \A k \in Links : k < d => m.rec[k].peer # p
      BY <1>1, <2>2, FoundRecord
    <3>2. m.state[d] \in Advertising
      BY <1>2, <2>2 DEF Connects, Patient
    <3> QED BY <3>1, <3>2 DEF First
  <2> QED BY <2>1, <2>2
<1>9. Reported(m, o, inds, x)
  BY <1>2, <1>4, <1>5, <1>8 DEF Reported, Outcomes, LineInv, Fair, Common
<1>10. Joined(inds, x, inds')
  BY <1>1, <1>5, <1>7, AppendJoins
<1>11. /\ About(inds', "ConnClose") = About(inds, "ConnClose")
       /\ About(inds', "ConnOpen") = About(inds, "ConnOpen") \cup {c}
  <2>1. \A e \in {"ConnClose", "ConnOpen"} :
          About(inds', e) = About(inds, e) \cup {b \in Conns : x.event = e /\ x.conn = b}
    BY <1>10, AboutJoined
  <2> QED BY <1>5, <2>1
<1>12. SeesNoMore(m, inds, o, inds')
  BY <1>4, <1>11 DEF SeesNoMore, Seen
<1>13. Meets(m, o, inds, x)
  <2>1. \A i \in 1 .. Len(inds) : inds[i].event = "PairInd" => inds[i].conn \in Conns
    BY <1>1, ElementOfSeq DEF Inds
  <2>2. \A d \in Conns : m.ccb[d].peer # p
    BY <1>1 DEF Connects, Plain
  <2>3. ASSUME NEW i \in 1 .. Len(inds), inds[i].event = "PairInd", inds[i].peer = p
        PROVE  inds[i].conn \in About(inds, "ConnClose")
    BY <2>1, <2>2, <2>3 DEF LineInv, Strangers, StrangerAt
  <2> QED BY <1>3, <1>4, <1>5, <2>1, <2>3 DEF Meets
<1> QED BY <1>4, <1>5, <1>7, <1>9, <1>12, <1>13, SendingLine

(* A device pairs, or encrypts, when no messages are under way.            *)
LEMMA TellsLine ==
  ASSUME TurnInv, LineInv, inds = <<>>, NEW x \in Inds,
         x.event \in {"PairInd", "PairCmpl", "PairFail", "Encrypt", "EncryptFail"},
         x.event = "PairInd" => m.ccb[x.conn].peer = x.peer /\ \A l \in Links : m.rec[l].peer # x.peer,
         inds' = Append(inds, x), sched' = sched, SameView(m, m')
  PROVE  LineInv'
<1>1. Len(inds) = 0
  BY EmptySeq
<1>2. ~Pending(inds)
  BY <1>1 DEF Pending
<1>3. Reported(m, m', inds, x)
  BY <1>2 DEF Reported, Outcomes, SameView, LineInv, Fair, Common
<1>4. Joined(inds, x, inds')
  BY AppendJoins DEF TurnInv, Typed
<1>5. /\ About(inds', "ConnClose") = About(inds, "ConnClose")
      /\ About(inds', "ConnOpen") = About(inds, "ConnOpen")
  <2>1. \A e \in {"ConnClose", "ConnOpen"} :
          About(inds', e) = About(inds, e) \cup {b \in Conns : x.event = e /\ x.conn = b}
    BY <1>4, AboutJoined
  <2> QED BY <2>1
<1>6. SeesNoMore(m, inds, m', inds')
  BY <1>5 DEF SeesNoMore, Seen, SameView
<1>7. Meets(m, m', inds, x)
  BY <1>1 DEF Meets, SameView
<1>8. m'.queue = m.queue /\ x.event # "ResetCmpl"
  BY DEF SameView
<1> QED BY <1>3, <1>6, <1>7, <1>8, SendingLine

LEMMA DevicesLine ==
  ASSUME TurnInv, LineInv, NEW c \in Conns, Pairs(c) \/ PairingEnds(c) \/ Encrypts(c)
  PROVE  LineInv'
<1>1. SameView(m, m) /\ \A S \in SUBSET Conns : SameView(m, [m EXCEPT !.pairing = S])
  BY DEF TurnInv, Typed, Modules, SameView
<1>2. CASE Pairs(c)
  <2>1. PICK p \in Peers : /\ m.ccb[c].peer = p /\ \A l \in Links : m.rec[l].peer # p
                           /\ Tells(c, [event |-> "PairInd", conn |-> c, peer |-> p])
    BY <1>2 DEF Pairs
  <2> DEFINE x == [event |-> "PairInd", conn |-> c, peer |-> p]
  <2>2. /\ x \in Inds /\ x.event = "PairInd" /\ x.conn = c /\ x.peer = p
        /\ inds' = Append(inds, x) /\ sched' = sched /\ SameView(m, m') /\ inds = <<>>
    BY <1>1, <1>2, <2>1 DEF Pairs, Tells, Open, Inds
  <2> HIDE DEF x
  <2> QED BY <2>1, <2>2, TellsLine
<1>3. CASE PairingEnds(c)
  <2>1. PICK e \in {"PairCmpl", "PairFail"} : Tells(c, [event |-> e, conn |-> c])
    BY <1>3 DEF PairingEnds
  <2> DEFINE x == [event |-> e, conn |-> c]
  <2>2. SameView(m, m')
    <3>1. m.pairing \ {c} \in SUBSET Conns /\ m' = [m EXCEPT !.pairing = m.pairing \ {c}]
      BY <1>3 DEF PairingEnds, TurnInv, Typed, Modules
    <3> QED BY <1>1, <3>1
  <2>3. /\ x \in Inds /\ x.event = e /\ inds' = Append(inds, x) /\ sched' = sched /\ inds = <<>>
    BY <1>3, <2>1 DEF PairingEnds, Tells, Open, Inds
  <2> HIDE DEF x
  <2> QED BY <2>2, <2>3, TellsLine
<1>4. CASE Encrypts(c)
  <2>1. PICK e \in {"Encrypt", "EncryptFail"} : Tells(c, [event |-> e, conn |-> c])
    BY <1>4 DEF Encrypts
  <2> DEFINE x == [event |-> e, conn |-> c]
  <2>2. /\ x \in Inds /\ x.event = e /\ inds' = Append(inds, x) /\ sched' = sched
        /\ SameView(m, m') /\ inds = <<>>
    BY <1>1, <1>4, <2>1 DEF Encrypts, Tells, Open, Inds
  <2> HIDE DEF x
  <2> QED BY <2>2, TellsLine
<1> QED BY <1>2, <1>3, <1>4
-----------------------------------------------------------------------------
(* The scheduler's task, and the application.                              *)
LEMMA StrangersStay ==
  ASSUME NEW n, NEW o, NEW q \in Seq(Inds), Strangers(n, q),
         \A l \in Links : o.rec[l].peer \in {n.rec[l].peer, None},
         \A c \in Conns : o.ccb[c].peer = n.ccb[c].peer
  PROVE  Strangers(o, q)
<1> SUFFICES ASSUME NEW i \in 1 .. Len(q), q[i].event = "PairInd" PROVE StrangerAt(o, q, i)
  BY DEF Strangers
<1>1. q[i].peer \in Peers /\ q[i].conn \in Conns
  BY ElementOfSeq DEF Inds
<1> QED BY <1>1, BleAssumption DEF Strangers, StrangerAt

LEMMA HereReady ==
  ASSUME TurnInv, OwnInv, LineInv, Patient
  PROVE  Ready(Here, sched) /\ Here.m = m
<1>1. Here \in Work /\ Here.m = m /\ Here.sched = <<>> /\ use \in Uses /\ Turns(m.state, m.queue)
  BY HereIsWork
<1>2. sched \in Seq(SchedEvents)
  BY DEF TurnInv, Typed
<1> QED BY <1>1, <1>2 DEF Ready, OwnInv, Owns, LineInv

LEMMA RunEventLine ==
  ASSUME TurnInv, OwnInv, LineInv, Patient, RunEvent PROVE LineInv'
<1> DEFINE g == Kicked(Here)
<1>1. sched = <<Kick>> /\ sched \in Seq(SchedEvents) /\ inds \in Seq(Inds)
  BY DEF RunEvent, LineInv, InLine, TurnInv, Typed
<1>2. Head(sched) = Kick /\ Tail(sched) = <<>>
  BY <1>1
<1>3. Ran(g)
  BY <1>2 DEF RunEvent, Run
<1>4. Ready(Here, <<Kick>>) /\ Here.m = m
  BY <1>1, HereReady
<1>5. InLine(g.m, g.sched) /\ Fair(g.m, inds) /\ Calm(Here, g)
  BY <1>4, KickedFair DEF LineInv
<1>6. g.inds = <<>> /\ g \in Work
  BY <1>4, <1>5, HereIsWork DEF Calm
<1> HIDE DEF g
<1>7. m' = g.m /\ sched' = g.sched /\ inds' = inds
  BY <1>1, <1>2, <1>3, <1>6, ConcatEmptySeq DEF Ran, Work
<1>8. Strangers(g.m, inds)
  BY <1>1, <1>4, <1>5, StrangersStay DEF LineInv, Calm
<1>9. ~AtStart(inds)
  BY <1>1, HereIsWork, NobodyQueues DEF LineInv, InLine, Started
<1> QED BY <1>5, <1>7, <1>8, <1>9 DEF LineInv, Started

LEMMA RequestRest ==
  ASSUME NEW h, NEW s, Ready(h, s), NEW e \in AppEvents, NEW l \in Links
  PROVE  LET g == Request(h, e, l)
         IN /\ \A k \in Links : g.m.rec[k].peer \in {h.m.rec[k].peer, None}
            /\ \A c \in Conns : g.m.ccb[c].peer = h.m.ccb[c].peer
            /\ \A k \in Links : h.m.state[k] = "BLEHostInitialising" => g.m.state[k] = h.m.state[k]
<1> DEFINE f == SendEvent(h, e, l)
           g == [f EXCEPT !.m.rec[l].peer = None]
<1>1. use \in Uses /\ Undirected /\ h \in Work /\ Plain(h.m) /\ e # "BLEHostResetComplete"
  BY DEF Ready, Patient, AppEvents
<1>2. Calm(h, f) /\ f \in Work
  BY <1>1, SendEventCalm DEF Calm
<1>3. \A k \in Links : h.m.state[k] = "BLEHostInitialising" => f.m.state[k] = h.m.state[k]
  BY <1>1, TellStates
<1>4. Request(h, e, l) \in {f, g}
  BY DEF Request
<1> HIDE DEF f
<1>5. Unbinds(f.m, g.m, l)
  BY <1>2, UnboundView
<1> HIDE DEF g
<1>6. \A k \in Links : f.m.rec[k].peer \in {h.m.rec[k].peer, None}
  BY <1>2 DEF Calm
<1>7. \A k \in Links : g.m.rec[k].peer \in {h.m.rec[k].peer, None}
  BY <1>5, <1>6 DEF Unbinds
<1>8. g.m.ccb = f.m.ccb /\ g.m.state = f.m.state /\ \A c \in Conns : f.m.ccb[c].peer = h.m.ccb[c].peer
  BY <1>2, <1>5 DEF Unbinds, Calm
<1> QED BY <1>3, <1>4, <1>6, <1>7, <1>8

LEMMA AppRequestLine ==
  ASSUME TurnInv, OwnInv, LineInv, Patient, NEW e \in AppEvents, NEW l \in Links, AppRequest(e, l)
  PROVE  LineInv'
<1> DEFINE g == Request(Here, e, l)
<1>1. Becomes(g) /\ inds \in Seq(Inds)
      /\ (e # "ConnReq" => m.state[l] \in use.closes)
  BY DEF AppRequest, TurnInv, Typed
<1>2. Ready(Here, sched) /\ Here.m = m
  BY HereReady
<1>3. InLine(g.m, sched \o g.sched) /\ Fair(g.m, inds)
  BY <1>1, <1>2, RequestFair DEF LineInv
<1>4. /\ \A k \in Links : g.m.rec[k].peer \in {m.rec[k].peer, None}
      /\ \A c \in Conns : g.m.ccb[c].peer = m.ccb[c].peer
      /\ \A k \in Links : m.state[k] = "BLEHostInitialising" => g.m.state[k] = m.state[k]
  BY <1>2, RequestRest
<1>5. g.inds = <<>>
  <2>1. use \in Uses /\ Undirected
    BY HereIsWork DEF Patient
  <2> QED BY <2>1, HereOwned, UnderwayWays, RequestOwned DEF Owned
<1> HIDE DEF g
<1>6. m' = g.m /\ sched' = sched \o g.sched /\ inds' = inds
  BY <1>1, <1>5, ConcatEmptySeq DEF Becomes
<1>7. Strangers(g.m, inds)
  BY <1>1, <1>4, StrangersStay DEF LineInv
<1>8. Started(g.m, inds)
  BY <1>4 DEF LineInv, Started
<1> QED BY <1>3, <1>6, <1>7, <1>8 DEF LineInv
-----------------------------------------------------------------------------
(* The module's DM handler, message by message.                            *)
LEMMA OutcomeLine ==
  ASSUME NEW h, NEW s, Ready(h, s), NEW w \in Ways, Owned(h, w), NEW q, NEW x, NEW t,
         After(q, x, t), Fair(h.m, q), x.event \in Outcomes,
         x.event = "ConnOpen" => x.conn \in w["ConnOpen"]
  PROVE  LET g == Handle(h, x) IN InLine(g.m, s \o g.sched) /\ Fair(g.m, t)
<1>1. ~Nobody(h.m) /\ Firm(h.m, t, x.conn) /\ x \in Inds
  BY OutcomeTaken DEF After
<1>2. CASE x.event = "AdvStop"
  <2>1. x.conn = None
    BY <1>1, <1>2 DEF Inds
  <2>2. Handle(h, x) = AdvStopInd(h)
    BY <1>2 DEF Handle
  <2> QED BY <1>1, <2>1, <2>2, AdvStopFair
<1>3. CASE x.event = "ConnOpen"
  <2>1. x.conn \in Conns /\ x.peer \in Peers
    BY <1>1, <1>3 DEF Inds
  <2>2. NobodyHolds(h, x.conn)
    BY <1>3, NobodyHoldsNew
  <2>3. Handle(h, x) = ConnOpenInd(h, x.conn, x.peer)
    BY <1>3 DEF Handle
  <2>4. q[1] = x /\ 1 \in 1 .. Len(q)
    BY DEF After
  <2>5. ExpectedAt(h.m, q, 1)
    BY <1>3, <2>4 DEF Fair, AllExpected
  <2>6. \A c : ~Ended(q, 1, c)
    BY DEF Ended
  <2>7. (\E a \in Links : First(h.m, x.peer, a)) \/ \A l \in Links : h.m.rec[l].peer # x.peer
    BY <2>4, <2>5, <2>6 DEF ExpectedAt, Dropping
  <2> QED BY <1>1, <2>1, <2>2, <2>3, <2>7, ConnOpenFair
<1> QED BY <1>2, <1>3 DEF Outcomes

LEMMA ConnCloseLine ==
  ASSUME NEW h, NEW s, Ready(h, s), NEW q, Owned(h, Underway(q)), NEW x, NEW t \in Seq(Inds),
         After(q, x, t), InOrderOf(q), Fair(h.m, q), x.event = "ConnClose"
  PROVE  LET g == Handle(h, x) IN InLine(g.m, s \o g.sched) /\ Fair(g.m, t)
<1> DEFINE c == x.conn
<1>1. x \in Inds /\ c \in Conns
  BY DEF After, Inds
<1>2. /\ Common(h.m, t) /\ OneOutcome(h.m, t) /\ AllKept(h.m, t) /\ ExpectedAfter(h.m, x, t)
      /\ c \notin About(t, "ConnClose")
  BY OtherTaken, CommonAfter DEF Outcomes, Fair
<1>3. Fairly(h.m, x, t)
  BY <1>2 DEF Fairly
<1>4. c \in About(q, "ConnClose") /\ c \notin About(q, "ConnOpen")
  <2>1. c \in About(q, "ConnClose")
    BY <1>1, AboutAfter
  <2>2. ASSUME NEW i \in 1 .. Len(q), q[i].event = "ConnOpen", q[i].conn = c PROVE FALSE
    <3>1. i # 1 /\ q[1] = x /\ 1 \in 1 .. Len(q)
      BY <2>2 DEF After
    <3>2. 1 < i
      BY <3>1 DEF After
    <3> QED BY <2>2, <3>1, <3>2 DEF InOrderOf
  <2> QED BY <2>1, <2>2 DEF About
<1>5. h.m.ccb[c].state = "free"
  BY <1>4 DEF Owned, Owns, EndsHere, Underway, Tracked
<1>6. Seen(h.m, q, c)
  BY <1>4 DEF Seen
<1>7. h.m.dbHdl[c] # None =>
        h.m.connId[h.m.dbHdl[c]] = c \/ h.m.state[h.m.dbHdl[c]] \in Advertising
  BY <1>1, <1>6 DEF Fair, AllKept, OwnKept, OwnHeld
<1>8. Handle(h, x) = ConnCloseInd(h, c)
  BY DEF Handle
<1> QED BY <1>1, <1>2, <1>3, <1>5, <1>7, <1>8, ConnCloseFair

(* A device pairs: it is a stranger still.                                 *)
LEMMA PairIndLine ==
  ASSUME NEW h, NEW s, Ready(h, s), NEW q, Owned(h, Underway(q)), NEW x, NEW t \in Seq(Inds),
         After(q, x, t), Fair(h.m, t), Strangers(h.m, q), x.event = "PairInd",
         About(t, "PairCmpl") = {}
  PROVE  LET g == Handle(h, x)
         IN \/ InLine(g.m, s \o g.sched) /\ Fair(g.m, t)
            \/ g = Sent(h, [event |-> "PairFail", conn |-> x.conn])
<1> DEFINE c == x.conn
           p == x.peer
<1>1. x \in Inds /\ c \in Conns /\ p \in Peers /\ q[1] = x /\ 1 \in 1 .. Len(q)
  BY DEF After, Inds
<1>2. StrangerAt(h.m, q, 1)
  BY <1>1 DEF Strangers
<1>3. ASSUME NEW j \in 1 .. Len(t), t[j].event = "ConnOpen", t[j].peer = p PROVE Ended(t, j, c)
  <2>1. j + 1 \in 1 .. Len(q) /\ q[j + 1] = t[j]
    BY DEF After
  <2>2. Ended(q, j + 1, c)
    BY <1>1, <1>2, <1>3, <2>1 DEF StrangerAt
  <2>3. PICK k \in 1 .. Len(q) : k < j + 1 /\ q[k].event = "ConnClose" /\ q[k].conn = c
    BY <2>2 DEF Ended
  <2>4. k # 1
    BY <1>1, <2>3
  <2>5. k - 1 \in 1 .. Len(t) /\ q[k] = t[k - 1]
    BY <2>4 DEF After
  <2>6. k - 1 < j
    BY <2>3
  <2> QED BY <2>3, <2>5, <2>6 DEF Ended
<1>4. Stranger(h.m, t, c, p)
  BY <1>1, <1>2, <1>3 DEF Stranger, StrangerAt
<1>5. h.m.lastNew \in Links /\ h.m.connId[h.m.lastNew] = c /\ h.m.dbHdl[c] = None
  <2>1. c \in About(q, "PairInd")
    BY <1>1, AboutAfter
  <2> QED BY <2>1 DEF Owned, Owns, LastNewHere, Underway, Tracked
<1>6. Handle(h, x) = PairInd(h, c, p)
  BY DEF Handle
<1> QED BY <1>1, <1>4, <1>5, <1>6, PairIndFair

(* The others.                                                             *)
LEMMA OtherLine ==
  ASSUME NEW h, NEW s, Ready(h, s), NEW x \in Inds, NEW t \in Seq(Inds), Fairly(h.m, x, t),
         x.event \in {"PairCmpl", "PairFail", "Encrypt", "EncryptFail"}
  PROVE  LET g == Handle(h, x) IN InLine(g.m, s \o g.sched) /\ Fair(g.m, t)
<1>1. x.conn \in Conns /\ Fair(h.m, t)
  BY FairlyIsFair DEF Inds
<1>2. CASE x.event = "PairCmpl"
  BY <1>1, <1>2, PairCmplFair DEF Handle
<1>3. CASE x.event = "PairFail"
  BY <1>1, <1>3, PairFailFair DEF Handle
<1>4. CASE x.event = "Encrypt"
  BY <1>1, <1>4, PairEventFair DEF Handle
<1>5. CASE x.event = "EncryptFail"
  BY <1>1, <1>5, PairEventFair DEF Handle
<1> QED BY <1>2, <1>3, <1>4, <1>5
-----------------------------------------------------------------------------
(* A handler's step that takes the first message.                          *)
LEMMA HandleIndLine ==
  ASSUME TurnInv, OwnInv, LineInv, Patient, HandleInd PROVE LineInv'
<1> DEFINE x == Head(inds)
           t == Tail(inds)
           w == Underway(inds)
           v == Underway(t)
<1>1. /\ inds # <<>> /\ inds \in Seq(Inds) /\ sched \in Seq(SchedEvents) /\ use \in Uses /\ Undirected
      /\ InOrderOf(inds)
  BY DEF HandleInd, TurnInv, Typed, OwnInv, Patient
<1>2. After(inds, x, t) /\ t \in Seq(Inds)
  BY <1>1, TailIsAfter
<1>3. /\ Ready(Here, sched) /\ Owned(Here, w) /\ w \in Ways /\ ~AtStart(t)
      /\ Left(w, v, x.event, x.conn) /\ x \in Inds /\ Here.m = m /\ Here.inds = <<>>
  BY <1>1, <1>2, HereReady, HereOwned, HereIsWork, UnderwayWays, FirstTaken DEF After
<1>4. InLine(m, sched) /\ Fair(m, inds) /\ Strangers(m, inds) /\ Started(m, inds)
  BY DEF LineInv
<1> HIDE DEF x, t, v
<1>5. \A i \in 1 .. Len(t) : t[i].event # "PairInd"
  <2> SUFFICES ASSUME NEW i \in 1 .. Len(t), t[i].event = "PairInd" PROVE FALSE
    OBVIOUS
  <2>1. i + 1 \in 1 .. Len(inds) /\ 1 < i + 1 /\ inds[i + 1].event = "PairInd"
    BY <1>2 DEF After
  <2>2. i + 1 = 1
    BY <1>1, <2>1 DEF InOrderOf
  <2> QED BY <2>1, <2>2
<1>6. x.event \notin Outcomes => Fairly(m, x, t)
  BY <1>2, <1>4, OtherTaken DEF Fairly
<1>7. x.event \notin Outcomes \cup {"ConnClose"} => Fair(m, t)
  BY <1>6, FairlyIsFair
<1>8. ASSUME NEW g, Handled(g), InLine(g.m, sched \o g.sched), Fair(g.m, t), g.inds = <<>>
      PROVE  LineInv'
  <2>1. m' = g.m /\ sched' = sched \o g.sched /\ inds' = t
    BY <1>2, <1>8, ConcatEmptySeq DEF Handled, t
  <2>2. Strangers(g.m, t) /\ Started(g.m, t)
    BY <1>3, <1>5 DEF Strangers, Started
  <2> QED BY <1>8, <2>1, <2>2 DEF LineInv
<1>9. CASE x.event = "ResetCmpl"
  <2>1. PICK q \in InOrder(Reconnects(Here)) : Handled(ResetCmpl(Here, q))
    BY <1>1, <1>9 DEF HandleInd, x
  <2> DEFINE g == ResetCmpl(Here, q)
  <2>2. \A l \in Links : m.state[l] = "BLEHostInitialising"
    <3>1. AtStart(inds)
      BY <1>2, <1>9 DEF After, AtStart
    <3> QED BY <1>4, <3>1 DEF Started
  <2>3. Fair(m, t)
    BY <1>7, <1>9 DEF Outcomes
  <2>4. Firm(m, t, None)
    <3>1. Nobody(m)
      BY <2>2 DEF Nobody, Advertising, Directed, Aborting
    <3> QED BY <2>3, <3>1, NobodyIsFirm DEF TurnInv, Typed, Modules
  <2>5. InLine(g.m, sched \o g.sched) /\ Fair(g.m, t)
    BY <1>3, <2>2, <2>4, ResetFair
  <2>6. g.inds = <<>>
    <3>1. \A l \in Links : Here.m.connId[l] = None
      BY <1>3, <2>2, <2>4 DEF Firm, Common, HoldersAtRest, AtRest, Connected, Closing
    <3>2. Owned(g, v)
      BY <1>3, <1>9, <3>1, ResetCmplOwned
    <3> QED BY <3>2 DEF Owned
  <2> HIDE DEF g
  <2> QED BY <1>8, <2>1, <2>5, <2>6 DEF g
<1>10. CASE x.event # "ResetCmpl"
  <2> DEFINE g == Handle(Here, x)
  <2>1. Handled(g)
    BY <1>1, <1>10 DEF HandleInd, x
  <2>2. \/ Owned(g, v)
        \/ /\ x.event = "PairInd" /\ x.conn \in Conns
           /\ g = Sent(Here, [event |-> "PairFail", conn |-> x.conn])
    BY <1>1, <1>3, <1>10, HandleOwned
  <2>3. CASE x.event = "PairInd"
    <3>1. Fair(m, t)
      BY <1>7, <2>3 DEF Outcomes
    <3>2. About(t, "PairCmpl") = {}
      BY <1>3 DEF Left, v, Underway, Tracked
    <3>3. \/ InLine(g.m, sched \o g.sched) /\ Fair(g.m, t)
          \/ g = Sent(Here, [event |-> "PairFail", conn |-> x.conn])
      BY <1>2, <1>3, <1>4, <2>3, <3>1, <3>2, PairIndLine
    <3> DEFINE y == [event |-> "PairFail", conn |-> x.conn]
    <3>4. CASE g = Sent(Here, y)
      <4>1. y \in Inds /\ y.event = "PairFail"
        BY <1>3, <2>3 DEF Inds
      <4>2. g.m = m /\ g.sched = <<>> /\ g.inds = <<y>>
        <5>1. Here \in Work /\ Here.sched = <<>> /\ Append(<<>>, y) = <<y>>
          BY <1>3 DEF Ready
        <5> HIDE DEF y
        <5> QED BY <1>3, <3>4, <5>1 DEF Sent, Work
      <4> HIDE DEF g, y
      <4>3. m' = m /\ sched' = sched /\ inds' = Append(t, y)
        BY <1>1, <1>2, <2>1, <4>1, <4>2, ConcatEmptySeq, AppendIsConcat DEF Handled, t
      <4>4. Joined(t, y, inds')
        BY <1>2, <4>1, <4>3, AppendJoins
      <4>5. Reported(m, m, t, y)
        BY <3>1, <4>1 DEF Reported, Outcomes, Fair, Common
      <4>6. /\ About(inds', "ConnClose") = About(t, "ConnClose")
            /\ About(inds', "ConnOpen") = About(t, "ConnOpen")
        <5>1. \A e \in {"ConnClose", "ConnOpen"} :
                About(inds', e) = About(t, e) \cup {b \in Conns : y.event = e /\ y.conn = b}
          BY <4>4, AboutJoined
        <5> QED BY <4>1, <5>1
      <4>7. Fair(m, inds')
        BY <3>1, <4>4, <4>5, <4>6, ReportedFair DEF SeesNoMore, Seen
      <4>8. \A i \in 1 .. Len(inds') : inds'[i].event # "PairInd"
        BY <1>5, <4>1, <4>4 DEF Joined
      <4>9. ~AtStart(inds')
        BY <1>3, <4>1, <4>4 DEF AtStart, Joined
      <4> QED BY <1>4, <4>3, <4>7, <4>8, <4>9 DEF LineInv, Strangers, Started
    <3>5. CASE g # Sent(Here, y)
      <4>1. g.inds = <<>>
        BY <2>2, <3>5 DEF Owned
      <4> HIDE DEF g
      <4> QED BY <1>8, <2>1, <3>3, <3>5, <4>1
    <3> QED BY <3>4, <3>5
  <2>4. CASE x.event # "PairInd"
    <3>1. InLine(g.m, sched \o g.sched) /\ Fair(g.m, t)
      <4>1. CASE x.event \in Outcomes
        <5>1. x.event = "ConnOpen" => x.conn \in w["ConnOpen"]
          BY <1>3 DEF Left, Tracked
        <5> QED BY <1>2, <1>3, <1>4, <4>1, <5>1, OutcomeLine
      <4>2. CASE x.event = "ConnClose"
        BY <1>1, <1>2, <1>3, <1>4, <4>2, ConnCloseLine
      <4>3. CASE x.event \notin Outcomes \cup {"ConnClose"}
        <5>1. x.event \in {"PairCmpl", "PairFail", "Encrypt", "EncryptFail"}
          BY <1>3, <1>10, <2>4, <4>3 DEF Inds, Outcomes
        <5> QED BY <1>2, <1>3, <1>6, <4>3, <5>1, OtherLine
      <4> QED BY <4>1, <4>2, <4>3
    <3>2. g.inds = <<>>
      <4>1. Owned(g, v)
        BY <2>2, <2>4
      <4> QED BY <4>1 DEF Owned
    <3> HIDE DEF g
    <3> QED BY <1>8, <2>1, <3>1, <3>2
  <2> QED BY <2>3, <2>4
<1> QED BY <1>9, <1>10
-----------------------------------------------------------------------------
FairInv == BondInv /\ (Patient => LineInv)

LEMMA NextKeepsLine == FairInv /\ [Next]_vars => FairInv'
<1> SUFFICES ASSUME FairInv, [Next]_vars PROVE FairInv'
  OBVIOUS
<1>1. BondInv /\ BondInv' /\ (Patient => LineInv)
  BY NextKeepsBonds DEF FairInv
<1>2. use' = use
  BY DEF Next, RunEvent, HandleInd, App, OpenConnectionRequest, CloseConnectionRequest,
     UnbindConnectionRequest, AppRequest, AdvEnabled, AdvTimeout, AdvDisabled, Reports, Ends,
     DirectedTimeout, Disconnected, Devices, Connects, Pairs, PairingEnds, Encrypts, Tells, vars
<1>3. Patient' => Patient
  BY <1>2 DEF Patient, Undirected
<1>4. ASSUME Patient PROVE LineInv'
  <2>1. TurnInv /\ OwnInv /\ LineInv
    BY <1>1, <1>4 DEF BondInv, Plainly, Patient
  <2>2. CASE App
    BY <1>4, <2>1, <2>2, AppRequestLine DEF App, OpenConnectionRequest, CloseConnectionRequest,
       UnbindConnectionRequest, AppEvents
  <2>3. CASE Ends
    BY <2>1, <2>3, EndsLine DEF Ends
  <2>4. CASE Devices
    BY <1>4, <2>1, <2>4, DevicesLine, ConnectsLine DEF Devices
  <2>5. CASE UNCHANGED vars
    BY <2>1, <2>5 DEF vars, LineInv
  <2> QED
    BY <1>4, <2>1, <2>2, <2>3, <2>4, <2>5, RunEventLine, HandleIndLine, AdvertisingLine,
       AdvDisabledLine DEF Next
<1> QED BY <1>1, <1>3, <1>4 DEF FairInv

LEMMA InitLine == Init => FairInv
<1> SUFFICES ASSUME Init PROVE LineInv
  BY InitBonds DEF FairInv
<1> DEFINE x == [event |-> "ResetCmpl", conn |-> None]
<1>1. inds = <<x>> /\ Len(inds) = 1 /\ inds[1] = x /\ sched = <<>>
  BY DEF Init
<1>2. \A i \in 1 .. Len(inds) : inds[i].event = "ResetCmpl"
  BY <1>1
<1>3. /\ \A l \in Links : /\ m.connId[l] = None /\ m.state[l] = "BLEHostInitialising"
                          /\ m.rec[l].valid = (m.rec[l].peer # None)
      /\ \A c \in Conns : m.ccb[c].state = "free" /\ m.dbHdl[c] = None
      /\ m.adv = "idle" /\ ~m.advDirected
  BY DEF Init, Free
<1>4. InLine(m, sched)
  <2>1. "BLEHostInitialising" \notin Queued
    BY DEF Queued, Active, Waiting, Advertising, Directed, Aborting
  <2> QED BY <1>1, <1>3, <2>1 DEF InLine
<1>5. Firm(m, inds, None)
  <2>1. HoldersAtRest(m) /\ NewRecordsHeld(m)
    BY <1>3 DEF HoldersAtRest, NewRecordsHeld, NewRecord
  <2>2. EndsOnce(inds) /\ ~Awaited(m, inds)
    BY <1>2, <1>3 DEF EndsOnce, Awaited, Pending, Outcomes
  <2>3. HeldBut(m, inds, None)
    BY <1>3 DEF HeldBut, OwnHeld
  <2> QED BY <1>3, <2>1, <2>2, <2>3 DEF Firm, Common
<1>6. Fair(m, inds)
  BY <1>5, BleAssumption, FirmIsFair
<1>7. Strangers(m, inds)
  BY <1>2 DEF Strangers
<1> QED BY <1>3, <1>4, <1>6, <1>7 DEF LineInv, Started

LEMMA LineIsInTurn == FairInv => InTurn
<1> SUFFICES ASSUME FairInv, Patient
             PROVE  /\ OneAdvertiser
                    /\ \A l \in Links : m.state[l] \in Advertising => m.queue # <<>> /\ Head(m.queue) = l
                    /\ \A l \in Links : m.state[l] \in Waiting => l \in Range(m.queue)
  BY DEF InTurn
<1>1. InLine(m, sched) /\ Turns(m.state, m.queue) /\ m.queue \in Seq(Links)
  BY HereIsWork DEF FairInv, BondInv, LineInv, Turns
<1>2. ASSUME NEW l \in Links, m.state[l] \in Advertising
      PROVE  m.queue # <<>> /\ l = m.queue[1] /\ Head(m.queue) = l
  <2>1. m.queue # <<>> /\ l = m.queue[1]
    BY <1>1, <1>2, AdvertiserIsFirst
  <2> QED BY <1>1, <2>1
<1>3. OneAdvertiser
  <2> DEFINE S == {l \in Links : m.state[l] \in Advertising}
  <2>1. S \subseteq {m.queue[1]} /\ IsFiniteSet({m.queue[1]}) /\ Cardinality({m.queue[1]}) = 1
    BY <1>2, FS_Singleton
  <2>2. Cardinality(S) <= 1
    BY <2>1, FS_Subset
  <2> QED BY <2>2 DEF OneAdvertiser
<1>4. \A l \in Links : m.state[l] \in Waiting => l \in Range(m.queue)
  BY <1>1, QueuedStates DEF InLine
<1> QED BY <1>2, <1>3, <1>4

(* Links take turns: the link that advertises is the first of the queue    *)
(* and alone, and every link that waits is in the queue, so that its turn  *)
(* can come: however connections begin, end and take each other's ids,     *)
(* messages wait in the module's queue, devices pair and the application   *)
(* closes and unbinds, whatever the number of links and devices, in uses   *)
(* in which no link leaves the queue while it waits.                       *)
THEOREM LinksTakeTurns == Spec => []InTurn
<1>1. Spec => []FairInv
  BY InitLine, NextKeepsLine, PTL DEF Spec
<1> QED BY <1>1, LineIsInTurn, PTL
=============================================================================
