------------------------------ MODULE BleLinks ------------------------------
(***************************************************************************)
(* The links of a Bluetooth LE peripheral: one state machine per link      *)
(* (gpBlePeripheralConnectionStm), the queue in which they take turns to   *)
(* advertise (gpBleConnectionQueue), the module that feeds them what the   *)
(* host stack reports (BleModule_Peripheral, cordioAppFramework) and as    *)
(* much of the host stack as decides what is reported and when.            *)
(*                                                                         *)
(* One step is one handler: an event of the scheduler, a message of the    *)
(* host stack, a request of the application, or what the controller and    *)
(* the devices in range do.  Messages and events wait in queues.           *)
(***************************************************************************)
EXTENDS BleStm, Naturals, Sequences, SequencesExt

CONSTANTS
  NLinks,    \* GP_DIVERSITY_BLE_MAX_NR_OF_SUPPORTED_SLAVE_CONNECTIONS
  NConns,    \* DM_CONN_MAX
  Peers,     \* devices in range
  None,      \* no link, connection or device
  Uses       \* the uses considered

Links == 1 .. NLinks
Conns == 1 .. NConns

(* How the links are used and what happens to them.                        *)
Use == [conf    : [Links -> SUBSET Flags],          \* SetStateConf, at start
        bonds   : [Links -> Peers \cup {None}],     \* records restored from gpNvm
        closes  : SUBSET States,   \* where a link may be when it is closed or unbound
        strange : BOOLEAN,  \* unknown devices connect to links that reconnect
        returns : BOOLEAN,  \* bonded devices connect to whichever link advertises
        crossed : BOOLEAN,  \* devices pair while another new one is connected
        calls   : Nat,      \* bound on the requests
        opens   : Nat]      \* bound on the connections made

ASSUME BleAssumption ==
  /\ NLinks \in Nat \ {0} /\ NConns \in Nat \ {0} /\ Uses \subseteq Use
  /\ None \notin Links /\ None \notin Conns /\ None \notin Peers

VARIABLES
  use,    \* a member of Uses
  m,      \* the state of the modules, below
  sched,  \* zero-delay events listed with gpSched
  inds,   \* messages of the host stack to the module's DM handler
  calls,  \* requests so far
  opens   \* connections so far

vars == <<use, m, sched, inds, calls, opens>>

(* A handler computes the modules' new state with what it lists and sends. *)
Here    == [m |-> m, sched |-> <<>>, inds |-> <<>>]
Listed(h, e) == [h EXCEPT !.sched = Append(@, e)]
Sent(h, i)   == [h EXCEPT !.inds = Append(@, i)]
Becomes(h)   == m' = h.m /\ sched' = sched \o h.sched /\ inds' = inds \o h.inds
-----------------------------------------------------------------------------
(* gpBleConnectionQueue, for the advertising queue.                        *)
Kick == [event |-> "SchedKick", link |-> None]
Pop  == [event |-> "SchedPop", link |-> None]

(* Fault: the next link is not told.                                      *)
PoppedQuietly(h) == IF h.m.queue = <<>> THEN h ELSE [h EXCEPT !.m.queue = Tail(@)]

Popped(h) ==
  LET rest == IF h.m.queue = <<>> THEN <<>> ELSE Tail(h.m.queue)
      next == [h EXCEPT !.m.queue = rest]
  IN IF rest = <<>> THEN next ELSE Listed(next, Kick)

(* Fault: the first link is not told.                                     *)
AddedQuietly(h, l) ==
  IF l \in Range(h.m.queue) THEN h ELSE [h EXCEPT !.m.queue = Append(@, l)]

(* Fault: every link that joins kicks the queue.                           *)
AddedKicking(h, l) ==
  IF l \in Range(h.m.queue) THEN h ELSE Listed([h EXCEPT !.m.queue = Append(@, l)], Kick)

Added(h, l) ==
  IF l \in Range(h.m.queue) THEN h
  ELSE LET next == [h EXCEPT !.m.queue = Append(@, l)]
       IN IF h.m.queue = <<>> THEN Listed(next, Kick) ELSE next

GetIndex(q, l) == CHOOSE i \in DOMAIN q : q[i] = l
Dropped(h, l) ==
  IF l \in Range(h.m.queue) THEN [h EXCEPT !.m.queue = RemoveAt(@, GetIndex(@, l))] ELSE h
-----------------------------------------------------------------------------
(* The host stack, as the module calls it.  A call takes effect at once,   *)
(* what the controller makes of it comes later.                            *)
Free == [state |-> "free", peer |-> None]
Used(h) == {c \in Conns : h.m.ccb[c].state # "free"}
FirstFree(h) == CHOOSE c \in Conns \ Used(h) : \A d \in Conns \ Used(h) : c <= d

(* DmAdvStart, behind AppAdvStart.                                         *)
AdvStarted(h) ==
  LET may == Cardinality(h.m.known) < NConns   \* appNumConns < connMax
      on  == may /\ h.m.adv = "idle"
  IN [h EXCEPT !.m.advRuns = may, !.m.adv = IF on THEN "starting" ELSE @]

AdvStopped(h) ==
  [h EXCEPT !.m.advRuns = FALSE, !.m.adv = IF @ = "advertising" THEN "stopping" ELSE @]

(* AppConnClose: an open connection is taken down by the controller; one   *)
(* that directed advertising awaits is given up at once.                   *)
ConnClosed(h, c) ==
  CASE h.m.ccb[c].state = "open" -> [h EXCEPT !.m.ccb[c].state = "closing"]
    [] h.m.ccb[c].state = "accepting" ->
         Sent([h EXCEPT !.m.ccb[c] = Free,
                        !.m.adv = IF @ \in {"starting", "advertising", "directed"} THEN "cancelling" ELSE @],
              [event |-> "ConnClose", conn |-> c])
    [] OTHER -> h
-----------------------------------------------------------------------------
(* The device database: the record of link l is the l-th.                  *)
Bonded(h, l) == h.m.rec[l].peer # None /\ h.m.rec[l].valid   \* AppDbRecordInUse
FindByAddr(h, p) ==
  LET hits == {l \in Links : h.m.rec[l].peer = p}
  IN IF hits = {} THEN None ELSE CHOOSE l \in hits : \A k \in hits : l <= k

CheckValidRecord(h, l) ==
  IF l = None \/ h.m.rec[l].valid THEN h ELSE [h EXCEPT !.m.rec[l].peer = None]

GetLinkIdByConnId(h, c) ==
  IF h.m.dbHdl[c] # None /\ Bonded(h, h.m.dbHdl[c]) THEN h.m.dbHdl[c]
  ELSE LET hits == {l \in Links : h.m.connId[l] = c}
       IN IF hits = {} THEN None ELSE CHOOSE l \in hits : \A k \in hits : l <= k

GetAdvertisingLinkId(h) ==
  LET hits == {l \in Links : h.m.state[l] \in Advertising}
  IN IF hits = {} THEN None ELSE CHOOSE l \in hits : \A k \in hits : l <= k
-----------------------------------------------------------------------------
(* The callbacks of the state machine, and its SendEvent.                  *)
DirectAdvertise(h, l) ==
  LET p    == h.m.rec[l].peer
      same == {c \in Used(h) : h.m.ccb[c].peer = p}   \* dmConnCcbByBdAddr
      c    == IF same # {} THEN CHOOSE d \in same : TRUE ELSE FirstFree(h)
      told == [h EXCEPT !.m.dbHdl[c] = l, !.m.connId[l] = c, !.m.advDirected = TRUE]
  IN IF h.m.advRuns \/ (same = {} /\ Used(h) = Conns)
     THEN Listed(h, [event |-> "MarkDirectAdvertiseAsInvalid", link |-> l])
     ELSE IF same # {} THEN told
     ELSE [told EXCEPT !.m.ccb[c] = [state |-> "accepting", peer |-> p],
                       !.m.adv = IF @ = "idle" THEN "directed" ELSE @]

StartAdvertising(h, l, s) ==
  IF s \in Directed THEN DirectAdvertise(h, l)
  ELSE AdvStarted([h EXCEPT !.m.bondable = s = "Connecting"])

StopAdvertising(h, l, s) ==
  IF s \notin Directed THEN AdvStopped(h)
  ELSE IF h.m.connId[l] = None THEN h
       ELSE ConnClosed([h EXCEPT !.m.connId[l] = None], h.m.connId[l])

CloseConnection(h, l) ==
  IF h.m.connId[l] = None THEN h
  ELSE CheckValidRecord(ConnClosed(h, h.m.connId[l]), l)

Transitions(h, e, l) == {r \in Table[use.conf[l]] : r.from = h.m.state[l] /\ r.event = e}
Processed(h, e, l) == l # None /\ Transitions(h, e, l) # {}

(* What a transition calls, in this order.                                 *)
Leaves(h, r, l) ==
  IF "remove" \in r.calls THEN Dropped(h, l) ELSE IF "pop" \in r.calls THEN Popped(h) ELSE h
Stops(h, r, l)   == IF "stop" \in r.calls THEN StopAdvertising(h, l, r.from) ELSE h
Starts(h, r, l)  == IF "start" \in r.calls THEN StartAdvertising(h, l, r.to) ELSE h
Settles(h, r, l) ==
  IF "add" \in r.calls THEN Added(h, l) ELSE IF "close" \in r.calls THEN CloseConnection(h, l) ELSE h

Follows(h, r, l) ==
  [Settles(Starts(Stops(Leaves(h, r, l), r, l), r, l), r, l) EXCEPT !.m.state[l] = r.to]

SendEvent(h, e, l) ==
  IF Processed(h, e, l) THEN Follows(h, CHOOSE r \in Transitions(h, e, l) : TRUE, l) ELSE h
-----------------------------------------------------------------------------
(* What the module's DM handler does with a message of the host stack.     *)

(* At start the events BLEHostResetComplete and Bonded go to every link in *)
(* turn; q is the queue that results.                                      *)
Reconnects(h) == {l \in Links : Bonded(h, l) /\ "AutoRecon" \in use.conf[l]}
InOrder(S) == {q \in SetToSeqs(S) : \A i, j \in DOMAIN q : i < j => q[i] < q[j]}

ResetState(h, q, l) ==
  IF l \in Range(q) THEN "WaitReconnect" ELSE IF Bonded(h, l) THEN "BondedNoConnection" ELSE "Idle"

ResetCmpl(h, q) ==
  LET next == [h EXCEPT !.m.queue = q, !.m.state = [l \in Links |-> ResetState(h, q, l)]]
  IN IF q = <<>> THEN next ELSE Listed(next, Kick)

ConnFailed(h, l) ==
  IF l = None THEN h ELSE SendEvent([h EXCEPT !.m.connId[l] = None], "ConnFail", l)

AdvStopInd(h) == ConnFailed([h EXCEPT !.m.advRuns = FALSE], GetAdvertisingLinkId(h))

(* A link's connection is closed.                                          *)
LinkClosed(h, l) ==
  IF l = None THEN h
  ELSE SendEvent([h EXCEPT !.m.connId[l] = None,
                           !.m.lastNew = IF @ = l THEN None ELSE @], "ConnCloseExt", l)

ConnectionGone(h, c) == LinkClosed(h, GetLinkIdByConnId(h, c))

ConnCloseInd(h, c) ==
  ConnectionGone(CheckValidRecord([h EXCEPT !.m.advDirected = FALSE, !.m.known = @ \ {c}],
                                  h.m.dbHdl[c]), c)

(* cordioAppFramework_cbConnOpen for a device without a record ...         *)
NewDevice(h, c, adv) ==
  IF Processed(h, "ConnOpenNew", adv)
  THEN [SendEvent(h, "ConnOpenNew", adv) EXCEPT !.m.lastNew = adv, !.m.connId[adv] = c]
  ELSE [SendEvent(h, "ConnFail", adv) EXCEPT !.m.lastNew = None]

(* ... and for a known one, that of link l.                                *)
ConnOpened(h, c, l) ==
  IF Processed(h, "ConnOpen", l)
  THEN [SendEvent(h, "ConnOpen", l) EXCEPT !.m.connId[l] = c, !.m.lastNew = None]
  ELSE [ConnClosed(h, c) EXCEPT !.m.lastNew = None]

(* Fault: the device is taken for the advertising link's.                  *)
KnownDeviceHere(h, c, adv) == ConnOpened(h, c, adv)

KnownDevice(h, c, adv) ==
  ConnOpened(IF h.m.dbHdl[c] # adv THEN SendEvent(h, "ConnFail", adv) ELSE h,
             c, GetLinkIdByConnId(h, c))

cbConnOpen(h, c, adv) ==
  IF adv = None THEN ConnClosed(h, c)
  ELSE IF h.m.dbHdl[c] = None THEN NewDevice(h, c, adv) ELSE KnownDevice(h, c, adv)

ConnOpenInd(h, c, p) ==
  cbConnOpen([h EXCEPT !.m.advRuns = @ /\ h.m.advDirected, !.m.advDirected = FALSE,
                       !.m.known = @ \cup {c}, !.m.dbHdl[c] = FindByAddr(h, p)],
             c, GetAdvertisingLinkId(h))

(* appSecPairInd: a device without a record gets the one of the link that  *)
(* a new device connected to last.  Devices ask for a bond (Pairs): one    *)
(* that pairs without the bond flag, which is accepted in every mode and   *)
(* leaves no record, and one that pairs again on the encrypted connection  *)
(* of its bond are left out.  Every link is configured bondable.           *)
PairInd(h, c, p) ==
  LET l  == h.m.lastNew
      on == IF h.m.ccb[c].state = "open" THEN [h EXCEPT !.m.pairing = @ \cup {c}] ELSE h
  IN IF ~h.m.bondable \/ (h.m.dbHdl[c] = None /\ l = None)
     THEN Sent(h, [event |-> "PairFail", conn |-> c])
     ELSE IF h.m.dbHdl[c] # None THEN on
     ELSE [on EXCEPT !.m.dbHdl[c] = l, !.m.rec[l] = [peer |-> p, valid |-> FALSE]]

Validated(h, l) == IF l = None THEN h ELSE [h EXCEPT !.m.rec[l].valid = TRUE]
PairComplete(h, c) ==
  [SendEvent(h, "PairComplete", GetLinkIdByConnId(h, c)) EXCEPT !.m.lastNew = None]
PairCmplInd(h, c) == PairComplete(Validated(h, h.m.dbHdl[c]), c)

PairFailInd(h, c) ==
  [SendEvent(h, "PairFail", GetLinkIdByConnId(h, c)) EXCEPT !.m.lastNew = None]

Handle(h, i) ==
  CASE i.event = "AdvStop"     -> AdvStopInd(h)
    [] i.event = "ConnOpen"    -> ConnOpenInd(h, i.conn, i.peer)
    [] i.event = "ConnClose"   -> ConnCloseInd(h, i.conn)
    [] i.event = "PairInd"     -> PairInd(h, i.conn, i.peer)
    [] i.event = "PairCmpl"    -> PairCmplInd(h, i.conn)
    [] i.event = "PairFail"    -> PairFailInd(h, i.conn)
    [] i.event = "Encrypt"     -> SendEvent(h, "SecurityEstablished", GetLinkIdByConnId(h, i.conn))
    [] i.event = "EncryptFail" -> SendEvent(h, "SecurityFail", GetLinkIdByConnId(h, i.conn))
-----------------------------------------------------------------------------
(* The scheduler's task: gpBleConnectionQueue_Kick and the other events.   *)
Kicked(h) ==
  IF h.m.queue = <<>> THEN h
  ELSE IF Processed(h, "AdvAvail", Head(h.m.queue)) THEN SendEvent(h, "AdvAvail", Head(h.m.queue))
  ELSE Listed(h, Pop)

Run(h, e) ==
  IF e = Kick THEN Kicked(h)
  ELSE IF e = Pop THEN Popped(h)
  ELSE SendEvent([h EXCEPT !.m.connId[e.link] = None], "ConnCloseExt", e.link)

Ran(h) == m' = h.m /\ sched' = Tail(sched) \o h.sched /\ inds' = inds \o h.inds
RunEvent == sched # <<>> /\ Ran(Run(Here, Head(sched))) /\ UNCHANGED <<use, calls, opens>>

Handled(h) == m' = h.m /\ sched' = sched \o h.sched /\ inds' = Tail(inds) \o h.inds
HandleInd ==
  /\ inds # <<>>
  /\ IF Head(inds).event = "ResetCmpl"
     THEN \E q \in InOrder(Reconnects(Here)) : Handled(ResetCmpl(Here, q))
     ELSE Handled(Handle(Here, Head(inds)))
  /\ UNCHANGED <<use, calls, opens>>
-----------------------------------------------------------------------------
(* The application.                                                        *)
Request(h, e, l) ==
  IF e = "UnbindApp" /\ Processed(h, e, l)
  THEN [SendEvent(h, e, l) EXCEPT !.m.rec[l].peer = None] ELSE SendEvent(h, e, l)

AppRequest(e, l) ==
  /\ calls < use.calls
  /\ e # "ConnReq" => m.state[l] \in use.closes
  /\ Becomes(Request(Here, e, l))
  /\ calls' = calls + 1
  /\ UNCHANGED <<use, opens>>

OpenConnectionRequest(l)   == AppRequest("ConnReq", l)
CloseConnectionRequest(l)  == AppRequest("ConnCloseApp", l)
UnbindConnectionRequest(l) == AppRequest("UnbindApp", l)
-----------------------------------------------------------------------------
(* The controller: the answers to the host's commands, and timeouts.       *)
Reports(h) == Becomes(h) /\ UNCHANGED <<use, calls>>

AdvEnabled ==
  m.adv = "starting" /\ Reports([Here EXCEPT !.m.adv = "advertising"]) /\ UNCHANGED opens

AdvTimeout ==
  m.adv = "advertising" /\ Reports([Here EXCEPT !.m.adv = "stopping"]) /\ UNCHANGED opens

AdvDisabled ==
  /\ m.adv \in {"stopping", "cancelling"}
  /\ LET idle == [Here EXCEPT !.m.adv = "idle"]
     IN Reports(IF m.adv = "stopping" THEN Sent(idle, [event |-> "AdvStop", conn |-> None]) ELSE idle)
  /\ UNCHANGED opens

DirectedTimeout(c) ==
  /\ m.adv = "directed" /\ m.ccb[c].state = "accepting"
  /\ Reports(Sent([Here EXCEPT !.m.adv = "idle", !.m.ccb[c] = Free], [event |-> "ConnClose", conn |-> c]))
  /\ UNCHANGED opens

(* A connection ends, by the host's command or by the device.              *)
Disconnected(c) ==
  /\ m.ccb[c].state \in {"open", "closing"}
  /\ Reports(Sent([Here EXCEPT !.m.ccb[c] = Free, !.m.pairing = @ \ {c}],
                  [event |-> "ConnClose", conn |-> c]))
  /\ UNCHANGED opens

(* A device connects, to an advertisement that may be about to stop.       *)
Connects(p, c) ==
  /\ opens < use.opens
  /\ \A d \in Conns : m.ccb[d].peer = p => m.ccb[d].state = "accepting"
  /\ \/ /\ m.adv \in {"advertising", "stopping"} /\ Used(Here) # Conns /\ c = FirstFree(Here)
        /\ \A i \in Range(inds) : i.conn # c   \* handlers are faster than the air
        /\ IF FindByAddr(Here, p) = None
           THEN use.strange \/ \E l \in Links : m.state[l] \in {"Connecting", "AbortConnecting"}
           ELSE use.returns \/ m.state[FindByAddr(Here, p)] \in Advertising
     \/ m.adv = "directed" /\ m.ccb[c] = [state |-> "accepting", peer |-> p]
  /\ Reports(Sent([Here EXCEPT !.m.adv = "idle", !.m.ccb[c] = [state |-> "open", peer |-> p]],
                  [event |-> "ConnOpen", conn |-> c, peer |-> p]))
  /\ opens' = opens + 1

(* A device pairs, or encrypts with the keys it has.                       *)
Tells(c, e) == inds' = Append(inds, e) /\ UNCHANGED <<use, sched, calls, opens>>
Open(c) == m.ccb[c].state = "open" /\ inds = <<>>

Pairs(c) ==
  /\ Open(c) /\ c \notin m.pairing
  /\ use.crossed \/ (m.lastNew # None /\ m.connId[m.lastNew] = c)
  /\ \E p \in Peers :
       /\ m.ccb[c].peer = p /\ \A l \in Links : m.rec[l].peer # p
       /\ Tells(c, [event |-> "PairInd", conn |-> c, peer |-> p])
  /\ UNCHANGED m

PairingEnds(c) ==
  /\ Open(c) /\ c \in m.pairing
  /\ \E e \in {"PairCmpl", "PairFail"} : Tells(c, [event |-> e, conn |-> c])
  /\ m' = [m EXCEPT !.pairing = @ \ {c}]

Encrypts(c) ==
  /\ Open(c) /\ m.dbHdl[c] # None /\ Bonded(Here, m.dbHdl[c])
  /\ \E l \in Links : m.connId[l] = c /\ m.state[l] = "BondedConnectedNoSecurity"
  /\ \E e \in {"Encrypt", "EncryptFail"} : Tells(c, [event |-> e, conn |-> c])
  /\ UNCHANGED m
-----------------------------------------------------------------------------
Init ==
  /\ use \in Uses
  /\ m = [state |-> [l \in Links |-> "BLEHostInitialising"], queue |-> <<>>,
          connId |-> [l \in Links |-> None], lastNew |-> None,
          rec |-> [l \in Links |-> [peer |-> use.bonds[l], valid |-> use.bonds[l] # None]],
          dbHdl |-> [c \in Conns |-> None], known |-> {}, pairing |-> {}, bondable |-> TRUE,
          ccb |-> [c \in Conns |-> Free], adv |-> "idle", advRuns |-> FALSE, advDirected |-> FALSE]
  /\ sched = <<>> /\ inds = <<[event |-> "ResetCmpl", conn |-> None]>> /\ calls = 0 /\ opens = 0

App == \E l \in Links :
  OpenConnectionRequest(l) \/ CloseConnectionRequest(l) \/ UnbindConnectionRequest(l)
Ends == \E c \in Conns : DirectedTimeout(c) \/ Disconnected(c)
Devices == \E c \in Conns :
  Pairs(c) \/ PairingEnds(c) \/ Encrypts(c) \/ \E p \in Peers : Connects(p, c)

Next == RunEvent \/ HandleInd \/ App \/ AdvEnabled \/ AdvTimeout \/ AdvDisabled \/ Ends \/ Devices

Spec == Init /\ [][Next]_vars

(* Handlers run, the controller answers commands, and advertising times    *)
(* out: advDuration is 30 s.  The first two are WF_vars(RunEvent) and       *)
(* WF_vars(HandleInd) with their enabling conditions written out.          *)
Handlers == /\ []<>(sched = <<>>) \/ []<><<RunEvent>>_vars
            /\ []<>(inds = <<>>) \/ []<><<HandleInd>>_vars
Liveness == Spec /\ Handlers /\ WF_vars(AdvEnabled) /\ WF_vars(AdvTimeout) /\ WF_vars(AdvDisabled)
              /\ \A c \in Conns : WF_vars(DirectedTimeout(c))
-----------------------------------------------------------------------------
(* What is said of every state.                                            *)

(* The modules' state: of each link (state, connId, rec), of all links     *)
(* (queue, lastNew, bondable, advRuns, advDirected), and the host stack's.  *)
Modules ==
  [state : [Links -> States], queue : Seq(Links), connId : [Links -> Conns \cup {None}],
   rec : [Links -> [peer : Peers \cup {None}, valid : BOOLEAN]],
   lastNew : Links \cup {None}, dbHdl : [Conns -> Links \cup {None}],
   known : SUBSET Conns, pairing : SUBSET Conns,
   bondable : BOOLEAN, advRuns : BOOLEAN, advDirected : BOOLEAN,
   ccb : [Conns -> [state : {"free", "accepting", "open", "closing"}, peer : Peers \cup {None}]],
   adv : {"idle", "starting", "advertising", "stopping", "directed", "cancelling"}]

SchedEvents == {Kick, Pop} \cup [event : {"MarkDirectAdvertiseAsInvalid"}, link : Links]

Inds ==
  [event : {"ResetCmpl", "AdvStop"}, conn : {None}]
    \cup [event : {"ConnClose", "PairCmpl", "PairFail", "Encrypt", "EncryptFail"}, conn : Conns]
    \cup [event : {"ConnOpen", "PairInd"}, conn : Conns, peer : Peers]

Typed == use \in Uses /\ m \in Modules /\ sched \in Seq(SchedEvents) /\ inds \in Seq(Inds)

(* The variables are of their types; the queue and the list of events      *)
(* stay within a place, and two events, for each link.                     *)
TypeOK ==
  /\ Typed /\ calls \in 0 .. use.calls /\ opens \in 0 .. use.opens
  /\ Len(m.queue) <= NLinks /\ Len(sched) <= 2 * NLinks

(* The queue never stalls: a link that waits at its head has an event      *)
(* listed that will tell it that the advertising channel is available,     *)
(* however connections, closures and stale messages interleave.            *)
HeadServed == m.queue # <<>> /\ m.state[Head(m.queue)] \in Waiting => Kick \in Range(sched)

Undirected == \A l \in Links : use.conf[l] \cap {"DirectedHighAdv", "DirectedLowAdv"} = {}

(* Uses in which no link leaves the queue while it waits: BleTwo shows     *)
(* what happens in others.                                                 *)
Patient ==
  /\ Undirected /\ \A l \in Links : "EncryptedOnly" \notin use.conf[l]
  /\ use.closes \cap Waiting = {} /\ ~use.returns /\ ~use.crossed

(* ... and the application closes connections only once they are open, and *)
(* no unknown device takes the place of a bonded one.                      *)
Orderly == Patient /\ use.closes \subseteq Connected /\ ~use.strange

(* Only one link advertises at a time ("Wait till advertisement channel is *)
(* available").                                                            *)
OneAdvertiser == Cardinality({l \in Links : m.state[l] \in Advertising}) <= 1

(* Links take turns: the one that advertises is the queue's first and      *)
(* alone, and every link that waits is in the queue.                       *)
InTurn == Patient =>
  /\ OneAdvertiser
  /\ \A l \in Links : m.state[l] \in Advertising => m.queue # <<>> /\ Head(m.queue) = l
  /\ \A l \in Links : m.state[l] \in Waiting => l \in Range(m.queue)

(* A connection belongs to one link, and that of a bonded link was made by *)
(* the device of that link's record, though connection ids are reused and  *)
(* a new bond goes to "the" link that a new device connected to last.      *)
OwnBond == Undirected /\ ~use.crossed => \A k, l \in Links :
  /\ m.connId[k] = m.connId[l] /\ m.connId[l] # None => k = l
  /\ m.state[l] = "BondedConnected" /\ m.connId[l] # None => m.dbHdl[m.connId[l]] = l

(* Every link that waits or advertises gets an outcome in the end, whether *)
(* or not a device connects.                                               *)
Answered == \A l \in Links :
  (Orderly /\ m.state[l] \in Waiting \cup Advertising) ~> m.state[l] \notin Waiting \cup Advertising
=============================================================================
