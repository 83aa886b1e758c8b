------------------------------- MODULE BleStm -------------------------------
(***************************************************************************)
(* gpBlePeripheralConnectionStm: the state machine of one link, as a table *)
(* of what each event does in each state under a configuration.            *)
(***************************************************************************)
EXTENDS FiniteSets

(* gpBlePeripheralConnectionStm_Config_t. *)
Flags == {"AutoRecon", "EncryptedOnly", "DirectedHighAdv", "DirectedLowAdv", "UndirectedAdv"}

AppEvents == {"ConnReq", "ConnCloseApp", "UnbindApp"}
Events == AppEvents \cup
  {"BLEHostResetComplete", "Bonded", "AdvAvail", "AdvFail", "ConnOpen", "ConnOpenNew",
   "ConnFail", "ConnCloseExt", "PairComplete", "PairFail", "SecurityEstablished",
   "SecurityFail"}

Waiting   == {"WaitConnect", "WaitReconnect"}
Directed  == {"ReconnectingDirectedHigh", "ReconnectingDirectedLow"}
Aborting  == {"AbortConnecting", "AbortReconnecting"}
Connected == {"Connected", "BondedConnected", "BondedConnectedNoSecurity"}
Closing   == {"ClosingConnection", "BondedClosingConnection"}

(* The states in which gpBlePeripheralConnectionStm_IsAdvertising.         *)
Advertising == {"Connecting", "Reconnecting"} \cup Directed \cup Aborting
States == {"BLEHostInitialising", "Idle", "BondedNoConnection", "StopReconnectingDirect"}
            \cup Waiting \cup Advertising \cup Connected \cup Closing

(* What a transition calls: the queue's Pop, Remove and Add, and the       *)
(* callbacks that stop and start advertising and close the connection.     *)
Calls == {"pop", "remove", "add", "stop", "start", "close"}
Row(from, events, to, calls) == {[from |-> from, event |-> e, to |-> to, calls |-> calls] : e \in events}

Close == {"ConnCloseApp", "ConnCloseExt"}
Fail  == {"SecurityFail", "PairFail"}

(* The first way in which a bonded link advertises.                        *)
FirstReconnect(conf) ==
  IF "DirectedHighAdv" \in conf THEN "ReconnectingDirectedHigh"
  ELSE IF "DirectedLowAdv" \in conf THEN "ReconnectingDirectedLow" ELSE "Reconnecting"

(* A new device, up to its bond. *)
NewRows(conf) == UNION {
  Row("BLEHostInitialising", {"BLEHostResetComplete"}, "Idle", {}),
  Row("Idle", {"ConnReq"}, "WaitConnect", {"add"}),
  IF "AutoRecon" \in conf THEN Row("Idle", {"Bonded"}, "WaitReconnect", {"add"})
                          ELSE Row("Idle", {"Bonded"}, "BondedNoConnection", {"close"}),
  Row("WaitConnect", {"AdvAvail"}, "Connecting", {"start"}),
  Row("WaitConnect", {"AdvFail"} \cup Close, "Idle", {"remove", "close"}),
  Row("Connecting", {"ConnOpenNew"}, "Connected", {"pop"}),
  Row("Connecting", {"ConnFail"}, "Idle", {"pop", "close"}),
  Row("Connecting", Close, "AbortConnecting", {"stop"}),
  Row("AbortConnecting", {"ConnFail"}, "Idle", {"pop", "close"}),
  Row("Connected", {"PairComplete"}, "BondedConnected", {}),
  Row("Connected", {"ConnCloseApp"}, "ClosingConnection", {"close"}),
  IF "EncryptedOnly" \in conf THEN Row("Connected", Fail, "ClosingConnection", {"close"})
                              ELSE Row("Connected", Fail, "Connected", {}),
  Row("Connected", {"ConnCloseExt"}, "Idle", {"close"}),
  Row("ClosingConnection", {"ConnCloseExt"}, "Idle", {"close"}) }

(* A bonded device, connected.                                             *)
BondedRows(conf) == UNION {
  Row("BondedConnected", {"ConnCloseApp"}, "BondedClosingConnection", {"close"}),
  IF "AutoRecon" \in conf
  THEN Row("BondedConnected", {"ConnCloseExt"}, "WaitReconnect", {"add"})
  ELSE Row("BondedConnected", {"ConnCloseExt"}, "BondedNoConnection", {"close"}),
  Row("BondedConnected", {"UnbindApp"}, "ClosingConnection", {"close"}),
  Row("BondedClosingConnection", {"ConnCloseExt"}, "BondedNoConnection", {"close"}),
  IF "EncryptedOnly" \in conf
  THEN Row("BondedConnectedNoSecurity", {"SecurityEstablished"}, "BondedConnected", {})
         \cup Row("BondedConnectedNoSecurity", {"SecurityFail"} \cup Close,
                  "BondedNoConnection", {"close"})
  ELSE Row("BondedConnectedNoSecurity", Events, "BondedConnected", {}) }

(* ... and not connected: it waits for its turn and advertises.            *)
ReconnectRows(conf) == UNION {
  Row("BondedNoConnection", {"ConnReq"}, "WaitReconnect", {"add"}),
  Row("BondedNoConnection", {"ConnOpen"}, "BondedConnectedNoSecurity", {}),
  Row("BondedNoConnection", {"UnbindApp"}, "Idle", {"close"}),
  Row("WaitReconnect", {"AdvAvail"}, FirstReconnect(conf), {"start"}),
  Row("WaitReconnect", {"AdvFail"} \cup Close, "BondedNoConnection", {"remove", "close"}),
  Row("WaitReconnect", {"ConnOpen"}, "BondedConnectedNoSecurity", {"remove"}),
  UNION {Row(s, {"ConnFail"}, "BondedNoConnection", {"pop", "close"})
           : s \in Directed \cup {"Reconnecting", "AbortReconnecting"}},
  UNION {Row(s, {"ConnOpen"}, "BondedConnectedNoSecurity", {"pop"})
           : s \in Directed \cup {"Reconnecting"}},
  UNION {Row(s, {"ConnCloseApp"}, "StopReconnectingDirect", {"stop"}) : s \in Directed},
  UNION {IF s = "ReconnectingDirectedHigh" /\ "DirectedLowAdv" \in conf
         THEN Row(s, {"ConnCloseExt"}, "ReconnectingDirectedLow", {"stop", "start"})
         ELSE IF "UndirectedAdv" \in conf
              THEN Row(s, {"ConnCloseExt"}, "Reconnecting", {"stop", "start"})
              ELSE Row(s, {"ConnCloseExt"}, "BondedNoConnection", {"pop", "stop", "close"})
           : s \in Directed},
  Row("Reconnecting", Close, "AbortReconnecting", {"stop"}),
  Row("StopReconnectingDirect", {"ConnCloseExt"}, "BondedNoConnection", {"pop", "close"}) }

Table == [conf \in SUBSET Flags |-> NewRows(conf) \cup BondedRows(conf) \cup ReconnectRows(conf)]
=============================================================================
