------------------------------- MODULE MCBle --------------------------------
(***************************************************************************)
(* Two links, two connections and two devices, in a few kinds of use.      *)
(***************************************************************************)
EXTENDS BleLinks

CONSTANTS p1, p2

All(flags) == [l \in Links |-> flags]
FirstBond == [l \in Links |-> IF l = 1 THEN p1 ELSE None]

(* Links that new devices connect to.  Open connections are closed. *)
NewUse == [conf |-> All({}), bonds |-> All(None), closes |-> Connected, strange |-> FALSE,
           returns |-> FALSE, crossed |-> FALSE, calls |-> 4, opens |-> 2]

(* A bonded link that reconnects by itself. *)
BondUse == [NewUse EXCEPT !.conf = All({"AutoRecon"}), !.bonds = FirstBond]

(* Links are closed while they advertise, and unknown devices connect. *)
AbortUse == [NewUse EXCEPT !.closes = States \ Waiting, !.strange = TRUE, !.calls = 3]

(* Both links are bonded, either device connects to either, and the links  *)
(* are closed whenever.                                                    *)
AnyUse == [BondUse EXCEPT !.conf = All({"AutoRecon", "EncryptedOnly"}), !.closes = States,
                          !.bonds = [l \in Links |-> IF l = 1 THEN p1 ELSE p2],
                          !.strange = TRUE, !.returns = TRUE, !.calls = 2]

(* Directed advertising, in every mode, and two devices that pair at once. *)
DirectUse == [BondUse EXCEPT !.conf = [l \in Links |-> IF l = 1 THEN Flags ELSE {"AutoRecon"}],
                             !.closes = States, !.crossed = TRUE, !.calls = 2]

LinkUses == {NewUse, BondUse, AbortUse, AnyUse, DirectUse}

(* A link is closed while it waits for its turn. *)
TwoUses == {[NewUse EXCEPT !.closes = Waiting]}
=============================================================================
