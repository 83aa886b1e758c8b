------------------------------- MODULE KvsAbs -------------------------------
(***************************************************************************)
(* What qvCHIP_KVS.h promises of the key-value store: a map from keys to   *)
(* whole values.  A call takes effect at once or, when it fails or a reset *)
(* ends it, not at all, and it changes what it is asked to change and      *)
(* nothing else.                                                           *)
(***************************************************************************)
CONSTANTS Keys, Contents, Nothing

VARIABLES map, call

NoCall == <<>>

Calls == ({"put"} \X Keys \X Contents) \cup ({"delete"} \X Keys)
           \cup {<<"check">>, <<"erase">>}

(* What the map becomes when c takes effect.                               *)
Outcome(c) ==
  CASE c[1] = "put"    -> [map EXCEPT ![c[2]] = c[3]]
    [] c[1] = "delete" -> [map EXCEPT ![c[2]] = Nothing]
    [] c[1] = "erase"  -> [k \in Keys |-> Nothing]
    [] c[1] = "check"  -> map

AbsInit == map = [k \in Keys |-> Nothing] /\ call = NoCall

Begin == call = NoCall /\ call' \in Calls /\ UNCHANGED map

Effect == call # NoCall /\ map' = Outcome(call) /\ call' \in {call, NoCall}

End == call # NoCall /\ call' = NoCall /\ UNCHANGED map

AbsNext == Begin \/ Effect \/ End

AbsSpec == AbsInit /\ [][AbsNext]_<<map, call>>
=============================================================================
