------------------------------- MODULE NvmAbs -------------------------------
(***************************************************************************)
(* What gpNvm promises its callers: a value per token, changed by calls    *)
(* that take effect once, before they return and never after; a reset ends *)
(* the call, whether or not it has taken effect.                           *)
(***************************************************************************)
CONSTANTS Tokens, Values, Removed

VARIABLES
  value,   \* what every token reads as
  call,    \* the call in progress
  result   \* what the last call returned

vars == <<value, call, result>>

NoCall    == [op |-> "none"]
WriteCall == [op : {"write"}, tok : Tokens, val : Values \cup {Removed}, done : BOOLEAN]
EraseCall == [op : {"erase"}, done : BOOLEAN]

Init == value \in [Tokens -> Values \cup {Removed}] /\ call = NoCall /\ result = "none"

Begin ==
  /\ call = NoCall
  /\ call' \in {c \in WriteCall \cup EraseCall : ~c.done}
  /\ result' = "none"
  /\ UNCHANGED value

TakeEffect ==
  /\ call # NoCall /\ ~call.done
  /\ call' = [call EXCEPT !.done = TRUE]
  /\ value' = IF call.op = "write" THEN [value EXCEPT ![call.tok] = call.val]
              ELSE [t \in Tokens |-> Removed]
  /\ UNCHANGED result

Return ==
  /\ call # NoCall /\ call' = NoCall
  /\ \/ call.done /\ result' = "ok"
     \/ ~call.done /\ result' = "error"
     \/ call.op = "write" /\ result' = "ok" /\ value[call.tok] = call.val
  /\ UNCHANGED value

Reset == call' = NoCall /\ result' = "none" /\ UNCHANGED value

Next == Begin \/ TakeEffect \/ Return \/ Reset

Spec == Init /\ [][Next]_vars
=============================================================================
