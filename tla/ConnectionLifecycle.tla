------------------------- MODULE ConnectionLifecycle -------------------------
(***************************************************************************)
(* What a connection promises to the user's connection callback and to the *)
(* poller: it goes up, it goes down once, then its channel is removed and  *)
(* never comes back.                                                       *)
(***************************************************************************)
EXTENDS Naturals

VARIABLES life, downs

vars == <<life, downs>>

Init == life = "connecting" /\ downs = 0

Up == life = "connecting" /\ life' = "up" /\ UNCHANGED downs

Down == life = "up" /\ life' = "down" /\ downs' = downs + 1

Remove == life = "down" /\ life' = "removed" /\ UNCHANGED downs

Next == Up \/ Down \/ Remove

Spec == Init /\ [][Next]_vars
==============================================================================
