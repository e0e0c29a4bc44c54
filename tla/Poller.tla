-------------------------------- MODULE Poller --------------------------------
(***************************************************************************)
(* What Poller.h promises to an EventLoop: each channel has the interest   *)
(* its owner last gave it, and poll reports channels, each with events     *)
(* that it is interested in and that its descriptor has.                   *)
(***************************************************************************)
EXTENDS Naturals

CONSTANTS Channels, Events

VARIABLES interest,         \* what each channel waits for
          ready,            \* what each channel's descriptor is ready for
          active            \* the reported channels still to be handled
vars == <<interest, ready, active>>

TypeOK == /\ interest \in [Channels -> SUBSET Events]
          /\ ready \in [Channels -> SUBSET Events]
          /\ active \in SUBSET Channels

Init == /\ interest = [c \in Channels |-> {}]
        /\ ready = [c \in Channels |-> {}]
        /\ active = {}

Update(c) == /\ \E events \in SUBSET Events : interest' = [interest EXCEPT ![c] = events]
             /\ UNCHANGED <<ready, active>>

Becomes(c) == /\ \E events \in SUBSET Events : ready' = [ready EXCEPT ![c] = events]
              /\ UNCHANGED <<interest, active>>

\* The channel is given up, and so is what it waits for.
Forget(c) == /\ interest' = [interest EXCEPT ![c] = {}]
             /\ ready' = [ready EXCEPT ![c] = {}]
             /\ UNCHANGED active

Report == /\ active = {}
          /\ active' \in SUBSET {c \in Channels : interest[c] \cap ready[c] # {}}
          /\ UNCHANGED <<interest, ready>>

Handle(c) == /\ active' = active \ {c}
             /\ UNCHANGED <<interest, ready>>

Next == \/ \E c \in Channels : Update(c) \/ Becomes(c) \/ Forget(c) \/ Handle(c)
        \/ Report

Spec == Init /\ [][Next]_vars
===============================================================================
