---------------------------- MODULE MCEPollPoller ----------------------------
(* EPollPoller for TLC: channels and descriptors are model values.           *)
EXTENDS EPollPoller
==============================================================================
