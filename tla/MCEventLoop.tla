----------------------------- MODULE MCEventLoop -----------------------------
(* EventLoop for TLC: the threads and the functors are model values.         *)
EXTENDS EventLoop
==============================================================================
