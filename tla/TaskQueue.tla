------------------------------ MODULE TaskQueue ------------------------------
(***************************************************************************)
(* What an EventLoop promises to the code that hands it functors           *)
(* (EventLoop.h, runInLoop and queueInLoop): one first-in first-out queue, *)
(* each functor of which is run once, whoever queued it.  A caller on the  *)
(* loop's own thread may also have a functor run at once, ahead of the     *)
(* queue (runInLoop).  How the promise is kept - a vector under a mutex,   *)
(* a second vector that is swapped with it, an eventfd - is the business   *)
(* of module EventLoop.                                                    *)
(***************************************************************************)
EXTENDS Sequences

CONSTANT Tasks              \* the functors; each is handed over at most once

VARIABLES issued,           \* the functors handed over so far
          queue,            \* those that wait, oldest first
          ran               \* those that were run, in the order of their runs

vars == <<issued, queue, ran>>

TypeOK == /\ issued \in SUBSET Tasks
          /\ queue \in Seq(Tasks)
          /\ ran \in Seq(Tasks)

Init == /\ issued = {}
        /\ queue = <<>>
        /\ ran = <<>>

Queue(f) == /\ f \in Tasks \ issued
            /\ issued' = issued \cup {f}
            /\ queue' = Append(queue, f)
            /\ UNCHANGED ran

RunNow(f) == /\ f \in Tasks \ issued
             /\ issued' = issued \cup {f}
             /\ ran' = Append(ran, f)
             /\ UNCHANGED queue

RunHead == /\ queue # <<>>
           /\ ran' = Append(ran, Head(queue))
           /\ queue' = Tail(queue)
           /\ UNCHANGED issued

Next == \/ \E f \in Tasks : Queue(f) \/ RunNow(f)
        \/ RunHead

Spec == Init /\ [][Next]_vars
==============================================================================
