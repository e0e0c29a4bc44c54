------------------------------ MODULE EventLoop ------------------------------
(***************************************************************************)
(* One EventLoop (src/EventLoop.h, src/EventLoop.cc): the thread that owns *)
(* it and runs loop(), and the other threads that call queueInLoop,        *)
(* runInLoop and quit.  Each step is one the threads can interleave at: a  *)
(* critical section of mutex_, an access to an atomic, a system call, or a *)
(* callback entered.                                                       *)
(*                                                                         *)
(* The poller is modelled by the contract of Poller.h: poll reports        *)
(* channels whose descriptor is ready.  Two channels stand for all: the    *)
(* loop's own wakeupChannel_, ready when the eventfd counter is not zero,  *)
(* and "io", any other channel, which may become ready at any time and     *)
(* whose handler is user code that may call back into the loop.  The loop  *)
(* is entered once, as in EventLoopThread::threadFunc and in main.         *)
(***************************************************************************)
EXTENDS Naturals, Sequences

CONSTANTS Threads,          \* the threads other than the loop's own
          Tasks             \* the functors; each is handed over at most once

VARIABLES
    pc,                     \* control point of the loop's own thread
    thr,                    \* control points of the other threads
    quit_,
    wakeupFd_,              \* the eventfd: 1 when its counter is not zero
    activeChannels_,        \* the reported channels still to be handled
    pendingFunctors_,
    functors,               \* the swapped-out vector, without those already run
    callingPendingFunctors_,
    issued, ran,            \* history: functors handed over; functors run
    early                   \* history: queued by the loop's thread before loop()

vars == <<pc, thr, quit_, wakeupFd_, activeChannels_, pendingFunctors_,
          functors, callingPendingFunctors_, issued, ran, early>>

queueVars == <<pendingFunctors_, functors, issued, ran, early>>

\* The control points of the loop's thread: before loop(), at the test of
\* quit_, inside epoll_wait, between two handlers, inside a handler, before the
\* swap, between two functors, inside a functor, after loop() returned.
PC == {"idle", "check", "poll", "handle", "callback", "swap", "run",
       "functor", "done"}

Queued(f) == \/ \E i \in DOMAIN pendingFunctors_ : pendingFunctors_[i] = f
             \/ \E i \in DOMAIN functors : functors[i] = f

Init == /\ pc = "idle"
        /\ thr = [t \in Threads |-> "idle"]
        /\ quit_ = FALSE
        /\ wakeupFd_ = 0
        /\ activeChannels_ = {}
        /\ pendingFunctors_ = <<>>
        /\ functors = <<>>
        /\ callingPendingFunctors_ = FALSE
        /\ issued = {} /\ ran = <<>> /\ early = {}

------------------------------------------------------------------------------
(* The loop's own thread: loop() and doPendingFunctors().                    *)

Loop == /\ pc = "idle"
        /\ pc' = "check"
        /\ quit_' = FALSE
        /\ UNCHANGED <<thr, wakeupFd_, activeChannels_, callingPendingFunctors_, queueVars>>

CheckQuit == /\ pc = "check"
             /\ pc' = IF quit_ THEN "done" ELSE "poll"
             /\ activeChannels_' = {}
             /\ UNCHANGED <<thr, quit_, wakeupFd_, callingPendingFunctors_, queueVars>>

\* epoll_wait returns some of the ready channels: none after the timeout or a
\* signal, and not all when more are ready than events_ has room for.
Poll(ready) == /\ pc = "poll"
               /\ "wakeup" \in ready => wakeupFd_ = 1
               /\ pc' = "handle"
               /\ activeChannels_' = ready
               /\ UNCHANGED <<thr, quit_, wakeupFd_, callingPendingFunctors_, queueVars>>

Handling == pc \in {"handle", "callback"}

HandleRead == /\ Handling /\ "wakeup" \in activeChannels_
              /\ pc' = "handle"
              /\ activeChannels_' = activeChannels_ \ {"wakeup"}
              /\ wakeupFd_' = 0
              /\ UNCHANGED <<thr, quit_, callingPendingFunctors_, queueVars>>

HandleIo == /\ Handling /\ "io" \in activeChannels_
            /\ pc' = "callback"
            /\ activeChannels_' = activeChannels_ \ {"io"}
            /\ UNCHANGED <<thr, quit_, wakeupFd_, callingPendingFunctors_, queueVars>>

BeginPending == /\ Handling /\ activeChannels_ = {}
                /\ pc' = "swap"
                /\ callingPendingFunctors_' = TRUE
                /\ UNCHANGED <<thr, quit_, wakeupFd_, activeChannels_, queueVars>>

\* Mutant: the vector is copied, not swapped.
SwapCopying == /\ pc = "swap"
               /\ pc' = "run"
               /\ functors' = pendingFunctors_
               /\ UNCHANGED <<thr, quit_, wakeupFd_, activeChannels_, pendingFunctors_,
                              callingPendingFunctors_, issued, ran, early>>

Swap == /\ pc = "swap"
        /\ pc' = "run"
        /\ functors' = pendingFunctors_
        /\ pendingFunctors_' = <<>>
        /\ UNCHANGED <<thr, quit_, wakeupFd_, activeChannels_,
                       callingPendingFunctors_, issued, ran, early>>

Running == pc \in {"run", "functor"}

RunFunctor == /\ Running /\ functors # <<>>
              /\ pc' = "functor"
              /\ ran' = Append(ran, Head(functors))
              /\ functors' = Tail(functors)
              /\ UNCHANGED <<thr, quit_, wakeupFd_, activeChannels_, pendingFunctors_,
                             callingPendingFunctors_, issued, early>>

\* Mutant: the flag stays set.
EndPendingFlagged == /\ Running /\ functors = <<>>
                     /\ pc' = "check"
                     /\ UNCHANGED <<thr, quit_, wakeupFd_, activeChannels_,
                                    callingPendingFunctors_, queueVars>>

EndPending == /\ Running /\ functors = <<>>
              /\ pc' = "check"
              /\ callingPendingFunctors_' = FALSE
              /\ UNCHANGED <<thr, quit_, wakeupFd_, activeChannels_, queueVars>>

------------------------------------------------------------------------------
(* User code on the loop's own thread: before loop(), in a handler, in a     *)
(* functor, after loop().                                                    *)

InUserCode == pc \in {"idle", "callback", "functor", "done"}

\* Mutant: the loop's own thread never writes the eventfd.
OwnQueueSilently(f) ==
    /\ InUserCode /\ f \notin issued
    /\ pendingFunctors_' = Append(pendingFunctors_, f)
    /\ issued' = issued \cup {f}
    /\ early' = IF pc = "idle" THEN early \cup {f} ELSE early
    /\ UNCHANGED <<pc, thr, quit_, wakeupFd_, activeChannels_, functors,
                   callingPendingFunctors_, ran>>

OwnQueueInLoop(f) ==
    /\ InUserCode /\ f \notin issued
    /\ pendingFunctors_' = Append(pendingFunctors_, f)
    /\ wakeupFd_' = IF callingPendingFunctors_ THEN 1 ELSE wakeupFd_
    /\ issued' = issued \cup {f}
    /\ early' = IF pc = "idle" THEN early \cup {f} ELSE early
    /\ UNCHANGED <<pc, thr, quit_, activeChannels_, functors, callingPendingFunctors_, ran>>

OwnRunInLoop(f) ==
    /\ InUserCode /\ f \notin issued
    /\ issued' = issued \cup {f}
    /\ ran' = Append(ran, f)
    /\ UNCHANGED <<pc, thr, quit_, wakeupFd_, activeChannels_, pendingFunctors_,
                   functors, callingPendingFunctors_, early>>

OwnQuit == /\ InUserCode
           /\ quit_' = TRUE
           /\ UNCHANGED <<pc, thr, wakeupFd_, activeChannels_, callingPendingFunctors_, queueVars>>

------------------------------------------------------------------------------
(* The other threads.  runInLoop is queueInLoop there.                       *)

\* Mutant: the loop is woken only while it runs functors, whoever queues.
QueueSilently(t, f) ==
    /\ thr[t] = "idle" /\ f \notin issued
    /\ pendingFunctors_' = Append(pendingFunctors_, f)
    /\ issued' = issued \cup {f}
    /\ thr' = [thr EXCEPT ![t] = IF callingPendingFunctors_ THEN "wakeup" ELSE @]
    /\ UNCHANGED <<pc, quit_, wakeupFd_, activeChannels_, functors,
                   callingPendingFunctors_, ran, early>>

QueueInLoop(t, f) ==
    /\ thr[t] = "idle" /\ f \notin issued
    /\ pendingFunctors_' = Append(pendingFunctors_, f)
    /\ issued' = issued \cup {f}
    /\ thr' = [thr EXCEPT ![t] = "wakeup"]
    /\ UNCHANGED <<pc, quit_, wakeupFd_, activeChannels_, functors,
                   callingPendingFunctors_, ran, early>>

\* Mutant: the loop is not woken.
QuitSilently(t) == /\ thr[t] = "idle"
                   /\ quit_' = TRUE
                   /\ UNCHANGED <<pc, thr, wakeupFd_, activeChannels_,
                                  callingPendingFunctors_, queueVars>>

Quit(t) == /\ thr[t] = "idle"
           /\ quit_' = TRUE
           /\ thr' = [thr EXCEPT ![t] = "wakeup"]
           /\ UNCHANGED <<pc, wakeupFd_, activeChannels_, callingPendingFunctors_, queueVars>>

Wakeup(t) == /\ thr[t] = "wakeup"
             /\ wakeupFd_' = 1
             /\ thr' = [thr EXCEPT ![t] = "idle"]
             /\ UNCHANGED <<pc, quit_, activeChannels_, callingPendingFunctors_, queueVars>>

------------------------------------------------------------------------------
LoopStep == \/ Loop \/ CheckQuit \/ HandleRead \/ HandleIo \/ BeginPending
            \/ Swap \/ RunFunctor \/ EndPending

Next == \/ LoopStep
        \/ \E ready \in SUBSET {"wakeup", "io"} : Poll(ready)
        \/ \E f \in Tasks : OwnQueueInLoop(f) \/ OwnRunInLoop(f)
        \/ OwnQuit
        \/ \E t \in Threads : Quit(t) \/ Wakeup(t)
        \/ \E t \in Threads, f \in Tasks : QueueInLoop(t, f)

Spec == Init /\ [][Next]_vars

\* The loop's thread is scheduled and the callbacks it runs return; a thread
\* inside queueInLoop or quit completes the call; epoll_wait returns when the
\* eventfd is readable.  Nothing is assumed of other channels or of the timeout.
Fairness == /\ WF_vars(LoopStep)
            /\ WF_vars(\E ready \in SUBSET {"wakeup", "io"} : "wakeup" \in ready /\ Poll(ready))
            /\ \A t \in Threads : WF_vars(Wakeup(t))

FairSpec == Spec /\ Fairness

------------------------------------------------------------------------------
\* Types, and the part of the state that the control point determines.
TypeOK == /\ pc \in PC
          /\ thr \in [Threads -> {"idle", "wakeup"}]
          /\ quit_ \in BOOLEAN
          /\ wakeupFd_ \in {0, 1}
          /\ activeChannels_ \in SUBSET {"wakeup", "io"}
          /\ activeChannels_ # {} => Handling
          /\ pendingFunctors_ \in Seq(Tasks)
          /\ functors \in Seq(Tasks)
          /\ functors # <<>> => Running
          /\ callingPendingFunctors_ = (pc = "swap" \/ Running)
          /\ issued \in SUBSET Tasks /\ ran \in Seq(Tasks) /\ early \in SUBSET Tasks

WakeupComing == wakeupFd_ = 1 \/ \E t \in Threads : thr[t] = "wakeup"

Urgent(f) == f \notin early /\ \E i \in DOMAIN pendingFunctors_ : pendingFunctors_[i] = f

\* The loop never sleeps in epoll_wait on a queued functor without a wakeup
\* under way, the functors its own thread queued before loop() excepted
\* (queueInLoop's test of isInLoopThread and callingPendingFunctors_ against
\* the order of handlers, swap and functors in loop).
NoSleepOnWork == pc = "poll" /\ (\E f \in Tasks : Urgent(f)) => WakeupComing

\* The loop never sleeps on a quit(): it has seen quit_ or is being woken.
NoSleepOnQuit == pc = "poll" /\ quit_ => WakeupComing

\* The inductive form of both.
WakeupInv == /\ pc \in {"idle", "check", "poll", "run", "functor"}
                    /\ (\E f \in Tasks : Urgent(f)) => WakeupComing
             /\ NoSleepOnQuit

Abstract == INSTANCE TaskQueue WITH queue <- functors \o pendingFunctors_

\* The swapped vector and the pending one together are one FIFO queue, through
\* whatever interleaving of queueInLoop, the swap and doPendingFunctors.
AbstractSpec == Abstract!Spec

\* Every functor that is queued is run, without the help of the timeout, unless
\* the loop is left or the functor was queued by the loop's thread before loop().
QueuedRuns == \A f \in Tasks : Queued(f) /\ f \notin early ~> ~Queued(f) \/ pc = "done"

\* Once loop() is entered, a quit() ends it.
QuitStops == quit_ /\ pc # "idle" ~> pc = "done"
==============================================================================
