-------------------------- MODULE EventLoopProofs --------------------------
(***************************************************************************)
(* Theorems about EventLoop for any set of threads and of functors: types, *)
(* no sleep on work or on quit, and the FIFO refinement of TaskQueue.      *)
(***************************************************************************)
EXTENDS EventLoop, SequenceTheorems, TLAPS

------------------------------------------------------------------------------
(* Facts about sequences that the steps rest on.                             *)

\* Appending a queued functor to the pending vector appends it to the whole queue.
LEMMA ConcatAppend ==
    ASSUME NEW S, NEW a \in Seq(S), NEW b \in Seq(S), NEW x \in S
    PROVE  a \o Append(b, x) = Append(a \o b, x)
OBVIOUS

\* Running the head of a non-empty batch runs the head of the whole queue.
LEMMA ConcatHeadTail ==
    ASSUME NEW S, NEW a \in Seq(S), NEW b \in Seq(S), a # <<>>
    PROVE  /\ a \o b # <<>>
           /\ Head(a \o b) = Head(a)
           /\ Tail(a \o b) = Tail(a) \o b
OBVIOUS

\* A functor is found in an extended vector iff it was there or was added.
LEMMA InAppend ==
    ASSUME NEW S, NEW s \in Seq(S), NEW x \in S, NEW y
    PROVE  (\E i \in DOMAIN Append(s, x) : Append(s, x)[i] = y)
             <=> (y = x \/ \E i \in DOMAIN s : s[i] = y)
OBVIOUS
------------------------------------------------------------------------------
(* Type correctness.                                                         *)

LEMMA TypeInit == Init => TypeOK
BY EmptySeq DEF Init, TypeOK, PC, Handling, Running

LEMMA TypeStep == TypeOK /\ [Next]_vars => TypeOK'
<1> SUFFICES ASSUME TypeOK, [Next]_vars
             PROVE  TypeOK'
  OBVIOUS
<1> USE DEF TypeOK, PC, Handling, Running, queueVars
<1>1. CASE Loop
  BY <1>1 DEF Loop
<1>2. CASE CheckQuit
  BY <1>2 DEF CheckQuit
<1>3. CASE HandleRead
  BY <1>3 DEF HandleRead
<1>4. CASE HandleIo
  BY <1>4 DEF HandleIo
<1>5. CASE BeginPending
  BY <1>5 DEF BeginPending
<1>6. CASE Swap
  BY <1>6, EmptySeq DEF Swap
<1>7. CASE RunFunctor
  <2>1. ran' \in Seq(Tasks) /\ functors' \in Seq(Tasks)
    BY <1>7 DEF RunFunctor
  <2> QED
    BY <1>7, <2>1 DEF RunFunctor
<1>8. CASE EndPending
  BY <1>8 DEF EndPending
<1>9. ASSUME NEW ready \in SUBSET {"wakeup", "io"}, Poll(ready)
      PROVE  TypeOK'
  BY <1>9 DEF Poll
<1>10. ASSUME NEW f \in Tasks, OwnQueueInLoop(f)
       PROVE  TypeOK'
  <2>1. pendingFunctors_' \in Seq(Tasks)
    BY <1>10 DEF OwnQueueInLoop
  <2>2. issued' \in SUBSET Tasks /\ early' \in SUBSET Tasks /\ wakeupFd_' \in {0, 1}
    BY <1>10 DEF OwnQueueInLoop
  <2> QED
    BY <1>10, <2>1, <2>2 DEF OwnQueueInLoop
<1>11. ASSUME NEW f \in Tasks, OwnRunInLoop(f)
       PROVE  TypeOK'
  BY <1>11 DEF OwnRunInLoop
<1>12. CASE OwnQuit
  BY <1>12 DEF OwnQuit
<1>13. ASSUME NEW t \in Threads, Quit(t)
       PROVE  TypeOK'
  BY <1>13 DEF Quit
<1>14. ASSUME NEW t \in Threads, Wakeup(t)
       PROVE  TypeOK'
  BY <1>14 DEF Wakeup
<1>15. ASSUME NEW t \in Threads, NEW f \in Tasks, QueueInLoop(t, f)
       PROVE  TypeOK'
  BY <1>15 DEF QueueInLoop
<1>16. CASE UNCHANGED vars
  BY <1>16 DEF vars
<1> QED
  BY <1>1, <1>2, <1>3, <1>4, <1>5, <1>6, <1>7, <1>8, <1>9, <1>10, <1>11, <1>12,
     <1>13, <1>14, <1>15, <1>16 DEF Next, LoopStep

\* The state of a loop keeps its types, and the vector being run, the channels
\* being handled and callingPendingFunctors_ are set exactly in their phases.
THEOREM TypeCorrect == Spec => []TypeOK
BY TypeInit, TypeStep, PTL DEF Spec

------------------------------------------------------------------------------
(* No lost wakeup.                                                           *)

LEMMA WakeupInit == Init => WakeupInv
BY DEF Init, WakeupInv, NoSleepOnQuit, Urgent

LEMMA WakeupStep == TypeOK /\ WakeupInv /\ [Next]_vars => WakeupInv'
<1> SUFFICES ASSUME TypeOK, WakeupInv, [Next]_vars
             PROVE  WakeupInv'
  OBVIOUS
<1> USE DEF WakeupInv, NoSleepOnQuit, WakeupComing, Urgent, queueVars
\* The steps after which the loop is not about to sleep, or that queue nothing.
<1>1. CASE Loop
  BY <1>1 DEF Loop
<1>2. CASE CheckQuit
  BY <1>2 DEF CheckQuit, TypeOK
<1>3. CASE HandleRead
  BY <1>3 DEF HandleRead
<1>4. CASE HandleIo
  BY <1>4 DEF HandleIo
<1>5. CASE BeginPending
  BY <1>5 DEF BeginPending
<1>6. CASE Swap
  BY <1>6 DEF Swap
<1>7. CASE RunFunctor
  BY <1>7 DEF RunFunctor, Running
<1>8. CASE EndPending
  BY <1>8 DEF EndPending, Running
<1>9. ASSUME NEW ready \in SUBSET {"wakeup", "io"}, Poll(ready)
      PROVE  WakeupInv'
  BY <1>9 DEF Poll
\* A functor queued by the loop's own thread is early, is queued before the
\* swap of this iteration, or is queued while callingPendingFunctors_ is set.
<1>10. ASSUME NEW f \in Tasks, OwnQueueInLoop(f)
       PROVE  WakeupInv'
  <2>1. ASSUME NEW g \in Tasks, Urgent(g)', pc = "idle"
        PROVE  Urgent(g)
    <3>1. g # f
      BY <1>10, <2>1 DEF OwnQueueInLoop
    <3> QED
      BY <1>10, <2>1, <3>1, InAppend DEF OwnQueueInLoop, TypeOK
  <2>2. pc \in {"idle", "callback", "functor", "done"} /\ pc' = pc
    BY <1>10 DEF OwnQueueInLoop, InUserCode
  <2>3. pc = "functor" => wakeupFd_' = 1
    BY <1>10 DEF OwnQueueInLoop, TypeOK, Running
  <2>4. pc = "idle" => wakeupFd_' = wakeupFd_ /\ thr' = thr
    BY <1>10 DEF OwnQueueInLoop, TypeOK, Running
  <2> QED
    BY <2>1, <2>2, <2>3, <2>4
<1>11. ASSUME NEW f \in Tasks, OwnRunInLoop(f)
       PROVE  WakeupInv'
  BY <1>11 DEF OwnRunInLoop
<1>12. CASE OwnQuit
  BY <1>12 DEF OwnQuit, InUserCode
\* Another thread is about to write the eventfd.
<1>13. ASSUME NEW t \in Threads, Quit(t)
       PROVE  WakeupInv'
  <2>1. thr'[t] = "wakeup"
    BY <1>13 DEF Quit, TypeOK
  <2> QED
    BY <1>13, <2>1 DEF Quit
<1>14. ASSUME NEW t \in Threads, Wakeup(t)
       PROVE  WakeupInv'
  BY <1>14 DEF Wakeup
<1>15. ASSUME NEW t \in Threads, NEW f \in Tasks, QueueInLoop(t, f)
       PROVE  WakeupInv'
  <2>1. thr'[t] = "wakeup"
    BY <1>15 DEF QueueInLoop, TypeOK
  <2> QED
    BY <1>15, <2>1 DEF QueueInLoop
<1>16. CASE UNCHANGED vars
  BY <1>16 DEF vars
<1> QED
  BY <1>1, <1>2, <1>3, <1>4, <1>5, <1>6, <1>7, <1>8, <1>9, <1>10, <1>11, <1>12,
     <1>13, <1>14, <1>15, <1>16 DEF Next, LoopStep

LEMMA WakeupCorrect == Spec => []WakeupInv
<1>1. Init => TypeOK /\ WakeupInv
  BY TypeInit, WakeupInit
<1>2. TypeOK /\ WakeupInv /\ [Next]_vars => (TypeOK /\ WakeupInv)'
  BY TypeStep, WakeupStep
<1> QED
  BY <1>1, <1>2, PTL DEF Spec

\* For any number of threads and functors, the loop does not sleep in epoll_wait
\* on a functor that was queued after loop() was entered, or by another thread.
THEOREM NoLostWakeup == Spec => []NoSleepOnWork
<1>1. WakeupInv => NoSleepOnWork
  BY DEF WakeupInv, NoSleepOnWork
<1> QED
  BY <1>1, WakeupCorrect, PTL

\* For any number of threads, the loop does not sleep in epoll_wait on a quit().
THEOREM NoLostQuit == Spec => []NoSleepOnQuit
<1>1. WakeupInv => NoSleepOnQuit
  BY DEF WakeupInv
<1> QED
  BY <1>1, WakeupCorrect, PTL

------------------------------------------------------------------------------
(* Refinement: the two vectors implement one FIFO queue.                     *)

LEMMA AbstractInit == Init => Abstract!Init
BY EmptySeq, ConcatEmptySeq DEF Init, Abstract!Init

LEMMA AbstractStep == TypeOK /\ [Next]_vars => [Abstract!Next]_(Abstract!vars)
<1> SUFFICES ASSUME TypeOK, [Next]_vars
             PROVE  Abstract!Next \/ UNCHANGED Abstract!vars
  OBVIOUS
<1> USE DEF queueVars
\* The steps of the loop that touch neither vector map to a stutter.
<1>1. CASE Loop \/ CheckQuit \/ HandleRead \/ HandleIo \/ BeginPending \/ EndPending
  BY <1>1 DEF Loop, CheckQuit, HandleRead, HandleIo, BeginPending, EndPending, Abstract!vars
\* The swap moves the queue from one vector to the other.
<1>2. CASE Swap
  <2>1. functors = <<>>
    BY <1>2 DEF Swap, TypeOK, Running
  <2>2. functors' \o pendingFunctors_' = functors \o pendingFunctors_
    BY <1>2, <2>1, ConcatEmptySeq DEF Swap, TypeOK
  <2> QED
    BY <1>2, <2>2 DEF Swap, Abstract!vars
<1>3. CASE RunFunctor
  BY <1>3, ConcatHeadTail DEF RunFunctor, TypeOK, Abstract!Next, Abstract!RunHead
<1>4. ASSUME NEW ready \in SUBSET {"wakeup", "io"}, Poll(ready)
      PROVE  UNCHANGED Abstract!vars
  BY <1>4 DEF Poll, Abstract!vars
<1>5. ASSUME NEW f \in Tasks, OwnQueueInLoop(f) \/ \E t \in Threads : QueueInLoop(t, f)
      PROVE  Abstract!Next
  <2>1. /\ f \in Tasks \ issued /\ issued' = issued \cup {f}
        /\ ran' = ran /\ functors' = functors
        /\ pendingFunctors_' = Append(pendingFunctors_, f)
    BY <1>5 DEF OwnQueueInLoop, QueueInLoop
  <2>2. functors' \o pendingFunctors_' = Append(functors \o pendingFunctors_, f)
    BY <2>1, ConcatAppend DEF TypeOK
  <2>3. Abstract!Queue(f)
    BY <2>1, <2>2 DEF Abstract!Queue
  <2> QED
    BY <2>3 DEF Abstract!Next
<1>6. ASSUME NEW f \in Tasks, OwnRunInLoop(f)
      PROVE  Abstract!Next
  BY <1>6 DEF OwnRunInLoop, Abstract!Next, Abstract!RunNow
<1>7. CASE OwnQuit
  BY <1>7 DEF OwnQuit, Abstract!vars
<1>8. ASSUME NEW t \in Threads, Quit(t) \/ Wakeup(t)
      PROVE  UNCHANGED Abstract!vars
  BY <1>8 DEF Quit, Wakeup, Abstract!vars
<1>9. CASE UNCHANGED vars
  BY <1>9 DEF vars, Abstract!vars
<1> QED
  BY <1>1, <1>2, <1>3, <1>4, <1>5, <1>6, <1>7, <1>8, <1>9 DEF Next, LoopStep

\* An EventLoop runs the functors handed to it once each and in the order they
\* were queued, whichever threads queue them: it implements TaskQueue.
THEOREM ImplementsTaskQueue == Spec => AbstractSpec
<1>1. Spec => Abstract!Init /\ [][Abstract!Next]_(Abstract!vars)
  BY AbstractInit, AbstractStep, TypeCorrect, PTL DEF Spec
<1> QED
  BY <1>1, PTL DEF AbstractSpec, Abstract!Spec
=============================================================================
