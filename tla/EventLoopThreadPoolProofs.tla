---------------------- MODULE EventLoopThreadPoolProofs ----------------------
(***************************************************************************)
(* Theorems about EventLoopThreadPool for any number of threads: types,    *)
(* what the server may rely on while it serves, the even round robin, and  *)
(* that no EventLoopThread dies before its thread.                         *)
(***************************************************************************)
EXTENDS EventLoopThreadPool, TLAPS

------------------------------------------------------------------------------
(* Type correctness.                                                         *)

LEMMA TypeInit == Init => TypeOK
BY PoolAssumption DEF Init, TypeOK, Pool

LEMMA TypeStep == TypeOK /\ [Next]_vars => TypeOK'
<1> SUFFICES ASSUME TypeOK, [Next]_vars
             PROVE  TypeOK'
  OBVIOUS
<1> USE PoolAssumption DEF TypeOK, Pool, loopVars, mainVars
<1>1. CASE StartThread
  BY <1>1 DEF StartThread
<1>2. CASE SemWait
  BY <1>2 DEF SemWait
<1>3. CASE StartLoop
  BY <1>3 DEF StartLoop
<1>4. CASE Dtor
  BY <1>4 DEF Dtor
<1>5. CASE Quit
  BY <1>5 DEF Quit, UsesLoop
<1>6. CASE QuitWakeup
  BY <1>6 DEF QuitWakeup, UsesLoop
<1>7. CASE Join
  BY <1>7 DEF Join
<1>8. CASE Free
  BY <1>8 DEF Free
<1>9. CASE SpuriousWakeup
  BY <1>9 DEF SpuriousWakeup
<1>10. CASE GetNextLoop
  <2>1. given' \in [Pool -> 0..MaxConns]
    BY <1>10 DEF GetNextLoop
  <2> QED
    BY <1>10, <2>1 DEF GetNextLoop
<1>11. CASE DestroyPool
  BY <1>11 DEF DestroyPool
<1>12. ASSUME NEW i \in Pool, Post(i) \/ Construct(i) \/ CheckQuit(i) \/ Handled(i) \/ OtherEvent(i)
       PROVE  TypeOK'
  BY <1>12 DEF Post, Construct, CheckQuit, Handled, OtherEvent, Goes
<1>13. ASSUME NEW i \in Pool, Publish(i) \/ Clear(i) \/ Unlock(i)
       PROVE  TypeOK'
  BY <1>13 DEF Publish, Clear, Unlock, Uses, Goes
<1>14. ASSUME NEW i \in Pool, EnterLoop(i) \/ Woken(i) \/ QuitItself(i)
       PROVE  TypeOK'
  BY <1>14 DEF EnterLoop, Woken, QuitItself, Goes
<1>15. CASE UNCHANGED vars
  BY <1>15 DEF vars
<1> QED
  BY <1>1, <1>2, <1>3, <1>4, <1>5, <1>6, <1>7, <1>8, <1>9, <1>10, <1>11, <1>12, <1>13,
     <1>14, <1>15 DEF Next, Main, ThreadStep, Done

\* The base thread, the threads of the pool and the round robin keep their types
\* (EventLoopThreadPool.cc, EventLoopThread.cc).
THEOREM TypeCorrect == Spec => []TypeOK
BY TypeInit, TypeStep, PTL DEF Spec

------------------------------------------------------------------------------
(* The server serves with loops that exist.                                  *)

LEMMA ServingInit == Init => ServingInv
BY PoolAssumption DEF Init, ServingInv, Published, Quitting, Starting, Pool

LEMMA ServingStep == TypeOK /\ ServingInv /\ [Next]_vars => ServingInv'
<1> SUFFICES ASSUME TypeOK, ServingInv, [Next]_vars
             PROVE  ServingInv'
  OBVIOUS
<1> USE PoolAssumption DEF TypeOK, ServingInv, Published, Quitting, Starting, Pool, loopVars, mainVars
<1>1. CASE StartThread
  BY <1>1 DEF StartThread
<1>2. CASE SemWait
  BY <1>2 DEF SemWait
<1>3. CASE StartLoop
  BY <1>3 DEF StartLoop
<1>4. CASE Dtor
  BY <1>4 DEF Dtor
<1>5. CASE Quit
  BY <1>5 DEF Quit, UsesLoop
<1>6. CASE QuitWakeup
  BY <1>6 DEF QuitWakeup, UsesLoop
<1>7. CASE Join
  BY <1>7 DEF Join
<1>8. CASE Free
  BY <1>8 DEF Free
<1>9. CASE SpuriousWakeup
  BY <1>9 DEF SpuriousWakeup
<1>10. CASE GetNextLoop
  BY <1>10 DEF GetNextLoop
<1>11. CASE DestroyPool
  BY <1>11 DEF DestroyPool
<1>12. ASSUME NEW i \in Pool, Post(i) \/ Construct(i) \/ CheckQuit(i) \/ Handled(i) \/ OtherEvent(i)
       PROVE  ServingInv'
  <2>1. CASE Post(i)
    BY <2>1 DEF Post, Goes
  <2>2. CASE Construct(i)
    BY <2>2 DEF Construct, Goes
  <2>3. CASE CheckQuit(i)
    BY <2>3 DEF CheckQuit, Goes
  <2>4. CASE Handled(i)
    BY <2>4 DEF Handled, Goes
  <2>5. CASE OtherEvent(i)
    BY <2>5 DEF OtherEvent, Goes
  <2> QED
    BY <1>12, <2>1, <2>2, <2>3, <2>4, <2>5
<1>13. ASSUME NEW i \in Pool, Publish(i)
       PROVE  ServingInv'
  BY <1>13 DEF Publish, Uses, Goes
<1>14. ASSUME NEW i \in Pool, Clear(i) \/ Unlock(i)
       PROVE  ServingInv'
  <2>1. CASE Clear(i)
    BY <2>1 DEF Clear, Uses, Goes
  <2>2. CASE Unlock(i)
    BY <2>2 DEF Unlock, Uses, Goes
  <2> QED
    BY <1>14, <2>1, <2>2
<1>15. ASSUME NEW i \in Pool, EnterLoop(i) \/ Woken(i) \/ QuitItself(i)
       PROVE  ServingInv'
  <2>1. CASE EnterLoop(i)
    BY <2>1 DEF EnterLoop, Goes
  <2>2. CASE Woken(i)
    BY <2>2 DEF Woken, Goes
  <2>3. CASE QuitItself(i)
    BY <2>3 DEF QuitItself
  <2> QED
    BY <1>15, <2>1, <2>2, <2>3
<1>16. CASE UNCHANGED vars
  BY <1>16 DEF vars
<1> QED
  BY <1>1, <1>2, <1>3, <1>4, <1>5, <1>6, <1>7, <1>8, <1>9, <1>10, <1>11, <1>12, <1>13,
     <1>14, <1>15, <1>16 DEF Next, Main, ThreadStep, Done

\* Every loop that getNextLoop may hand out exists, with its thread inside
\* threadFunc, unless it quit itself (EventLoopThread::startLoop, threadFunc).
THEOREM LoopsServe == Spec => []LoopsAlive
<1>1. TypeOK /\ ServingInv => LoopsAlive
  BY DEF TypeOK, ServingInv, Published, Quitting, LoopsAlive, Alive
<1> QED
  BY <1>1, TypeInit, TypeStep, ServingInit, ServingStep, PTL DEF Spec

------------------------------------------------------------------------------
(* The round robin.                                                          *)

LEMMA RoundRobinInit == Init => RoundRobin
BY PoolAssumption DEF Init, RoundRobin, Pool

LEMMA RoundRobinStep == TypeOK /\ RoundRobin /\ [Next]_vars => RoundRobin'
<1> SUFFICES ASSUME TypeOK, RoundRobin, [Next]_vars
             PROVE  RoundRobin'
  OBVIOUS
<1>1. CASE GetNextLoop
  <2>1. \A i \in Pool : given[i] \in Nat /\ given'[i] = IF i = next_ THEN given[i] + 1 ELSE given[i]
    BY <1>1 DEF GetNextLoop, TypeOK
  <2>2. next_' = IF next_ + 1 > numThreads_ THEN 1 ELSE next_ + 1
    BY <1>1 DEF GetNextLoop
  <2> QED
    BY <2>1, <2>2, PoolAssumption DEF RoundRobin, TypeOK, Pool
<1>2. CASE UNCHANGED <<next_, given>>
  BY <1>2 DEF RoundRobin
<1> QED
  BY <1>1, <1>2 DEF Next, Main, ThreadStep, Done, vars, mainVars, StartThread, SemWait, StartLoop,
     Dtor, Quit, QuitWakeup, Join, Free, SpuriousWakeup, DestroyPool, Post, Construct, Publish,
     EnterLoop, CheckQuit, Woken, Handled, Clear, Unlock, OtherEvent, QuitItself

\* No loop gets more than one connection more than another (getNextLoop).
THEOREM HandedOutEvenly == Spec => []Even
<1>1. TypeOK /\ RoundRobin => Even
  BY DEF TypeOK, RoundRobin, Even, Pool
<1> QED
  BY <1>1, TypeInit, TypeStep, RoundRobinInit, RoundRobinStep, PTL DEF Spec

------------------------------------------------------------------------------
(* The end of the pool.                                                      *)

LEMMA EndingInit == Init => EndingInv
BY DEF Init, EndingInv

LEMMA EndingStep == TypeOK /\ ServingInv /\ EndingInv /\ [Next]_vars => EndingInv'
<1> SUFFICES ASSUME TypeOK, ServingInv, EndingInv, [Next]_vars, selfQuit' = {}
             PROVE  EndingInv'
  BY DEF EndingInv
<1> USE PoolAssumption DEF TypeOK, EndingInv, Pool, loopVars, mainVars
<1>1. CASE StartThread
  BY <1>1 DEF StartThread, ServingInv, Published
<1>2. CASE SemWait
  BY <1>2 DEF SemWait
<1>3. CASE StartLoop
  BY <1>3 DEF StartLoop
<1>4. CASE Dtor
  BY <1>4 DEF Dtor
<1>5. CASE Quit
  BY <1>5 DEF Quit, UsesLoop
<1>6. CASE QuitWakeup
  BY <1>6 DEF QuitWakeup, UsesLoop
<1>7. CASE Join
  BY <1>7 DEF Join
<1>8. CASE Free
  BY <1>8 DEF Free
<1>9. CASE SpuriousWakeup
  BY <1>9 DEF SpuriousWakeup
<1>10. CASE GetNextLoop
  BY <1>10 DEF GetNextLoop
<1>11. CASE DestroyPool
  BY <1>11 DEF DestroyPool, ServingInv, Quitting
<1>12. ASSUME NEW i \in Pool, Post(i) \/ Construct(i) \/ CheckQuit(i) \/ Handled(i) \/ OtherEvent(i)
       PROVE  EndingInv'
  <2>1. CASE Post(i)
    BY <2>1 DEF Post, Goes
  <2>2. CASE Construct(i)
    BY <2>2 DEF Construct, Goes
  <2>3. CASE CheckQuit(i)
    BY <2>3 DEF CheckQuit, Goes
  <2>4. CASE Handled(i)
    BY <2>4 DEF Handled, Goes
  <2>5. CASE OtherEvent(i)
    BY <2>5 DEF OtherEvent, Goes
  <2> QED
    BY <1>12, <2>1, <2>2, <2>3, <2>4, <2>5
<1>13. ASSUME NEW i \in Pool, Publish(i)
       PROVE  EndingInv'
  BY <1>13 DEF Publish, Uses, Goes
<1>14. ASSUME NEW i \in Pool, Clear(i) \/ Unlock(i)
       PROVE  EndingInv'
  <2>1. exists[i]
    BY <1>14 DEF Clear, Unlock, Goes
  <2>2. CASE Clear(i)
    BY <2>1, <2>2 DEF Clear, Uses, Goes
  <2>3. CASE Unlock(i)
    BY <2>1, <2>3 DEF Unlock, Uses, Goes
  <2> QED
    BY <1>14, <2>2, <2>3
<1>15. ASSUME NEW i \in Pool, EnterLoop(i) \/ Woken(i) \/ QuitItself(i)
       PROVE  EndingInv'
  <2>1. CASE EnterLoop(i)
    BY <2>1 DEF EnterLoop, Goes
  <2>2. CASE Woken(i)
    BY <2>2 DEF Woken, Goes
  <2>3. CASE QuitItself(i)
    BY <2>3 DEF QuitItself
  <2> QED
    BY <1>15, <2>1, <2>2, <2>3
<1>16. CASE UNCHANGED vars
  BY <1>16 DEF vars
<1> QED
  BY <1>1, <1>2, <1>3, <1>4, <1>5, <1>6, <1>7, <1>8, <1>9, <1>10, <1>11, <1>12, <1>13,
     <1>14, <1>15, <1>16 DEF Next, Main, ThreadStep, Done

\* As long as no loop quits itself, ~EventLoopThread always joins, and no thread
\* touches the mutex, loop_ or cond_ of an EventLoopThread that is gone.
THEOREM ThreadsEndFirst == Spec => []NoUseAfterEnd
<1>1. EndingInv => NoUseAfterEnd
  BY DEF EndingInv, NoUseAfterEnd
<1> QED
  BY <1>1, TypeInit, TypeStep, ServingInit, ServingStep, EndingInit, EndingStep, PTL DEF Spec
==============================================================================
