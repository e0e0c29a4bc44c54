----------------------- MODULE TcpConnectionLifeProofs -----------------------
(***************************************************************************)
(* Theorems about the life of a TcpConnection and about its end, each for  *)
(* the set-ups in which it holds: NoUseOfDead, RegisteredAlive,            *)
(* SentBeforeFin and the refinement of ConnectionLifecycle.                *)
(***************************************************************************)
EXTENDS TcpConnectionProofs, FiniteSetTheorems

------------------------------------------------------------------------------
(* What steps do to the queue of functors.                                   *)

\* The functors a step may queue, and who queues them.
Tells == {<<"writeComplete">>, <<"highWater">>}
QueueTell == \E f \in Tells : pending' = Append(pending, f)
QueueRemoval == /\ pending' = Append(pending, <<"connectDistroyed">>)
                /\ \/ CloseCallback /\ SingleLoop
                   \/ RemoveConnectionInLoop
                   \/ DestroyServer /\ connections_

LEMMA QueueKinds ==
    ASSUME TypeOK, [Next]_vars
    PROVE  \/ UNCHANGED pending
           \/ Swap \/ LeaveLoop
           \/ QueueTell
           \/ QueueRemoval
           \/ \E t \in Threads : ShutdownQueue(t)
           \/ \E t \in Threads, m \in Msgs : SendQueue(t, m)
<1> USE DEF connVars, serverVars, queueVars, loopVars, historyVars
<1>1. ASSUME NEW cond, NEW op, pending' = pending \o If(cond, op)
      PROVE  UNCHANGED pending \/ (cond /\ pending' = Append(pending, <<op>>))
  BY <1>1 DEF If, TypeOK
<1>2. ASSUME NEW cond, NEW op \in {"writeComplete", "highWater"}, pending' = pending \o If(cond, op)
      PROVE  UNCHANGED pending \/ QueueTell
  BY <1>1, <1>2 DEF QueueTell, Tells
<1>3. Sent \/ Drained => \/ UNCHANGED pending \/ QueueTell \/ \E data : Keep(data)
  BY <1>2 DEF Sent, Drained
<1>4. ASSUME NEW data, Keep(data) PROVE UNCHANGED pending \/ QueueTell
  BY <1>2, <1>4 DEF Keep
<1>5. ASSUME NEW data, NEW rest, SendInLoop(data, rest)
      PROVE  UNCHANGED pending \/ QueueTell
  BY <1>4, <1>5 DEF SendInLoop
<1>6. RunSend => UNCHANGED pending \/ QueueTell
  BY <1>5 DEF RunSend
<1>7. ASSUME NEW m \in Msgs, UserSend(m) PROVE UNCHANGED pending \/ QueueTell
  BY <1>5, <1>7 DEF UserSend
<1>8. CloseCallback \/ RemoveConnectionInLoop => UNCHANGED pending \/ QueueRemoval
  BY DEF CloseCallback, RemoveConnectionInLoop, QueueRemoval
<1>9. DestroyServer => UNCHANGED pending \/ QueueRemoval
  <2>1. DestroyServer => pending' = pending \o If(connections_, "connectDistroyed")
    BY DEF DestroyServer
  <2> QED
    BY <1>1, <2>1 DEF QueueRemoval
<1>10. ASSUME NEW t \in Threads, ThreadStep(t) \/ HandOver(t) \/ ShutdownCheck(t) \/ Release(t)
                                 \/ \E m \in Msgs : SendCheck(t, m)
       PROVE  \/ UNCHANGED pending \/ ShutdownQueue(t)
              \/ \E m \in Msgs : SendQueue(t, m)
  BY <1>10 DEF ThreadStep, HandOver, ShutdownCheck, Release, SendCheck, ShutdownSet
<1> QED
  BY <1>3, <1>4, <1>6, <1>7, <1>8, <1>9, <1>10
  DEF Next, LoopStep, Handlers, PollIdle, PollReport, RunFunctor, EndFunctors, EndBase,
      ConnectEstablished, ConnectDistroyed, Disconnect, RemoveChannel, HandleRead, HandleError,
      HandleClose, HandleWrite, WriteSome, RunShutdown, RunCallback, UserReturn, UserShutdown, Peer,
      vars

\* Where the loop is changes between its calls only, until it is gone.
LEMMA PhaseStep ==
    ASSUME TypeOK, [Next]_vars
    PROVE  \/ UNCHANGED phase
           \/ todo = <<>> /\ phase = "poll" /\ phase' = "handle"
           \/ Swap \/ EndFunctors \/ LeaveLoop
           \/ RunFunctor /\ phase' \in {"run", "undefined", "terminated"}
           \/ LoopGone /\ phase' = "misused" /\ Threads # {}
<1>1. ASSUME NEW f, NEW t \in Threads, Queue(f)
      PROVE  UNCHANGED phase \/ (LoopGone /\ phase' = "misused" /\ Threads # {})
  BY <1>1 DEF Queue
<1>2. ASSUME NEW t \in Threads, ThreadStep(t)
      PROVE  UNCHANGED phase \/ (LoopGone /\ phase' = "misused" /\ Threads # {})
  BY <1>1, <1>2 DEF ThreadStep, SendQueue, ShutdownSet, ShutdownQueue, loopVars
<1> QED
  BY <1>2
  DEF Next, LoopStep, Handlers, PollIdle, PollReport, RunFunctor, ConnectEstablished,
      ConnectDistroyed, Disconnect, RemoveChannel, HandleRead, HandleError, HandleClose,
      CloseCallback, HandleWrite, WriteSome, Sent, Drained, RunSend, RunShutdown, RunCallback,
      UserReturn, UserSend, UserShutdown, HandOver, SendCheck, ShutdownCheck, Release,
      RemoveConnectionInLoop, DestroyServer, EndBase, Peer, loopVars, vars, TypeOK

\* While the loop is in a call, it stays where it is.
LEMMA BusyStep ==
    ASSUME TypeOK, [Next]_vars, todo # <<>>
    PROVE  /\ UNCHANGED <<phase, functors, next>>
           /\ ~RunFunctor /\ ~Swap /\ ~EndFunctors /\ ~LeaveLoop /\ ~PollReport /\ ~PollIdle
<1>1. ~RunFunctor /\ ~Swap /\ ~EndFunctors /\ ~LeaveLoop /\ ~PollReport /\ ~PollIdle
  BY DEF RunFunctor, Swap, EndFunctors, LeaveLoop, PollReport, PollIdle, TypeOK
<1> QED
  BY <1>1, PhaseStep, FunctorsStep DEF TypeOK

\* What the other threads may do, and who else changes what they are at.
LEMMA ThreadKinds ==
    ASSUME [Next]_vars
    PROVE  \/ UNCHANGED thr
           \/ \E t \in Threads : \/ HandOver(t) \/ ShutdownCheck(t) \/ Release(t)
                                 \/ ShutdownSet(t) \/ ShutdownQueue(t)
                                 \/ \E m \in Msgs : SendCheck(t, m) \/ SendQueue(t, m)
BY DEF Next, LoopStep, Handlers, ThreadStep, PollIdle, PollReport, Swap, RunFunctor, EndFunctors,
       LeaveLoop,
       ConnectEstablished, ConnectDistroyed, Disconnect, RemoveChannel, HandleRead, HandleError,
       HandleClose,
       CloseCallback, HandleWrite, WriteSome, Sent, Drained, RunSend, RunShutdown, RunCallback,
       UserReturn, UserSend, UserShutdown, RemoveConnectionInLoop, DestroyServer, EndBase, Peer,
       vars

------------------------------------------------------------------------------
(* Careful callers.                                                          *)

Holder(t) == thr[t] \notin {<<"none">>, <<"gone">>}

\* The server outlives the connection.
ServerStays == SingleLoop \/ ~ServerMayDie

\* Then its loop is not left, and nobody uses it later.
StayInv == (SingleLoop \/ serverAlive) /\ ~LoopGone

LEMMA StayInit == Init => StayInv
BY DEF Init, StayInv, LoopGone

LEMMA AliveStep ==
    ASSUME [Next]_vars, ~SingleLoop, serverAlive
    PROVE  serverAlive' \/ ServerMayDie
BY DEF Next, LoopStep, Handlers, ThreadStep, PollIdle, PollReport, Swap, RunFunctor, EndFunctors,
       LeaveLoop, ConnectEstablished, ConnectDistroyed, Disconnect, RemoveChannel, HandleRead,
       HandleError, HandleClose, CloseCallback, HandleWrite, WriteSome, Sent, Drained, RunSend,
       RunShutdown, RunCallback, UserReturn, UserSend, UserShutdown, HandOver, SendCheck, SendQueue,
       ShutdownCheck, ShutdownSet, ShutdownQueue, Release, RemoveConnectionInLoop, DestroyServer,
       EndBase, Peer, serverVars, vars

LEMMA StayStep == ASSUME ServerStays PROVE TypeOK /\ StayInv /\ [Next]_vars => StayInv'
<1> SUFFICES ASSUME TypeOK, StayInv, [Next]_vars PROVE StayInv'
  OBVIOUS
<1>1. SingleLoop \/ serverAlive'
  BY AliveStep DEF StayInv, ServerStays
<1>2. ~LeaveLoop
  BY DEF LeaveLoop, StayInv
<1>3. ~LoopGone'
  BY <1>2, PhaseStep DEF StayInv, LoopGone, Swap, EndFunctors
<1> QED
  BY <1>1, <1>3 DEF StayInv

LEMMA HeldInit == Init => HeldInv
<1> SUFFICES ASSUME Init PROVE HeldInv
  OBVIOUS
<1>1. functors = <<>> /\ phase \notin {"undefined", "misused"}
  BY DEF Init
<1>2. pending = <<>> \/ pending = <<<<"connectEstablished">>>>
  BY DEF Init
<1> QED
  BY <1>1, <1>2 DEF HeldInv, HoldsRaw, Shared

\* A raw functor comes from a thread that holds the connection.
LEMMA RawComesHeld ==
    ASSUME TypeOK, [Next]_vars, HoldsRaw(pending') \/ HoldsRaw(functors')
    PROVE  \/ HoldsRaw(pending) \/ HoldsRaw(functors)
           \/ \E t \in Threads : Holder(t)'
<1>0. pending \in Seq(Functor) /\ functors \in Seq(Functor)
  BY DEF TypeOK
<1>1. ASSUME NEW f, f[1] \in Shared, pending' = Append(pending, f), HoldsRaw(pending')
      PROVE  HoldsRaw(pending)
  BY <1>0, <1>1 DEF HoldsRaw
<1>2. CASE HoldsRaw(functors')
  <2>1. HoldsRaw(<<>>) = FALSE
    BY DEF HoldsRaw
  <2> QED
    BY <1>2, <2>1, FunctorsStep DEF Swap, EndFunctors, LeaveLoop, RunFunctor
<1>3. CASE HoldsRaw(pending')
  <2>1. CASE Swap
    BY <1>3, <2>1 DEF Swap, HoldsRaw
  <2>2. CASE QueueTell
    BY <1>1, <1>3, <2>2 DEF QueueTell, Tells, Shared
  <2>3. CASE QueueRemoval
    BY <1>1, <1>3, <2>3 DEF QueueRemoval, Shared
  <2>4. ASSUME NEW t \in Threads, ShutdownQueue(t) \/ \E m \in Msgs : SendQueue(t, m)
        PROVE  Holder(t)'
    BY <2>4 DEF ShutdownQueue, SendQueue, Queue, Goes, Holder, TypeOK
  <2> QED
    BY <1>3, <2>1, <2>2, <2>3, <2>4, QueueKinds DEF LeaveLoop, HoldsRaw
<1> QED
  BY <1>2, <1>3

\* A holder lets go of the connection by Release only.
LEMMA HolderStays ==
    ASSUME TypeOK, [Next]_vars, NEW s \in Threads, Holder(s)
    PROVE  Holder(s)' \/ \E t \in Threads : Release(t)
<1>1. ASSUME NEW t \in Threads, NEW from, NEW to, to \notin {<<"none">>, <<"gone">>}, Goes(t, from, to)
      PROVE  Holder(s)'
  BY <1>1 DEF Goes, Holder, TypeOK
<1>2. \A t \in Threads : HandOver(t) \/ ShutdownCheck(t) \/ ShutdownSet(t) \/ ShutdownQueue(t)
                         => Holder(s)'
  <2> TAKE t \in Threads
  <2>1. HandOver(t) => Holder(s)'
    BY DEF HandOver, Holder, TypeOK
  <2>2. ShutdownCheck(t) \/ ShutdownSet(t) \/ ShutdownQueue(t) => Holder(s)'
    BY <1>1 DEF ShutdownCheck, ShutdownSet, ShutdownQueue
  <2> QED
    BY <2>1, <2>2
<1>3. \A t \in Threads, m \in Msgs : SendCheck(t, m) \/ SendQueue(t, m) => Holder(s)'
  BY <1>1 DEF SendCheck, SendQueue
<1> QED
  BY <1>2, <1>3, ThreadKinds DEF Holder

LEMMA HeldStep ==
    ASSUME Careful \/ Threads = {}
    PROVE  TypeOK /\ HeldInv /\ (LoopGone => Threads = {}) /\ [Next]_vars => HeldInv'
<1> SUFFICES ASSUME TypeOK, HeldInv, LoopGone => Threads = {}, [Next]_vars PROVE HeldInv'
  OBVIOUS
<1>1. phase' \notin {"undefined", "misused"}
  <2>1. CASE RunFunctor
    <3>1. next \in DOMAIN functors /\ (phase' = "undefined" => ~Referenced) /\ phase' # "misused"
      BY <2>1 DEF RunFunctor, TypeOK
    <3>2. CASE functors[next][1] \in Shared
      BY <3>1, <3>2 DEF Referenced, HoldsShared
    <3>3. CASE functors[next][1] \notin Shared
      BY <3>1, <3>3 DEF Referenced, HeldInv, HoldsRaw
    <3> QED
      BY <3>2, <3>3
  <2>2. CASE ~RunFunctor
    BY <2>2, PhaseStep DEF HeldInv, Swap, EndFunctors, LeaveLoop
  <2> QED
    BY <2>1, <2>2
<1>2. HoldsRaw(pending') \/ HoldsRaw(functors') => \E t \in Threads : Holder(t)'
  <2> SUFFICES ASSUME HoldsRaw(pending') \/ HoldsRaw(functors') PROVE \E t \in Threads : Holder(t)'
    OBVIOUS
  <2>1. CASE HoldsRaw(pending) \/ HoldsRaw(functors)
    <3>1. PICK s \in Threads : Holder(s)
      BY <2>1 DEF HeldInv, Holder
    <3>2. \A t \in Threads : ~Release(t)
      BY <2>1, <3>1 DEF Release
    <3> QED
      BY <3>1, <3>2, HolderStays
  <2> QED
    BY <2>1, RawComesHeld
<1> QED
  BY <1>1, <1>2 DEF HeldInv, Holder

LEMMA HeldGives == HeldInv => NoUseOfDead
BY DEF HeldInv, NoUseOfDead

\* The loop never calls into a connection that is gone, nor a thread into a loop
\* that is: with no other threads, even when the server and its sub-loop die at any
\* point, or for any number of other threads that keep the connection until their
\* functors have run, if the server outlives it.
THEOREM NothingDead ==
    ASSUME Threads = {} \/ (Careful /\ ServerStays)
    PROVE  Spec => []NoUseOfDead
<1>1. CASE Threads = {}
  <2>1. LoopGone => Threads = {}
    BY <1>1
  <2>2. Spec => []HeldInv
    BY <1>1, <2>1, HeldInit, HeldStep, TypeCorrect, PTL DEF Spec
  <2> QED
    BY <2>2, HeldGives, PTL
<1>2. CASE Careful /\ ServerStays
  <2>1. Spec => []StayInv
    BY <1>2, StayInit, StayStep, TypeCorrect, PTL DEF Spec
  <2>2. StayInv => (LoopGone => Threads = {})
    BY DEF StayInv
  <2>3. Spec => []HeldInv
    BY <1>2, <2>1, <2>2, HeldInit, HeldStep, TypeCorrect, PTL DEF Spec
  <2> QED
    BY <2>3, HeldGives, PTL
<1> QED
  BY <1>1, <1>2

------------------------------------------------------------------------------
(* What steps do to the calls the loop is in.                                *)

\* A call that was not there before, and the step that made it.
LEMMA NewOps ==
    ASSUME TypeOK, StackInv, [Next]_vars, ~RunFunctor, ~PollReport,
           NEW i \in DOMAIN todo', ~Kept(i)
    PROVE  LET op == todo'[i][1]
           IN  \/ op \in {"user", "write"}
               \/ op = "closeCallback" /\ HandleClose
               \/ op = "drained" /\ HandleWrite
               \/ op = "sent" /\ (RunSend \/ \E m \in Msgs : UserSend(m))
                  /\ state_ # "kDisconnected" /\ UNCHANGED index
               \/ op \in {"remove", "disconnect"} /\ ConnectDistroyed
<1> USE DEF connVars, serverVars, queueVars, loopVars, historyVars, Return, ThenDo, Doing
<1> DEFINE From(S) == \A k \in DOMAIN todo' : todo'[k][1] \in S \/ Kept(k)
<1>1. UNCHANGED todo => From({})
  BY DEF Kept, KeptIn, TypeOK
<1>2. ASSUME todo # <<>>, NEW S, NEW a \in S, NEW b \in S, Replaced(todo, todo', a, b)
      PROVE  From(S)
  BY <1>2, KeptFacts DEF Kept, TypeOK
<1>3. ASSUME todo # <<>>, todo' \in {Tail(todo), SubSeq(todo, 3, Len(todo))},
             todo' = Tail(todo) \/ Len(todo) >= 2
      PROVE  From({"user"})
  BY <1>2, <1>3 DEF Replaced
<1> HIDE DEF From
<1>4. ConnectEstablished \/ Disconnect \/ HandleRead \/ RunCallback => From({"user"})
  BY <1>2 DEF Replaced, ConnectEstablished, Disconnect, HandleRead, RunCallback, At
<1>5. HandleClose => From({"user", "closeCallback"})
  BY <1>2 DEF Replaced, HandleClose, At
<1>6. ConnectDistroyed => From({"remove", "disconnect"})
  BY <1>2, DistroyCalls DEF Replaced, ConnectDistroyed, At
<1>7. RemoveChannel \/ HandleError \/ CloseCallback \/ RunShutdown \/ UserReturn => From({"user"})
  BY <1>3 DEF RemoveChannel, HandleError, CloseCallback, RunShutdown, UserReturn, At
<1>8. HandleWrite => From({"write", "drained"})
  BY <1>2 DEF Replaced, HandleWrite, At
<1>9. Sent \/ Drained => From({"user"})
  BY <1>3, BelowIsPlain DEF Sent, Drained, At
<1>10. ASSUME todo # <<>>, NEW data, NEW rest, rest \in {todo, Tail(todo)}, SendInLoop(data, rest)
       PROVE  \/ From({"user"})
              \/ From({"write", "sent"}) /\ state_ # "kDisconnected" /\ UNCHANGED index
  BY <1>2, <1>10 DEF Replaced, SendInLoop
<1>11. RunSend => \/ From({"user"})
                  \/ From({"write", "sent"}) /\ state_ # "kDisconnected" /\ UNCHANGED index
  BY <1>10 DEF RunSend, At
<1>12. ASSUME NEW m \in Msgs, UserSend(m)
       PROVE  \/ From({"user"})
              \/ From({"write", "sent"}) /\ state_ # "kDisconnected" /\ UNCHANGED index
  BY <1>10, <1>12 DEF UserSend, At
<1>13. ASSUME NEW t \in Threads, ThreadStep(t) \/ HandOver(t) \/ ShutdownCheck(t) \/ Release(t)
                                 \/ \E m \in Msgs : SendCheck(t, m)
       PROVE  From({})
  BY <1>1, <1>13 DEF ThreadStep, HandOver, ShutdownCheck, Release, SendCheck, SendQueue, Queue,
                     ShutdownSet, ShutdownQueue
<1>14. \/ From({}) \/ From({"user"})
       \/ HandleClose /\ From({"user", "closeCallback"})
       \/ ConnectDistroyed /\ From({"remove", "disconnect"})
       \/ HandleWrite /\ From({"write", "drained"})
       \/ /\ RunSend \/ \E m \in Msgs : UserSend(m)
          /\ From({"write", "sent"}) /\ state_ # "kDisconnected" /\ UNCHANGED index
  BY <1>1, <1>4, <1>5, <1>6, <1>7, <1>8, <1>9, <1>11, <1>12, <1>13
  DEF Next, LoopStep, Handlers, PollIdle, Swap, EndFunctors, LeaveLoop, WriteSome, UserShutdown,
      RemoveConnectionInLoop, DestroyServer, EndBase, Peer, vars
<1> QED
  BY <1>14 DEF From

\* A call leaves the stack only when the loop is at it, or at the write before it.
LEMMA CallStays ==
    ASSUME TypeOK, StackInv, [Next]_vars,
           NEW op \in {"closeCallback", "connectDistroyed", "remove"}, Has(op)
    PROVE  \/ Has(op)'
           \/ op = "closeCallback" /\ CloseCallback
           \/ op = "connectDistroyed" /\ ConnectDistroyed
           \/ op = "remove" /\ RemoveChannel
<1> USE DEF connVars, serverVars, queueVars, loopVars, historyVars, Return, ThenDo, Doing
<1>1. PICK i \in 1..Len(todo) : todo[i][1] = op
  BY DEF Has, TypeOK
<1>2. todo \in Seq(Call) /\ todo # <<>> /\ Len(todo) \in Nat /\ Head(todo) = todo[1]
  BY <1>1 DEF TypeOK
<1>3. At("write") => i > 2
  <2>1. At("write") => todo[1][1] = "write" /\ todo[2][1] \in {"sent", "drained"}
    BY <1>2, BelowIsPlain DEF At
  <2> QED
    BY <1>1, <2>1
<1>4. UNCHANGED todo => Has(op)'
  BY DEF Has
<1>5. ASSUME i > 1, \/ todo' = Tail(todo)
                    \/ \E a : todo' = <<<<a>>>> \o Tail(todo)
                    \/ \E a, b : todo' = <<<<a>>, <<b>>>> \o Tail(todo)
      PROVE  Has(op)'
  <2>1. CASE todo' = Tail(todo)
    <3>1. i - 1 \in DOMAIN todo' /\ todo'[i - 1] = todo[i]
      BY <1>2, <1>5, <2>1
    <3> QED
      BY <1>1, <3>1 DEF Has
  <2>2. ASSUME NEW a, todo' = <<<<a>>>> \o Tail(todo) PROVE Has(op)'
    <3>1. i \in DOMAIN todo' /\ todo'[i] = todo[i]
      BY <1>2, <1>5, <2>2
    <3> QED
      BY <1>1, <3>1 DEF Has
  <2>3. ASSUME NEW a, NEW b, todo' = <<<<a>>, <<b>>>> \o Tail(todo) PROVE Has(op)'
    <3>1. i + 1 \in DOMAIN todo' /\ todo'[i + 1] = todo[i]
      BY <1>2, <1>5, <2>3
    <3> QED
      BY <1>1, <3>1 DEF Has
  <2> QED
    BY <1>5, <2>1, <2>2, <2>3
<1>6. ASSUME NEW a, NEW b, todo' = <<<<a>>, <<b>>>> \o todo PROVE Has(op)'
  <2>1. i + 2 \in DOMAIN todo' /\ todo'[i + 2] = todo[i]
    BY <1>2, <1>6
  <2> QED
    BY <1>1, <2>1 DEF Has
<1>7. ASSUME i > 2, todo' = SubSeq(todo, 3, Len(todo)) PROVE Has(op)'
  <2>1. i - 2 \in DOMAIN todo' /\ todo'[i - 2] = todo[i]
    BY <1>2, <1>7
  <2> QED
    BY <1>1, <2>1 DEF Has
<1>8. ASSUME NEW other, Doing(other), other # op PROVE i > 1
  BY <1>1, <1>2, <1>8 DEF At
<1> HIDE DEF Has
<1>9. ConnectEstablished \/ Disconnect \/ HandleRead \/ RunCallback \/ HandleClose => Has(op)'
  BY <1>5, <1>8 DEF ConnectEstablished, Disconnect, HandleRead, RunCallback, HandleClose
<1>10. HandleError \/ RunShutdown \/ UserReturn => Has(op)'
  BY <1>5, <1>8 DEF HandleError, RunShutdown, UserReturn
<1>11. ConnectDistroyed => Has(op)' \/ op = "connectDistroyed"
  BY <1>1, DistroyStack DEF TypeOK
<1>12. RemoveChannel => Has(op)' \/ op = "remove"
  BY <1>5, <1>8 DEF RemoveChannel
<1>13. CloseCallback => Has(op)' \/ op = "closeCallback"
  BY <1>5, <1>8 DEF CloseCallback
<1>14. HandleWrite => Has(op)'
  BY <1>5, <1>8 DEF HandleWrite
<1>15. Sent \/ Drained => Has(op)'
  BY <1>3, <1>7 DEF Sent, Drained
<1>16. RunSend => Has(op)'
  BY <1>5, <1>8 DEF RunSend, SendInLoop
<1>17. ASSUME NEW m \in Msgs, UserSend(m) PROVE Has(op)'
  BY <1>4, <1>6, <1>17 DEF UserSend, SendInLoop
<1>18. ASSUME NEW t \in Threads, ThreadStep(t) \/ HandOver(t) \/ ShutdownCheck(t) \/ Release(t)
                                 \/ \E m \in Msgs : SendCheck(t, m)
       PROVE  Has(op)'
  BY <1>4, <1>18 DEF ThreadStep, HandOver, ShutdownCheck, Release, SendCheck, SendQueue, Queue,
                     ShutdownSet, ShutdownQueue
<1>19. ~RunFunctor /\ ~PollReport
  BY <1>2, BusyStep
<1> QED
  BY <1>4, <1>9, <1>10, <1>11, <1>12, <1>13, <1>14, <1>15, <1>16, <1>17, <1>18, <1>19
  DEF Next, LoopStep, Handlers, PollIdle, Swap, EndFunctors, LeaveLoop, WriteSome, UserShutdown,
      RemoveConnectionInLoop, DestroyServer, EndBase, Peer, vars

\* The channel leaves the poller by removeChannel only.
LEMMA IndexStep ==
    ASSUME [Next]_vars, index # "kNew"
    PROVE  index' # "kNew" \/ RemoveChannel
<1>1. ConnectEstablished \/ Disconnect => index' # "kNew"
  BY DEF ConnectEstablished, Disconnect, Enable
<1> QED
  BY <1>1, ChannelStep DEF Enable

------------------------------------------------------------------------------
(* Where calls are made, in any set-up.                                      *)

\* One report calls one of handleRead and handleClose, once.
LEMMA ReportClosers ==
    ASSUME PollReport
    PROVE  \A i, j \in DOMAIN todo' : todo'[i][1] \in Closers /\ todo'[j][1] \in Closers => i = j
<1>1. CASE In
  BY <1>1, ReportCalls DEF Closers
<1>2. CASE ~In
  <2> DEFINE c == Hup /\ ~In
             q == If(c, "handleClose") \o If(Err, "handleError") \o <<>> \o If(Out, "handleWrite")
  <2>1. todo' = q
    BY <1>2 DEF PollReport, If
  <2> HIDE DEF c
  <2>2. \A i \in DOMAIN q : q[i][1] \in Closers => i = 1
    <3>1. CASE c /\ Err
      BY <3>1 DEF If, Closers
    <3>2. CASE c /\ ~Err
      BY <3>2 DEF If, Closers
    <3>3. CASE ~c /\ Err
      BY <3>3 DEF If, Closers
    <3>4. CASE ~c /\ ~Err
      BY <3>4 DEF If, Closers
    <3> QED
      BY <3>1, <3>2, <3>3, <3>4
  <2> QED
    BY <2>1, <2>2
<1> QED
  BY <1>1, <1>2

LEMMA PlaceInit == Init => PlaceInv
<1> SUFFICES ASSUME Init PROVE PlaceInv
  OBVIOUS
<1>1. functors = <<>> /\ next = 1
  BY DEF Init
<1>2. todo = <<>> \/ todo = <<<<"connectEstablished">>>>
  BY DEF Init
<1> QED
  BY <1>1, <1>2 DEF PlaceInv, ChannelOps, Closers

LEMMA PlaceStep == TypeOK /\ StackInv /\ PlaceInv /\ [Next]_vars => PlaceInv'
<1> SUFFICES ASSUME TypeOK, StackInv, PlaceInv, [Next]_vars PROVE PlaceInv'
  OBVIOUS
<1>0. /\ todo \in Seq(Call) /\ DOMAIN todo = 1..Len(todo) /\ Len(todo) \in Nat
      /\ todo' \in Seq(Call) /\ DOMAIN (todo') = 1..Len(todo') /\ Len(todo') \in Nat
      /\ phase = "poll" => todo = <<>>
  <2>1. todo' \in Seq(Call)
    BY TypeStep DEF TypeOK
  <2>2. todo \in Seq(Call) /\ (phase = "poll" => todo = <<>>)
    BY DEF TypeOK
  <2> QED
    BY <2>1, <2>2
<1>1. phase' \in {"poll", "handle"} => functors' = <<>> /\ next' = 1
  BY PhaseStep, FunctorsStep DEF PlaceInv, Swap, EndFunctors, LeaveLoop, RunFunctor
<1>2. CASE RunFunctor
  <2>1. /\ todo' = <<functors[next]>> /\ functors[next] \in Functor /\ next \in DOMAIN functors
        /\ functors' = functors /\ phase' \notin {"poll", "handle"}
    BY <1>2 DEF RunFunctor, TypeOK
  <2>2. functors[next][1] \in FunctorOps \cup {"send"}
    BY <2>1, CallNames
  <2>3. functors[next][1] \in {"connectDistroyed", "remove"} => HoldsShared(functors')
    BY <2>1, <2>2 DEF HoldsShared, Shared, FunctorOps
  <2>4. todo'[1][1] \notin ChannelOps /\ Len(todo') = 1
    BY <2>1, <2>2 DEF ChannelOps, Closers, FunctorOps
  <2> QED
    BY <1>0, <1>1, <2>1, <2>3, <2>4 DEF PlaceInv, ChannelOps
<1>3. CASE PollReport
  <2>1. phase' = "handle" /\ index' = index /\ index # "kNew"
    BY <1>3 DEF PollReport, Ready, connVars
  <2>2. \A i \in DOMAIN todo' : todo'[i][1] \notin {"connectDistroyed", "remove"}
    BY <1>3, ReportCalls
  <2> QED
    BY <1>1, <1>3, <2>1, <2>2, ReportClosers DEF PlaceInv
<1>4. CASE todo # <<>>
  <2>0. ~RunFunctor /\ ~PollReport /\ UNCHANGED <<phase, functors>>
    BY <1>4, BusyStep
  <2>1. ASSUME NEW i \in DOMAIN todo', todo'[i][1] \in ChannelOps
        PROVE  phase' = "handle" /\ index' # "kNew"
    <3>1. phase = "handle" /\ index # "kNew"
      <4>1. Kept(i) => \E j \in DOMAIN todo : todo[j][1] \in ChannelOps
        BY <1>0, <2>1 DEF Kept, KeptIn
      <4>2. ~Kept(i) => HandleClose \/ HandleWrite
        BY <2>0, <2>1, NewOps DEF ChannelOps, Closers
      <4>3. HandleClose \/ HandleWrite => todo[1][1] \in ChannelOps /\ 1 \in DOMAIN todo
        BY <1>0 DEF HandleClose, HandleWrite, Doing, At, ChannelOps, Closers
      <4> QED
        BY <4>1, <4>2, <4>3 DEF PlaceInv
    <3>2. ~RemoveChannel
      BY <1>0, <3>1 DEF RemoveChannel, Doing, At, PlaceInv
    <3> QED
      BY <2>0, <3>1, <3>2, IndexStep
  <2>2. ASSUME NEW i \in DOMAIN todo', todo'[i][1] \in {"connectDistroyed", "remove"}
        PROVE  phase' \notin {"poll", "handle"} /\ HoldsShared(functors)' /\ i = Len(todo')
    <3>1. CASE Kept(i)
      <4>1. PICK j \in 1..Len(todo) : j = i + Len(todo) - Len(todo') /\ todo'[i] = todo[j]
        BY <3>1 DEF Kept, KeptIn
      <4>2. phase \notin {"poll", "handle"} /\ HoldsShared(functors) /\ j = Len(todo)
        BY <1>0, <2>2, <4>1 DEF PlaceInv
      <4> QED
        BY <1>0, <2>0, <4>1, <4>2 DEF HoldsShared
    <3>2. CASE ~Kept(i)
      <4>1. ConnectDistroyed
        BY <2>0, <2>2, <3>2, NewOps
      <4>2. todo[1][1] = "connectDistroyed"
        BY <4>1, DistroyStack
      <4>3. phase \notin {"poll", "handle"} /\ HoldsShared(functors)
        BY <1>0, <1>4, <4>2 DEF PlaceInv
      <4>5. i = Len(todo')
        <5>1. CASE todo' = <<<<"disconnect">>, <<"remove">>>>
          BY <2>2, <5>1
        <5>2. CASE todo' = <<<<"remove">>>>
          BY <2>2, <5>2
        <5> QED
          BY <4>1, <5>1, <5>2, DistroyStack
      <4> QED
        BY <2>0, <4>3, <4>5 DEF HoldsShared
    <3> QED
      BY <3>1, <3>2
  <2>3. ASSUME NEW i \in DOMAIN todo', NEW j \in DOMAIN todo',
               todo'[i][1] \in Closers, todo'[j][1] \in Closers
        PROVE  i = j
    <3>1. KeptIn(todo, todo', i) /\ KeptIn(todo, todo', j)
      BY <2>0, <2>3, NewOps DEF Kept, Closers
    <3>2. i + Len(todo) - Len(todo') = j + Len(todo) - Len(todo')
      BY <1>0, <2>3, <3>1 DEF KeptIn, PlaceInv
    <3> QED
      BY <1>0, <3>2
  <2> QED
    BY <1>1, <2>1, <2>2, <2>3 DEF PlaceInv
<1>5. CASE todo = <<>> /\ ~RunFunctor /\ ~PollReport
  <2>1. \A i \in DOMAIN todo' : todo'[i][1] \in {"user", "write", "sent"}
    <3> SUFFICES ASSUME NEW i \in DOMAIN todo' PROVE todo'[i][1] \in {"user", "write", "sent"}
      OBVIOUS
    <3>1. ~Kept(i)
      BY <1>0, <1>5 DEF Kept, KeptIn
    <3>2. ~HandleClose /\ ~HandleWrite /\ ~ConnectDistroyed
      BY <1>5 DEF HandleClose, HandleWrite, ConnectDistroyed, Doing, At
    <3> QED
      BY <1>5, <3>1, <3>2, NewOps
  <2> QED
    BY <1>1, <2>1 DEF PlaceInv, ChannelOps, Closers
<1> QED
  BY <1>2, <1>3, <1>4, <1>5

------------------------------------------------------------------------------
(* What the user has heard, in any set-up.                                   *)

\* What can happen before connectEstablished.
LEMMA FreshSteps ==
    ASSUME TypeOK, FreshInv, [Next]_vars, state_ = "kConnecting", ~ConnectEstablished
    PROVE  UNCHANGED <<state_, events_, index, outputBuffer_, downs, upcall, todo>> \/ RunFunctor
<1>1. \A op : Doing(op) => op = "connectEstablished"
  BY BusyIsNotFresh
<1>2. ~(Handlers /\ ~ConnectEstablished) /\ ~UserShutdown /\ \A m \in Msgs : ~UserSend(m)
  BY <1>1 DEF Handlers, ConnectDistroyed, Disconnect, RemoveChannel, HandleRead, HandleError,
              HandleClose,
              CloseCallback, HandleWrite, WriteSome, Sent, Drained, RunSend, RunShutdown,
              RunCallback, UserReturn, UserSend, UserShutdown
<1>3. \A t \in Threads : ~HandOver(t)
  BY <1>1 DEF HandOver
<1>4. \/ PollIdle \/ Swap \/ RunFunctor \/ EndFunctors \/ LeaveLoop
      \/ RemoveConnectionInLoop \/ DestroyServer \/ EndBase \/ Peer
      \/ UNCHANGED vars
  BY <1>2, <1>3, BusyIsNotFresh, ThreadNotFresh DEF Next, LoopStep
<1> QED
  BY <1>4 DEF PollIdle, Swap, EndFunctors, LeaveLoop, RemoveConnectionInLoop, DestroyServer,
              EndBase, Peer,
              connVars, loopVars, historyVars, vars

\* A connection comes up once.
LEMMA UpOnce ==
    ASSUME [Next]_vars, ~ConnectEstablished, state_' = "kConnected"
    PROVE  state_ = "kConnected" /\ ~HandleClose /\ ~Disconnect
BY DEF Next, LoopStep, Handlers, ThreadStep, PollIdle, PollReport, Swap, RunFunctor,
       EndFunctors, LeaveLoop, ConnectDistroyed, Disconnect, RemoveChannel, HandleRead,
       HandleError, HandleClose,
       CloseCallback, HandleWrite, WriteSome, Sent, Drained, RunSend, RunShutdown, RunCallback,
       UserReturn, UserSend, UserShutdown, HandOver, SendCheck, SendQueue, Queue, ShutdownCheck,
       ShutdownSet, ShutdownQueue, Release, RemoveConnectionInLoop, DestroyServer, EndBase, Peer,
       connVars, vars

LEMMA AgeInit == Init => AgeInv
BY DEF Init, Constructed, AgeInv

\* connectDistroyed goes on to disconnect what it found up.
LEMMA DisconnectComes ==
    ASSUME TypeOK, StackInv, [Next]_vars, Has("disconnect")'
    PROVE  ~Disconnect /\ (Has("disconnect") \/ (ConnectDistroyed /\ state_ = "kConnected"))
<1>1. PICK i \in DOMAIN todo' : todo'[i][1] = "disconnect"
  BY DEF Has
<1>2. todo' \in Seq(Call)
  BY TypeStep DEF TypeOK
<1>3. ~Disconnect
  <2> SUFFICES ASSUME Disconnect PROVE FALSE
    OBVIOUS
  <2>1. Len(todo') = 2 /\ todo'[1][1] = "user" /\ todo'[2][1] = "remove"
    BY DistroyStack
  <2> QED
    BY <1>1, <1>2, <2>1
<1>4. ~PollReport
  BY <1>1, ReportCalls
<1>5. ~RunFunctor
  <2> SUFFICES ASSUME RunFunctor PROVE FALSE
    OBVIOUS
  <2>1. todo' = <<functors[next]>> /\ functors[next] \in Functor
    BY DEF RunFunctor, TypeOK
  <2> QED
    BY <1>1, <2>1, CallNames DEF FunctorOps
<1>6. CASE Kept(i)
  BY <1>1, <1>3, <1>6 DEF Kept, KeptIn, Has, TypeOK
<1>7. CASE ConnectDistroyed
  <2>1. todo' # <<<<"remove">>>>
    BY <1>1
  <2> QED
    BY <1>3, <1>7, <2>1, DistroyStack
<1> QED
  BY <1>1, <1>3, <1>4, <1>5, <1>6, <1>7, NewOps

LEMMA AgeStep == TypeOK /\ StackInv /\ FreshInv /\ AgeInv /\ [Next]_vars => AgeInv'
<1> SUFFICES ASSUME TypeOK, StackInv, FreshInv, AgeInv, [Next]_vars PROVE AgeInv'
  OBVIOUS
<1>1. CASE ConnectEstablished
  <2>1. state_ = "kConnecting" /\ state_' = "kConnected" /\ upcall' = "up" /\ downs' = downs
    <3>1. Doing("connectEstablished") => Has("connectEstablished")
      BY DEF Doing, At, Has, TypeOK
    <3> QED
      BY <1>1, <3>1 DEF ConnectEstablished, FreshInv
  <2> QED
    BY <2>1 DEF AgeInv, FreshInv
<1>2. CASE ~ConnectEstablished /\ state_ = "kConnecting"
  <2>1. UNCHANGED <<state_, upcall, downs>>
    BY <1>2, FreshSteps DEF RunFunctor, connVars, historyVars
  <2> QED
    BY <1>2, <2>1 DEF AgeInv, FreshInv
<1>3. CASE ~ConnectEstablished /\ state_ # "kConnecting"
  <2>1. state_' # "kConnecting" /\ upcall # "none"
    BY <1>3, FreshEnds DEF AgeInv
  <2>2. upcall' # "none"
    BY <2>1, ReadStep DEF HandleRead, HandleClose, Disconnect
  <2>3. state_' = "kConnected" => downs' = 0
    BY <1>3, UpOnce, ReadStep DEF AgeInv, HandleRead
  <2>4. Has("disconnect")' => downs' = 0
    <3>1. Has("disconnect") => ~HandleClose
      BY DEF HandleClose, Doing, At, Has, StackInv, TypeOK
    <3>2. ConnectDistroyed => ~HandleClose
      BY DistroyStack DEF HandleClose, Doing, At, TypeOK
    <3> QED
      BY <3>1, <3>2, DisconnectComes, ReadStep DEF AgeInv, HandleRead
  <2> QED
    BY <2>1, <2>2, <2>3, <2>4 DEF AgeInv
<1> QED
  BY <1>1, <1>2, <1>3

------------------------------------------------------------------------------
(* The line of functors still to be run.                                     *)

LEMMA LineIsSeq == ASSUME TypeOK PROVE Line \in Seq(Functor)
<1>1. functors \in Seq(Functor) /\ pending \in Seq(Functor) /\ next \in Nat /\ next >= 1
  BY DEF TypeOK
<1>2. SubSeq(functors, next, Len(functors)) \in Seq(Functor)
  BY <1>1
<1> QED
  BY <1>1, <1>2 DEF Line

\* With nothing left of the vector, the line is what is pending.
LEMMA LineIsPending ==
    ASSUME NEW f \in Seq(Functor), NEW p \in Seq(Functor), NEW n \in Nat, n > Len(f)
    PROVE  SubSeq(f, n, Len(f)) \o p = p
<1>1. SubSeq(f, n, Len(f)) = <<>>
  BY EmptySeq
<1> QED
  BY <1>1, ConcatEmptySeq

LEMMA LineAppend ==
    ASSUME TypeOK, UNCHANGED <<functors, next>>, NEW f \in Functor, pending' = Append(pending, f)
    PROVE  Line' = Append(Line, f)
<1> DEFINE r == SubSeq(functors, next, Len(functors))
<1>1. r \in Seq(Functor) /\ pending \in Seq(Functor)
  BY DEF TypeOK
<1>2. Line = r \o pending /\ Line' = r \o Append(pending, f)
  BY DEF Line
<1> HIDE DEF r
<1>3. r \o Append(pending, f) = Append(r \o pending, f)
  <2>1. /\ r \o Append(pending, f) \in Seq(Functor) /\ Append(r \o pending, f) \in Seq(Functor)
        /\ Len(r \o Append(pending, f)) = Len(Append(r \o pending, f))
    BY <1>1
  <2>2. \A i \in 1..Len(r \o Append(pending, f)) :
           (r \o Append(pending, f))[i] = Append(r \o pending, f)[i]
    BY <1>1
  <2> QED
    BY <2>1, <2>2, SeqEqual
<1> QED
  BY <1>2, <1>3

\* Dropping the first element of the first part.
LEMMA ConcatTail ==
    ASSUME NEW r \in Seq(Functor), NEW q \in Seq(Functor), NEW p \in Seq(Functor),
           Len(r) = Len(q) + 1, \A i \in 1..Len(q) : q[i] = r[i + 1]
    PROVE  q \o p = Tail(r \o p)
<1> DEFINE s == r \o p
           u == q \o p
           v == Tail(s)
<1>1. /\ s \in Seq(Functor) /\ Len(s) = Len(r) + Len(p)
      /\ \A i \in 1 .. Len(r) + Len(p) : s[i] = IF i <= Len(r) THEN r[i] ELSE p[i - Len(r)]
  BY ConcatProperties
<1>2. /\ u \in Seq(Functor) /\ Len(u) = Len(q) + Len(p)
      /\ \A i \in 1 .. Len(q) + Len(p) : u[i] = IF i <= Len(q) THEN q[i] ELSE p[i - Len(q)]
  BY ConcatProperties
<1>3. Len(r) \in Nat /\ Len(q) \in Nat /\ Len(p) \in Nat
  OBVIOUS
<1> HIDE DEF s, u
<1>4. s # <<>>
  BY <1>1, <1>3
<1>5. v \in Seq(Functor) /\ Len(v) = Len(s) - 1 /\ \A i \in 1..Len(v) : v[i] = s[i + 1]
  BY <1>1, <1>4, HeadTailProperties
<1> HIDE DEF v
<1>6. Len(u) = Len(v)
  BY <1>1, <1>2, <1>3, <1>5
<1>7. ASSUME NEW i \in 1..Len(u) PROVE u[i] = v[i]
  <2>1. i + 1 \in 1..Len(s) /\ v[i] = s[i + 1]
    BY <1>1, <1>2, <1>3, <1>5, <1>6
  <2>2. CASE i <= Len(q)
    <3>1. u[i] = q[i] /\ s[i + 1] = r[i + 1] /\ i \in 1..Len(q)
      BY <1>1, <1>2, <1>3, <2>1, <2>2
    <3> QED
      BY <2>1, <3>1
  <2>3. CASE i > Len(q)
    <3>1. u[i] = p[i - Len(q)] /\ s[i + 1] = p[i + 1 - Len(r)]
      BY <1>1, <1>2, <1>3, <2>1, <2>3
    <3> QED
      BY <1>3, <2>1, <3>1
  <2> QED
    BY <1>2, <1>3, <2>2, <2>3
<1>8. u = v
  BY <1>2, <1>5, <1>6, <1>7, SeqEqual
<1> QED
  BY <1>8 DEF s, u, v

LEMMA LineRun ==
    ASSUME TypeOK, RunFunctor
    PROVE  Line # <<>> /\ todo' = <<Head(Line)>> /\ Line' = Tail(Line)
<1>1. /\ functors \in Seq(Functor) /\ pending \in Seq(Functor) /\ next \in 1..Len(functors)
      /\ Len(functors) \in Nat
      /\ functors' = functors /\ pending' = pending /\ next' = next + 1 /\ todo' = <<functors[next]>>
  BY DEF TypeOK, RunFunctor
<1> DEFINE r == SubSeq(functors, next, Len(functors))
           q == SubSeq(functors, next + 1, Len(functors))
<1>2. /\ r \in Seq(Functor) /\ Len(r) = Len(functors) - next + 1
      /\ \A i \in 1..Len(r) : r[i] = functors[next + i - 1]
  BY <1>1
<1>3. /\ q \in Seq(Functor) /\ Len(q) = Len(functors) - next
      /\ \A i \in 1..Len(q) : q[i] = functors[next + i]
  BY <1>1
<1>4. Line = r \o pending /\ Line' = q \o pending
  BY <1>1 DEF Line
<1> HIDE DEF r, q
<1>5. r # <<>> /\ Head(r) = functors[next] /\ Len(r) >= 1
  BY <1>1, <1>2
<1>6. r \o pending # <<>> /\ Head(r \o pending) = r[1] /\ Head(r) = r[1]
  BY <1>1, <1>2, <1>5
<1>7. q \o pending = Tail(r \o pending)
  <2>1. Len(r) = Len(q) + 1
    BY <1>1, <1>2, <1>3
  <2>2. ASSUME NEW i \in 1..Len(q) PROVE q[i] = r[i + 1]
    <3>1. i + 1 \in 1..Len(r) /\ next + (i + 1) - 1 = next + i
      BY <1>1, <1>2, <1>3
    <3> QED
      BY <1>2, <1>3, <3>1
  <2> QED
    BY <1>1, <1>2, <1>3, <2>1, <2>2, ConcatTail
<1> QED
  BY <1>1, <1>4, <1>5, <1>6, <1>7

\* A new functor at the end of the line, and whose it is.
Newcomer(f) == \/ f \in Tells
               \/ f = <<"connectDistroyed">> /\ QueueRemoval
               \/ f = <<"shutdown">> /\ \E t \in Threads : ShutdownQueue(t)
               \/ \E t \in Threads, m \in Msgs : f = <<"send", m>> /\ SendQueue(t, m)

LEMMA LineStep ==
    ASSUME TypeOK, PlaceInv, [Next]_vars
    PROVE  \/ RunFunctor /\ Line # <<>> /\ todo' = <<Head(Line)>> /\ Line' = Tail(Line)
           \/ ~RunFunctor /\ UNCHANGED Line
           \/ ~RunFunctor /\ LeaveLoop /\ Line' = <<>>
           \/ ~RunFunctor /\ \E f \in Functor : Newcomer(f) /\ Line' = Append(Line, f)
<1>1. /\ functors \in Seq(Functor) /\ pending \in Seq(Functor) /\ next \in Nat /\ next >= 1
      /\ Len(functors) \in Nat
  BY DEF TypeOK
<1>2. CASE Swap
  <2>1. /\ functors = <<>> /\ next = 1 /\ functors' = pending /\ pending' = <<>> /\ next' = 1
        /\ ~RunFunctor
    BY <1>2 DEF Swap, PlaceInv, RunFunctor
  <2>2. Line = pending
    BY <1>1, <2>1, LineIsPending DEF Line
  <2>3. SubSeq(pending, 1, Len(pending)) = pending
    BY <1>1, SubSeqFull
  <2>4. Line' = pending
    BY <1>1, <2>1, <2>3, ConcatEmptySeq DEF Line
  <2> QED
    BY <2>1, <2>2, <2>4
<1>3. CASE EndFunctors
  <2>1. next > Len(functors) /\ functors' = <<>> /\ next' = 1 /\ pending' = pending /\ ~RunFunctor
    BY <1>1, <1>3 DEF EndFunctors, RunFunctor
  <2>2. Line = pending
    BY <1>1, <2>1, LineIsPending DEF Line
  <2>3. <<>> \in Seq(Functor) /\ Len(<<>>) = 0
    BY EmptySeq
  <2>4. SubSeq(<<>>, 1, Len(<<>>)) \o pending = pending
    BY <1>1, <2>3, LineIsPending
  <2> QED
    BY <2>1, <2>2, <2>4 DEF Line
<1>4. CASE RunFunctor
  BY <1>4, LineRun
<1>l. CASE LeaveLoop
  <2>1. functors' = <<>> /\ pending' = <<>> /\ next' = 1 /\ ~RunFunctor
    BY <1>1, <1>l DEF LeaveLoop, RunFunctor
  <2>2. SubSeq(<<>>, 1, Len(<<>>)) \o <<>> = <<>>
    BY EmptySeq, LineIsPending
  <2> QED
    BY <1>l, <2>1, <2>2 DEF Line
<1>5. CASE ~Swap /\ ~EndFunctors /\ ~LeaveLoop /\ ~RunFunctor
  <2>1. UNCHANGED <<functors, next>>
    BY <1>5, FunctorsStep
  <2>2. UNCHANGED pending \/ \E f \in Functor : Newcomer(f) /\ pending' = Append(pending, f)
    <3>1. \A f \in Tells : f \in Functor
      BY CallNames DEF Tells, FunctorOps
    <3>2. <<"connectDistroyed">> \in Functor /\ <<"shutdown">> \in Functor
      BY CallNames DEF FunctorOps
    <3>3. QueueTell => \E f \in Functor : Newcomer(f) /\ pending' = Append(pending, f)
      BY <3>1 DEF QueueTell, Newcomer
    <3>4. QueueRemoval => \E f \in Functor : Newcomer(f) /\ pending' = Append(pending, f)
      BY <3>2 DEF QueueRemoval, Newcomer
    <3>5. ASSUME NEW t \in Threads, ShutdownQueue(t)
          PROVE  UNCHANGED pending \/ \E f \in Functor : Newcomer(f) /\ pending' = Append(pending, f)
      <4>1. UNCHANGED pending \/ pending' = Append(pending, <<"shutdown">>)
        BY <3>5 DEF ShutdownQueue, Queue
      <4> QED
        BY <3>2, <3>5, <4>1 DEF Newcomer
    <3>6. ASSUME NEW t \in Threads, NEW m \in Msgs, SendQueue(t, m)
          PROVE  UNCHANGED pending \/ \E f \in Functor : Newcomer(f) /\ pending' = Append(pending, f)
      <4>1. /\ UNCHANGED pending \/ pending' = Append(pending, <<"send", m>>)
            /\ <<"send", m>> \in Functor
        BY <3>6, CallNames DEF SendQueue, Queue
      <4> QED
        BY <3>6, <4>1 DEF Newcomer
    <3> QED
      BY <1>5, <3>3, <3>4, <3>5, <3>6, QueueKinds
  <2>3. UNCHANGED pending => UNCHANGED Line
    BY <2>1 DEF Line
  <2> QED
    BY <1>5, <2>1, <2>2, <2>3, LineAppend
<1> QED
  BY <1>2, <1>3, <1>4, <1>5, <1>l

\* What is queued was, or is new; and stays, is run, or dies with the loop.
LEMMA QueuedStep ==
    ASSUME TypeOK, PlaceInv, [Next]_vars, NEW op
    PROVE  /\ Queued(op)' => Queued(op) \/ \E f \in Functor : f[1] = op /\ Newcomer(f)
           /\ Queued(op) => Queued(op)' \/ (RunFunctor /\ Has(op)') \/ LeaveLoop
           /\ RunFunctor /\ Has(op)' => Queued(op)
<1>1. Line \in Seq(Functor) /\ Len(Line) \in Nat /\ DOMAIN Line = 1..Len(Line)
  BY LineIsSeq
<1>2. CASE RunFunctor /\ Line # <<>> /\ todo' = <<Head(Line)>> /\ Line' = Tail(Line)
  <2>1. /\ Head(Line) = Line[1] /\ 1 \in DOMAIN Line
        /\ Len(Line') = Len(Line) - 1 /\ DOMAIN (Line') = 1 .. Len(Line) - 1
        /\ \A i \in 1 .. Len(Line) - 1 : Line'[i] = Line[i + 1]
    BY <1>1, <1>2
  <2>2. Has(op)' <=> Line[1][1] = op
    BY <1>2, <2>1 DEF Has
  <2>3. Queued(op)' => Queued(op)
    BY <1>1, <2>1 DEF Queued
  <2>4. Queued(op) => Queued(op)' \/ Line[1][1] = op
    <3> SUFFICES ASSUME NEW i \in DOMAIN Line, Line[i][1] = op, i # 1 PROVE Queued(op)'
      BY DEF Queued
    <3>1. i - 1 \in 1 .. Len(Line) - 1 /\ Line'[i - 1] = Line[i]
      BY <1>1, <2>1
    <3> QED
      BY <2>1, <3>1 DEF Queued
  <2> QED
    BY <1>2, <2>1, <2>2, <2>3, <2>4 DEF Queued
<1>3. CASE ~RunFunctor /\ UNCHANGED Line
  BY <1>3 DEF Queued
<1>4. ASSUME NEW f \in Functor, ~RunFunctor, Newcomer(f), Line' = Append(Line, f)
      PROVE  /\ Queued(op)' => Queued(op) \/ \E g \in Functor : g[1] = op /\ Newcomer(g)
             /\ Queued(op) => Queued(op)' \/ (RunFunctor /\ Has(op)')
             /\ RunFunctor /\ Has(op)' => Queued(op)
  <2>1. /\ DOMAIN (Line') = 1 .. Len(Line) + 1
        /\ \A i \in 1 .. Len(Line) + 1 : Line'[i] = IF i <= Len(Line) THEN Line[i] ELSE f
    BY <1>1, <1>4
  <2>2. Queued(op)' => Queued(op) \/ f[1] = op
    BY <1>1, <2>1 DEF Queued
  <2>3. Queued(op) => Queued(op)'
    BY <1>1, <2>1 DEF Queued
  <2> QED
    BY <1>4, <2>2, <2>3
<1>5. CASE ~RunFunctor /\ LeaveLoop /\ Line' = <<>>
  <2>1. ~Queued(op)'
    BY <1>5 DEF Queued
  <2> QED
    BY <1>5, <2>1
<1> QED
  BY <1>2, <1>3, <1>4, <1>5, LineStep

\* A removal that is queued is in the line.
LEMMA RemovalQueued ==
    ASSUME TypeOK, QueueRemoval
    PROVE  Queued("connectDistroyed")'
<1>1. UNCHANGED <<functors, next>> /\ pending' = Append(pending, <<"connectDistroyed">>)
  BY DEF QueueRemoval, CloseCallback, RemoveConnectionInLoop, DestroyServer
<1>2. Line \in Seq(Functor) /\ <<"connectDistroyed">> \in Functor
  BY LineIsSeq, CallNames DEF FunctorOps
<1>3. Line' = Append(Line, <<"connectDistroyed">>)
  BY <1>1, <1>2, LineAppend
<1>4. Len(Line) + 1 \in DOMAIN (Line') /\ Line'[Len(Line) + 1] = <<"connectDistroyed">>
  BY <1>2, <1>3
<1> QED
  BY <1>4 DEF Queued

\* How a call that is no callback, write or handler comes to be made.
LEMMA HasComes ==
    ASSUME TypeOK, StackInv, PlaceInv, [Next]_vars, NEW op, Has(op)',
           op \notin {"user", "write", "handleClose", "handleError", "handleRead", "handleWrite"}
    PROVE  \/ Has(op)
           \/ RunFunctor /\ Queued(op)
           \/ op = "closeCallback" /\ HandleClose
           \/ op = "drained" /\ HandleWrite
           \/ op = "sent" /\ (RunSend \/ \E m \in Msgs : UserSend(m))
           \/ op \in {"remove", "disconnect"} /\ ConnectDistroyed
<1>1. PICK i \in DOMAIN todo' : todo'[i][1] = op
  BY DEF Has
<1>2. CASE RunFunctor
  BY <1>2, QueuedStep
<1>3. CASE PollReport
  BY <1>1, <1>3, ReportCalls
<1>4. CASE ~RunFunctor /\ ~PollReport /\ Kept(i)
  <2>1. \E j \in 1..Len(todo) : todo[j][1] = op
    BY <1>1, <1>4 DEF Kept, KeptIn
  <2> QED
    BY <2>1 DEF Has, TypeOK
<1>5. CASE ~RunFunctor /\ ~PollReport /\ ~Kept(i)
  BY <1>1, <1>5, NewOps
<1> QED
  BY <1>2, <1>3, <1>4, <1>5

\* With no thread about to queue it, no send or shutdown comes to be run.
LEMMA NoneStep ==
    ASSUME TypeOK, StackInv, PlaceInv, [Next]_vars, NEW op \in {"send", "shutdown"},
           ~Queued(op), ~Has(op),
           op = "send" => \A t \in Threads, m \in Msgs : ~SendQueue(t, m),
           op = "shutdown" => \A t \in Threads : ~ShutdownQueue(t)
    PROVE  ~Queued(op)' /\ ~Has(op)'
<1>1. \A f \in Functor : Newcomer(f) => f[1] # op
  BY DEF Newcomer, Tells
<1>2. ~Queued(op)'
  BY <1>1, QueuedStep
<1>3. ~Has(op)'
  BY HasComes
<1> QED
  BY <1>2, <1>3

------------------------------------------------------------------------------
(* Leaving the poller, and coming back.                                      *)

\* What holds in every set-up.
BaseInv == ConnectionInv /\ PlaceInv /\ AgeInv

LEMMA BaseInductive == Spec => []BaseInv
<1>1. Init => PlaceInv /\ AgeInv
  BY PlaceInit, AgeInit
<1>2. ConnectionInv /\ ConnectionInv' /\ PlaceInv /\ AgeInv /\ [Next]_vars => PlaceInv' /\ AgeInv'
  BY PlaceStep, AgeStep DEF ConnectionInv
<1>3. Spec => [](PlaceInv /\ AgeInv)
  BY <1>1, <1>2, Inductive, PTL DEF Spec
<1> QED
  BY <1>3, Inductive, PTL DEF BaseInv

\* At the head of the calls, in the calls.
LEMMA DoingHas == ASSUME TypeOK, NEW op, Doing(op) PROVE Has(op) /\ todo # <<>>
BY DEF Doing, At, Has, TypeOK

\* The rest of sendInLoop finds the channel in the poller.
LEMMA SentStep ==
    ASSUME BaseInv, SendInv, [Next]_vars
    PROVE  Has("sent")' => index' # "kNew"
<1> SUFFICES ASSUME NEW i \in DOMAIN todo', todo'[i][1] = "sent" PROVE index' # "kNew"
  BY DEF Has
<1>0. TypeOK /\ StackInv /\ PlaceInv /\ UpInv
  BY DEF BaseInv, ConnectionInv
<1>1. CASE RunFunctor
  <2>1. todo' = <<functors[next]>> /\ functors[next] \in Functor
    BY <1>0, <1>1 DEF RunFunctor, TypeOK
  <2> QED
    BY <2>1, CallNames DEF FunctorOps
<1>2. CASE PollReport
  BY <1>2, ReportCalls
<1>3. CASE ~RunFunctor /\ ~PollReport /\ Kept(i)
  <2>1. Has("sent")
    BY <1>0, <1>3 DEF Kept, KeptIn, Has, TypeOK
  <2>2. ~RemoveChannel
    <3> SUFFICES ASSUME RemoveChannel PROVE FALSE
      OBVIOUS
    <3>1. todo # <<>> /\ todo[1][1] = "remove" /\ todo' = Tail(todo)
      BY <1>0 DEF RemoveChannel, Doing, At, Return, TypeOK
    <3>2. Len(todo) = 1
      BY <1>0, <3>1 DEF PlaceInv, TypeOK
    <3>3. Tail(todo) \in Seq(Call) /\ Len(Tail(todo)) = 0
      BY <1>0, <3>1, <3>2, TodoFacts DEF TypeOK
    <3> QED
      BY <3>1, <3>3
  <2> QED
    BY <2>1, <2>2, IndexStep DEF SendInv
<1>4. CASE ~RunFunctor /\ ~PollReport /\ ~Kept(i)
  <2>1. (RunSend \/ \E m \in Msgs : UserSend(m)) /\ state_ # "kDisconnected" /\ UNCHANGED index
    BY <1>0, <1>4, NewOps
  <2>2. RunSend => index # "kNew"
    BY <1>0, <2>1, DoingHas DEF RunSend, SendInv
  <2>3. (\E m \in Msgs : UserSend(m)) => index # "kNew"
    BY <1>0 DEF UserSend, UpInv
  <2> QED
    BY <2>1, <2>2, <2>3
<1> QED
  BY <1>1, <1>2, <1>3, <1>4

\* Only connectEstablished brings a channel into the poller.
LEMMA NoReturn ==
    ASSUME BaseInv, SendInv, [Next]_vars, index = "kNew", ~ConnectEstablished
    PROVE  index' = "kNew"
<1>0. TypeOK /\ StackInv /\ PlaceInv /\ UpInv
  BY DEF BaseInv, ConnectionInv
<1>1. state_ # "kConnected"
  BY <1>0 DEF UpInv
<1>2. CASE ~Writes
  <2>1. UNCHANGED index \/ Disconnect \/ RemoveChannel
    BY <1>0, <1>2, QuietStep
  <2>2. ~Disconnect
    BY <1>0, DoingHas DEF Disconnect, UpInv
  <2> QED
    BY <2>1, <2>2 DEF RemoveChannel
<1>3. HandleWrite \/ WriteSome => UNCHANGED index
  BY DEF HandleWrite, WriteSome, connVars
<1>4. ~Sent
  <2>1. Sent => todo[2][1] = "sent" /\ At("write")
    BY DEF Sent, Doing
  <2>2. At("write") => Len(todo) >= 2
    BY <1>0, BelowIsPlain DEF At
  <2>3. Sent => Has("sent")
    BY <1>0, <2>1, <2>2 DEF Has, TypeOK
  <2> QED
    BY <2>3 DEF SendInv
<1>5. ~Drained
  <2>1. Drained => todo[2][1] = "drained" /\ At("write")
    BY DEF Drained, Doing
  <2>2. At("write") => Len(todo) >= 2
    BY <1>0, BelowIsPlain DEF At
  <2>3. Drained => 2 \in DOMAIN todo /\ todo[2][1] \in ChannelOps
    BY <1>0, <2>1, <2>2 DEF ChannelOps, TypeOK
  <2> QED
    BY <1>0, <2>3 DEF PlaceInv
<1>6. RunSend => UNCHANGED index
  BY <1>0, DoingHas DEF RunSend, SendInLoop, SendInv
<1>7. \A m \in Msgs : ~UserSend(m)
  BY <1>1 DEF UserSend
<1> QED
  BY <1>2, <1>3, <1>4, <1>5, <1>6, <1>7 DEF Writes

\* connectDistroyed is followed by the removal.
LEMMA DestroyedRemoves ==
    ASSUME TypeOK, StackInv, ConnectDistroyed
    PROVE  Has("remove")'
<1>1. CASE todo' = <<<<"remove">>>>
  BY <1>1 DEF Has
<1>2. CASE todo' = <<<<"disconnect">>, <<"remove">>>>
  <2>1. 2 \in DOMAIN todo' /\ todo'[2] = <<"remove">>
    BY <1>2
  <2> QED
    BY <2>1 DEF Has
<1> QED
  BY <1>1, <1>2, DistroyStack

\* A removal under way goes on to its end, or to the loop's.
LEMMA LeavingStep ==
    ASSUME TypeOK, StackInv, PlaceInv, [Next]_vars, Leaving
    PROVE  Leaving' \/ RemoveChannel \/ LeaveLoop
<1>1. CASE Queued("connectDistroyed")
  BY <1>1, QueuedStep DEF Leaving
<1>2. CASE Has("connectDistroyed")
  BY <1>2, CallStays, DestroyedRemoves DEF Leaving
<1>3. CASE Has("remove")
  BY <1>3, CallStays DEF Leaving
<1> QED
  BY <1>1, <1>2, <1>3 DEF Leaving

\* The map gives the connection up with its removal queued.
LEMMA MapStep == [Next]_vars /\ connections_ /\ ~connections_' => QueueRemoval
<1>1. [Next]_vars => \/ UNCHANGED connections_
                     \/ CloseCallback \/ RemoveConnectionInLoop \/ DestroyServer
  BY DEF Next, LoopStep, Handlers, ThreadStep, PollIdle, PollReport, Swap, RunFunctor, EndFunctors,
         LeaveLoop,
         ConnectEstablished, ConnectDistroyed, Disconnect, RemoveChannel, HandleRead, HandleError,
         HandleClose,
         HandleWrite, WriteSome, Sent, Drained, RunSend, RunShutdown, RunCallback,
         UserReturn, UserSend, UserShutdown, HandOver, SendCheck, SendQueue, Queue, ShutdownCheck,
         ShutdownSet, ShutdownQueue, Release, EndBase, Peer, serverVars, vars
<1>2. CloseCallback /\ connections_ /\ ~connections_' => QueueRemoval
  BY DEF CloseCallback, QueueRemoval
<1>3. RemoveConnectionInLoop => QueueRemoval
  BY DEF RemoveConnectionInLoop, QueueRemoval
<1>4. DestroyServer /\ connections_ => QueueRemoval
  <2>1. If(TRUE, "connectDistroyed") = <<<<"connectDistroyed">>>>
    BY DEF If
  <2>2. DestroyServer /\ connections_ => pending' = Append(pending, <<"connectDistroyed">>)
    BY <2>1 DEF DestroyServer, If
  <2> QED
    BY <2>2 DEF QueueRemoval
<1> QED
  BY <1>1, <1>2, <1>3, <1>4

LEMMA LeaveStep == BaseInv /\ SendInv /\ LeaveInv /\ [Next]_vars => LeaveInv'
<1> SUFFICES ASSUME BaseInv, SendInv, LeaveInv, [Next]_vars,
                    ~connections_', ~LoopGone', index' # "kNew" \/ state_' = "kConnecting"
             PROVE  Leaving'
  BY DEF LeaveInv
<1>0. TypeOK /\ StackInv /\ PlaceInv /\ FreshInv
  BY DEF BaseInv, ConnectionInv
<1>1. CASE connections_
  BY <1>0, <1>1, MapStep, RemovalQueued DEF Leaving
<1>2. CASE ~connections_
  <2>1. ConnectEstablished => state_ = "kConnecting"
    BY <1>0, DoingHas DEF ConnectEstablished, FreshInv
  <2>2. index # "kNew" \/ state_ = "kConnecting"
    BY <2>1, NoReturn, FreshEnds
  <2>3. ~RemoveChannel
    <3>1. RemoveChannel => index' = "kNew" /\ state_' = state_ /\ state_ # "kConnecting"
      BY <1>0, BusyIsNotFresh DEF RemoveChannel
    <3> QED
      BY <3>1
  <2>4. ~LoopGone /\ ~LeaveLoop
    BY <1>0, PhaseStep DEF LoopGone, Swap, EndFunctors, LeaveLoop, RunFunctor
  <2> QED
    BY <1>0, <1>2, <2>2, <2>3, <2>4, LeavingStep DEF LeaveInv
<1> QED
  BY <1>1, <1>2

\* A removal under way holds a shared_ptr.
LEMMA LeavingHolds == TypeOK /\ PlaceInv /\ Leaving => Referenced
<1> SUFFICES ASSUME TypeOK, PlaceInv, Leaving PROVE HoldsShared(pending) \/ HoldsShared(functors)
  BY DEF Referenced
<1>1. CASE Queued("connectDistroyed")
  <2>1. PICK i \in DOMAIN Line : Line[i][1] = "connectDistroyed"
    BY <1>1 DEF Queued
  <2> DEFINE r == SubSeq(functors, next, Len(functors))
  <2>2. /\ functors \in Seq(Functor) /\ pending \in Seq(Functor) /\ next \in Nat /\ next >= 1
        /\ Len(functors) \in Nat /\ next <= Len(functors) + 1
    BY DEF TypeOK
  <2>3. /\ r \in Seq(Functor) /\ Len(r) = Len(functors) - next + 1
        /\ \A k \in 1..Len(r) : r[k] = functors[next + k - 1]
    BY <2>2
  <2>4. Line = r \o pending
    BY DEF Line
  <2> HIDE DEF r
  <2>5. i \in 1 .. Len(r) + Len(pending) /\ Line[i] = IF i <= Len(r) THEN r[i] ELSE pending[i - Len(r)]
    BY <2>1, <2>2, <2>3, <2>4
  <2>6. CASE i <= Len(r)
    <3>0. i \in 1..Len(r) /\ Line[i] = r[i]
      BY <2>2, <2>3, <2>5, <2>6
    <3>1. Line[i] = functors[next + i - 1]
      BY <2>3, <3>0
    <3>2. next + i - 1 \in DOMAIN functors
      BY <2>2, <2>3, <3>0
    <3> QED
      BY <2>1, <3>1, <3>2 DEF HoldsShared, Shared
  <2>7. CASE i > Len(r)
    <3>0. Len(r) \in Nat
      BY <2>2, <2>3
    <3>1. i - Len(r) \in DOMAIN pending /\ pending[i - Len(r)] = Line[i]
      BY <2>2, <2>5, <2>7, <3>0
    <3> QED
      BY <2>1, <3>1 DEF HoldsShared, Shared
  <2> QED
    BY <2>2, <2>3, <2>5, <2>6, <2>7
<1>2. CASE Has("connectDistroyed") \/ Has("remove")
  BY <1>2 DEF Has, PlaceInv
<1> QED
  BY <1>1, <1>2 DEF Leaving

------------------------------------------------------------------------------
(* No other threads.                                                         *)

\* Nothing is sent or shut down later.
NothingComes == \A op \in {"send", "shutdown"} : ~Queued(op) /\ ~Has(op)

LEMMA FirstLine == Init => Line = pending
<1> SUFFICES ASSUME Init PROVE Line = pending
  OBVIOUS
<1>1. functors = <<>> /\ next = 1 /\ pending \in Seq(Functor)
  BY TypeInit DEF Init, TypeOK
<1> QED
  BY <1>1, LineIsPending DEF Line

LEMMA NothingComesInit == Init => NothingComes
<1> SUFFICES ASSUME Init PROVE NothingComes
  OBVIOUS
<1>1. todo = <<>> \/ todo = <<<<"connectEstablished">>>>
  BY DEF Init
<1>2. Line = <<>> \/ Line = <<<<"connectEstablished">>>>
  BY FirstLine DEF Init
<1> QED
  BY <1>1, <1>2 DEF NothingComes, Queued, Has

LEMMA NothingComesStep ==
    ASSUME Threads = {}
    PROVE  BaseInv /\ NothingComes /\ [Next]_vars => NothingComes'
<1> SUFFICES ASSUME BaseInv, NothingComes, [Next]_vars, NEW op \in {"send", "shutdown"}
             PROVE  ~Queued(op)' /\ ~Has(op)'
  BY DEF NothingComes
<1> QED
  BY NoneStep DEF BaseInv, ConnectionInv, NothingComes

\* With no sends queued, or none that find the channel gone.
LEMMA StaysAlive == BaseInv /\ LeaveInv => RegisteredAlive
BY LeavingHolds DEF BaseInv, ConnectionInv, RegisteredAlive, LeaveInv, Referenced

LEMMA SendInit == Init => SendInv /\ LeaveInv
<1> SUFFICES ASSUME Init PROVE SendInv /\ LeaveInv
  OBVIOUS
<1>1. todo = <<>> \/ todo = <<<<"connectEstablished">>>>
  BY DEF Init
<1>2. ~Has("sent") /\ ~Has("send")
  BY <1>1 DEF Has
<1> QED
  BY <1>2 DEF SendInv, LeaveInv, Init

LEMMA SendAlone == ASSUME Threads = {} PROVE Spec => [](SendInv /\ LeaveInv)
<1> DEFINE Inv == NothingComes /\ SendInv /\ LeaveInv
<1>1. Init => Inv
  BY NothingComesInit, SendInit
<1>2. BaseInv /\ Inv /\ [Next]_vars => Inv'
  <2> SUFFICES ASSUME BaseInv, Inv, [Next]_vars PROVE Inv'
    OBVIOUS
  <2>1. NothingComes'
    BY NothingComesStep
  <2>2. SendInv'
    BY <2>1, SentStep DEF SendInv, NothingComes
  <2> QED
    BY <2>1, <2>2, LeaveStep
<1> QED
  BY <1>1, <1>2, BaseInductive, PTL DEF Spec

------------------------------------------------------------------------------
(* A server that stays: connections leave after a close only.                *)

LEMMA NoDestroy == ASSUME ServerStays PROVE ~DestroyServer
BY DEF ServerStays, DestroyServer

LEMMA ToldInit == Init => ToldInv
<1> SUFFICES ASSUME Init PROVE ToldInv
  OBVIOUS
<1>1. /\ todo = <<>> \/ todo = <<<<"connectEstablished">>>>
      /\ pending = <<>> \/ pending = <<<<"connectEstablished">>>>
      /\ state_ = "kConnecting" /\ mainPending = 0
  BY DEF Init, Constructed
<1>2. Line = <<>> \/ Line = <<<<"connectEstablished">>>>
  BY <1>1, FirstLine
<1>3. ~Queued("connectDistroyed") /\ ~Has("connectDistroyed") /\ ~Has("remove") /\ ~Has("closeCallback")
  BY <1>1, <1>2 DEF Queued, Has
<1> QED
  BY <1>1, <1>3 DEF ToldInv, Leaving

\* The user hears "down" from handleClose: disconnect finds nothing up.
LEMMA TellStep ==
    ASSUME BaseInv, ToldInv, [Next]_vars
    PROVE  /\ \/ HandleClose /\ downs' = downs + 1 /\ phase = "handle" /\ index # "kNew"
              \/ ~HandleClose /\ downs' = downs
           /\ downs \in Nat /\ (downs > 0 => downs' > 0)
<1>0. TypeOK /\ StackInv /\ PlaceInv /\ FreshInv /\ downs \in Nat
  BY DEF BaseInv, ConnectionInv, TypeOK
<1>1. CASE HandleClose
  <2>1. PICK op \in Closers : Has(op)
    BY <1>0, <1>1, DoingHas DEF HandleClose, Closers
  <2>2. PICK i \in DOMAIN todo : todo[i][1] \in Closers
    BY <2>1 DEF Has
  <2>3. phase = "handle" /\ index # "kNew"
    BY <1>0, <2>2 DEF PlaceInv, ChannelOps
  <2>4. downs' = downs + 1
    BY <1>1 DEF HandleClose
  <2> QED
    BY <1>0, <1>1, <2>3, <2>4
<1>2. ~Disconnect
  <2> SUFFICES ASSUME Disconnect PROVE FALSE
    OBVIOUS
  <2>1. Has("disconnect") /\ Has("remove")
    BY <1>0, DoingHas, DistroyStack DEF Disconnect, Has, TypeOK
  <2>2. downs > 0 /\ downs = 0
    BY <2>1 DEF ToldInv, Leaving, BaseInv, AgeInv
  <2> QED
    BY <2>2
<1>3. CASE ~HandleClose
  BY <1>0, <1>2, <1>3, ReadStep DEF HandleRead
<1> QED
  BY <1>1, <1>3

\* The base loop is asked for removals by closeCallback.
LEMMA MainStep ==
    ASSUME TypeOK, [Next]_vars, mainPending' > 0
    PROVE  mainPending > 0 \/ CloseCallback
<1>1. UNCHANGED mainPending \/ CloseCallback \/ RemoveConnectionInLoop \/ EndBase
  BY DEF Next, LoopStep, Handlers, ThreadStep, PollIdle, PollReport, Swap, RunFunctor, EndFunctors,
         LeaveLoop,
         ConnectEstablished, ConnectDistroyed, Disconnect, RemoveChannel, HandleRead, HandleError,
         HandleClose,
         HandleWrite, WriteSome, Sent, Drained, RunSend, RunShutdown, RunCallback,
         UserReturn, UserSend, UserShutdown, HandOver, SendCheck, SendQueue, Queue, ShutdownCheck,
         ShutdownSet, ShutdownQueue, Release, DestroyServer, Peer, serverVars, vars
<1> QED
  BY <1>1 DEF RemoveConnectionInLoop, EndBase

LEMMA ToldStep == ASSUME ServerStays PROVE BaseInv /\ ToldInv /\ [Next]_vars => ToldInv'
<1> SUFFICES ASSUME BaseInv, ToldInv, [Next]_vars,
                    \/ Leaving' \/ Has("closeCallback")' \/ mainPending' > 0
                    \/ index' = "kNew" /\ state_' # "kConnecting"
             PROVE  downs' > 0
  BY DEF ToldInv
<1>0. TypeOK /\ StackInv /\ PlaceInv /\ FreshInv /\ (downs > 0 => downs' > 0)
  BY TellStep DEF BaseInv, ConnectionInv
<1>1. Has("closeCallback") \/ Has("connectDistroyed") \/ Has("remove") \/ mainPending > 0
         \/ Queued("connectDistroyed") => downs > 0
  BY DEF ToldInv, Leaving
<1>2. CloseCallback \/ RemoveConnectionInLoop => downs > 0
  BY <1>0, <1>1, DoingHas DEF CloseCallback, RemoveConnectionInLoop
<1>3. CASE Queued("connectDistroyed")'
  <2>1. \A f \in Functor : f[1] = "connectDistroyed" /\ Newcomer(f) => QueueRemoval
    BY DEF Newcomer, Tells
  <2>2. QueueRemoval => downs > 0
    BY <1>2, NoDestroy DEF QueueRemoval
  <2> QED
    BY <1>0, <1>1, <1>3, <2>1, <2>2, QueuedStep
<1>4. CASE Has("connectDistroyed")'
  BY <1>0, <1>1, <1>4, HasComes
<1>5. CASE Has("remove")'
  <2>1. ConnectDistroyed => Has("connectDistroyed")
    BY <1>0, DoingHas DEF ConnectDistroyed
  <2>2. ~Queued("remove")
    BY <1>0, LineIsSeq, CallNames DEF Queued, FunctorOps
  <2> QED
    BY <1>0, <1>1, <1>5, <2>1, <2>2, HasComes
<1>6. CASE Has("closeCallback")'
  <2>1. ~Queued("closeCallback")
    BY <1>0, LineIsSeq, CallNames DEF Queued, FunctorOps
  <2>2. HandleClose => downs' > 0
    BY TellStep
  <2> QED
    BY <1>0, <1>1, <1>6, <2>1, <2>2, HasComes
<1>7. CASE mainPending' > 0
  BY <1>0, <1>1, <1>2, <1>7, MainStep
<1>8. CASE index' = "kNew" /\ state_' # "kConnecting"
  <2>1. CASE state_ = "kConnecting"
    <3>1. ConnectEstablished => index' # "kNew"
      BY DEF ConnectEstablished, Enable
    <3>2. ~ConnectEstablished => state_' = "kConnecting"
      BY <1>0, <2>1, FreshSteps DEF RunFunctor, connVars
    <3> QED
      BY <1>8, <3>1, <3>2
  <2>2. CASE state_ # "kConnecting" /\ index = "kNew"
    BY <1>0, <2>2 DEF ToldInv
  <2>3. CASE index # "kNew"
    <3>1. RemoveChannel
      BY <1>8, <2>3, IndexStep
    <3> QED
      BY <1>0, <1>1, <3>1, DoingHas DEF RemoveChannel
  <2> QED
    BY <2>1, <2>2, <2>3
<1> QED
  BY <1>3, <1>4, <1>5, <1>6, <1>7, <1>8 DEF Leaving

------------------------------------------------------------------------------
(* One other thread: what it sent comes before the removal.                  *)

LEMMA LateInit == Init => LateInv
BY DEF Init, LateInv

\* A closed connection is revived by a shutdown() that was under way only.
LEMMA RevivableStep ==
    ASSUME BaseInv, [Next]_vars, downs > 0, Revivable'
    PROVE  Revivable
<1>0. state_ # "kConnected"
  BY DEF BaseInv, AgeInv
<1>1. ASSUME NEW t \in Threads, ShutdownSet(t) PROVE Revivable
  BY <1>1 DEF ShutdownSet, Goes, Revivable
<1>2. state_' = "kDisconnecting" => Revivable
  <2>1. \/ UNCHANGED state_ \/ state_' \in {"kConnected", "kDisconnected"} \/ UserShutdown
        \/ \E t \in Threads : ShutdownSet(t)
    BY DEF Next, LoopStep, Handlers, ThreadStep, PollIdle, PollReport, Swap, RunFunctor,
           EndFunctors, LeaveLoop, ConnectEstablished, ConnectDistroyed, Disconnect, RemoveChannel,
           HandleRead, HandleError,
           HandleClose, CloseCallback, HandleWrite, WriteSome, Sent, Drained, RunSend, RunShutdown,
           RunCallback, UserReturn, UserSend, HandOver, SendCheck, SendQueue, Queue, ShutdownCheck,
           ShutdownQueue, Release, RemoveConnectionInLoop, DestroyServer, EndBase, Peer, connVars,
           vars
  <2>2. ~UserShutdown
    BY <1>0 DEF UserShutdown
  <2> QED
    BY <1>1, <2>1, <2>2 DEF Revivable
<1>3. ASSUME NEW t \in Threads, thr'[t] = <<"setState">> PROVE thr[t] = <<"setState">>
  <2>0. TypeOK
    BY DEF BaseInv, ConnectionInv
  <2>1. ASSUME NEW s \in Threads, NEW from, NEW to, to # <<"setState">>, Goes(s, from, to)
        PROVE  thr[t] = <<"setState">>
    BY <1>3, <2>0, <2>1 DEF Goes, TypeOK
  <2>2. ASSUME NEW s \in Threads, HandOver(s) PROVE thr[t] = <<"setState">>
    BY <1>3, <2>0, <2>2 DEF HandOver, TypeOK
  <2>3. \A s \in Threads : ~ShutdownCheck(s)
    BY <1>0 DEF ShutdownCheck
  <2>4. ASSUME NEW s \in Threads, Release(s) \/ ShutdownSet(s) \/ ShutdownQueue(s)
        PROVE  thr[t] = <<"setState">>
    BY <2>1, <2>4 DEF Release, ShutdownSet, ShutdownQueue
  <2>5. ASSUME NEW s \in Threads, NEW m \in Msgs, SendCheck(s, m) \/ SendQueue(s, m)
        PROVE  thr[t] = <<"setState">>
    BY <2>1, <2>5 DEF SendCheck, SendQueue
  <2> QED
    BY <1>3, <2>2, <2>3, <2>4, <2>5, ThreadKinds
<1> QED
  BY <1>2, <1>3 DEF Revivable

\* Once closed, no thread starts to send.
LEMMA NoneStarts ==
    ASSUME TypeOK, AgeInv, [Next]_vars, downs > 0, \A t \in Threads : thr[t][1] # "send"
    PROVE  \A t \in Threads : thr'[t][1] # "send"
<1> SUFFICES ASSUME NEW t \in Threads PROVE thr'[t][1] # "send"
  OBVIOUS
<1>0. state_ # "kConnected"
  BY DEF AgeInv
<1>1. ASSUME NEW s \in Threads, NEW from, NEW to, to[1] # "send", Goes(s, from, to)
      PROVE  thr'[t][1] # "send"
  BY <1>1 DEF Goes, TypeOK
<1>2. ASSUME NEW s \in Threads, HandOver(s) PROVE thr'[t][1] # "send"
  BY <1>2 DEF HandOver, TypeOK
<1>3. ASSUME NEW s \in Threads, Release(s) \/ ShutdownCheck(s) \/ ShutdownSet(s) \/ ShutdownQueue(s)
      PROVE  thr'[t][1] # "send"
  BY <1>1, <1>3 DEF Release, ShutdownCheck, ShutdownSet, ShutdownQueue
<1>4. ASSUME NEW s \in Threads, NEW m \in Msgs, SendCheck(s, m) \/ SendQueue(s, m)
      PROVE  thr'[t][1] # "send"
  BY <1>0, <1>1, <1>4 DEF SendCheck, SendQueue
<1> QED
  BY <1>2, <1>3, <1>4, ThreadKinds

\* The line keeps its order.
LEMMA SendsFirst ==
    ASSUME TypeOK, PlaceInv, [Next]_vars, \A t \in Threads : thr[t][1] # "send",
           \A i, j \in DOMAIN Line :
              Line[i][1] = "connectDistroyed" /\ Line[j][1] = "send" => j < i
    PROVE  \A i, j \in DOMAIN Line' :
              Line'[i][1] = "connectDistroyed" /\ Line'[j][1] = "send" => j < i
<1>1. Line \in Seq(Functor) /\ Len(Line) \in Nat /\ DOMAIN Line = 1..Len(Line)
  BY LineIsSeq
<1>2. CASE Line # <<>> /\ Line' = Tail(Line)
  <2>1. DOMAIN (Line') = 1 .. Len(Line) - 1 /\ \A i \in 1 .. Len(Line) - 1 : Line'[i] = Line[i + 1]
    BY <1>1, <1>2
  <2> SUFFICES ASSUME NEW i \in 1 .. Len(Line) - 1, NEW j \in 1 .. Len(Line) - 1,
                      Line'[i][1] = "connectDistroyed", Line'[j][1] = "send"
               PROVE  j < i
    BY <2>1
  <2>2. i + 1 \in DOMAIN Line /\ j + 1 \in DOMAIN Line
    BY <1>1
  <2>3. j + 1 < i + 1
    BY <2>1, <2>2
  <2> QED
    BY <2>3
<1>3. CASE UNCHANGED Line
  BY <1>3
<1>l. CASE Line' = <<>>
  BY <1>l
<1>4. ASSUME NEW f \in Functor, Newcomer(f), Line' = Append(Line, f)
      PROVE  \A i, j \in DOMAIN Line' :
                Line'[i][1] = "connectDistroyed" /\ Line'[j][1] = "send" => j < i
  <2>1. f[1] # "send"
    <3>1. ASSUME NEW t \in Threads, NEW m \in Msgs PROVE ~SendQueue(t, m)
      BY DEF SendQueue, Queue, Goes
    <3> QED
      BY <1>4, <3>1 DEF Newcomer, Tells
  <2>2. /\ DOMAIN (Line') = 1 .. Len(Line) + 1
        /\ \A i \in 1 .. Len(Line) + 1 : Line'[i] = IF i <= Len(Line) THEN Line[i] ELSE f
    BY <1>1, <1>4
  <2> SUFFICES ASSUME NEW i \in 1 .. Len(Line) + 1, NEW j \in 1 .. Len(Line) + 1,
                      Line'[i][1] = "connectDistroyed", Line'[j][1] = "send"
               PROVE  j < i
    BY <2>2
  <2>3. j <= Len(Line) /\ Line[j][1] = "send"
    BY <1>1, <2>1, <2>2
  <2>4. CASE i <= Len(Line)
    BY <1>1, <2>2, <2>3, <2>4
  <2>5. CASE i > Len(Line)
    BY <1>1, <2>3, <2>5
  <2> QED
    BY <1>1, <2>4, <2>5
<1> QED
  BY <1>2, <1>3, <1>l, <1>4, LineStep

LEMMA LateStep ==
    ASSUME \A s, t \in Threads : s = t
    PROVE  BaseInv /\ ToldInv /\ LateInv /\ [Next]_vars => LateInv'
<1> SUFFICES ASSUME BaseInv, ToldInv, LateInv, [Next]_vars, downs' > 0, Revivable'
             PROVE  /\ \A t \in Threads : thr'[t][1] # "send"
                    /\ \A i, j \in DOMAIN Line' :
                          Line'[i][1] = "connectDistroyed" /\ Line'[j][1] = "send" => j < i
                    /\ Has("connectDistroyed")' \/ Has("remove")' \/ index' = "kNew" =>
                          ~Queued("send")' /\ ~Has("send")'
  BY DEF LateInv
<1>0. TypeOK /\ StackInv /\ PlaceInv /\ FreshInv /\ AgeInv
  BY DEF BaseInv, ConnectionInv
<1>r. ~Queued("remove") /\ Line \in Seq(Functor) /\ Len(Line) \in Nat /\ DOMAIN Line = 1..Len(Line)
  BY <1>0, LineIsSeq, CallNames DEF Queued, FunctorOps
<1>1. CASE HandleClose /\ downs = 0
  <2>1. UNCHANGED <<thr, index, functors, next, pending, Line>> /\ state_' = "kDisconnected" /\ ~RunFunctor
    BY <1>1 DEF HandleClose, Line, queueVars, RunFunctor, Doing, At
  <2>2. downs = 0 /\ index # "kNew"
    BY <1>1, TellStep
  <2>3. ~Queued("connectDistroyed") /\ ~Has("connectDistroyed") /\ ~Has("remove")
    BY <2>2 DEF ToldInv, Leaving
  <2>4. PICK t \in Threads : thr[t] = <<"setState">>
    BY <2>1 DEF Revivable
  <2>5. ~ConnectDistroyed
    BY <1>1 DEF ConnectDistroyed, Disconnect, HandleClose, Doing, At
  <2>6. ~Has("connectDistroyed")' /\ ~Has("remove")'
    BY <1>0, <2>1, <2>3, <2>5, HasComes
  <2>7. \A i \in DOMAIN Line' : Line'[i][1] # "connectDistroyed"
    BY <2>1, <2>3 DEF Queued
  <2> QED
    BY <2>1, <2>2, <2>4, <2>6, <2>7
<1>2. CASE ~HandleClose \/ downs # 0
  <2>1. downs > 0
    BY <1>2, TellStep
  <2>2. Revivable
    BY <2>1, RevivableStep
  <2>3. /\ \A t \in Threads : thr[t][1] # "send"
        /\ \A i, j \in DOMAIN Line :
              Line[i][1] = "connectDistroyed" /\ Line[j][1] = "send" => j < i
        /\ Has("connectDistroyed") \/ Has("remove") \/ index = "kNew" =>
              ~Queued("send") /\ ~Has("send")
    BY <2>1, <2>2 DEF LateInv
  <2>4. \A t \in Threads : thr'[t][1] # "send"
    BY <1>0, <2>1, <2>3, NoneStarts
  <2>5. \A i, j \in DOMAIN Line' :
           Line'[i][1] = "connectDistroyed" /\ Line'[j][1] = "send" => j < i
    BY <1>0, <2>3, SendsFirst
  <2>6. \A t \in Threads, m \in Msgs : ~SendQueue(t, m)
    BY <2>3 DEF SendQueue, Queue, Goes
  <2>7. ASSUME Has("connectDistroyed")' \/ Has("remove")' \/ index' = "kNew"
        PROVE  ~Queued("send")' /\ ~Has("send")'
    <3>1. CASE Has("connectDistroyed") \/ Has("remove") \/ index = "kNew"
      BY <1>0, <2>3, <2>6, <3>1, NoneStep
    <3>2. CASE ~Has("connectDistroyed") /\ ~Has("remove") /\ index # "kNew"
      <4>1. ~RemoveChannel /\ ~ConnectDistroyed
        BY <1>0, <3>2, DoingHas DEF RemoveChannel, ConnectDistroyed
      <4>2. RunFunctor /\ Has("connectDistroyed")'
        BY <1>0, <1>r, <2>7, <3>2, <4>1, IndexStep, HasComes
      <4>3. Line # <<>> /\ todo' = <<Head(Line)>> /\ todo = <<>>
        BY <1>0, <4>2, LineRun DEF RunFunctor
      <4>4. Line[1][1] = "connectDistroyed" /\ 1 \in DOMAIN Line
        BY <1>r, <4>2, <4>3 DEF Has
      <4>5. ~Queued("send")
        BY <1>r, <2>3, <4>4 DEF Queued
      <4>6. ~Has("send")
        BY <4>3 DEF Has
      <4> QED
        BY <1>0, <2>6, <4>5, <4>6, NoneStep
    <3> QED
      BY <3>1, <3>2
  <2> QED
    BY <2>4, <2>5, <2>7
<1> QED
  BY <1>1, <1>2

\* A send that finds the connection closed and revived was run before the removal.
LEMMA SendFinds ==
    ASSUME BaseInv, ToldInv, LateInv, Has("send"), state_ # "kDisconnected"
    PROVE  index # "kNew"
<1>0. TypeOK /\ FreshInv /\ UpInv
  BY DEF BaseInv, ConnectionInv
<1>1. state_ # "kConnecting"
  <2> SUFFICES ASSUME state_ = "kConnecting" PROVE FALSE
    OBVIOUS
  <2>1. todo = <<>> \/ (Len(todo) = 1 /\ todo[1][1] = "connectEstablished")
    BY <1>0 DEF FreshInv, TypeOK
  <2>2. PICK i \in 1..Len(todo) : todo[i][1] = "send"
    BY <1>0 DEF Has, TypeOK
  <2> QED
    BY <2>1, <2>2
<1>2. CASE state_ = "kConnected"
  BY <1>0, <1>2 DEF UpInv
<1>3. CASE state_ = "kDisconnecting"
  BY <1>3 DEF LateInv, ToldInv, Revivable
<1> QED
  BY <1>0, <1>1, <1>2, <1>3 DEF TypeOK, State

\* What one other thread may do, with a server that stays.
OneThreadInv == BaseInv /\ SendInv /\ LeaveInv /\ ToldInv /\ LateInv

LEMMA OneThread ==
    ASSUME ServerStays, \A s, t \in Threads : s = t
    PROVE  Spec => []OneThreadInv
<1> DEFINE Inv == /\ Has("sent") => index # "kNew"
                  /\ LeaveInv /\ ToldInv /\ LateInv
<1>1. Init => Inv
  BY SendInit, ToldInit, LateInit DEF SendInv
<1>2. BaseInv /\ Inv => SendInv
  BY SendFinds DEF SendInv
<1>3. BaseInv /\ Inv /\ [Next]_vars => Inv'
  BY <1>2, SentStep, ToldStep, LateStep, LeaveStep
<1>4. Spec => []Inv
  BY <1>1, <1>3, BaseInductive, PTL DEF Spec
<1>5. BaseInv /\ Inv => OneThreadInv
  BY <1>2 DEF OneThreadInv
<1> QED
  BY <1>4, <1>5, BaseInductive, PTL

\* The poller keeps no pointer to the channel of a connection that is gone:
\* without other threads in any set-up, and with one other thread, on one loop
\* or several, as long as the server is not destroyed.
THEOREM KeptWhileRegistered ==
    ASSUME Threads = {} \/ (ServerStays /\ \A s, t \in Threads : s = t)
    PROVE  Spec => []RegisteredAlive
<1>1. CASE Threads = {}
  BY <1>1, SendAlone, StaysAlive, BaseInductive, PTL
<1>2. CASE ServerStays /\ \A s, t \in Threads : s = t
  <2>1. OneThreadInv => RegisteredAlive
    BY StaysAlive DEF OneThreadInv
  <2>2. Spec => []OneThreadInv
    BY <1>2, OneThread
  <2> QED
    BY <2>1, <2>2, PTL
<1> QED
  BY <1>1, <1>2

\* Once removed, the channel is never registered again, in the same set-ups:
\* what may still be sent is given up by sendInLoop's test of state_.
THEOREM NeverRegisteredAgain ==
    ASSUME Threads = {} \/ (ServerStays /\ \A s, t \in Threads : s = t)
    PROVE  Spec => RemovedForGood
<1>1. BaseInv /\ SendInv /\ [Next]_vars => (state_ # "kConnecting" /\ index = "kNew" => index' = "kNew")
  <2> SUFFICES ASSUME BaseInv, SendInv, [Next]_vars, state_ # "kConnecting", index = "kNew"
               PROVE  index' = "kNew"
    OBVIOUS
  <2>1. ~ConnectEstablished
    BY DoingHas DEF ConnectEstablished, BaseInv, ConnectionInv, FreshInv
  <2> QED
    BY <2>1, NoReturn
<1>2. CASE Threads = {}
  BY <1>1, <1>2, SendAlone, BaseInductive, PTL DEF RemovedForGood, Spec
<1>3. CASE ServerStays /\ \A s, t \in Threads : s = t
  <2>1. Spec => []OneThreadInv
    BY <1>3, OneThread
  <2>2. OneThreadInv => BaseInv /\ SendInv
    BY DEF OneThreadInv
  <2> QED
    BY <1>1, <2>1, <2>2, PTL DEF RemovedForGood, Spec
<1> QED
  BY <1>2, <1>3

------------------------------------------------------------------------------
(* One loop: a close is followed by the removal before the next poll.        *)

LEMMA ClosingInit == Init => ClosingInv
BY DEF Init, ClosingInv

\* On one loop the connection is closed once.
LEMMA DownsStep ==
    ASSUME BaseInv, ToldInv, ClosingInv, [Next]_vars
    PROVE  \/ HandleClose /\ downs = 0 /\ downs' = 1 /\ phase = "handle" /\ index # "kNew"
           \/ ~HandleClose /\ downs' = downs
<1>0. TypeOK
  BY DEF BaseInv, ConnectionInv
<1>1. HandleClose => \E i \in DOMAIN todo : todo[i][1] \in Closers
  BY <1>0, DoingHas DEF HandleClose, Closers, Has
<1>2. HandleClose => downs = 0
  BY <1>1, TellStep DEF ClosingInv
<1> QED
  BY <1>2, TellStep

\* A closed connection is not closed again.
LEMMA ClosingOnce ==
    ASSUME BaseInv, ToldInv, ClosingInv, [Next]_vars, downs' > 0,
           NEW i \in DOMAIN todo', todo'[i][1] \in Closers
    PROVE  FALSE
<1>0. /\ TypeOK /\ StackInv /\ todo \in Seq(Call) /\ Len(todo) \in Nat
      /\ todo' \in Seq(Call) /\ Len(todo') \in Nat /\ i \in 1..Len(todo')
      /\ phase = "poll" => todo = <<>>
  <2>1. TypeOK /\ StackInv /\ TypeOK'
    BY TypeStep DEF BaseInv, ConnectionInv
  <2>2. todo \in Seq(Call) /\ todo' \in Seq(Call) /\ (phase = "poll" => todo = <<>>)
    BY <2>1 DEF TypeOK
  <2> QED
    BY <2>1, <2>2
<1>1. CASE PollReport
  <2>1. index = "kAdded" /\ phase = "poll" /\ downs' = downs
    BY <1>1 DEF PollReport, Ready, historyVars
  <2> QED
    BY <2>1 DEF ClosingInv
<1>2. CASE ~PollReport
  <2>1. Kept(i)
    BY <1>0, <1>2, NoNewHandler DEF Closers
  <2>2. PICK j \in 1..Len(todo) : j = i + Len(todo) - Len(todo') /\ todo[j] = todo'[i]
    BY <2>1 DEF Kept, KeptIn
  <2>3. downs = 0 /\ HandleClose
    BY <2>2, DownsStep DEF ClosingInv, TypeOK
  <2>4. todo # <<>> /\ todo[1][1] \in Closers /\ 1 \in DOMAIN todo
    BY <1>0, <2>3 DEF HandleClose, Doing, At, Closers
  <2>5. j = 1
    BY <1>0, <2>2, <2>4 DEF BaseInv, PlaceInv
  <2> DEFINE q == Tail(todo)
  <2>6. q \in Seq(Call) /\ Len(q) = Len(todo) - 1
    BY <1>0, <2>4, TodoFacts
  <2>7. todo' = <<<<"user">>, <<"closeCallback">>>> \o q
    BY <2>3 DEF HandleClose, ThenDo
  <2> HIDE DEF q
  <2>8. Len(todo') = Len(todo) + 1 /\ todo'[2] = <<"closeCallback">>
    <3>1. Len(todo') = Len(q) + 2 /\ todo'[2] = <<"closeCallback">>
      BY <2>6, <2>7
    <3> QED
      BY <1>0, <2>6, <3>1
  <2>9. i = 2
    BY <1>0, <2>2, <2>5, <2>8
  <2> QED
    BY <2>8, <2>9 DEF Closers
<1> QED
  BY <1>1, <1>2

\* connectDistroyed goes on to the removal.
LEMMA RemovalGoesOn ==
    ASSUME TypeOK, StackInv, PlaceInv, [Next]_vars, Has("connectDistroyed") \/ Has("remove")
    PROVE  Has("connectDistroyed")' \/ Has("remove")' \/ RemoveChannel
<1>1. CASE Has("remove")
  BY <1>1, CallStays
<1>2. CASE Has("connectDistroyed")
  BY <1>2, CallStays, DestroyedRemoves
<1> QED
  BY <1>1, <1>2

\* The removal of a closed channel is on its way.
LEMMA ClosingGoesOn ==
    ASSUME SingleLoop, BaseInv, SendInv, ToldInv, ClosingInv, [Next]_vars, downs' > 0, index' # "kNew"
    PROVE  \/ phase' = "handle" /\ (Has("closeCallback")' \/ Queued("connectDistroyed")')
           \/ /\ phase' = "run"
              /\ \/ \E i \in next'..Len(functors') : functors'[i][1] = "connectDistroyed"
                 \/ Has("connectDistroyed")' \/ Has("remove")'
           \/ phase' \in {"undefined", "terminated"}
<1>0. TypeOK /\ StackInv /\ PlaceInv /\ FreshInv
  BY DEF BaseInv, ConnectionInv
<1>t. /\ functors \in Seq(Functor) /\ pending \in Seq(Functor)
      /\ next \in Nat /\ next >= 1 /\ Len(functors) \in Nat
  BY <1>0 DEF TypeOK
<1>1. CASE HandleClose
  <2>1. todo # <<>> /\ Tail(todo) \in Seq(Call)
    BY <1>0, <1>1, TodoFacts DEF HandleClose, Doing, At, TypeOK
  <2>2. phase' = "handle"
    BY <1>0, <1>1, <2>1, DownsStep, BusyStep
  <2> DEFINE q == Tail(todo)
  <2>3. todo' = <<<<"user">>, <<"closeCallback">>>> \o q
    BY <1>1 DEF HandleClose, ThenDo
  <2> HIDE DEF q
  <2>4. 2 \in DOMAIN todo' /\ todo'[2] = <<"closeCallback">>
    BY <2>1, <2>3 DEF q
  <2>5. Has("closeCallback")'
    BY <2>4 DEF Has
  <2> QED
    BY <2>2, <2>5
<1>2. CASE ~HandleClose
  <2>1. downs > 0
    BY <1>2, DownsStep
  <2>2. index # "kNew"
    <3>1. ConnectEstablished => downs = 0
      BY <1>0, DoingHas DEF ConnectEstablished, FreshInv
    <3> QED
      BY <2>1, <3>1, NoReturn
  <2>3. CASE phase = "handle" /\ (Has("closeCallback") \/ Queued("connectDistroyed"))
    <3>1. CASE Swap
      <4>1. /\ phase' = "run" /\ functors' = pending /\ next' = 1
            /\ todo = <<>> /\ functors = <<>> /\ next = 1
        BY <1>0, <2>3, <3>1 DEF Swap, PlaceInv
      <4>2. Queued("connectDistroyed") /\ Line = pending
        BY <1>t, <2>3, <4>1, LineIsPending DEF Has, Line
      <4>3. \E i \in 1..Len(pending) : pending[i][1] = "connectDistroyed"
        BY <1>t, <4>2 DEF Queued
      <4> QED
        BY <4>1, <4>3
    <3>2. CASE ~Swap
      <4>1. phase' = "handle"
        BY <1>0, <2>3, <3>2, PhaseStep DEF EndFunctors, LeaveLoop, RunFunctor, LoopGone
      <4>2. CASE Has("closeCallback")
        <5>1. CloseCallback => QueueRemoval
          BY DEF CloseCallback, QueueRemoval
        <5> QED
          BY <1>0, <4>1, <4>2, <5>1, CallStays, RemovalQueued
      <4>3. CASE Queued("connectDistroyed")
        BY <1>0, <2>3, <4>1, <4>3, QueuedStep DEF RunFunctor, LeaveLoop
      <4> QED
        BY <2>3, <4>2, <4>3
    <3> QED
      BY <3>1, <3>2
  <2>4. ASSUME phase = "run",
               \/ \E i \in next..Len(functors) : functors[i][1] = "connectDistroyed"
               \/ Has("connectDistroyed") \/ Has("remove")
        PROVE  /\ phase' \in {"run", "undefined", "terminated"}
               /\ \/ \E i \in next'..Len(functors') : functors'[i][1] = "connectDistroyed"
                  \/ Has("connectDistroyed")' \/ Has("remove")'
    <3>1. CASE todo # <<>>
      <4>1. UNCHANGED <<phase, functors, next>>
        BY <1>0, <3>1, BusyStep
      <4>2. ~RemoveChannel
        BY DEF RemoveChannel
      <4> QED
        BY <1>0, <2>4, <4>1, <4>2, RemovalGoesOn
    <3>2. CASE todo = <<>>
      <4>1. PICK i \in next..Len(functors) : functors[i][1] = "connectDistroyed"
        BY <2>4, <3>2 DEF Has
      <4>2. ~Swap /\ ~EndFunctors /\ ~LeaveLoop /\ ~LoopGone
        BY <1>t, <2>4, <4>1 DEF Swap, EndFunctors, LeaveLoop, LoopGone
      <4>3. CASE RunFunctor
        <5>1. /\ functors' = functors /\ next' = next + 1 /\ todo' = <<functors[next]>>
              /\ phase' \in {"run", "undefined", "terminated"}
          BY <2>4, <4>3 DEF RunFunctor
        <5>2. CASE i = next
          <6>1. 1 \in DOMAIN todo' /\ todo'[1] = functors[i]
            BY <5>1, <5>2
          <6>2. Has("connectDistroyed")'
            BY <4>1, <6>1 DEF Has
          <6> QED
            BY <5>1, <6>2
        <5>3. CASE i # next
          <6>1. i \in next'..Len(functors')
            BY <1>t, <4>1, <5>1, <5>3
          <6> QED
            BY <4>1, <5>1, <6>1
        <5> QED
          BY <5>2, <5>3
      <4>4. CASE ~RunFunctor
        <5>1. UNCHANGED <<phase, functors, next>>
          BY <1>0, <2>4, <4>2, <4>4, PhaseStep, FunctorsStep
        <5> QED
          BY <2>4, <4>1, <5>1
      <4> QED
        BY <4>3, <4>4
    <3> QED
      BY <3>1, <3>2
  <2>5. CASE phase \in {"undefined", "terminated"}
    BY <1>0, <2>5, PhaseStep DEF Swap, EndFunctors, LeaveLoop, RunFunctor, LoopGone
  <2> QED
    BY <2>1, <2>2, <2>3, <2>4, <2>5 DEF ClosingInv
<1> QED
  BY <1>1, <1>2

LEMMA ClosingStep ==
    ASSUME SingleLoop
    PROVE  BaseInv /\ SendInv /\ ToldInv /\ ClosingInv /\ [Next]_vars => ClosingInv'
<1> SUFFICES ASSUME BaseInv, SendInv, ToldInv, ClosingInv, [Next]_vars PROVE ClosingInv'
  OBVIOUS
<1> QED
  BY ClosingOnce, ClosingGoesOn DEF ClosingInv

------------------------------------------------------------------------------
(* What the user sees of a connection's life.                                *)

LEMMA LifeInit == Init => Lifecycle!Init
BY DEF Init, Lifecycle!Init

\* Up, down and removed are steps of their own; every other step stutters.
LEMMA LifeStep ==
    ASSUME OneThreadInv, ClosingInv, [Next]_vars
    PROVE  [Lifecycle!Next]_(Lifecycle!vars)
<1>0. /\ BaseInv /\ SendInv /\ ToldInv /\ ClosingInv /\ TypeOK /\ StackInv /\ PlaceInv /\ FreshInv /\ AgeInv
      /\ (upcall = "none" <=> state_ = "kConnecting") /\ (upcall' = "none" <=> state_' = "kConnecting")
  BY AgeStep DEF OneThreadInv, BaseInv, ConnectionInv, AgeInv
<1>1. CASE ConnectEstablished
  <2>1. state_ = "kConnecting" /\ upcall' = "up" /\ index' # "kNew" /\ downs' = downs /\ downs = 0
    BY <1>0, <1>1, DoingHas DEF ConnectEstablished, FreshInv, Enable
  <2> QED
    BY <1>0, <2>1 DEF Lifecycle!Next, Lifecycle!Up
<1>2. CASE HandleClose
  <2>1. downs = 0 /\ downs' = 1 /\ index # "kNew" /\ index' = index
    BY <1>0, <1>2, DownsStep DEF HandleClose
  <2>2. upcall # "none" /\ upcall' = "down"
    <3>1. state_ # "kConnecting"
      BY <1>0, <1>2, BusyIsNotFresh DEF HandleClose
    <3> QED
      BY <1>0, <1>2, <3>1 DEF HandleClose
  <2> QED
    BY <2>1, <2>2 DEF Lifecycle!Next, Lifecycle!Down
<1>3. CASE ~ConnectEstablished /\ ~HandleClose /\ upcall = "none"
  <2>1. state_' = state_ /\ downs' = downs
    BY <1>0, <1>3, FreshSteps DEF RunFunctor, connVars, historyVars
  <2> QED
    BY <1>0, <1>3, <2>1 DEF Lifecycle!vars
<1>4. CASE ~ConnectEstablished /\ ~HandleClose /\ upcall # "none"
  <2>1. upcall' # "none" /\ downs' = downs
    BY <1>0, <1>4, FreshEnds, DownsStep
  <2>2. CASE index = "kNew"
    <3>1. index' = "kNew"
      BY <1>0, <1>4, <2>2, NoReturn
    <3> QED
      BY <1>4, <2>1, <2>2, <3>1 DEF Lifecycle!vars
  <2>3. CASE index # "kNew" /\ index' # "kNew"
    BY <1>4, <2>1, <2>3 DEF Lifecycle!vars
  <2>4. CASE index # "kNew" /\ index' = "kNew"
    <3>1. Has("remove")
      BY <1>0, <2>4, IndexStep, DoingHas DEF RemoveChannel
    <3>2. downs # 0
      BY <1>0, <3>1 DEF ToldInv, Leaving, TypeOK
    <3> QED
      BY <1>4, <2>1, <2>4, <3>2 DEF Lifecycle!Next, Lifecycle!Remove
  <2> QED
    BY <2>2, <2>3, <2>4
<1> QED
  BY <1>1, <1>2, <1>3, <1>4

\* On one loop, with one other thread or none, a connection goes up, goes down
\* once and is removed for good: it implements ConnectionLifecycle.
THEOREM ImplementsLifecycle ==
    ASSUME SingleLoop, \A s, t \in Threads : s = t
    PROVE  Spec => LifecycleSpec
<1>1. Spec => Lifecycle!Init /\ [][Lifecycle!Next]_(Lifecycle!vars)
  <2>1. Spec => []OneThreadInv
    BY OneThread DEF ServerStays
  <2>2. OneThreadInv /\ ClosingInv /\ [Next]_vars => ClosingInv'
    BY ClosingStep DEF OneThreadInv
  <2> QED
    BY <2>1, <2>2, ClosingInit, LifeInit, LifeStep, PTL DEF Spec
<1> QED
  BY <1>1, PTL DEF LifecycleSpec, Lifecycle!Spec

------------------------------------------------------------------------------
(* Without other threads: all that was sent is written before the FIN.       *)

\* Positions are finitely many.
LEMMA CountSet ==
    ASSUME NEW q \in Content, NEW k
    PROVE  /\ IsFiniteSet({i \in DOMAIN q : q[i] = k}) /\ Count(q, k) \in Nat
<1>1. Len(q) \in Nat /\ DOMAIN q = 1..Len(q)
  BY DEF Content
<1>2. IsFiniteSet(1..Len(q))
  BY <1>1, FS_Interval
<1>3. IsFiniteSet({i \in DOMAIN q : q[i] = k})
  BY <1>1, <1>2, FS_Subset
<1> QED
  BY <1>3, FS_CardinalityType DEF Count

LEMMA CountNone == ASSUME NEW k PROVE Count(<<>>, k) = 0
<1>1. {i \in DOMAIN <<>> : <<>>[i] = k} = {}
  OBVIOUS
<1> QED
  BY <1>1, FS_EmptySet DEF Count

\* How often a byte occurs once a message is added.
LEMMA CountBytes ==
    ASSUME NEW q \in Content, NEW m \in Msgs, NEW k \in Msgs
    PROVE  Count(q \o Bytes(m), k) = Count(q, k) + (IF k = m THEN Size ELSE 0)
<1> DEFINE b == Bytes(m)
           r == q \o b
           n == Len(q)
           A == {i \in DOMAIN q : q[i] = k}
           B == {i \in DOMAIN r : r[i] = k}
<1>1. /\ b \in Seq(Msgs \cup {Garbage}) /\ q \in Seq(Msgs \cup {Garbage}) /\ Len(b) = Size
      /\ n \in Nat /\ Size \in Nat /\ Size > 0 /\ DOMAIN q = 1..n
  BY BytesFacts, ConnectionAssumption DEF Content
<1>2. \A i \in 1..Size : b[i] = m
  BY DEF Bytes
<1> HIDE DEF b
<1>3. /\ DOMAIN r = 1 .. n + Size
      /\ \A i \in 1 .. n + Size : r[i] = IF i <= n THEN q[i] ELSE b[i - n]
  BY <1>1
<1>4. \A i \in 1 .. n + Size : r[i] = IF i <= n THEN q[i] ELSE m
  <2> SUFFICES ASSUME NEW i \in 1 .. n + Size, i > n PROVE r[i] = m
    BY <1>1, <1>3
  <2>1. i - n \in 1..Size /\ r[i] = b[i - n]
    BY <1>1, <1>3
  <2> QED
    BY <1>2, <2>1
<1>5. IsFiniteSet(A) /\ Cardinality(A) \in Nat /\ Count(q, k) = Cardinality(A)
  BY CountSet DEF Count
<1>6. Count(r, k) = Cardinality(B)
  BY DEF Count
<1>7. Cardinality(B) = Cardinality(A) + (IF k = m THEN Size ELSE 0)
  <2>1. CASE k # m
    <3>1. B = A
      BY <1>1, <1>3, <1>4, <2>1
    <3>2. Cardinality(B) = Cardinality(A)
      BY <3>1
    <3> HIDE DEF A, B
    <3> QED
      BY <1>5, <2>1, <3>2
  <2>2. CASE k = m
    <3> DEFINE C == n + 1 .. n + Size
    <3>1. B = A \cup C
      BY <1>1, <1>3, <1>4, <2>2
    <3>2. A \cap C = {}
      BY <1>1
    <3>3. IsFiniteSet(C) /\ Cardinality(C) = Size
      <4>1. n + 1 \in Int /\ n + Size \in Int /\ ~(n + 1 > n + Size) /\ (n + Size) - (n + 1) + 1 = Size
        BY <1>1
      <4> QED
        BY <4>1, FS_Interval
    <3> HIDE DEF A, B, C
    <3>4. Cardinality(A \cup C) = Cardinality(A) + Cardinality(C) - Cardinality(A \cap C)
      BY <1>5, <3>3, FS_Union
    <3>5. Cardinality(A \cap C) = 0
      BY <3>2, FS_EmptySet
    <3>6. Cardinality(B) = Cardinality(A) + Size
      BY <1>1, <1>5, <3>1, <3>3, <3>4, <3>5
    <3> QED
      BY <2>2, <3>6
  <2> QED
    BY <2>1, <2>2
<1>8. Count(r, k) = Count(q, k) + (IF k = m THEN Size ELSE 0)
  BY <1>5, <1>6, <1>7
<1> QED
  BY <1>8 DEF b

LEMMA OwnInit == Init => OwnInv
<1> SUFFICES ASSUME Init PROVE OwnInv
  OBVIOUS
<1>1. \A m \in Msgs : Count(<<>>, m) = 0
  BY CountNone
<1>2. accepted = <<>> /\ promised = {} /\ sentBy[Owner] = {} /\ sock.shut = FALSE
  BY DEF Init
<1> QED
  BY <1>1, <1>2, NothingComesInit DEF OwnInv, NothingComes

\* Who shuts the write side down, and with what left to write.
LEMMA ShutStep ==
    ASSUME BaseInv, NothingComes, [Next]_vars, sock'.shut
    PROVE  \/ sock.shut
           \/ UserShutdown /\ outputBuffer_ = <<>> /\ ~At("write")
           \/ Drained /\ outputBuffer_' = <<>> /\ ~At("write")' /\ state_ = "kDisconnecting"
<1>0. TypeOK /\ StackInv /\ UpInv /\ WriteInv
  BY DEF BaseInv, ConnectionInv
<1>1. CASE UserShutdown
  <2>1. state_ = "kConnected" /\ ~At("write") /\ sock'.shut = (sock.shut \/ "write" \notin events_)
    BY <1>0, <1>1 DEF UserShutdown, ShutdownInLoop, Doing, At, TypeOK
  <2>2. "write" \notin events_ => outputBuffer_ = <<>>
    BY <1>0, <2>1 DEF UpInv, WriteInv
  <2> QED
    BY <1>1, <2>1, <2>2
<1>2. CASE Drained
  <2>1. ~At("write")'
    BY <1>0, <1>2, RestGoes
  <2>2. CASE sock' = sock
    BY <2>2
  <2>3. CASE sock' # sock
    <3>1. write.rest = <<>> /\ FinishShutdown /\ outputBuffer_' = write.rest
      BY <1>2, <2>3 DEF Drained
    <3>2. state_ = "kDisconnecting"
      BY <2>3, <3>1 DEF FinishShutdown
    <3> QED
      BY <1>2, <2>1, <3>1, <3>2
  <2> QED
    BY <2>2, <2>3
<1>3. ~RunShutdown
  BY <1>0, DoingHas DEF RunShutdown, NothingComes
<1>4. HandleRead \/ HandleError \/ WriteSome \/ Peer => sock'.shut = sock.shut
  BY <1>0 DEF HandleRead, HandleError, WriteSome, Peer, PeerSends, PeerReads, PeerCloses,
              PeerResets, TypeOK
<1>5. CASE ~UserShutdown /\ ~Drained
  <2>1. UNCHANGED sock \/ HandleRead \/ HandleError \/ WriteSome \/ Peer
    BY <1>3, <1>5
    DEF Next, LoopStep, Handlers, ThreadStep, PollIdle, PollReport, Swap, RunFunctor, EndFunctors,
        LeaveLoop,
        ConnectEstablished, ConnectDistroyed, Disconnect, RemoveChannel, HandleClose, CloseCallback,
        HandleWrite, Sent, RunSend, RunCallback, UserReturn, UserSend, HandOver, SendCheck,
        SendQueue, Queue, ShutdownCheck, ShutdownSet, ShutdownQueue, Release,
        RemoveConnectionInLoop,
        DestroyServer, EndBase, vars
  <2> QED
    BY <1>4, <2>1
<1> QED
  BY <1>1, <1>2, <1>5

\* A write side once shut down has nothing more to write.
LEMMA ShutStays ==
    ASSUME BaseInv, OwnInv, [Next]_vars, sock.shut
    PROVE  /\ state_' \in {"kDisconnecting", "kDisconnected"}
           /\ outputBuffer_' = <<>> /\ ~At("write")'
<1>0. TypeOK /\ StackInv /\ FreshInv /\ WriteInv /\ TypeOK'
  BY TypeStep DEF BaseInv, ConnectionInv
<1>1. state_ \in {"kDisconnecting", "kDisconnected"} /\ outputBuffer_ = <<>> /\ ~At("write")
  BY DEF OwnInv
<1>2. state_' \in {"kDisconnecting", "kDisconnected"}
  <2>1. ~ConnectEstablished
    BY <1>0, <1>1, DoingHas DEF ConnectEstablished, FreshInv
  <2>2. state_' # "kConnected" /\ state_' # "kConnecting"
    BY <1>1, <2>1, UpOnce, FreshEnds
  <2>3. state_' \in State
    BY <1>0 DEF TypeOK
  <2> QED
    BY <2>2, <2>3 DEF State
<1>3. CASE ~Writes
  <2>1. outputBuffer_' = outputBuffer_ /\ (UNCHANGED todo \/ ~At("write")')
    BY <1>0, <1>3, QuietStep
  <2> QED
    BY <1>1, <1>2, <2>1 DEF At
<1>4. CASE HandleWrite
  <2>1. "write" \notin events_
    BY <1>0, <1>1 DEF WriteInv
  <2>2. todo # <<>> /\ todo' = Tail(todo) /\ outputBuffer_' = outputBuffer_
    BY <1>4, <2>1 DEF HandleWrite, Doing, At, Return, connVars
  <2>3. AllPlain(todo')
    BY <1>0, <1>1, <2>2, BelowIsPlain
  <2>4. todo' \in Seq(Call)
    BY <1>0 DEF TypeOK
  <2>5. ~At("write")'
    BY <2>3, <2>4 DEF At, AllPlain, Plain, OtherOps
  <2> QED
    BY <1>1, <1>2, <2>2, <2>5
<1>5. ~WriteSome /\ ~Sent /\ ~Drained
  BY <1>1 DEF WriteSome, Sent, Drained, Doing
<1>6. ~RunSend
  BY <1>0, DoingHas DEF RunSend, OwnInv
<1>7. \A m \in Msgs : ~UserSend(m)
  BY <1>1 DEF UserSend
<1> QED
  BY <1>3, <1>4, <1>5, <1>6, <1>7 DEF Writes

\* The owner's messages are accepted whole, when they are sent.
LEMMA AcceptedStep ==
    ASSUME Threads = {}, BaseInv, OwnInv, [Next]_vars
    PROVE  /\ sentBy[Owner] \subseteq sentBy'[Owner]
           /\ sock'.peer # "reset" => sock.peer # "reset" /\ \A m \in Msgs :
                 Count(accepted', m) = IF m \in sentBy'[Owner] THEN Size ELSE 0
<1>0. TypeOK /\ StackInv /\ UpInv
  BY DEF BaseInv, ConnectionInv
<1>1. sock'.peer # "reset" => sock.peer # "reset"
  <2>1. HandleRead \/ HandleError \/ WriteSome \/ UserShutdown \/ RunShutdown \/ Peer \/ Drained
        => (sock'.peer # "reset" => sock.peer # "reset")
    BY <1>0 DEF HandleRead, HandleError, WriteSome, UserShutdown, RunShutdown, Drained,
                FinishShutdown, ShutdownInLoop, Peer, PeerSends, PeerReads, PeerCloses,
                PeerResets, TypeOK
  <2> QED
    BY <2>1
    DEF Next, LoopStep, Handlers, ThreadStep, PollIdle, PollReport, Swap, RunFunctor, EndFunctors,
        LeaveLoop,
        ConnectEstablished, ConnectDistroyed, Disconnect, RemoveChannel, HandleClose, CloseCallback,
        HandleWrite, Sent, RunSend, RunCallback, UserReturn, UserSend, HandOver, SendCheck,
        SendQueue, Queue, ShutdownCheck, ShutdownSet, ShutdownQueue, Release,
        RemoveConnectionInLoop,
        DestroyServer, EndBase, vars
<1>2. CASE \A m \in Msgs : ~UserSend(m)
  <2>1. UNCHANGED sentBy
    BY <1>2
    DEF Next, LoopStep, Handlers, PollIdle, PollReport, Swap, RunFunctor, EndFunctors, LeaveLoop,
        ConnectEstablished, ConnectDistroyed, Disconnect, RemoveChannel, HandleRead, HandleError,
        HandleClose,
        CloseCallback, HandleWrite, WriteSome, Sent, Drained, RunSend, RunShutdown, RunCallback,
        UserReturn, UserShutdown, RemoveConnectionInLoop, DestroyServer, EndBase, Peer,
        historyVars, vars
  <2>2. sock.peer # "reset" => UNCHANGED accepted
    <3>1. CASE ~Writes
      BY <1>0, <3>1, QuietStep
    <3>2. HandleWrite \/ WriteSome \/ Drained => UNCHANGED accepted
      BY DEF HandleWrite, WriteSome, Drained, historyVars
    <3>3. Sent /\ sock.peer # "reset" => UNCHANGED accepted
      <4>1. Sent => ~sock.shut
        BY DEF Sent, Doing, OwnInv
      <4> QED
        BY <4>1 DEF Sent, Fault, Broken
    <3>4. ~RunSend
      BY <1>0, DoingHas DEF RunSend, OwnInv
    <3> QED
      BY <1>2, <3>1, <3>2, <3>3, <3>4 DEF Writes
  <2> QED
    BY <1>1, <2>1, <2>2 DEF OwnInv
<1>3. ASSUME NEW m \in Msgs, UserSend(m)
      PROVE  /\ sentBy[Owner] \subseteq sentBy'[Owner]
             /\ sock'.peer # "reset" => \A k \in Msgs :
                   Count(accepted', k) = IF k \in sentBy'[Owner] THEN Size ELSE 0
  <2>1. state_ = "kConnected" /\ m \notin sentBy[Owner] /\ UNCHANGED sock
    BY <1>3 DEF UserSend, Unsent
  <2>2. sentBy'[Owner] = sentBy[Owner] \cup {m}
    BY <1>0, <1>3 DEF UserSend, TypeOK
  <2>3. accepted' = accepted \o Bytes(m)
    BY <1>3, <2>1 DEF UserSend, SendInLoop
  <2>4. accepted \in Content /\ Size \in Nat
    BY <1>0, ConnectionAssumption DEF TypeOK
  <2>5. ASSUME NEW k \in Msgs, sock'.peer # "reset"
        PROVE  Count(accepted', k) = IF k \in sentBy'[Owner] THEN Size ELSE 0
    <3>1. Count(accepted, k) = IF k \in sentBy[Owner] THEN Size ELSE 0
      BY <2>1, <2>5 DEF OwnInv
    <3>2. Count(accepted', k) = Count(accepted, k) + (IF k = m THEN Size ELSE 0)
      BY <2>3, <2>4, CountBytes
    <3> QED
      BY <2>1, <2>2, <2>4, <3>1, <3>2
  <2> QED
    BY <2>2, <2>5
<1> QED
  BY <1>1, <1>2, <1>3

LEMMA OwnStep == ASSUME Threads = {} PROVE BaseInv /\ OwnInv /\ [Next]_vars => OwnInv'
<1> SUFFICES ASSUME BaseInv, OwnInv, [Next]_vars PROVE OwnInv'
  OBVIOUS
<1>1. NothingComes /\ NothingComes'
  BY NothingComesStep DEF OwnInv, NothingComes
<1>2. promised' \subseteq sentBy'[Owner]
  <2>1. UNCHANGED promised \/ (promised' = sentBy[Owner] /\ UserShutdown)
    BY DEF Next, LoopStep, Handlers, PollIdle, PollReport, Swap, RunFunctor, EndFunctors, LeaveLoop,
           ConnectEstablished, ConnectDistroyed, Disconnect, RemoveChannel, HandleRead,
           HandleError, HandleClose,
           CloseCallback, HandleWrite, WriteSome, Sent, Drained, RunSend, RunShutdown, RunCallback,
           UserReturn, UserSend, UserShutdown, RemoveConnectionInLoop, DestroyServer, EndBase, Peer,
           historyVars, vars
  <2> QED
    BY <2>1, AcceptedStep DEF OwnInv
<1>3. sock'.shut => /\ state_' \in {"kDisconnecting", "kDisconnected"}
                    /\ outputBuffer_' = <<>> /\ ~At("write")'
  <2>1. CASE sock.shut
    BY <2>1, ShutStays
  <2>2. UserShutdown => state_' = "kDisconnecting" /\ UNCHANGED <<outputBuffer_, todo>>
    BY DEF UserShutdown, loopVars
  <2>3. Drained => state_' = state_
    BY DEF Drained
  <2>4. CASE sock'.shut /\ ~sock.shut
    BY <1>1, <2>2, <2>3, <2>4, ShutStep DEF At
  <2> QED
    BY <2>1, <2>4
<1> QED
  BY <1>1, <1>2, <1>3, AcceptedStep DEF OwnInv, NothingComes

\* Without other threads the FIN comes after every byte that was sent before
\* shutdown(), whatever the sizes, the buffer and the peer, on one loop or more.
THEOREM AllSentBeforeFin == ASSUME Threads = {} PROVE Spec => []SentBeforeFin
<1>1. Spec => []OwnInv
  BY OwnInit, OwnStep, BaseInductive, PTL DEF Spec
<1>2. BaseInv /\ OwnInv => SentBeforeFin
  <2> SUFFICES ASSUME BaseInv, OwnInv, sock.shut, sock.peer # "reset", NEW m \in promised
               PROVE  Count(sock.sent, m) = Size
    BY DEF SentBeforeFin
  <2>1. m \in Msgs /\ sock.sent \in Content
    BY DEF BaseInv, ConnectionInv, TypeOK
  <2>2. sock.sent \o <<>> = accepted
    BY DEF BaseInv, ConnectionInv, StreamIntact, OwnInv
  <2>3. sock.sent = accepted
    BY <2>1, <2>2, ConcatNone
  <2> QED
    BY <2>1, <2>3 DEF OwnInv
<1> QED
  BY <1>1, <1>2, BaseInductive, PTL
==============================================================================
