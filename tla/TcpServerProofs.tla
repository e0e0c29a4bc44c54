--------------------------- MODULE TcpServerProofs ---------------------------
(***************************************************************************)
(* Theorems about TcpServer for any number of threads, clients and         *)
(* descriptors: what TypeOK, PollersAgree, RemovalUnderWay and             *)
(* NothingDeadUsed say.                                                    *)
(***************************************************************************)
EXTENDS TcpServer, TLAPS

------------------------------------------------------------------------------
(* What the updates of a loop change.                                        *)

\* The queues of a loop, and how much of them has run.
SameQueues(lp, k) == /\ lp[k].pending = loop[k].pending
                     /\ lp[k].functors = loop[k].functors
                     /\ lp[k].ran = loop[k].ran

LEMMA QueuedFacts ==
    ASSUME NEW lp \in [Loops -> LoopType], NEW l \in Loops, NEW f \in Functor
    PROVE  /\ Queued(lp, l, f) \in [Loops -> LoopType]
           /\ \A k \in Loops : /\ Queued(lp, l, f)[k].at = lp[k].at
                               /\ Queued(lp, l, f)[k].quit_ = lp[k].quit_
                               /\ Queued(lp, l, f)[k].active = lp[k].active
                               /\ Queued(lp, l, f)[k].functors = lp[k].functors
                               /\ Queued(lp, l, f)[k].ran = lp[k].ran
                               /\ k # l => Queued(lp, l, f)[k].pending = lp[k].pending
           /\ Queued(lp, l, f)[l].pending = Append(lp[l].pending, f)
<1>1. lp[l] \in LoopType /\ Append(lp[l].pending, f) \in Seq(Functor)
  BY DEF LoopType
<1>2. [lp[l] EXCEPT !.pending = Append(@, f)] \in LoopType
  BY <1>1 DEF LoopType
<1>3. Queued(lp, l, f) = [lp EXCEPT ![l] = [lp[l] EXCEPT !.pending = Append(@, f)]]
  BY DEF Queued
<1>4. Queued(lp, l, f) \in [Loops -> LoopType]
  BY <1>2, <1>3
<1>5. /\ \A k \in Loops : k # l => Queued(lp, l, f)[k] = lp[k]
      /\ Queued(lp, l, f)[l] = [lp[l] EXCEPT !.pending = Append(lp[l].pending, f)]
  BY <1>3
<1>6. LET q == [lp[l] EXCEPT !.pending = Append(lp[l].pending, f)]
      IN  /\ q.at = lp[l].at /\ q.quit_ = lp[l].quit_ /\ q.active = lp[l].active
          /\ q.functors = lp[l].functors /\ q.ran = lp[l].ran
          /\ q.pending = Append(lp[l].pending, f)
  BY <1>1 DEF LoopType
<1> QED
  BY <1>4, <1>5, <1>6

LEMMA HandledFacts ==
    ASSUME TypeOK, NEW l \in Loops, NEW ch
    PROVE  /\ Handled(l, ch) \in [Loops -> LoopType]
           /\ \A k \in Loops : /\ Handled(l, ch)[k].at = loop[k].at
                               /\ Handled(l, ch)[k].quit_ = loop[k].quit_
                               /\ SameQueues(Handled(l, ch), k)
                               /\ k # l => Handled(l, ch)[k].active = loop[k].active
           /\ Handled(l, ch)[l].active = loop[l].active \ {ch}
BY DEF Handled, LoopType, TypeOK, SameQueues

LEMMA RanFacts ==
    ASSUME TypeOK, NEW l \in Loops
    PROVE  /\ Ran(l) \in [Loops -> LoopType]
           /\ \A k \in Loops : /\ Ran(l)[k].at = loop[k].at
                               /\ Ran(l)[k].quit_ = loop[k].quit_
                               /\ Ran(l)[k].active = loop[k].active
                               /\ Ran(l)[k].pending = loop[k].pending
                               /\ Ran(l)[k].functors = loop[k].functors
                               /\ k # l => Ran(l)[k].ran = loop[k].ran
           /\ Ran(l)[l].ran = loop[l].ran + 1
<1>1. loop \in [Loops -> LoopType] /\ loop[l].ran + 1 \in Nat
  BY DEF TypeOK, LoopType
<1>2. [loop[l] EXCEPT !.ran = @ + 1] \in LoopType
  BY <1>1 DEF LoopType
<1>3. Ran(l) = [loop EXCEPT ![l] = [loop[l] EXCEPT !.ran = @ + 1]]
  BY DEF Ran
<1>4. /\ Ran(l) \in [Loops -> LoopType]
      /\ \A k \in Loops : k # l => Ran(l)[k] = loop[k]
      /\ Ran(l)[l] = [loop[l] EXCEPT !.ran = loop[l].ran + 1]
  BY <1>1, <1>2, <1>3
<1>5. LET q == [loop[l] EXCEPT !.ran = loop[l].ran + 1]
      IN  /\ q.at = loop[l].at /\ q.quit_ = loop[l].quit_ /\ q.active = loop[l].active
          /\ q.pending = loop[l].pending /\ q.functors = loop[l].functors
          /\ q.ran = loop[l].ran + 1
  BY <1>1 DEF LoopType
<1> QED
  BY <1>4, <1>5

LEMMA FunctorNames ==
    /\ <<"listen", Listener>> \in Functor
    /\ \A c \in Conns : /\ <<"connectEstablished", c>> \in Functor
                        /\ <<"remove", c>> \in Functor
                        /\ <<"connectDistroyed", c>> \in Functor
    /\ \A f \in Functor : /\ f[1] \in {"listen", "connectEstablished", "remove", "connectDistroyed"}
                          /\ f[1] = "listen" => f = <<"listen", Listener>>
                          /\ f[1] # "listen" => f[2] \in Conns /\ f = <<f[1], f[2]>>
BY DEF Functor

LEMMA StartedFacts ==
    ASSUME TypeOK, PhaseInv, ~started_
    PROVE  /\ Started \in [Loops -> LoopType]
           /\ \A l \in Loops : /\ Started[l].quit_ = loop[l].quit_
                               /\ Started[l].active = loop[l].active
                               /\ SameQueues(Started, l)
                               /\ IF l \in 1..numThreads_ THEN loop[l].at = "none" /\ Started[l].at = "check"
                                  ELSE Started[l] = loop[l]
<1>0. loop \in [Loops -> LoopType]
  BY DEF TypeOK
<1>1. \A l \in Loops : loop[l] \in LoopType /\ [loop[l] EXCEPT !.at = "check"] \in LoopType
  BY <1>0 DEF LoopType, Point
<1>2. \A l \in Loops : l \in 1..numThreads_ => loop[l].at = "none"
  BY ServerAssumption DEF PhaseInv, Threads, NewLoop, Loops
<1> QED
  BY <1>1, <1>2 DEF Started, SameQueues, LoopType

LEMMA StartThreadFacts ==
    ASSUME TypeOK, PhaseInv, StartThread
    PROVE  /\ threads + 1 \in Loops \ {0} /\ threads + 1 \in 1..numThreads_ /\ threads + 1 \notin Threads
           /\ loop[threads + 1] = NewLoop
           /\ loop' \in [Loops -> LoopType]
           /\ \A l \in Loops : /\ loop'[l].quit_ = loop[l].quit_
                               /\ loop'[l].active = loop[l].active
                               /\ SameQueues(loop', l)
                               /\ l # threads + 1 => loop'[l] = loop[l]
           /\ loop'[threads + 1].at = "check"
<1>1. threads \in Nat /\ threads + 1 \in Loops \ {0} /\ threads + 1 \in 1..numThreads_ /\ threads + 1 \notin Threads
  BY ServerAssumption DEF StartThread, TypeOK, Loops, Threads
<1>2. loop[threads + 1] = NewLoop
  BY <1>1 DEF PhaseInv
<1>3. loop' = [loop EXCEPT ![threads + 1].at = "check"] /\ loop \in [Loops -> LoopType]
  BY DEF StartThread, TypeOK
<1>4. loop[threads + 1] \in LoopType
  BY <1>1, <1>3
<1>5. [loop[threads + 1] EXCEPT !.at = "check"] \in LoopType
  BY <1>4 DEF LoopType, Point
<1> QED
  BY <1>1, <1>2, <1>3, <1>4, <1>5 DEF SameQueues, LoopType

LEMMA TurnFacts ==
    ASSUME NEW lp \in [Loops -> LoopType], NEW l \in Loops, Turn(lp, l)
    PROVE  /\ loop' \in [Loops -> LoopType]
           /\ \A k \in Loops : /\ loop'[k].quit_ = lp[k].quit_
                               /\ loop'[k].pending = lp[k].pending
                               /\ loop'[k].functors = lp[k].functors
                               /\ loop'[k].ran = lp[k].ran
                               /\ k # l => loop'[k] = lp[k]
           /\ \/ loop'[l].at = "left" /\ loop'[l].active = lp[l].active /\ lp[l].quit_
              \/ loop'[l].at = "handle" /\ loop'[l].active \subseteq Ready(l) \cup Others(l) /\ ~lp[l].quit_
<1>1. Ready(l) \cup Others(l) \subseteq Conns \cup {Listener}
  BY DEF Ready, Others
<1>2. CASE loop' = [lp EXCEPT ![l].at = "left"] /\ lp[l].quit_
  BY <1>2 DEF LoopType, Point
<1>3. ASSUME NEW messages \in SUBSET Others(l), ~lp[l].quit_,
             loop' = [lp EXCEPT ![l].at = "handle", ![l].active = Ready(l) \cup messages]
      PROVE  /\ loop' \in [Loops -> LoopType]
             /\ \A k \in Loops : /\ loop'[k].quit_ = lp[k].quit_
                                 /\ loop'[k].pending = lp[k].pending
                                 /\ loop'[k].functors = lp[k].functors
                                 /\ loop'[k].ran = lp[k].ran
                                 /\ k # l => loop'[k] = lp[k]
             /\ loop'[l].at = "handle" /\ loop'[l].active \subseteq Ready(l) \cup Others(l)
  BY <1>1, <1>3 DEF LoopType, Point
<1> QED
  BY <1>2, <1>3 DEF Turn

\* A loop whose functors have all run throws the vector away.
Emptied(l) == [loop EXCEPT ![l].functors = <<>>, ![l].ran = 0]

LEMMA EmptiedFacts ==
    ASSUME TypeOK, NEW l \in Loops
    PROVE  /\ Emptied(l) \in [Loops -> LoopType]
           /\ \A k \in Loops : /\ Emptied(l)[k].at = loop[k].at
                               /\ Emptied(l)[k].quit_ = loop[k].quit_
                               /\ Emptied(l)[k].active = loop[k].active
                               /\ Emptied(l)[k].pending = loop[k].pending
                               /\ k # l => Emptied(l)[k] = loop[k]
           /\ Emptied(l)[l].functors = <<>> /\ Emptied(l)[l].ran = 0
<1>1. loop \in [Loops -> LoopType] /\ <<>> \in Seq(Functor)
  BY DEF TypeOK
<1> QED
  BY <1>1 DEF Emptied, LoopType

LEMMA SwapFacts ==
    ASSUME TypeOK, NEW l \in Loops, Swap(l)
    PROVE  /\ loop' \in [Loops -> LoopType]
           /\ \A k \in Loops : /\ loop'[k].quit_ = loop[k].quit_
                               /\ loop'[k].active = loop[k].active
                               /\ k # l => loop'[k] = loop[k]
           /\ loop'[l].at = "run" /\ loop'[l].functors = loop[l].pending
           /\ loop'[l].pending = <<>> /\ loop'[l].ran = 0
           /\ loop[l].at = "handle" /\ loop[l].functors = <<>> /\ loop[l].active = {}
<1>1. loop \in [Loops -> LoopType] /\ loop[l].pending \in Seq(Functor) /\ <<>> \in Seq(Functor)
  BY DEF TypeOK, LoopType
<1>2. loop[l].at = "handle" /\ loop[l].functors = <<>> /\ loop[l].active = {}
  BY DEF TypeOK, Swap
<1>3. loop' = [loop EXCEPT ![l].at = "run", ![l].functors = loop[l].pending,
                           ![l].pending = <<>>, ![l].ran = 0]
  BY DEF Swap
<1> QED
  BY <1>1, <1>2, <1>3 DEF LoopType, Point

------------------------------------------------------------------------------
(* Type correctness.                                                         *)

LoopTypeOK == /\ loop \in [Loops -> LoopType]
              /\ \A l \in Loops : /\ loop[l].ran <= Len(loop[l].functors)
                                  /\ loop[l].at # "handle" => loop[l].active = {}
                                  /\ loop[l].at # "run" => loop[l].functors = <<>>

LEMMA TypeInit == Init => TypeOK
<1> SUFFICES ASSUME Init
             PROVE  TypeOK
  OBVIOUS
<1>1. /\ NewLoop \in LoopType /\ [NewLoop EXCEPT !.at = "start"] \in LoopType
      /\ NewLoop.active = {} /\ NewLoop.functors = <<>> /\ NewLoop.ran = 0 /\ NewLoop.pending = <<>>
      /\ NewLoop.at = "none" /\ NewLoop.quit_ = FALSE
  <2>1. <<>> \in Seq(Functor) /\ {} \in SUBSET (Conns \cup {Listener})
    OBVIOUS
  <2> QED
    BY <2>1 DEF NewLoop, LoopType, Point
<1>2. LoopTypeOK
  BY <1>1 DEF Init, LoopTypeOK, NewLoop
<1>3. NewConn \in [state_ : State, loop_ : Loops, fd : Fds \cup {None}, closed : BOOLEAN]
  BY ServerAssumption DEF NewConn, State, Loops
<1>4. Conns = 1..MaxClients /\ 0 \in Loops /\ 1 \in 1..(MaxClients + 1) /\ 1 \in 1..(MaxThreads + 1)
      /\ 0 \in 0..MaxClients /\ 0 \in 0..0
  BY ServerAssumption DEF Loops, Conns
<1>5. conn \in [Conns -> [state_ : State, loop_ : Loops, fd : Fds \cup {None}, closed : BOOLEAN]]
      /\ channels_ \in [Loops -> [Fds -> Conns \cup {None}]]
  BY <1>3 DEF Init
<1>6. numThreads_ \in Loops /\ threads \in 0..numThreads_ /\ next_ \in 1 .. (IF threads = 0 THEN 1 ELSE threads)
  BY ServerAssumption DEF Init, Loops
<1> QED
  BY <1>2, <1>4, <1>5, <1>6 DEF Init, LoopTypeOK, TypeOK

\* When a client is accepted there is a number for its connection, and a loop.
LEMMA NextConnFacts ==
    ASSUME ServerInv, InHandler(0, Listener)
    PROVE  /\ nextConnId_ \in Conns /\ nextConnId_ <= MaxClients /\ NextLoop \in Loops
           /\ backlog > 0 /\ loop[0].at = "handle"
           /\ NextLoop # 0 => NextLoop \in Threads
<1>1. backlog > 0 /\ loop[0].at = "handle"
  BY ServerAssumption DEF ServerInv, ActiveInv, InHandler, Loops
<1>2. nextConnId_ <= MaxClients
  BY <1>1, ServerAssumption DEF ServerInv, TypeOK, ConnInv
<1> QED
  BY <1>1, <1>2, ServerAssumption DEF ServerInv, TypeOK, NextLoop, Conns, Loops, Threads

\* Each step of a loop keeps the types of all loops.
LEMMA LoopTypeStep == ServerInv /\ [Next]_vars => LoopTypeOK'
<1> SUFFICES ASSUME ServerInv, TypeOK, PhaseInv, [Next]_vars
             PROVE  LoopTypeOK'
  BY DEF ServerInv
<1>0. LoopTypeOK /\ 0 \in Loops
  BY ServerAssumption DEF TypeOK, LoopTypeOK, Loops
<1>a. ASSUME NEW l \in Loops, NEW point \in Point, NEW quit \in BOOLEAN,
             NEW active \in SUBSET (Conns \cup {Listener}), NEW lp \in [Loops -> LoopType],
             \A k \in Loops \ {l} : lp[k] = loop[k],
             lp[l].at = point, lp[l].quit_ = quit, lp[l].active = active,
             point # "handle" => active = {},
             point # "run" => lp[l].functors = <<>>,
             lp[l].ran <= Len(lp[l].functors),
             loop' = lp
      PROVE  LoopTypeOK'
  BY <1>a, <1>0 DEF LoopTypeOK
<1>b. ASSUME UNCHANGED loop PROVE LoopTypeOK'
  BY <1>b, <1>0 DEF LoopTypeOK
<1>c. ASSUME NEW l \in Loops, NEW ch, NEW k \in Loops, NEW f \in Functor,
             loop' = Queued(Handled(l, ch), k, f), loop[l].at = "handle"
      PROVE  LoopTypeOK'
  <2>1. /\ Handled(l, ch) \in [Loops -> LoopType]
        /\ \A j \in Loops : /\ Handled(l, ch)[j].at = loop[j].at
                            /\ Handled(l, ch)[j].active \subseteq loop[j].active
                            /\ SameQueues(Handled(l, ch), j)
    BY HandledFacts
  <2>2. /\ loop' \in [Loops -> LoopType]
        /\ \A j \in Loops : /\ loop'[j].at = Handled(l, ch)[j].at
                            /\ loop'[j].active = Handled(l, ch)[j].active
                            /\ loop'[j].functors = Handled(l, ch)[j].functors
                            /\ loop'[j].ran = Handled(l, ch)[j].ran
    BY <2>1, <1>c, QueuedFacts
  <2> QED
    BY <2>1, <2>2, <1>0 DEF LoopTypeOK, SameQueues
<1>d. ASSUME NEW l \in Loops, NEW ch, loop' = Handled(l, ch)
      PROVE  LoopTypeOK'
  BY <1>d, <1>0, HandledFacts DEF LoopTypeOK, SameQueues
<1>e. ASSUME NEW l \in Loops, NEW f, Running(l, f), loop' = Ran(l)
      PROVE  LoopTypeOK'
  <2>1. loop[l].ran \in Nat /\ loop[l].functors \in Seq(Functor) /\ loop[l].ran + 1 <= Len(loop[l].functors)
    BY <1>e, <1>0 DEF LoopTypeOK, LoopType, Running
  <2> QED
    BY <1>e, <1>0, <2>1, RanFacts DEF LoopTypeOK
<1>f. ASSUME NEW k \in Loops, NEW f \in Functor, loop' = Queued(loop, k, f)
      PROVE  LoopTypeOK'
  <2>1. /\ loop' \in [Loops -> LoopType]
        /\ \A j \in Loops : /\ loop'[j].at = loop[j].at
                            /\ loop'[j].active = loop[j].active
                            /\ loop'[j].functors = loop[j].functors
                            /\ loop'[j].ran = loop[j].ran
    BY <1>f, <1>0, QueuedFacts DEF LoopTypeOK
  <2> QED
    BY <2>1, <1>0 DEF LoopTypeOK
<1>1. CASE Start
  BY <1>0, <1>1, StartedFacts DEF LoopTypeOK, Start, SameQueues
<1>18. CASE StartThread
  BY <1>0, <1>18, StartThreadFacts DEF LoopTypeOK, SameQueues, NewLoop
<1>19. CASE StartListen
  BY <1>0, <1>19, <1>f, FunctorNames DEF StartListen
<1>20. CASE StartElsewhere \/ StartTooLate \/ WakeupBase
  BY <1>20, <1>b DEF StartElsewhere, StartTooLate, WakeupBase
<1>2. CASE EnterLoop
  BY <1>2, <1>0 DEF EnterLoop, LoopTypeOK, LoopType, Point
<1>3. ASSUME NEW l \in Loops, FirstTurn(l)
      PROVE  LoopTypeOK'
  <2>1. Turn(loop, l) /\ loop[l].at = "check"
    BY <1>3 DEF FirstTurn
  <2> QED
    BY <2>1, <1>0, TurnFacts DEF LoopTypeOK
<1>4. ASSUME NEW l \in Loops, Swap(l)
      PROVE  LoopTypeOK'
  <2>1. loop'[l].ran = 0 /\ Len(loop'[l].functors) \in Nat
    BY <1>4, SwapFacts DEF LoopType
  <2> QED
    BY <1>4, <1>0, <2>1, SwapFacts DEF LoopTypeOK
<1>5. ASSUME NEW l \in Loops, EndFunctors(l)
      PROVE  LoopTypeOK'
  <2>1. Turn(Emptied(l), l) /\ loop[l].at = "run"
    BY <1>5 DEF EndFunctors, Emptied
  <2>2. Len(<<>>) = 0
    OBVIOUS
  <2>3. Emptied(l) \in [Loops -> LoopType]
    BY EmptiedFacts
  <2>4. /\ loop' \in [Loops -> LoopType]
        /\ \A k \in Loops : k # l => loop'[k] = Emptied(l)[k]
        /\ loop'[l].functors = Emptied(l)[l].functors /\ loop'[l].ran = Emptied(l)[l].ran
        /\ \/ loop'[l].at = "left" /\ loop'[l].active = Emptied(l)[l].active
           \/ loop'[l].at = "handle"
    BY <2>1, <2>3, TurnFacts
  <2>5. /\ \A k \in Loops : k # l => loop'[k] = loop[k]
        /\ loop'[l].functors = <<>> /\ loop'[l].ran = 0
        /\ \/ loop'[l].at = "left" /\ loop'[l].active = loop[l].active
           \/ loop'[l].at = "handle"
    BY <2>4, EmptiedFacts
  <2> QED
    BY <2>1, <2>2, <2>4, <2>5, <1>0 DEF LoopTypeOK
<1>6. ASSUME NEW l \in Loops, EndLoop(l)
      PROVE  LoopTypeOK'
  BY <1>6, <1>0 DEF EndLoop, LoopTypeOK, LoopType, Point
<1>7. CASE QuitBase
  BY <1>7, <1>0 DEF QuitBase, LoopTypeOK, LoopType
<1>8. CASE Accept
  <2>1. ASSUME NEW fd \in FreeFds, NewConnection(fd)
        PROVE  LoopTypeOK'
    <3>1. nextConnId_ \in Conns /\ NextLoop \in Loops
      BY <1>8, NextConnFacts DEF Accept
    <3>2. CASE NextLoop = 0
      BY <3>2, <2>1, <1>d, <1>0 DEF NewConnection
    <3>3. CASE NextLoop # 0
      BY <3>1, <3>3, <2>1, <1>c, <1>0, <1>8, FunctorNames DEF NewConnection, Accept, InHandler
    <3> QED
      BY <3>2, <3>3
  <2> QED
    BY <1>8, <2>1, <1>d, <1>0 DEF Accept
<1>9. CASE AcceptFails
  BY <1>9, <1>d, <1>0 DEF AcceptFails
<1>10. ASSUME NEW c \in Conns, HandleRead(c) \/ HandleClose(c)
       PROVE  LoopTypeOK'
  <2>1. conn[c].loop_ \in Loops
    BY DEF TypeOK
  <2>2. CASE HandleRead(c)
    BY <2>1, <2>2, <1>d DEF HandleRead
  <2>3. CASE HandleClose(c)
    BY <2>1, <2>3, <1>c, <1>0, FunctorNames DEF HandleClose, InHandler
  <2> QED
    BY <1>10, <2>2, <2>3
<1>11. ASSUME NEW c \in Conns, ConnectEstablished(c) \/ ConnectDistroyed(c)
       PROVE  LoopTypeOK'
  <2>1. conn[c].loop_ \in Loops
    BY DEF TypeOK
  <2> QED
    BY <1>11, <2>1, <1>e DEF ConnectEstablished, ConnectDistroyed
<1>12. CASE Listen
  BY <1>12, <1>0, <1>e DEF Listen
<1>13. ASSUME NEW c \in Conns, RemoveConnectionInLoop(c)
       PROVE  LoopTypeOK'
  <2>1. /\ Running(0, <<"remove", c>>) /\ conn[c].loop_ \in Loops
        /\ loop' = Queued(Ran(0), conn[c].loop_, <<"connectDistroyed", c>>)
    BY <1>13 DEF RemoveConnectionInLoop, TypeOK
  <2>2. loop[0].ran \in Nat /\ loop[0].ran + 1 <= Len(loop[0].functors) /\ loop[0].at = "run"
    BY <2>1, <1>0 DEF LoopTypeOK, LoopType, Running
  <2>3. /\ Ran(0) \in [Loops -> LoopType]
        /\ \A j \in Loops : /\ Ran(0)[j].at = loop[j].at
                            /\ Ran(0)[j].active = loop[j].active
                            /\ Ran(0)[j].functors = loop[j].functors
                            /\ Ran(0)[j].ran <= Len(loop[j].functors)
    BY <2>2, <1>0, RanFacts DEF LoopTypeOK
  <2>4. PICK f \in Functor, k \in Loops : loop' = Queued(Ran(0), k, f)
    BY <2>1, FunctorNames
  <2>5. /\ loop' \in [Loops -> LoopType]
        /\ \A j \in Loops : /\ loop'[j].at = loop[j].at
                            /\ loop'[j].active = loop[j].active
                            /\ loop'[j].functors = loop[j].functors
                            /\ loop'[j].ran = Ran(0)[j].ran
    BY <2>3, <2>4, QueuedFacts
  <2> QED
    BY <2>3, <2>5, <1>0 DEF LoopTypeOK
<1>14. ASSUME NEW c \in Conns, DestroyConnection(c)
       PROVE  LoopTypeOK'
  <2>1. conn[c].loop_ \in Loops
    BY DEF TypeOK
  <2> QED
    BY <1>14, <2>1, <1>b, <1>f, FunctorNames DEF DestroyConnection
<1>15. CASE QuitThread
  BY <1>15, <1>0 DEF QuitThread, LoopTypeOK, LoopType, Threads
<1>16. CASE DestroyMembers \/ QuitWakeup \/ JoinThread \/ DestroyAcceptor \/ Connect \/ UNCHANGED vars
  BY <1>16, <1>b DEF DestroyMembers, QuitWakeup, JoinThread, DestroyAcceptor, Connect, vars
<1>17. ASSUME NEW c \in Conns, PeerCloses(c)
       PROVE  LoopTypeOK'
  BY <1>17, <1>b DEF PeerCloses
<1> QED
  BY <1>1, <1>2, <1>3, <1>4, <1>5, <1>6, <1>7, <1>8, <1>9, <1>10, <1>11, <1>12, <1>13, <1>14,
     <1>15, <1>16, <1>17, <1>18, <1>19, <1>20 DEF Next, BaseStep, LoopStep, OtherStep, Done

MisuseKinds == {"server", "loop", "connection", "start", "wakeup"}

ConnType == [state_ : State, loop_ : Loops, fd : Fds \cup {None}, closed : BOOLEAN]

LEMMA StateSet ==
    ASSUME NEW c \in Conns, NEW s \in State, conn \in [Conns -> ConnType]
    PROVE  [conn EXCEPT ![c].state_ = s] \in [Conns -> ConnType]
<1>1. conn[c] \in ConnType
  OBVIOUS
<1>2. [conn[c] EXCEPT !.state_ = s] \in ConnType
  BY <1>1 DEF ConnType
<1> QED
  BY <1>2

LEMMA TypeStep == ServerInv /\ [Next]_vars => TypeOK'
<1> SUFFICES ASSUME ServerInv, [Next]_vars, TypeOK, PhaseInv
             PROVE  TypeOK'
  BY DEF ServerInv
<1>0. LoopTypeOK' /\ 0 \in Loops
  BY LoopTypeStep, ServerAssumption DEF Loops
<1>a. ASSUME UNCHANGED <<poolVars, acceptVars, serverVars, conn, channels_, misused>>
      PROVE  TypeOK'
  BY <1>a, <1>0 DEF LoopTypeOK, TypeOK, poolVars, acceptVars, serverVars
<1>b. ASSUME NEW kind \in MisuseKinds, NEW exists, Uses(kind, exists)
      PROVE  misused' \in SUBSET MisuseKinds
  BY <1>b DEF Uses, TypeOK, MisuseKinds
<1>m. MisuseKinds = {"server", "loop", "connection", "start", "wakeup"}
  BY DEF MisuseKinds
<1>1. CASE Start
  <2>1. threads' = numThreads_ /\ numThreads_ \in Nat /\ threads = 0 /\ UNCHANGED <<next_, numThreads_>>
    BY <1>1, ServerAssumption DEF Start, PhaseInv, TypeOK, Loops
  <2>2. threads' \in 0..numThreads_ /\ next_ \in 1 .. (IF threads' = 0 THEN 1 ELSE threads')
    BY <2>1 DEF TypeOK
  <2> QED
    BY <1>1, <1>0, <2>1, <2>2 DEF Start, TypeOK, LoopTypeOK, serverVars
<1>19. CASE StartThread
  <2>1. threads' = threads + 1 /\ threads \in Nat /\ threads < numThreads_ /\ UNCHANGED <<next_, numThreads_>>
    BY <1>19, ServerAssumption DEF StartThread, TypeOK, Loops
  <2>2. threads' \in 0..numThreads_ /\ next_ \in 1 .. (IF threads' = 0 THEN 1 ELSE threads')
    BY <2>1, ServerAssumption DEF TypeOK, Loops
  <2> QED
    BY <1>19, <1>0, <2>1, <2>2 DEF StartThread, TypeOK, LoopTypeOK, acceptVars, serverVars
<1>20. CASE StartElsewhere \/ StartListen
  BY <1>20, <1>0 DEF StartElsewhere, StartListen, TypeOK, LoopTypeOK, acceptVars, serverVars
<1>21. CASE StartTooLate \/ WakeupBase
  <2>1. misused' \in SUBSET MisuseKinds
    BY <1>21, <1>b, <1>m DEF StartTooLate, WakeupBase, TypeOK
  <2> QED
    BY <1>21, <1>0, <1>m, <2>1 DEF StartTooLate, WakeupBase, TypeOK, LoopTypeOK, acceptVars, serverVars
<1>22. CASE QuitBase
  BY <1>22, <1>0 DEF QuitBase, TypeOK, LoopTypeOK, acceptVars, serverVars
<1>23. CASE QuitThread
  BY <1>23, <1>0 DEF QuitThread, TypeOK, LoopTypeOK, poolVars, acceptVars
<1>24. CASE QuitWakeup
  <2>1. misused' \in SUBSET MisuseKinds
    BY <1>24, <1>b, <1>m DEF QuitWakeup
  <2> QED
    BY <1>24, <1>0, <1>m, <2>1 DEF QuitWakeup, TypeOK, LoopTypeOK, poolVars, acceptVars
<1>2. CASE EnterLoop \/ AcceptFails
  BY <1>2, <1>a DEF EnterLoop, AcceptFails
<1>3. ASSUME NEW l \in Loops, FirstTurn(l) \/ Swap(l) \/ EndFunctors(l) \/ EndLoop(l)
      PROVE  TypeOK'
  BY <1>3, <1>a DEF FirstTurn, Swap, EndFunctors, EndLoop
<1>4. CASE Accept
  <2>1. /\ nextConnId_ \in Conns /\ nextConnId_ <= MaxClients /\ NextLoop \in Loops /\ backlog > 0
        /\ backlog' \in 0..clients
    BY <1>4, NextConnFacts DEF Accept, TypeOK
  <2>2. ASSUME NEW fd \in FreeFds, NewConnection(fd)
        PROVE  TypeOK'
    <3>1. next_' \in 1 .. (IF threads = 0 THEN 1 ELSE threads)
      BY <2>2, ServerAssumption DEF NewConnection, Advance, TypeOK, Loops
    <3>2. [state_ |-> IF NextLoop = 0 THEN "kConnected" ELSE "kConnecting",
           loop_ |-> NextLoop, fd |-> fd, closed |-> FALSE] \in ConnType
      BY <2>1, <2>2 DEF ConnType, State, FreeFds
    <3>3. conn' \in [Conns -> ConnType]
      BY <2>1, <2>2, <3>2 DEF NewConnection, TypeOK, ConnType
    <3>4. channels_' \in [Loops -> [Fds -> Conns \cup {None}]]
      <4>1. \/ channels_' = [channels_ EXCEPT ![0][fd] = nextConnId_]
            \/ channels_' = channels_
        BY <2>2 DEF NewConnection
      <4>2. channels_ \in [Loops -> [Fds -> Conns \cup {None}]]
        BY DEF TypeOK
      <4> QED
        BY <2>1, <1>0, <4>1, <4>2
    <3>5. /\ nextConnId_' = nextConnId_ + 1 /\ connections_' = connections_ \cup {nextConnId_}
          /\ Uses("loop", LoopExists(NextLoop))
      BY <2>2 DEF NewConnection
    <3>7. nextConnId_' \in 1..(MaxClients + 1) /\ connections_' \in SUBSET Conns
      BY <2>1, <3>5, ServerAssumption DEF TypeOK, Conns
    <3>6. misused' \in SUBSET MisuseKinds
      BY <3>5, <1>b, <1>m
    <3> QED
      BY <1>m, <1>0, <1>4, <2>1, <3>1, <3>3, <3>4, <3>6, <3>7 DEF Accept, TypeOK, LoopTypeOK, ConnType
  <2>3. CASE UNCHANGED <<next_, nextConnId_, connections_, conn, channels_, misused>>
    BY <1>0, <1>4, <2>1, <2>3 DEF Accept, TypeOK, LoopTypeOK
  <2> QED
    BY <1>4, <2>2, <2>3 DEF Accept
<1>5. ASSUME NEW c \in Conns, HandleRead(c)
      PROVE  TypeOK'
  <2>1. conn' \in [Conns -> ConnType]
    <3>1. conn' = [conn EXCEPT ![c].state_ = "kDisconnecting"]
      BY <1>5 DEF HandleRead
    <3>2. conn \in [Conns -> ConnType] /\ "kDisconnecting" \in State
      BY DEF TypeOK, ConnType, State
    <3> QED
      BY <3>1, <3>2, StateSet
  <2>2. Uses("connection", Open(c))
    BY <1>5 DEF HandleRead
  <2>3. misused' \in SUBSET MisuseKinds
    BY <2>2, <1>b, <1>m
  <2> QED
    BY <1>m, <1>0, <1>5, <2>1, <2>3 DEF HandleRead, TypeOK, LoopTypeOK, ConnType, poolVars, acceptVars, serverVars
<1>6. ASSUME NEW c \in Conns, HandleClose(c)
      PROVE  TypeOK'
  <2>1. conn' \in [Conns -> ConnType]
    <3>1. conn' = [conn EXCEPT ![c].state_ = "kDisconnected"]
      BY <1>6 DEF HandleClose
    <3>2. conn \in [Conns -> ConnType] /\ "kDisconnected" \in State
      BY DEF TypeOK, ConnType, State
    <3> QED
      BY <3>1, <3>2, StateSet
  <2>3. misused' \in SUBSET MisuseKinds
    BY <1>6, <1>m DEF HandleClose, TypeOK
  <2>2. connections_' \in SUBSET Conns
    BY <1>6 DEF HandleClose, TypeOK
  <2> QED
    BY <1>m, <1>0, <1>6, <2>1, <2>2, <2>3 DEF HandleClose, TypeOK, LoopTypeOK, ConnType, poolVars, acceptVars
<1>7. CASE Listen
  <2>1. misused' \in SUBSET MisuseKinds
    BY <1>7, <1>b, <1>m DEF Listen
  <2> QED
    BY <1>m, <1>0, <1>7, <2>1 DEF Listen, TypeOK, LoopTypeOK, poolVars, serverVars
<1>8. ASSUME NEW c \in Conns, ConnectEstablished(c)
      PROVE  TypeOK'
  <2>1. conn' \in [Conns -> ConnType]
    <3>1. conn' = [conn EXCEPT ![c].state_ = "kConnected"]
      BY <1>8 DEF ConnectEstablished
    <3>2. conn \in [Conns -> ConnType] /\ "kConnected" \in State
      BY DEF TypeOK, ConnType, State
    <3> QED
      BY <3>1, <3>2, StateSet
  <2>2. channels_' \in [Loops -> [Fds -> Conns \cup {None}]]
    BY <1>8 DEF ConnectEstablished, TypeOK
  <2> QED
    BY <1>0, <1>8, <2>1, <2>2 DEF ConnectEstablished, TypeOK, LoopTypeOK, ConnType, poolVars,
       acceptVars, serverVars
<1>9. ASSUME NEW c \in Conns, RemoveConnectionInLoop(c)
      PROVE  TypeOK'
  <2>1. connections_' \in SUBSET Conns /\ misused' \in SUBSET MisuseKinds
    BY <1>9, <1>m DEF RemoveConnectionInLoop, TypeOK
  <2> QED
    BY <1>m, <1>0, <1>9, <2>1 DEF RemoveConnectionInLoop, TypeOK, LoopTypeOK, poolVars, acceptVars
<1>10. ASSUME NEW c \in Conns, Destroy(c)
       PROVE  conn' \in [Conns -> ConnType] /\ channels_' \in [Loops -> [Fds -> Conns \cup {None}]]
  <2>1. conn' \in [Conns -> ConnType]
    <3> DEFINE s == IF conn[c].state_ = "kConnected" THEN "kDisconnected" ELSE conn[c].state_
    <3>1. conn' = [conn EXCEPT ![c].state_ = s]
      BY <1>10 DEF Destroy
    <3>2. conn \in [Conns -> ConnType]
      BY DEF TypeOK, ConnType, State
    <3>3. s \in State
      BY <3>2 DEF ConnType, State
    <3> QED
      BY <3>1, <3>2, <3>3, StateSet
  <2>2. channels_' \in [Loops -> [Fds -> Conns \cup {None}]]
    BY <1>10 DEF Destroy, TypeOK
  <2> QED
    BY <2>1, <2>2
<1>11. ASSUME NEW c \in Conns, ConnectDistroyed(c)
       PROVE  TypeOK'
  BY <1>0, <1>10, <1>11 DEF ConnectDistroyed, TypeOK, LoopTypeOK, ConnType, poolVars, acceptVars,
     serverVars
<1>12. ASSUME NEW c \in Conns, DestroyConnection(c)
       PROVE  TypeOK'
  <2>1. conn' \in [Conns -> ConnType] /\ channels_' \in [Loops -> [Fds -> Conns \cup {None}]]
    BY <1>10, <1>12 DEF DestroyConnection, TypeOK, ConnType
  <2>2. connections_' \in SUBSET Conns /\ misused' \in SUBSET MisuseKinds
    BY <1>12, <1>b, <1>m DEF DestroyConnection, TypeOK
  <2> QED
    BY <1>m, <1>0, <1>12, <2>1, <2>2 DEF DestroyConnection, TypeOK, LoopTypeOK, ConnType, poolVars,
       acceptVars
<1>13. CASE DestroyMembers
  BY <1>0, <1>13 DEF DestroyMembers, TypeOK, LoopTypeOK, poolVars, acceptVars
<1>14. CASE JoinThread
  <2>1. cur + 1 \in 1..(MaxThreads + 1)
    BY <1>14, ServerAssumption DEF JoinThread, PhaseInv, TypeOK, Threads, Loops
  <2> QED
    BY <1>0, <1>14, <2>1 DEF JoinThread, TypeOK, LoopTypeOK, poolVars, acceptVars
<1>15. CASE DestroyAcceptor
  <2>1. backlog' \in 0..clients /\ listening_' \in BOOLEAN /\ server' = "gone"
    <3>1. clients \in Nat
      BY ServerAssumption DEF TypeOK
    <3>2. 0 \in 0..clients
      BY <3>1
    <3> QED
      BY <1>15, <3>2 DEF DestroyAcceptor
  <2> QED
    BY <1>0, <1>15, <2>1 DEF DestroyAcceptor, TypeOK, LoopTypeOK, poolVars
<1>16. CASE Connect
  BY <1>0, <1>16, ServerAssumption DEF Connect, TypeOK, LoopTypeOK, poolVars, serverVars
<1>17. ASSUME NEW c \in Conns, PeerCloses(c)
       PROVE  TypeOK'
  <2>1. conn' \in [Conns -> ConnType]
    BY <1>17 DEF PeerCloses, TypeOK, ConnType
  <2> QED
    BY <1>0, <1>17, <2>1 DEF PeerCloses, TypeOK, LoopTypeOK, ConnType, poolVars, acceptVars, serverVars
<1>18. CASE UNCHANGED vars
  BY <1>18, <1>a DEF vars
<1> QED
  BY <1>1, <1>2, <1>3, <1>4, <1>5, <1>6, <1>7, <1>8, <1>9, <1>11, <1>12, <1>13, <1>14,
     <1>15, <1>16, <1>17, <1>18, <1>19, <1>20, <1>21, <1>22, <1>23, <1>24
     DEF Next, BaseStep, LoopStep, OtherStep, Done

------------------------------------------------------------------------------
(* Phases of the server and its threads.                                     *)

LEMMA PhaseInit == Init => PhaseInv
<1> SUFFICES ASSUME Init
             PROVE  PhaseInv
  OBVIOUS
<1>1. 0 \in Loops /\ Threads = {}
  BY ServerAssumption DEF Init, Loops, Threads
<1>2. /\ loop[0] = [NewLoop EXCEPT !.at = "start"]
      /\ \A l \in Loops \ {0} : loop[l] = NewLoop
  BY <1>1 DEF Init
<1> QED
  BY <1>1, <1>2 DEF Init, PhaseInv, NewLoop

\* Before start() there is nothing that a handler or a functor could be about.
LEMMA BeforeStart ==
    ASSUME ServerInv, ~started_
    PROVE  /\ connections_ = {}
           /\ \A l \in Loops : loop[l].pending = <<>> /\ loop[l].functors = <<>>
           /\ \A l \in Loops : \A f : ~Running(l, f)
           /\ \A l \in Loops : \A ch \in Conns \cup {Listener} : ~InHandler(l, ch)
<1>1. 0 \in Loops /\ TypeOK /\ PhaseInv /\ Threads = {}
  BY ServerAssumption DEF Loops, ServerInv, PhaseInv, Threads
<1>2. connections_ = {}
  <2>1. nextConnId_ = 1 /\ \A c \in connections_ : c \in Conns /\ c < nextConnId_
    BY <1>1 DEF PhaseInv, ServerInv, ConnInv, TypeOK
  <2> QED
    BY <2>1, ServerAssumption DEF Conns
<1>3. \A l \in Loops : loop[l].pending = <<>> /\ loop[l].functors = <<>>
  BY <1>1 DEF PhaseInv, NewLoop
<1>4. \A l \in Loops : \A f : ~Running(l, f)
  <2>1. \A l \in Loops : loop[l].ran \in Nat /\ Len(<<>>) = 0
    BY <1>1 DEF TypeOK, LoopType
  <2> QED
    BY <1>3, <2>1 DEF Running
<1>5. ASSUME NEW l \in Loops, NEW ch \in Conns \cup {Listener}, InHandler(l, ch)
      PROVE  FALSE
  <2>1. ch # Listener
    BY <1>5 DEF ServerInv, ActiveInv, InHandler
  <2>2. Registered(ch) /\ conn[ch].loop_ = l /\ ch \in Conns /\ loop[l].at = "handle"
    BY <1>5, <2>1 DEF ServerInv, ActiveInv, InHandler
  <2>3. conn[ch].fd \in Fds /\ channels_[l][conn[ch].fd] = ch
    BY <2>2, <1>1 DEF Registered, TypeOK
  <2>4. Due(<<"connectDistroyed", ch>>, l)
    BY <2>2, <2>3, <1>2 DEF ServerInv, KnownInv
  <2> QED
    BY <2>4, <1>3, <1>1 DEF Due, TypeOK, LoopType
<1> QED
  BY <1>2, <1>3, <1>4, <1>5

\* Steps that leave the points of the threads alone.
LEMMA PhaseKept ==
    ASSUME ServerInv, started_,
           UNCHANGED <<numThreads_, threads, started_, server, cur>>,
           connections_' # {} => server = "alive",
           \A k \in Loops : loop'[k].at = loop[k].at /\ loop'[k].quit_ = loop[k].quit_,
           \A k \in Loops \ {0} : loop'[k] # loop[k] => k \in Threads /\ loop[k].at # "ended"
    PROVE  PhaseInv'
<1>1. 0 \in Loops
  BY ServerAssumption DEF Loops
<1> QED
  BY <1>1 DEF ServerInv, PhaseInv, Threads, Serving

LEMMA PhaseStep == ServerInv /\ [Next]_vars => PhaseInv'
<1> SUFFICES ASSUME ServerInv, [Next]_vars, TypeOK, PhaseInv
             PROVE  PhaseInv'
  BY DEF ServerInv
<1>0. 0 \in Loops
  BY ServerAssumption DEF Loops
<1>k. ASSUME NEW lp \in [Loops -> LoopType], NEW k \in Loops, NEW f \in Functor,
             loop' = Queued(lp, k, f), k = 0 \/ (k \in Threads /\ loop[k].at # "ended"),
             \A j \in Loops : /\ lp[j].at = loop[j].at /\ lp[j].quit_ = loop[j].quit_
                              /\ j # 0 /\ lp[j] # loop[j] => j \in Threads /\ loop[j].at # "ended"
      PROVE  /\ \A j \in Loops : loop'[j].at = loop[j].at /\ loop'[j].quit_ = loop[j].quit_
             /\ \A j \in Loops \ {0} : loop'[j] # loop[j] => j \in Threads /\ loop[j].at # "ended"
  <2>1. \A j \in Loops : j # k => loop'[j] = lp[j]
    BY <1>k DEF Queued
  <2>2. loop'[k].at = lp[k].at /\ loop'[k].quit_ = lp[k].quit_
    BY <1>k, QueuedFacts
  <2> QED
    BY <1>k, <2>1, <2>2
<1>s. ASSUME NEW l \in Loops, UNCHANGED <<poolVars, acceptVars, serverVars>>,
             \A k \in Loops : k # l => loop'[k] = loop[k],
             loop[l].at \in {"check", "handle", "run"},
             \/ loop'[l].at \in {"handle", "run"}
             \/ loop'[l].at = "left" /\ loop[l].quit_,
             loop'[l].quit_ = loop[l].quit_,
             loop[l].pending = <<>> /\ loop[l].functors = <<>> =>
                 loop'[l].pending = <<>> /\ loop'[l].functors = <<>>
      PROVE  PhaseInv'
  <2>1. Threads' = Threads /\ UNCHANGED <<numThreads_, threads, started_, other, listening_,
                                         nextConnId_, connections_, server, cur>>
    BY <1>s DEF Threads, poolVars, acceptVars, serverVars
  <2>2. CASE l = 0
    <3>1. server = "alive" /\ \A k \in Loops \ {0} : loop'[k] = loop[k]
      BY <1>s, <2>2 DEF PhaseInv
    <3>2. loop'[0].at \notin {"none", "ended"}
      BY <1>s, <2>2
    <3>3. ~started_ => loop'[0].pending = <<>> /\ loop'[0].functors = <<>>
      BY <1>s, <2>2 DEF PhaseInv
    <3> QED
      BY <2>1, <3>1, <3>2, <3>3 DEF PhaseInv, Serving
  <2>3. CASE l # 0
    <3>1. l \in Threads
      BY <1>s, <2>3 DEF PhaseInv, NewLoop
    <3>2. loop'[0] = loop[0] /\ server # "gone"
      BY <1>s, <2>3, <3>1, <1>0 DEF PhaseInv
    <3>3. loop'[l].at \notin {"none", "start", "ended"} /\ (Serving(l) => Serving(l)')
      BY <1>s DEF Serving
    <3>4. server \in {"alive", "gone"} \/ ~(l < cur)
      BY <1>s, <2>3, <3>1 DEF PhaseInv
    <3> QED
      BY <1>s, <2>1, <2>3, <3>1, <3>2, <3>3, <3>4 DEF PhaseInv, Serving
  <2> QED
    BY <2>2, <2>3
<1>r. ASSUME NEW l \in Loops, loop[l].at \in {"handle", "run"}
      PROVE  /\ l = 0 \/ (l \in Threads /\ loop[l].at # "ended")
             /\ l = 0 => server = "alive"
             /\ server # "gone"
  BY <1>r DEF PhaseInv, NewLoop
<1>h. ASSUME NEW l \in Loops, NEW ch \in Conns \cup {Listener}, InHandler(l, ch)
      PROVE  /\ started_ /\ Handled(l, ch) \in [Loops -> LoopType]
             /\ \A j \in Loops : /\ Handled(l, ch)[j].at = loop[j].at
                                 /\ Handled(l, ch)[j].quit_ = loop[j].quit_
                                 /\ j # 0 /\ Handled(l, ch)[j] # loop[j] => j \in Threads /\ loop[j].at # "ended"
  <2>1. started_ /\ loop[l].at = "handle"
    BY <1>h, BeforeStart DEF InHandler
  <2>2. \A j \in Loops : j # l => Handled(l, ch)[j] = loop[j]
    BY DEF Handled
  <2> QED
    BY <2>1, <2>2, <1>r, HandledFacts
<1>f. ASSUME NEW l \in Loops, NEW f, Running(l, f)
      PROVE  /\ started_ /\ Ran(l) \in [Loops -> LoopType]
             /\ \A j \in Loops : /\ Ran(l)[j].at = loop[j].at
                                 /\ Ran(l)[j].quit_ = loop[j].quit_
                                 /\ j # 0 /\ Ran(l)[j] # loop[j] => j \in Threads /\ loop[j].at # "ended"
  <2>1. started_ /\ loop[l].at = "run"
    BY <1>f, BeforeStart DEF Running
  <2>2. \A j \in Loops : j # l => Ran(l)[j] = loop[j]
    BY DEF Ran
  <2> QED
    BY <2>1, <2>2, <1>r, RanFacts
<1>1. CASE Start
  <2>1. /\ ~started_ /\ started_' /\ server = "alive" /\ loop' = Started /\ threads' = numThreads_
        /\ UNCHANGED <<server, cur, nextConnId_, connections_>>
    BY <1>1 DEF Start, serverVars, PhaseInv
  <2>2. /\ Threads = {} /\ Threads' = 1..numThreads_
        /\ \A l \in Loops : l # 0 => loop[l].quit_ = FALSE /\ loop[l].pending = <<>>
    BY <2>1 DEF PhaseInv, Threads, NewLoop
  <2>3. 0 \notin 1..numThreads_
    OBVIOUS
  <2> QED
    BY <2>1, <2>2, <2>3, <1>0, StartedFacts DEF PhaseInv, Serving, SameQueues
<1>19. CASE StartElsewhere \/ StartTooLate \/ WakeupBase
  <2>1. /\ Threads' = Threads /\ UNCHANGED <<threads, loop, serverVars, acceptVars>>
        /\ started_ => started_'
        /\ other' = "start" => started_'
    BY <1>19 DEF StartElsewhere, StartTooLate, WakeupBase, Threads
  <2> QED
    BY <2>1 DEF PhaseInv, Serving, serverVars, acceptVars
<1>20. CASE StartThread
  <2>1. /\ started_ /\ started_' /\ server = "alive" /\ threads' = threads + 1
        /\ UNCHANGED <<server, cur, nextConnId_, connections_>>
    BY <1>20 DEF StartThread, PhaseInv, serverVars
  <2>2. Threads' = Threads \cup {threads + 1} /\ threads + 1 # 0
    BY <2>1, <1>20 DEF StartThread, Threads, TypeOK
  <2>3. \A l \in Loops \ {0} : l \in Threads => loop'[l] = loop[l]
    BY <1>20, StartThreadFacts
  <2>4. loop'[threads + 1].at = "check" /\ ~loop'[threads + 1].quit_ /\ loop'[0] = loop[0]
    <3>1. loop[threads + 1].quit_ = FALSE
      BY <1>20, StartThreadFacts DEF NewLoop
    <3> QED
      BY <1>20, <1>0, <3>1, StartThreadFacts
  <2>5. /\ loop'[0].at # "none" /\ (loop'[0].at = "ended" => server' = "gone") /\ (server' = "alive" => cur' = 1)
    BY <2>1, <2>4 DEF PhaseInv
  <2>6. ASSUME NEW l \in Loops \ {0}
        PROVE  /\ loop'[l].at # "start"
               /\ l \notin Threads' => loop'[l] = NewLoop
               /\ l \in Threads' => loop'[l].at # "none" /\ loop'[l].at \in {"check", "handle", "run"}
                                   /\ ~loop'[l].quit_
               /\ loop'[l].at = "ended" => loop'[l].pending = <<>>
    <3>1. CASE l = threads + 1
      BY <2>2, <2>4, <3>1
    <3>2. CASE l # threads + 1
      <4>1. loop'[l] = loop[l] /\ (l \in Threads' <=> l \in Threads)
        BY <2>2, <3>2, <1>20, StartThreadFacts
      <4> QED
        BY <4>1, <2>1 DEF PhaseInv, Serving
    <3> QED
      BY <3>1, <3>2
  <2> QED
    BY <2>1, <2>5, <2>6 DEF PhaseInv, Serving
<1>21. CASE StartListen
  <2>1. /\ started_ /\ UNCHANGED <<numThreads_, threads, started_, server, cur, connections_>>
        /\ loop' = Queued(loop, 0, <<"listen", Listener>>)
    BY <1>21 DEF StartListen, PhaseInv, serverVars
  <2>2. PICK f \in Functor : loop' = Queued(loop, 0, f)
    BY <2>1, FunctorNames
  <2>3. /\ \A j \in Loops : loop'[j].at = loop[j].at /\ loop'[j].quit_ = loop[j].quit_
        /\ \A j \in Loops \ {0} : loop'[j] # loop[j] => j \in Threads /\ loop[j].at # "ended"
    BY <2>2, <1>0, <1>k DEF TypeOK
  <2> QED
    BY <2>1, <2>3, PhaseKept DEF PhaseInv
<1>2. CASE EnterLoop
  BY <1>2, <1>0 DEF EnterLoop, PhaseInv, Threads, Serving, poolVars, acceptVars, serverVars, TypeOK, LoopType
<1>3. ASSUME NEW l \in Loops, FirstTurn(l) \/ Swap(l) \/ EndFunctors(l) \/ EndLoop(l)
      PROVE  PhaseInv'
  <2>1. /\ loop[l].at \notin {"none", "ended", "start"}
        /\ loop[l].at = "left" => EndLoop(l)
        /\ UNCHANGED <<poolVars, acceptVars, serverVars>>
    BY <1>3 DEF FirstTurn, Swap, EndFunctors, EndLoop
  <2>2. l # 0 => l \in Threads
    BY <2>1 DEF PhaseInv, NewLoop
  <2>t. loop \in [Loops -> LoopType]
    BY DEF TypeOK
  <2>u. UNCHANGED <<poolVars, acceptVars, serverVars>>
    BY <1>3 DEF FirstTurn, Swap, EndFunctors, EndLoop
  <2>3. CASE FirstTurn(l)
    <3>1. Turn(loop, l) /\ loop[l].at = "check"
      BY <2>3 DEF FirstTurn
    <3> QED
      BY <3>1, <2>t, <2>u, TurnFacts, <1>s
  <2>4. CASE Swap(l)
    <3>1. loop[l].at = "handle"
      BY <2>4 DEF Swap
    <3> QED
      BY <3>1, <2>4, <2>u, SwapFacts, <1>s
  <2>5. CASE EndFunctors(l)
    <3>1. Turn(Emptied(l), l) /\ loop[l].at = "run"
      BY <2>5 DEF EndFunctors, Emptied
    <3>2. Emptied(l) \in [Loops -> LoopType]
      BY EmptiedFacts
    <3>3. /\ \A k \in Loops : k # l => loop'[k] = Emptied(l)[k]
          /\ loop'[l].quit_ = Emptied(l)[l].quit_
          /\ loop'[l].pending = Emptied(l)[l].pending /\ loop'[l].functors = Emptied(l)[l].functors
          /\ \/ loop'[l].at = "left" /\ Emptied(l)[l].quit_
             \/ loop'[l].at = "handle"
      BY <3>1, <3>2, TurnFacts
    <3> QED
      BY <3>1, <3>3, <2>u, EmptiedFacts, <1>s
  <2>6. CASE EndLoop(l)
    <3>1. /\ loop[l].at = "left" /\ (l = 0 => server = "gone")
          /\ loop' = [loop EXCEPT ![l].at = "ended", ![l].pending = <<>>]
      BY <2>6 DEF EndLoop
    <3>2. /\ \A k \in Loops : k # l => loop'[k] = loop[k]
          /\ loop'[l].at = "ended" /\ loop'[l].pending = <<>>
          /\ loop'[l].functors = loop[l].functors /\ loop'[l].quit_ = loop[l].quit_
      BY <3>1, <2>t DEF LoopType
    <3>3. Threads' = Threads /\ UNCHANGED <<numThreads_, threads, started_, other, listening_,
                                           nextConnId_, connections_, server, cur>>
      BY <2>u DEF Threads, poolVars, acceptVars, serverVars
    <3>4. CASE l = 0
      BY <3>1, <3>2, <3>3, <3>4 DEF PhaseInv, Serving
    <3>5. CASE l # 0
      <4>1. l \in Threads /\ ~Serving(l)
        BY <3>1, <3>5 DEF PhaseInv, NewLoop, Serving
      <4>2. loop'[0] = loop[0] /\ server # "alive" /\ ~(server = "quit" /\ l >= cur)
            /\ ~(server \in {"wakeup", "join"} /\ l > cur)
        BY <3>2, <3>5, <4>1, <1>0 DEF PhaseInv
      <4> QED
        BY <3>2, <3>3, <3>5, <4>1, <4>2 DEF PhaseInv, Serving
    <3> QED
      BY <3>4, <3>5
  <2> QED
    BY <1>3, <2>3, <2>4, <2>5, <2>6
<1>4. CASE Accept
  <2>1. /\ InHandler(0, Listener) /\ loop[0].at = "handle" /\ server = "alive"
        /\ UNCHANGED <<numThreads_, threads, started_, server, cur>>
    BY <1>4, <1>0, <1>r DEF Accept, InHandler
  <2>2. CASE loop' = Handled(0, Listener)
    BY <2>1, <2>2, <1>0, <1>h, PhaseKept
  <2>3. ASSUME NEW f \in Functor, loop' = Queued(Handled(0, Listener), NextLoop, f)
        PROVE  PhaseInv'
    <3>1. started_
      BY <2>1, <1>0, <1>h
    <3>2. NextLoop \in Loops /\ (NextLoop # 0 => NextLoop \in Threads /\ loop[NextLoop].at # "ended")
      BY <2>1, <3>1, NextConnFacts DEF PhaseInv, Threads, Serving
    <3>3. PICK k \in Loops : k = NextLoop
      BY <3>2
    <3>4. /\ \A j \in Loops : loop'[j].at = loop[j].at /\ loop'[j].quit_ = loop[j].quit_
          /\ \A j \in Loops \ {0} : loop'[j] # loop[j] => j \in Threads /\ loop[j].at # "ended"
      BY <2>1, <2>3, <3>2, <3>3, <1>0, <1>h, <1>k
    <3> QED
      BY <2>1, <3>1, <3>4, PhaseKept
  <2>4. CASE \E fd \in FreeFds : NewConnection(fd)
    <3>1. nextConnId_ \in Conns
      BY <2>1, NextConnFacts
    <3> QED
      BY <2>2, <2>3, <2>4, <3>1, FunctorNames DEF NewConnection
  <2> QED
    BY <1>4, <2>2, <2>4 DEF Accept
<1>5. CASE AcceptFails
  <2>1. /\ InHandler(0, Listener) /\ loop[0].at = "handle" /\ server = "alive"
        /\ loop' = Handled(0, Listener) /\ UNCHANGED <<numThreads_, threads, started_, server, cur>>
    BY <1>5, <1>0, <1>r DEF AcceptFails, InHandler, poolVars, serverVars
  <2> QED
    BY <2>1, <1>0, <1>h, PhaseKept
<1>6. ASSUME NEW c \in Conns, HandleRead(c)
      PROVE  PhaseInv'
  <2>1. PICK l \in Loops : l = conn[c].loop_
    BY DEF TypeOK
  <2>2. /\ InHandler(l, c) /\ loop' = Handled(l, c)
        /\ UNCHANGED <<numThreads_, threads, started_, server, cur, connections_>>
    BY <1>6, <2>1 DEF HandleRead, poolVars, serverVars
  <2> QED
    BY <2>2, <1>h, PhaseKept DEF PhaseInv
<1>7. ASSUME NEW c \in Conns, HandleClose(c)
      PROVE  PhaseInv'
  <2>1. PICK l \in Loops : l = conn[c].loop_
    BY DEF TypeOK
  <2>2. /\ InHandler(l, c) /\ UNCHANGED <<numThreads_, threads, started_, server, cur>>
        /\ connections_' \subseteq connections_
        /\ \E f \in Functor : loop' = Queued(Handled(l, c), 0, f)
    BY <1>7, <2>1, FunctorNames DEF HandleClose, poolVars
  <2>3. PICK f \in Functor : loop' = Queued(Handled(l, c), 0, f)
    BY <2>2
  <2>4. /\ \A j \in Loops : loop'[j].at = loop[j].at /\ loop'[j].quit_ = loop[j].quit_
        /\ \A j \in Loops \ {0} : loop'[j] # loop[j] => j \in Threads /\ loop[j].at # "ended"
    BY <2>2, <2>3, <1>0, <1>h, <1>k
  <2> QED
    BY <2>2, <2>4, <1>h, PhaseKept DEF PhaseInv
<1>8. CASE Listen
  <2>1. Running(0, <<"listen", Listener>>) /\ loop' = Ran(0)
    BY <1>8 DEF Listen
  <2> QED
    BY <1>8, <2>1, <1>0, <1>f, PhaseKept DEF Listen, PhaseInv, poolVars, serverVars
<1>9. ASSUME NEW c \in Conns, ConnectEstablished(c) \/ ConnectDistroyed(c)
      PROVE  PhaseInv'
  <2>1. PICK l \in Loops : l = conn[c].loop_
    BY DEF TypeOK
  <2>2. PICK f : Running(l, f)
    BY <1>9, <2>1 DEF ConnectEstablished, ConnectDistroyed
  <2>3. loop' = Ran(l) /\ UNCHANGED <<numThreads_, threads, started_, server, cur, connections_>>
    BY <1>9, <2>1 DEF ConnectEstablished, ConnectDistroyed, poolVars, serverVars
  <2> QED
    BY <2>2, <2>3, <1>f, PhaseKept DEF PhaseInv
<1>10. ASSUME NEW c \in Conns, RemoveConnectionInLoop(c)
      PROVE  PhaseInv'
  <2>1. /\ Running(0, <<"remove", c>>) /\ UNCHANGED <<numThreads_, threads, started_, server, cur>>
        /\ connections_' \subseteq connections_
        /\ loop' = Queued(Ran(0), conn[c].loop_, <<"connectDistroyed", c>>)
    BY <1>10 DEF RemoveConnectionInLoop, poolVars
  <2>2. server = "alive" /\ started_ /\ loop[0].at = "run"
    BY <2>1, <1>0, <1>r, <1>f DEF Running
  <2>3. c < nextConnId_
    BY <2>1, <1>0 DEF Running, ServerInv, QueueInv, Placed, TypeOK, LoopType
  <2>4. PICK k \in Loops, f \in Functor : k = conn[c].loop_ /\ loop' = Queued(Ran(0), k, f)
    BY <2>1, FunctorNames DEF TypeOK
  <2>5. k = 0 \/ (k \in Threads /\ loop[k].at # "ended")
    BY <2>2, <2>3, <2>4 DEF ServerInv, ConnInv, PhaseInv, Serving
  <2>6. /\ \A j \in Loops : loop'[j].at = loop[j].at /\ loop'[j].quit_ = loop[j].quit_
        /\ \A j \in Loops \ {0} : loop'[j] # loop[j] => j \in Threads /\ loop[j].at # "ended"
    BY <2>1, <2>4, <2>5, <1>0, <1>f, <1>k
  <2> QED
    BY <2>1, <2>2, <2>6, PhaseKept
<1>11. ASSUME NEW c \in Conns, DestroyConnection(c)
      PROVE  PhaseInv'
  <2>1. /\ c \in connections_ /\ server = "alive" /\ UNCHANGED <<numThreads_, threads, started_, server, cur>>
        /\ loop' = loop \/ loop' = Queued(loop, conn[c].loop_, <<"connectDistroyed", c>>)
    BY <1>11 DEF DestroyConnection, Destroying, poolVars
  <2>2. started_ /\ c < nextConnId_
    BY <2>1, BeforeStart DEF ServerInv, ConnInv
  <2>3. CASE loop' = loop
    BY <2>1, <2>2, <2>3, PhaseKept
  <2>4. CASE loop' = Queued(loop, conn[c].loop_, <<"connectDistroyed", c>>)
    <3>1. PICK k \in Loops, f \in Functor : k = conn[c].loop_ /\ loop' = Queued(loop, k, f)
      BY <2>4, FunctorNames DEF TypeOK
    <3>2. k = 0 \/ (k \in Threads /\ loop[k].at # "ended")
      BY <2>1, <2>2, <3>1 DEF ServerInv, ConnInv, PhaseInv, Serving
    <3>3. /\ \A j \in Loops : loop'[j].at = loop[j].at /\ loop'[j].quit_ = loop[j].quit_
          /\ \A j \in Loops \ {0} : loop'[j] # loop[j] => j \in Threads /\ loop[j].at # "ended"
      BY <3>1, <3>2, <1>k DEF TypeOK
    <3> QED
      BY <2>1, <2>2, <3>3, PhaseKept
  <2> QED
    BY <2>1, <2>3, <2>4
<1>12. CASE QuitBase
  BY <1>12, <1>0 DEF QuitBase, PhaseInv, Threads, Serving, poolVars, acceptVars, serverVars, TypeOK, LoopType
<1>13. CASE DestroyMembers
  <2>1. cur = 1 /\ \A l \in Threads : ~(l < cur)
    BY <1>13 DEF DestroyMembers, Destroying, PhaseInv, Threads, TypeOK, Loops
  <2> QED
    BY <2>1, <1>13, <1>0 DEF DestroyMembers, PhaseInv, Threads, Serving, poolVars, acceptVars, Destroying
<1>14. CASE QuitThread
  BY <1>14, <1>0 DEF QuitThread, PhaseInv, Threads, Serving, poolVars, acceptVars, TypeOK, LoopType
<1>22. CASE QuitWakeup
  BY <1>22, <1>0 DEF QuitWakeup, PhaseInv, Threads, Serving, poolVars, acceptVars
<1>15. CASE JoinThread
  BY <1>15, <1>0 DEF JoinThread, PhaseInv, Threads, Serving, poolVars, acceptVars, TypeOK
<1>16. CASE DestroyAcceptor
  <2>1. server = "quit" /\ \A l \in Threads : l < cur
    BY <1>16 DEF DestroyAcceptor, Threads, TypeOK, Loops
  <2> QED
    BY <2>1, <1>16, <1>0 DEF DestroyAcceptor, PhaseInv, Threads, Serving, poolVars, TypeOK
<1>17. CASE Connect \/ UNCHANGED vars
  BY <1>17, <1>0 DEF Connect, vars, PhaseInv, Threads, Serving, poolVars, acceptVars, serverVars
<1>18. ASSUME NEW c \in Conns, PeerCloses(c)
       PROVE  PhaseInv'
  BY <1>18, <1>0 DEF PeerCloses, PhaseInv, Threads, Serving, poolVars, acceptVars, serverVars
<1> QED
  BY <1>1, <1>2, <1>3, <1>4, <1>5, <1>6, <1>7, <1>8, <1>9, <1>10, <1>11, <1>12, <1>13, <1>14,
     <1>15, <1>16, <1>17, <1>18, <1>19, <1>20, <1>21, <1>22 DEF Next, BaseStep, LoopStep, OtherStep, Done

------------------------------------------------------------------------------
(* The kinds of steps, by what they do to the queues and the tables.         *)

SameHomes == \A c \in Conns : conn'[c].loop_ = conn[c].loop_ /\ conn'[c].fd = conn[c].fd
SameTables == SameHomes /\ UNCHANGED <<connections_, nextConnId_, channels_>>
OthersSame(l) == \A k \in Loops \ {l} : SameQueues(loop', k)

Pushed(l, f) == /\ loop'[l].pending = Append(loop[l].pending, f)
                /\ loop'[l].functors = loop[l].functors /\ loop'[l].ran = loop[l].ran
Advanced(l, f) == /\ Running(l, f)
                  /\ loop'[l].pending = loop[l].pending
                  /\ loop'[l].functors = loop[l].functors /\ loop'[l].ran = loop[l].ran + 1

CalmStep == /\ SameTables /\ \A k \in Loops : SameQueues(loop', k)
            /\ \A c \in Conns : \/ conn'[c].state_ = conn[c].state_
                                \/ conn'[c].state_ = "kDisconnecting" /\ Registered(c)

MoveStep(l) ==
    /\ SameTables /\ OthersSame(l) /\ UNCHANGED conn
    /\ \/ /\ loop[l].functors = <<>>
          /\ loop'[l].functors = loop[l].pending /\ loop'[l].pending = <<>> /\ loop'[l].ran = 0
       \/ /\ loop[l].ran = Len(loop[l].functors)
          /\ loop'[l].pending = loop[l].pending /\ loop'[l].functors = <<>> /\ loop'[l].ran = 0
       \/ /\ loop'[l].at = "ended" /\ (l = 0 => connections_ = {})
          /\ loop'[l].pending = <<>>
          /\ loop'[l].functors = loop[l].functors /\ loop'[l].ran = loop[l].ran

ListenStep == /\ SameTables /\ OthersSame(0) /\ UNCHANGED conn
              /\ Pushed(0, <<"listen", Listener>>) \/ Advanced(0, <<"listen", Listener>>)

NewStep(c, fd) ==
    LET l == conn'[c].loop_
    IN  /\ c = nextConnId_ /\ nextConnId_' = c + 1
        /\ connections_' = connections_ \cup {c}
        /\ conn' = [conn EXCEPT ![c] = conn'[c]] /\ conn'[c].fd = fd
        /\ l \in Loops /\ (l # 0 => l \in Threads) /\ OthersSame(l)
        /\ \/ /\ l = 0 /\ conn'[c].state_ = "kConnected" /\ SameQueues(loop', 0)
              /\ channels_' = [channels_ EXCEPT ![0][fd] = c]
           \/ /\ l # 0 /\ conn'[c].state_ = "kConnecting" /\ Pushed(l, <<"connectEstablished", c>>)
              /\ channels_' = channels_

CloseStep(c) ==
    /\ Registered(c) /\ loop[conn[c].loop_].at = "handle"
    /\ SameHomes /\ UNCHANGED <<nextConnId_, channels_>> /\ OthersSame(0)
    /\ conn' = [conn EXCEPT ![c].state_ = "kDisconnected"]
    /\ \/ /\ conn[c].loop_ = 0 /\ connections_' = connections_ \ {c}
          /\ Pushed(0, <<"connectDistroyed", c>>)
       \/ /\ conn[c].loop_ # 0 /\ connections_' = connections_
          /\ Pushed(0, <<"remove", c>>)

EstablishStep(c) ==
    LET l == conn[c].loop_
    IN  /\ SameHomes /\ UNCHANGED <<nextConnId_, connections_>> /\ OthersSame(l)
        /\ Advanced(l, <<"connectEstablished", c>>)
        /\ conn' = [conn EXCEPT ![c].state_ = "kConnected"]
        /\ channels_' = [channels_ EXCEPT ![l][conn[c].fd] = c]

RemoveStep(c) ==
    LET l == conn[c].loop_
    IN  /\ SameHomes /\ UNCHANGED <<nextConnId_, channels_, conn>>
        /\ connections_' = connections_ \ {c}
        /\ l # 0 /\ Advanced(0, <<"remove", c>>) /\ Pushed(l, <<"connectDistroyed", c>>)
        /\ \A k \in Loops \ {0, l} : SameQueues(loop', k)

DistroyStep(c) ==
    LET l == conn[c].loop_
    IN  /\ SameHomes /\ UNCHANGED <<nextConnId_, connections_>> /\ OthersSame(l)
        /\ Advanced(l, <<"connectDistroyed", c>>) /\ Destroy(c)

EndStep(c) ==
    LET l == conn[c].loop_
    IN  /\ SameHomes /\ UNCHANGED nextConnId_ /\ OthersSame(l) /\ loop[0].at = "left"
        /\ c \in connections_ /\ connections_' = connections_ \ {c}
        /\ \/ l = 0 /\ SameQueues(loop', 0) /\ Destroy(c)
           \/ l # 0 /\ Pushed(l, <<"connectDistroyed", c>>) /\ UNCHANGED <<conn, channels_>>

LEMMA Kinds ==
    ServerInv /\ [Next]_vars =>
        \/ CalmStep \/ ListenStep
        \/ \E l \in Loops : MoveStep(l)
        \/ \E c \in Conns : \/ \E fd \in FreeFds : NewStep(c, fd)
                            \/ CloseStep(c) \/ EstablishStep(c) \/ RemoveStep(c)
                            \/ DistroyStep(c) \/ EndStep(c)
<1> DEFINE Goal == \/ CalmStep \/ ListenStep
                   \/ \E l \in Loops : MoveStep(l)
                   \/ \E c \in Conns : \/ \E fd \in FreeFds : NewStep(c, fd)
                                       \/ CloseStep(c) \/ EstablishStep(c) \/ RemoveStep(c)
                                       \/ DistroyStep(c) \/ EndStep(c)
<1> SUFFICES ASSUME ServerInv, [Next]_vars, TypeOK, PhaseInv
             PROVE  Goal
  BY DEF ServerInv
<1>0. 0 \in Loops /\ loop \in [Loops -> LoopType] /\ conn \in [Conns -> ConnType]
  BY ServerAssumption DEF Loops, TypeOK, ConnType
<1>a. ASSUME UNCHANGED <<connections_, nextConnId_, channels_>>, UNCHANGED conn,
             \A k \in Loops : SameQueues(loop', k)
      PROVE  CalmStep
  BY <1>a DEF CalmStep, SameTables, SameHomes
<1>h. ASSUME NEW l \in Loops, NEW c \in Conns, InHandler(l, c)
      PROVE  Registered(c)
  BY <1>h, <1>0 DEF InHandler, ServerInv, ActiveInv, Listener, Conns
<1>q. ASSUME NEW lp \in [Loops -> LoopType], \A k \in Loops : SameQueues(lp, k),
             NEW l \in Loops, NEW f \in Functor, loop' = Queued(lp, l, f)
      PROVE  Pushed(l, f) /\ OthersSame(l)
  <2>1. \A k \in Loops : /\ loop'[k].functors = lp[k].functors /\ loop'[k].ran = lp[k].ran
                         /\ k # l => loop'[k].pending = lp[k].pending
    BY <1>q, QueuedFacts
  <2>2. loop'[l].pending = Append(lp[l].pending, f)
    BY <1>q, QueuedFacts
  <2> QED
    BY <1>q, <2>1, <2>2 DEF Pushed, OthersSame, SameQueues
<1>1. CASE Start
  <2>1. /\ loop' = Started /\ \A k \in Loops : SameQueues(Started, k)
        /\ UNCHANGED <<connections_, nextConnId_, channels_, conn>>
    BY <1>1, StartedFacts DEF Start, serverVars
  <2> QED
    BY <2>1, <1>a
<1>s. CASE StartThread
  <2>1. UNCHANGED <<connections_, nextConnId_, channels_, conn>>
    BY <1>s DEF StartThread, serverVars
  <2> QED
    BY <1>s, <2>1, <1>a, StartThreadFacts
<1>t. CASE StartListen
  <2>1. /\ loop' = Queued(loop, 0, <<"listen", Listener>>)
        /\ UNCHANGED <<connections_, nextConnId_, channels_, conn>>
    BY <1>t DEF StartListen, serverVars
  <2>2. PICK f \in Functor : f = <<"listen", Listener>> /\ loop' = Queued(loop, 0, f)
    BY <2>1, FunctorNames
  <2>3. Pushed(0, f) /\ OthersSame(0)
    BY <2>2, <1>0, <1>q DEF SameQueues
  <2> QED
    BY <2>1, <2>2, <2>3 DEF ListenStep, SameTables, SameHomes
<1>w. CASE StartElsewhere \/ StartTooLate \/ WakeupBase \/ QuitWakeup
  BY <1>w, <1>a DEF StartElsewhere, StartTooLate, WakeupBase, QuitWakeup, serverVars, SameQueues
<1>2. CASE EnterLoop \/ QuitBase \/ QuitThread
  <2>1. UNCHANGED <<connections_, nextConnId_, channels_, conn>>
    BY <1>2 DEF EnterLoop, QuitBase, QuitThread, serverVars
  <2>2. PICK l \in Loops, at \in Point, quit \in BOOLEAN :
            loop' = [loop EXCEPT ![l].at = at, ![l].quit_ = quit]
    <3>1. CASE EnterLoop
      BY <1>0, <3>1 DEF EnterLoop, Point
    <3>2. CASE QuitBase
      <4>1. loop' = [loop EXCEPT ![0].at = loop[0].at, ![0].quit_ = TRUE]
        BY <1>0, <3>2 DEF QuitBase, LoopType
      <4> QED
        BY <1>0, <4>1 DEF LoopType
    <3>3. CASE QuitThread
      <4>1. loop' = [loop EXCEPT ![cur].at = loop[cur].at, ![cur].quit_ = TRUE] /\ cur \in Loops
        <5>1. cur \in Loops
          BY <3>3, ServerAssumption DEF QuitThread, Threads, Loops, TypeOK
        <5>2. loop' = [loop EXCEPT ![cur].quit_ = TRUE]
          BY <3>3 DEF QuitThread
        <5> QED
          BY <5>1, <5>2, <1>0 DEF LoopType
      <4> QED
        BY <1>0, <4>1 DEF LoopType
    <3> QED
      BY <1>2, <3>1, <3>2, <3>3
  <2>3. \A k \in Loops : SameQueues(loop', k)
    BY <1>0, <2>2 DEF SameQueues, LoopType
  <2> QED
    BY <2>1, <2>3, <1>a
<1>3. ASSUME NEW l \in Loops, FirstTurn(l)
      PROVE  Goal
  <2>1. Turn(loop, l) /\ UNCHANGED <<connections_, nextConnId_, channels_, conn>>
    BY <1>3 DEF FirstTurn, serverVars
  <2> QED
    BY <2>1, <1>0, <1>a, TurnFacts DEF SameQueues
<1>4. ASSUME NEW l \in Loops, Swap(l)
      PROVE  Goal
  <2>1. UNCHANGED <<connections_, nextConnId_, channels_, conn>>
    BY <1>4 DEF Swap, serverVars
  <2> QED
    BY <2>1, <1>4, SwapFacts DEF MoveStep, SameTables, SameHomes, OthersSame, SameQueues
<1>5. ASSUME NEW l \in Loops, EndFunctors(l)
      PROVE  Goal
  <2>1. /\ Turn(Emptied(l), l) /\ loop[l].ran = Len(loop[l].functors)
        /\ UNCHANGED <<connections_, nextConnId_, channels_, conn>>
    BY <1>5 DEF EndFunctors, Emptied, serverVars
  <2>2. /\ \A k \in Loops : k # l => loop'[k] = Emptied(l)[k]
        /\ loop'[l].pending = Emptied(l)[l].pending
        /\ loop'[l].functors = Emptied(l)[l].functors /\ loop'[l].ran = Emptied(l)[l].ran
    BY <2>1, TurnFacts, EmptiedFacts
  <2> QED
    BY <2>1, <2>2, EmptiedFacts DEF MoveStep, SameTables, SameHomes, OthersSame, SameQueues
<1>6. ASSUME NEW l \in Loops, EndLoop(l)
      PROVE  Goal
  <2>1. UNCHANGED <<connections_, nextConnId_, channels_, conn>> /\ (l = 0 => connections_ = {})
    BY <1>6 DEF EndLoop, serverVars, PhaseInv
  <2>2. loop' = [loop EXCEPT ![l].at = "ended", ![l].pending = <<>>]
    BY <1>6 DEF EndLoop
  <2>3. /\ OthersSame(l) /\ loop'[l].at = "ended" /\ loop'[l].pending = <<>>
        /\ loop'[l].functors = loop[l].functors /\ loop'[l].ran = loop[l].ran
    BY <2>2, <1>0 DEF OthersSame, SameQueues, LoopType
  <2> QED
    BY <2>1, <2>3 DEF MoveStep, SameTables, SameHomes
<1>7. CASE Accept
  <2>1. InHandler(0, Listener)
    BY <1>7 DEF Accept
  <2>2. \A k \in Loops : SameQueues(Handled(0, Listener), k)
    BY <1>0, HandledFacts
  <2>3. ASSUME NEW fd \in FreeFds, NewConnection(fd)
        PROVE  Goal
    <3>1. nextConnId_ \in Conns /\ NextLoop \in Loops /\ started_ /\ (NextLoop # 0 => NextLoop \in Threads)
      BY <2>1, <1>0, NextConnFacts, BeforeStart DEF Threads
    <3>2. PICK c \in Conns, l \in Loops : c = nextConnId_ /\ l = NextLoop
      BY <3>1
    <3>3. conn' = [conn EXCEPT ![c] = [state_ |-> IF l = 0 THEN "kConnected" ELSE "kConnecting",
                                       loop_ |-> l, fd |-> fd, closed |-> FALSE]]
      BY <2>3, <3>2 DEF NewConnection
    <3>4. /\ conn'[c].loop_ = l /\ conn'[c].fd = fd
          /\ conn'[c].state_ = (IF l = 0 THEN "kConnected" ELSE "kConnecting")
          /\ conn' = [conn EXCEPT ![c] = conn'[c]]
      BY <1>0, <3>3
    <3>5. nextConnId_' = c + 1 /\ connections_' = connections_ \cup {c}
      BY <2>3, <3>2 DEF NewConnection
    <3>6. CASE l = 0
      <4>1. loop' = Handled(0, Listener) /\ channels_' = [channels_ EXCEPT ![0][fd] = c]
        BY <2>3, <3>2, <3>6 DEF NewConnection
      <4>2. NewStep(c, fd)
        BY <2>2, <3>2, <3>4, <3>5, <3>6, <4>1, <1>0 DEF NewStep, OthersSame
      <4> QED
        BY <4>2
    <3>7. CASE l # 0
      <4>1. loop' = Queued(Handled(0, Listener), l, <<"connectEstablished", c>>) /\ channels_' = channels_
        BY <2>3, <3>2, <3>7 DEF NewConnection
      <4>2. PICK f \in Functor : f = <<"connectEstablished", c>> /\ loop' = Queued(Handled(0, Listener), l, f)
        BY <4>1, FunctorNames
      <4>3. Handled(0, Listener) \in [Loops -> LoopType]
        BY <1>0, HandledFacts
      <4>4. Pushed(l, f) /\ OthersSame(l)
        BY <2>2, <4>2, <4>3, <1>q
      <4>5. NewStep(c, fd)
        BY <3>1, <3>2, <3>4, <3>5, <3>7, <4>1, <4>2, <4>4 DEF NewStep
      <4> QED
        BY <4>5
    <3> QED
      BY <3>6, <3>7
  <2>4. CASE UNCHANGED <<next_, nextConnId_, connections_, conn, channels_, misused>> /\ loop' = Handled(0, Listener)
    BY <2>2, <2>4, <1>a
  <2> QED
    BY <1>7, <2>3, <2>4 DEF Accept
<1>8. CASE AcceptFails
  <2>1. loop' = Handled(0, Listener) /\ UNCHANGED <<connections_, nextConnId_, channels_, conn>>
    BY <1>8 DEF AcceptFails, serverVars
  <2> QED
    BY <2>1, <1>0, <1>a, HandledFacts
<1>9. ASSUME NEW c \in Conns, HandleRead(c)
      PROVE  Goal
  <2>1. PICK l \in Loops : l = conn[c].loop_
    BY DEF TypeOK
  <2>2. /\ InHandler(l, c) /\ loop' = Handled(l, c)
        /\ conn' = [conn EXCEPT ![c].state_ = "kDisconnecting"]
        /\ UNCHANGED <<connections_, nextConnId_, channels_>>
    BY <1>9, <2>1 DEF HandleRead, serverVars
  <2>3. Registered(c) /\ \A k \in Loops : SameQueues(loop', k)
    BY <2>2, <1>h, HandledFacts
  <2>4. SameHomes /\ conn'[c].state_ = "kDisconnecting" /\ \A d \in Conns \ {c} : conn'[d] = conn[d]
    BY <2>2, <1>0 DEF SameHomes, ConnType
  <2> QED
    BY <2>2, <2>3, <2>4 DEF CalmStep, SameTables
<1>10. ASSUME NEW c \in Conns, HandleClose(c)
       PROVE  Goal
  <2>1. PICK l \in Loops : l = conn[c].loop_
    BY DEF TypeOK
  <2>2. /\ InHandler(l, c) /\ UNCHANGED <<nextConnId_, channels_>>
        /\ conn' = [conn EXCEPT ![c].state_ = "kDisconnected"]
    BY <1>10, <2>1 DEF HandleClose
  <2>3. PICK f \in Functor :
            /\ loop' = Queued(Handled(l, c), 0, f)
            /\ \/ l = 0 /\ connections_' = connections_ \ {c} /\ f = <<"connectDistroyed", c>>
               \/ l # 0 /\ connections_' = connections_ /\ f = <<"remove", c>>
    BY <1>10, <2>1, FunctorNames DEF HandleClose
  <2>4. Handled(l, c) \in [Loops -> LoopType] /\ \A k \in Loops : SameQueues(Handled(l, c), k)
    BY HandledFacts
  <2>5. Pushed(0, f) /\ OthersSame(0)
    BY <2>3, <2>4, <1>0, <1>q
  <2>6. Registered(c) /\ SameHomes
    BY <2>2, <1>h, <1>0 DEF SameHomes, ConnType
  <2> QED
    BY <2>1, <2>2, <2>3, <2>5, <2>6 DEF CloseStep, InHandler
<1>f. ASSUME NEW l \in Loops, NEW f, Running(l, f), loop' = Ran(l)
      PROVE  Advanced(l, f) /\ OthersSame(l)
  BY <1>f, RanFacts DEF Advanced, OthersSame, SameQueues
<1>11. CASE Listen
  <2>1. /\ Running(0, <<"listen", Listener>>) /\ loop' = Ran(0)
        /\ UNCHANGED <<connections_, nextConnId_, channels_, conn>>
    BY <1>11 DEF Listen, serverVars
  <2> QED
    BY <2>1, <1>0, <1>f DEF ListenStep, SameTables, SameHomes
<1>12. ASSUME NEW c \in Conns, ConnectEstablished(c)
       PROVE  Goal
  <2>1. PICK l \in Loops : l = conn[c].loop_
    BY DEF TypeOK
  <2>2. /\ Running(l, <<"connectEstablished", c>>) /\ loop' = Ran(l)
        /\ conn' = [conn EXCEPT ![c].state_ = "kConnected"]
        /\ channels_' = [channels_ EXCEPT ![l][conn[c].fd] = c]
        /\ UNCHANGED <<connections_, nextConnId_>>
    BY <1>12, <2>1 DEF ConnectEstablished, serverVars
  <2>3. SameHomes
    BY <2>2, <1>0 DEF SameHomes, ConnType
  <2>4. EstablishStep(c)
    BY <2>1, <2>2, <2>3, <1>f DEF EstablishStep
  <2> QED
    BY <2>4
<1>13. ASSUME NEW c \in Conns, RemoveConnectionInLoop(c)
       PROVE  Goal
  <2>1. PICK l \in Loops, f \in Functor : l = conn[c].loop_ /\ f = <<"connectDistroyed", c>>
    BY FunctorNames DEF TypeOK
  <2>2. /\ Running(0, <<"remove", c>>) /\ loop' = Queued(Ran(0), l, f)
        /\ connections_' = connections_ \ {c} /\ UNCHANGED <<nextConnId_, conn, channels_>>
    BY <1>13, <2>1 DEF RemoveConnectionInLoop
  <2>3. l # 0
    BY <2>1, <2>2, <1>0 DEF Running, ServerInv, QueueInv, Placed, LoopType
  <2>4. Ran(0) \in [Loops -> LoopType]
    BY <1>0, RanFacts
  <2>5. /\ loop'[0].pending = Ran(0)[0].pending /\ loop'[0].functors = Ran(0)[0].functors
        /\ loop'[0].ran = Ran(0)[0].ran
        /\ loop'[l].pending = Append(Ran(0)[l].pending, f)
        /\ loop'[l].functors = Ran(0)[l].functors /\ loop'[l].ran = Ran(0)[l].ran
        /\ \A k \in Loops \ {0, l} : loop'[k].pending = Ran(0)[k].pending
              /\ loop'[k].functors = Ran(0)[k].functors /\ loop'[k].ran = Ran(0)[k].ran
    BY <2>2, <2>3, <2>4, <1>0, QueuedFacts
  <2>6. Advanced(0, <<"remove", c>>) /\ Pushed(l, f) /\ \A k \in Loops \ {0, l} : SameQueues(loop', k)
    BY <2>2, <2>3, <2>5, <1>0, RanFacts DEF Advanced, Pushed, SameQueues
  <2>7. RemoveStep(c)
    BY <2>1, <2>2, <2>3, <2>6 DEF RemoveStep, SameHomes
  <2> QED
    BY <2>7
<1>d. ASSUME NEW c \in Conns, Destroy(c)
      PROVE  SameHomes
  BY <1>d, <1>0 DEF Destroy, SameHomes, ConnType
<1>14. ASSUME NEW c \in Conns, ConnectDistroyed(c)
       PROVE  Goal
  <2>1. PICK l \in Loops : l = conn[c].loop_
    BY DEF TypeOK
  <2>2. /\ Running(l, <<"connectDistroyed", c>>) /\ loop' = Ran(l) /\ Destroy(c)
        /\ UNCHANGED <<connections_, nextConnId_>>
    BY <1>14, <2>1 DEF ConnectDistroyed, serverVars
  <2>3. DistroyStep(c)
    BY <2>1, <2>2, <1>d, <1>f DEF DistroyStep
  <2> QED
    BY <2>3
<1>15. ASSUME NEW c \in Conns, DestroyConnection(c)
       PROVE  Goal
  <2>1. PICK l \in Loops, f \in Functor : l = conn[c].loop_ /\ f = <<"connectDistroyed", c>>
    BY FunctorNames DEF TypeOK
  <2>2. /\ c \in connections_ /\ connections_' = connections_ \ {c} /\ UNCHANGED nextConnId_
        /\ loop[0].at = "left"
    BY <1>15 DEF DestroyConnection, Destroying
  <2>3. CASE l = 0
    <3>1. Destroy(c) /\ UNCHANGED loop
      BY <1>15, <2>1, <2>3 DEF DestroyConnection
    <3>2. EndStep(c)
      BY <2>1, <2>2, <2>3, <3>1, <1>d DEF EndStep, OthersSame, SameQueues
    <3> QED
      BY <3>2
  <2>4. CASE l # 0
    <3>1. loop' = Queued(loop, l, f) /\ UNCHANGED <<conn, channels_>>
      BY <1>15, <2>1, <2>4 DEF DestroyConnection
    <3>2. Pushed(l, f) /\ OthersSame(l)
      BY <3>1, <1>0, <1>q DEF SameQueues
    <3>3. EndStep(c)
      BY <2>1, <2>2, <2>4, <3>1, <3>2 DEF EndStep, SameHomes
    <3> QED
      BY <3>3
  <2> QED
    BY <2>3, <2>4
<1>16. CASE DestroyMembers \/ JoinThread \/ DestroyAcceptor \/ Connect \/ UNCHANGED vars
  BY <1>16, <1>a DEF DestroyMembers, JoinThread, DestroyAcceptor, Connect, vars, serverVars, SameQueues
<1>17. ASSUME NEW c \in Conns, PeerCloses(c)
       PROVE  Goal
  <2>1. /\ conn' = [conn EXCEPT ![c].closed = TRUE]
        /\ UNCHANGED <<connections_, nextConnId_, channels_, loop>>
    BY <1>17 DEF PeerCloses, serverVars
  <2>2. SameHomes /\ \A d \in Conns : conn'[d].state_ = conn[d].state_
    BY <2>1, <1>0 DEF SameHomes, ConnType
  <2> QED
    BY <2>1, <2>2 DEF CalmStep, SameTables, SameQueues
<1> QED
  BY <1>1, <1>s, <1>t, <1>w, <1>2, <1>3, <1>4, <1>5, <1>6, <1>7, <1>8, <1>9, <1>10, <1>11, <1>12,
     <1>13, <1>14, <1>15, <1>16, <1>17 DEF Next, BaseStep, OtherStep, LoopStep, Done

------------------------------------------------------------------------------
(* What the kinds of steps do to the functors that are queued and due.       *)

InQueue(f, l) == \/ \E i \in DOMAIN loop[l].pending : loop[l].pending[i] = f
                 \/ \E i \in DOMAIN loop[l].functors : loop[l].functors[i] = f

LEMMA QueuesTyped ==
    ASSUME TypeOK, NEW l \in Loops
    PROVE  /\ loop[l].pending \in Seq(Functor) /\ loop[l].functors \in Seq(Functor)
           /\ loop[l].ran \in Nat /\ loop[l].ran <= Len(loop[l].functors)
           /\ \A f : Due(f, l) => InQueue(f, l)
           /\ \A f : InQueue(f, l) => f \in Functor
<1>1. /\ loop[l].pending \in Seq(Functor) /\ loop[l].functors \in Seq(Functor)
      /\ loop[l].ran \in Nat /\ loop[l].ran <= Len(loop[l].functors)
  BY DEF TypeOK, LoopType
<1> QED
  BY <1>1 DEF Due, InQueue

LEMMA SameEffect ==
    ASSUME NEW l \in Loops, SameQueues(loop', l)
    PROVE  \A f : (InQueue(f, l)' <=> InQueue(f, l)) /\ (Due(f, l)' <=> Due(f, l))
BY DEF SameQueues, InQueue, Due

LEMMA PushEffect ==
    ASSUME TypeOK, NEW l \in Loops, NEW f, Pushed(l, f)
    PROVE  \A g : /\ InQueue(g, l)' <=> InQueue(g, l) \/ g = f
                  /\ Due(g, l)' <=> Due(g, l) \/ g = f
<1>1. /\ Len(loop'[l].pending) = Len(loop[l].pending) + 1
      /\ DOMAIN loop'[l].pending = 1 .. Len(loop[l].pending) + 1
      /\ DOMAIN loop[l].pending = 1 .. Len(loop[l].pending) /\ Len(loop[l].pending) \in Nat
      /\ \A i \in DOMAIN loop[l].pending : loop'[l].pending[i] = loop[l].pending[i]
      /\ loop'[l].pending[Len(loop[l].pending) + 1] = f
  BY QueuesTyped DEF Pushed
<1>2. \A g : (\E i \in DOMAIN loop'[l].pending : loop'[l].pending[i] = g)
             <=> (\E i \in DOMAIN loop[l].pending : loop[l].pending[i] = g) \/ g = f
  BY <1>1
<1> QED
  BY <1>2 DEF Pushed, InQueue, Due

LEMMA AdvanceEffect ==
    ASSUME TypeOK, NEW l \in Loops, NEW f, Advanced(l, f)
    PROVE  /\ \A g : /\ InQueue(g, l)' <=> InQueue(g, l)
                     /\ Due(g, l)' => Due(g, l)
                     /\ Due(g, l) /\ g # f => Due(g, l)'
           /\ Due(f, l) /\ InQueue(f, l)
<1>1. /\ f = loop[l].functors[loop[l].ran + 1] /\ loop[l].ran + 1 \in 1 .. Len(loop[l].functors)
      /\ loop'[l].pending = loop[l].pending /\ loop'[l].functors = loop[l].functors
      /\ loop'[l].ran = loop[l].ran + 1
      /\ loop[l].ran \in Nat /\ DOMAIN loop[l].functors = 1 .. Len(loop[l].functors)
  BY QueuesTyped DEF Advanced, Running
<1>2. \A g : InQueue(g, l)' <=> InQueue(g, l)
  BY <1>1 DEF InQueue
<1>3. \A g : (Due(g, l)' => Due(g, l)) /\ (Due(g, l) /\ g # f => Due(g, l)')
  BY <1>1 DEF Due
<1>4. Due(f, l) /\ InQueue(f, l)
  BY <1>1 DEF Due, InQueue
<1> QED
  BY <1>2, <1>3, <1>4

LEMMA MoveEffect ==
    ASSUME TypeOK, NEW l \in Loops, MoveStep(l)
    PROVE  \A g : /\ InQueue(g, l)' => InQueue(g, l)
                  /\ loop'[l].at # "ended" => (Due(g, l)' <=> Due(g, l))
<1>t. /\ DOMAIN loop[l].functors = 1 .. Len(loop[l].functors) /\ loop[l].ran \in Nat
      /\ DOMAIN loop[l].pending = 1 .. Len(loop[l].pending) /\ Len(loop[l].pending) \in Nat
      /\ loop[l].ran <= Len(loop[l].functors) /\ Len(loop[l].functors) \in Nat
      /\ DOMAIN <<>> = {} /\ Len(<<>>) = 0
  BY QueuesTyped
<1>1. CASE /\ loop[l].functors = <<>>
           /\ loop'[l].functors = loop[l].pending /\ loop'[l].pending = <<>> /\ loop'[l].ran = 0
  BY <1>t, <1>1 DEF InQueue, Due
<1>2. CASE /\ loop[l].ran = Len(loop[l].functors)
           /\ loop'[l].pending = loop[l].pending /\ loop'[l].functors = <<>> /\ loop'[l].ran = 0
  BY <1>t, <1>2 DEF InQueue, Due
<1>3. CASE /\ loop'[l].at = "ended" /\ loop'[l].pending = <<>>
           /\ loop'[l].functors = loop[l].functors /\ loop'[l].ran = loop[l].ran
  BY <1>t, <1>3 DEF InQueue, Due
<1> QED
  BY <1>1, <1>2, <1>3 DEF MoveStep

\* A loop that has ended stays so.
LEMMA EndedStays ==
    ASSUME ServerInv, [Next]_vars, NEW l \in Loops, loop[l].at = "ended"
    PROVE  loop'[l].at = "ended"
<1>1. TypeOK /\ PhaseInv /\ 0 \in Loops /\ loop \in [Loops -> LoopType]
  BY ServerAssumption DEF ServerInv, TypeOK, Loops
<1>q. ASSUME NEW lp \in [Loops -> LoopType], lp[l].at = loop[l].at,
             NEW k \in Loops, NEW f \in Functor, loop' = Queued(lp, k, f)
      PROVE  loop'[l].at = "ended"
  BY <1>q, QueuedFacts
<1>h. \A k \in Loops : \A ch : /\ Handled(k, ch) \in [Loops -> LoopType]
                               /\ Handled(k, ch)[l].at = loop[l].at
  BY <1>1, HandledFacts
<1>r. \A k \in Loops : Ran(k) \in [Loops -> LoopType] /\ Ran(k)[l].at = loop[l].at
  BY <1>1, RanFacts
<1>2. CASE Start
  <2>1. Started[l].at = loop[l].at
    BY <1>1, <1>2, StartedFacts DEF Start
  <2> QED
    BY <1>2, <2>1 DEF Start
<1>s. CASE StartThread
  <2>1. l # threads + 1
    BY <1>1, <1>s, StartThreadFacts DEF NewLoop
  <2> QED
    BY <1>1, <1>s, <2>1, StartThreadFacts
<1>t. CASE StartListen
  BY <1>1, <1>t, <1>q, FunctorNames DEF StartListen
<1>3. CASE EnterLoop \/ QuitBase
  <2>1. l # 0
    BY <1>3 DEF EnterLoop, QuitBase, LoopExists
  <2> QED
    BY <1>1, <1>3, <2>1 DEF EnterLoop, QuitBase
<1>4. ASSUME NEW k \in Loops, FirstTurn(k) \/ Swap(k) \/ EndLoop(k)
      PROVE  loop'[l].at = "ended"
  <2>1. k # l
    BY <1>4 DEF FirstTurn, Swap, EndLoop
  <2> QED
    BY <1>1, <1>4, <2>1 DEF FirstTurn, Swap, EndLoop, Turn
<1>5. ASSUME NEW k \in Loops, EndFunctors(k)
      PROVE  loop'[l].at = "ended"
  <2>1. k # l /\ Turn(Emptied(k), k)
    BY <1>5 DEF EndFunctors, Emptied
  <2> QED
    BY <1>1, <2>1, EmptiedFacts, TurnFacts
<1>6. CASE Accept
  <2>1. InHandler(0, Listener)
    BY <1>6 DEF Accept
  <2>2. PICK c \in Conns, k \in Loops : c = nextConnId_ /\ k = NextLoop
    BY <2>1, NextConnFacts
  <2>3. \/ loop' = Handled(0, Listener)
        \/ \E f \in Functor : loop' = Queued(Handled(0, Listener), k, f)
    BY <1>6, <2>2, FunctorNames DEF Accept, NewConnection
  <2> QED
    BY <1>1, <1>h, <1>q, <2>3
<1>7. CASE AcceptFails \/ Listen
  BY <1>1, <1>7, <1>h, <1>r DEF AcceptFails, Listen
<1>8. ASSUME NEW c \in Conns, HandleRead(c) \/ HandleClose(c) \/ ConnectEstablished(c) \/ ConnectDistroyed(c)
      PROVE  loop'[l].at = "ended"
  <2>1. PICK k \in Loops : k = conn[c].loop_
    BY <1>1 DEF TypeOK
  <2>2. \/ loop' = Handled(k, c) \/ loop' = Ran(k)
        \/ \E f \in Functor : loop' = Queued(Handled(k, c), 0, f)
    BY <1>8, <2>1, FunctorNames DEF HandleRead, HandleClose, ConnectEstablished, ConnectDistroyed
  <2> QED
    BY <1>1, <1>h, <1>r, <1>q, <2>2
<1>9. ASSUME NEW c \in Conns, RemoveConnectionInLoop(c) \/ DestroyConnection(c)
      PROVE  loop'[l].at = "ended"
  <2>1. PICK k \in Loops, f \in Functor : k = conn[c].loop_ /\ f = <<"connectDistroyed", c>>
    BY <1>1, FunctorNames DEF TypeOK
  <2>2. loop' = Queued(Ran(0), k, f) \/ loop' = Queued(loop, k, f) \/ loop' = loop
    BY <1>9, <2>1 DEF RemoveConnectionInLoop, DestroyConnection
  <2> QED
    BY <1>1, <1>r, <1>q, <2>2
<1>10. CASE QuitThread
  BY <1>1, <1>10 DEF QuitThread, LoopType
<1>11. CASE DestroyMembers \/ QuitWakeup \/ JoinThread \/ DestroyAcceptor \/ Connect
            \/ StartElsewhere \/ StartTooLate \/ WakeupBase \/ UNCHANGED vars
            \/ \E c \in Conns : PeerCloses(c)
  BY <1>11 DEF DestroyMembers, QuitWakeup, JoinThread, DestroyAcceptor, Connect, StartElsewhere,
               StartTooLate, WakeupBase, PeerCloses, vars
<1> QED
  BY <1>2, <1>s, <1>t, <1>3, <1>4, <1>5, <1>6, <1>7, <1>8, <1>9, <1>10, <1>11
     DEF Next, BaseStep, OtherStep, LoopStep, Done

------------------------------------------------------------------------------
(* The functors that are queued.                                             *)

LEMMA QueuePlaced == QueueInv <=> \A l \in Loops : \A f : InQueue(f, l) => Placed(f, l)
BY DEF QueueInv, InQueue

\* What an open connection is named by.
LEMMA OpenNamed ==
    /\ \A c : Open(c) <=> c \in connections_ \/ \E l \in Loops : \E f : InQueue(f, l) /\ f[2] = c
    /\ \A c : Open(c)' <=> c \in connections_' \/ \E l \in Loops : \E f : InQueue(f, l)' /\ f[2] = c
BY DEF Open, Holds, InQueue

LEMMA QueueStep == ServerInv /\ [Next]_vars => QueueInv'
<1> SUFFICES ASSUME ServerInv, [Next]_vars, TypeOK, NEW l \in Loops, NEW f, InQueue(f, l)'
             PROVE  Placed(f, l)'
  BY DEF ServerInv, QueueInv, InQueue
<1>1. \A k \in Loops : \A g : InQueue(g, k) => Placed(g, k) /\ g \in Functor
  BY QueuePlaced, QueuesTyped DEF ServerInv
<1>2. ASSUME Placed(f, l), f \in Functor, SameHomes, nextConnId_' = nextConnId_,
             connections_' \subseteq connections_
      PROVE  Placed(f, l)'
  <2>1. conn'[f[2]].loop_ = conn[f[2]].loop_ \/ f[1] = "listen"
    BY <1>2, FunctorNames DEF SameHomes
  <2> QED
    BY <1>2, <2>1 DEF Placed
<1>3. ASSUME NEW c \in Conns, Open(c)
      PROVE  c < nextConnId_
  BY <1>3, <1>1, OpenNamed DEF ServerInv, ConnInv, Placed
<1>4. CASE CalmStep
  BY <1>1, <1>2, <1>4, SameEffect DEF CalmStep, SameTables
<1>5. CASE ListenStep
  <2>1. CASE InQueue(f, l)
    BY <1>1, <1>2, <1>5, <2>1 DEF ListenStep, SameTables
  <2>2. CASE ~InQueue(f, l)
    <3>1. l = 0 /\ f = <<"listen", Listener>>
      BY <1>5, <2>2, SameEffect, PushEffect, AdvanceEffect, ServerAssumption DEF ListenStep, OthersSame, Loops
    <3> QED
      BY <1>5, <3>1 DEF ListenStep, SameTables, Placed, Listener, TypeOK, ServerInv
  <2> QED
    BY <2>1, <2>2
<1>6. ASSUME NEW k \in Loops, MoveStep(k)
      PROVE  Placed(f, l)'
  <2>1. InQueue(f, l)
    BY <1>6, SameEffect, MoveEffect DEF MoveStep, OthersSame
  <2> QED
    BY <1>1, <1>2, <1>6, <2>1 DEF MoveStep, SameTables
<1>7. ASSUME NEW c \in Conns, NEW fd \in FreeFds, NewStep(c, fd)
      PROVE  Placed(f, l)'
  <2>1. CASE InQueue(f, l)
    <3>a. Placed(f, l) /\ f \in Functor /\ f[2] < nextConnId_
      BY <1>1, <2>1 DEF Placed
    <3>b. f[2] \in Nat /\ nextConnId_ \in Nat /\ c = nextConnId_ /\ nextConnId_' = c + 1
      BY <1>7, <3>a, FunctorNames DEF NewStep, TypeOK, Conns, Listener
    <3>1. Placed(f, l) /\ f \in Functor /\ f[2] # c /\ f[2] < nextConnId_'
      BY <3>a, <3>b
    <3>2. conn'[f[2]].loop_ = conn[f[2]].loop_ \/ f[1] = "listen"
      BY <1>7, <3>1, FunctorNames DEF NewStep, TypeOK
    <3> QED
      BY <1>7, <3>1, <3>2 DEF NewStep, Placed
  <2>2. CASE ~InQueue(f, l)
    <3>1. l = conn'[c].loop_ /\ l # 0 /\ f = <<"connectEstablished", c>>
      BY <1>7, <2>2, SameEffect, PushEffect DEF NewStep, OthersSame
    <3> QED
      BY <1>7, <3>1 DEF NewStep, Placed, Conns
  <2> QED
    BY <2>1, <2>2
<1>8. ASSUME NEW c \in Conns, CloseStep(c)
      PROVE  Placed(f, l)'
  <2>1. CASE InQueue(f, l)
    BY <1>1, <1>2, <1>8, <2>1 DEF CloseStep
  <2>2. CASE ~InQueue(f, l)
    <3>1. /\ l = 0
          /\ \/ f = <<"connectDistroyed", c>> /\ conn[c].loop_ = 0 /\ c \notin connections_'
             \/ f = <<"remove", c>> /\ conn[c].loop_ # 0
      BY <1>8, <2>2, SameEffect, PushEffect, ServerAssumption DEF CloseStep, OthersSame, Loops
    <3>2. c < nextConnId_
      <4>1. /\ conn[c].fd \in Fds /\ conn[c].loop_ \in Loops
            /\ channels_[conn[c].loop_][conn[c].fd] = c /\ loop[conn[c].loop_].at # "ended"
        BY <1>8 DEF CloseStep, Registered, TypeOK
      <4>2. c \in connections_ \/ InQueue(<<"connectDistroyed", c>>, conn[c].loop_)
        BY <4>1, QueuesTyped DEF ServerInv, KnownInv
      <4> QED
        BY <1>3, <4>1, <4>2, OpenNamed
    <3>3. conn'[c].loop_ = conn[c].loop_ /\ nextConnId_' = nextConnId_
      BY <1>8 DEF CloseStep, SameHomes
    <3> QED
      BY <3>1, <3>2, <3>3 DEF Placed
  <2> QED
    BY <2>1, <2>2
<1>9. ASSUME NEW c \in Conns, EstablishStep(c)
      PROVE  Placed(f, l)'
  <2>1. PICK k \in Loops : k = conn[c].loop_
    BY DEF TypeOK
  <2>2. InQueue(f, l)
    BY <1>9, <2>1, SameEffect, AdvanceEffect DEF EstablishStep, OthersSame
  <2> QED
    BY <1>1, <1>2, <1>9, <2>2 DEF EstablishStep
<1>10. ASSUME NEW c \in Conns, RemoveStep(c)
       PROVE  Placed(f, l)'
  <2>1. PICK k \in Loops : k = conn[c].loop_
    BY DEF TypeOK
  <2>2. 0 \in Loops /\ Advanced(0, <<"remove", c>>) /\ Pushed(k, <<"connectDistroyed", c>>)
        /\ k # 0 /\ \A j \in Loops \ {0, k} : SameQueues(loop', j)
    BY <1>10, <2>1, ServerAssumption DEF RemoveStep, Loops
  <2>3. InQueue(f, l) \/ (l = k /\ f = <<"connectDistroyed", c>>)
    <3>1. CASE l \notin {0, k}
      BY <2>2, <3>1, SameEffect
    <3>2. CASE l = 0
      BY <2>2, <3>2, AdvanceEffect
    <3>3. CASE l = k
      BY <2>2, <3>3, PushEffect
    <3> QED
      BY <3>1, <3>2, <3>3
  <2>4. InQueue(<<"remove", c>>, 0)
    BY <2>2, AdvanceEffect
  <2>5. c < nextConnId_ /\ conn'[c].loop_ = k /\ nextConnId_' = nextConnId_ /\ c \notin connections_'
    BY <1>1, <1>10, <2>1, <2>2, <2>4 DEF RemoveStep, SameHomes, Placed
  <2>6. CASE InQueue(f, l)
    BY <1>1, <1>2, <1>10, <2>6 DEF RemoveStep
  <2>7. CASE l = k /\ f = <<"connectDistroyed", c>>
    BY <2>5, <2>7 DEF Placed
  <2> QED
    BY <2>3, <2>6, <2>7
<1>11. ASSUME NEW c \in Conns, DistroyStep(c)
       PROVE  Placed(f, l)'
  <2>1. PICK k \in Loops : k = conn[c].loop_
    BY DEF TypeOK
  <2>2. InQueue(f, l)
    BY <1>11, <2>1, SameEffect, AdvanceEffect DEF DistroyStep, OthersSame
  <2> QED
    BY <1>1, <1>2, <1>11, <2>2 DEF DistroyStep
<1>12. ASSUME NEW c \in Conns, EndStep(c)
       PROVE  Placed(f, l)'
  <2>1. PICK k \in Loops : k = conn[c].loop_
    BY DEF TypeOK
  <2>a. /\ \A j \in Loops \ {k} : SameQueues(loop', j)
        /\ SameQueues(loop', k) \/ Pushed(k, <<"connectDistroyed", c>>)
    BY <1>12, <2>1 DEF EndStep, OthersSame
  <2>2. InQueue(f, l) \/ (l = k /\ f = <<"connectDistroyed", c>>)
    <3>1. CASE l # k
      BY <2>a, <3>1, SameEffect
    <3>2. CASE l = k /\ SameQueues(loop', k)
      BY <3>2, SameEffect
    <3>3. CASE l = k /\ Pushed(k, <<"connectDistroyed", c>>)
      BY <3>3, PushEffect
    <3> QED
      BY <2>a, <3>1, <3>2, <3>3
  <2>3. c < nextConnId_ /\ conn'[c].loop_ = k /\ nextConnId_' = nextConnId_ /\ c \notin connections_'
    BY <1>12, <2>1 DEF EndStep, SameHomes, ServerInv, ConnInv
  <2>4. CASE InQueue(f, l)
    BY <1>1, <1>2, <1>12, <2>4 DEF EndStep
  <2>5. CASE l = k /\ f = <<"connectDistroyed", c>>
    BY <2>3, <2>5 DEF Placed
  <2> QED
    BY <2>2, <2>4, <2>5
<1> QED
  BY <1>4, <1>5, <1>6, <1>7, <1>8, <1>9, <1>10, <1>11, <1>12, Kinds

------------------------------------------------------------------------------
(* The connections that are open.                                            *)

\* No step opens a connection again, and a new one takes a free descriptor.
LEMMA OpenStep ==
    ASSUME ServerInv, [Next]_vars
    PROVE  \/ SameHomes /\ \A c \in Conns : Open(c)' => Open(c)
           \/ \E c \in Conns : \E fd \in FreeFds :
                 NewStep(c, fd) /\ \A d \in Conns : Open(d)' => Open(d) \/ d = c
<1> DEFINE Same == SameHomes /\ \A c \in Conns : Open(c)' => Open(c)
<1>t. TypeOK
  BY DEF ServerInv
<1>1. ASSUME NEW l \in Loops, NEW f, Pushed(l, f) \/ SameQueues(loop', l), OthersSame(l),
             NEW d \in Conns, Open(d)', connections_' \subseteq connections_ \cup {f[2]}
      PROVE  Open(d) \/ d = f[2]
  <2>1. \A k \in Loops : \A g : InQueue(g, k)' => InQueue(g, k) \/ g = f
    <3> SUFFICES ASSUME NEW k \in Loops, NEW g, InQueue(g, k)'
                 PROVE  InQueue(g, k) \/ g = f
      OBVIOUS
    <3>1. CASE k = l /\ Pushed(l, f)
      BY <1>t, <3>1, PushEffect
    <3>2. CASE SameQueues(loop', k)
      BY <3>2, SameEffect
    <3> QED
      BY <1>1, <3>1, <3>2 DEF OthersSame
  <2> QED
    BY <1>1, <2>1, OpenNamed
<1>2. ASSUME \A k \in Loops : \A g : InQueue(g, k)' => InQueue(g, k),
             connections_' \subseteq connections_, SameHomes
      PROVE  Same
  BY <1>2, OpenNamed
<1>3. CASE CalmStep
  BY <1>2, <1>3, SameEffect DEF CalmStep, SameTables
<1>4. CASE ListenStep
  <2>1. 0 \in Loops /\ OthersSame(0) /\ SameHomes /\ connections_' = connections_
    BY <1>4, ServerAssumption DEF ListenStep, SameTables, Loops
  <2>2. CASE Pushed(0, <<"listen", Listener>>)
    <3>1. \A d \in Conns : d # <<"listen", Listener>>[2]
      BY DEF Listener, Conns
    <3> QED
      BY <1>1, <2>1, <2>2, <3>1
  <2>3. CASE Advanced(0, <<"listen", Listener>>)
    <3>1. \A k \in Loops : \A g : InQueue(g, k)' => InQueue(g, k)
      BY <1>t, <2>1, <2>3, SameEffect, AdvanceEffect DEF OthersSame
    <3> QED
      BY <1>2, <2>1, <3>1
  <2> QED
    BY <1>4, <2>2, <2>3 DEF ListenStep
<1>5. ASSUME NEW l \in Loops, MoveStep(l)
      PROVE  Same
  BY <1>t, <1>2, <1>5, SameEffect, MoveEffect DEF MoveStep, OthersSame, SameTables
<1>6. ASSUME NEW c \in Conns, NEW fd \in FreeFds, NewStep(c, fd)
      PROVE  \A d \in Conns : Open(d)' => Open(d) \/ d = c
  <2>1. PICK l \in Loops : l = conn'[c].loop_
    BY <1>6 DEF NewStep
  <2>2. /\ OthersSame(l) /\ connections_' \subseteq connections_ \cup {c}
        /\ SameQueues(loop', l) \/ Pushed(l, <<"connectEstablished", c>>)
    BY <1>6, <2>1 DEF NewStep
  <2>3. <<"connectEstablished", c>>[2] = c
    OBVIOUS
  <2> QED
    BY <1>1, <2>2, <2>3
<1>7. ASSUME NEW c \in Conns, CloseStep(c)
      PROVE  Same
  <2>1. /\ 0 \in Loops /\ OthersSame(0) /\ SameHomes /\ connections_' \subseteq connections_
        /\ Pushed(0, <<"connectDistroyed", c>>) \/ Pushed(0, <<"remove", c>>)
    BY <1>7, ServerAssumption DEF CloseStep, Loops
  <2>2. conn[c].loop_ \in Loops /\ channels_[conn[c].loop_][conn[c].fd] = c /\ conn[c].fd \in Fds
        /\ loop[conn[c].loop_].at # "ended"
    BY <1>7, <1>t DEF CloseStep, Registered, TypeOK
  <2>3. c \in connections_ \/ InQueue(<<"connectDistroyed", c>>, conn[c].loop_)
    BY <1>t, <2>2, QueuesTyped DEF ServerInv, KnownInv
  <2>4. Open(c)
    BY <2>2, <2>3, OpenNamed
  <2>5. <<"connectDistroyed", c>>[2] = c /\ <<"remove", c>>[2] = c
    OBVIOUS
  <2>6. \A d \in Conns : Open(d)' => Open(d) \/ d = c
    BY <1>1, <2>1, <2>5
  <2> QED
    BY <2>1, <2>4, <2>6
<1>8. ASSUME NEW c \in Conns, EstablishStep(c) \/ DistroyStep(c)
      PROVE  Same
  <2>1. PICK l \in Loops : l = conn[c].loop_
    BY <1>t DEF TypeOK
  <2>2. PICK f : Advanced(l, f) /\ OthersSame(l) /\ SameHomes /\ connections_' = connections_
    BY <1>8, <2>1 DEF EstablishStep, DistroyStep
  <2>3. \A k \in Loops : \A g : InQueue(g, k)' => InQueue(g, k)
    BY <1>t, <2>2, SameEffect, AdvanceEffect DEF OthersSame
  <2> QED
    BY <1>2, <2>2, <2>3
<1>9. ASSUME NEW c \in Conns, RemoveStep(c) \/ EndStep(c)
      PROVE  Same
  <2>1. PICK l \in Loops : l = conn[c].loop_
    BY <1>t DEF TypeOK
  <2>2. SameHomes /\ connections_' \subseteq connections_
    BY <1>9 DEF RemoveStep, EndStep
  <2>3. CASE RemoveStep(c)
    <3>1. /\ 0 \in Loops /\ l # 0 /\ Advanced(0, <<"remove", c>>) /\ Pushed(l, <<"connectDistroyed", c>>)
          /\ \A k \in Loops \ {0, l} : SameQueues(loop', k)
      BY <2>1, <2>3, ServerAssumption DEF RemoveStep, Loops
    <3>2. Open(c)
      BY <1>t, <3>1, AdvanceEffect, OpenNamed
    <3>3. \A k \in Loops : \A g : InQueue(g, k)' => InQueue(g, k) \/ g = <<"connectDistroyed", c>>
      <4> SUFFICES ASSUME NEW k \in Loops, NEW g, InQueue(g, k)'
                   PROVE  InQueue(g, k) \/ g = <<"connectDistroyed", c>>
        OBVIOUS
      <4>1. CASE k = 0
        BY <1>t, <3>1, <4>1, AdvanceEffect
      <4>2. CASE k = l
        BY <1>t, <3>1, <4>2, PushEffect
      <4>3. CASE k \notin {0, l}
        BY <3>1, <4>3, SameEffect
      <4> QED
        BY <4>1, <4>2, <4>3
    <3> QED
      BY <2>2, <3>2, <3>3, OpenNamed
  <2>4. CASE EndStep(c)
    <3>1. OthersSame(l) /\ (SameQueues(loop', l) \/ Pushed(l, <<"connectDistroyed", c>>))
      BY <2>1, <2>4 DEF EndStep
    <3>2. Open(c) /\ <<"connectDistroyed", c>>[2] = c
      BY <2>4 DEF EndStep, Open
    <3> QED
      BY <1>1, <2>2, <3>1, <3>2
  <2> QED
    BY <1>9, <2>3, <2>4
<1> QED
  BY <1>3, <1>4, <1>5, <1>6, <1>7, <1>8, <1>9, Kinds

\* Connections are made from clients; the pool starts once.
LEMMA CountStep ==
    ASSUME ServerInv, [Next]_vars
    PROVE  nextConnId_' - 1 + backlog' <= clients' /\ Threads \subseteq Threads'
<1>1. /\ nextConnId_ - 1 + backlog <= clients
      /\ nextConnId_ \in Nat \ {0} /\ backlog \in Nat /\ clients \in Nat
  BY DEF ServerInv, ConnInv, TypeOK
<1>2. CASE Accept
  <2>1. /\ backlog' = backlog - 1 /\ clients' = clients
        /\ nextConnId_' = nextConnId_ \/ nextConnId_' = nextConnId_ + 1
        /\ UNCHANGED threads
    BY <1>2 DEF Accept, NewConnection
  <2> QED
    BY <1>1, <2>1 DEF Threads
<1>3. CASE Connect
  BY <1>1, <1>3 DEF Connect, Threads, poolVars, serverVars
<1>4. CASE DestroyAcceptor
  BY <1>1, <1>4 DEF DestroyAcceptor, Threads, poolVars
<1>5. CASE Start
  <2>1. threads = 0
    BY <1>5 DEF Start, ServerInv, PhaseInv
  <2> QED
    BY <1>1, <1>5, <2>1 DEF Start, Threads, serverVars
<1>s. CASE StartThread
  <2>1. threads \in Nat /\ threads' = threads + 1
    BY <1>s, ServerAssumption DEF StartThread, ServerInv, TypeOK, Loops
  <2> QED
    BY <1>1, <1>s, <2>1 DEF StartThread, Threads, acceptVars, serverVars
<1>6. CASE UNCHANGED <<threads, nextConnId_, backlog, clients>>
  BY <1>1, <1>6 DEF Threads
<1>7. ASSUME NEW l \in Loops, LoopStep(l)
      PROVE  UNCHANGED <<threads, nextConnId_, backlog, clients>>
  BY <1>7 DEF LoopStep, FirstTurn, Swap, EndFunctors, EndLoop, HandleRead, HandleClose,
              ConnectEstablished, ConnectDistroyed, poolVars, acceptVars, serverVars
<1>8. CASE EnterLoop \/ AcceptFails \/ Listen \/ DestroyMembers \/ QuitThread \/ QuitWakeup
           \/ JoinThread \/ QuitBase \/ StartElsewhere \/ StartListen \/ StartTooLate \/ WakeupBase
           \/ \E c \in Conns : RemoveConnectionInLoop(c) \/ DestroyConnection(c) \/ PeerCloses(c)
  BY <1>8, <1>6 DEF EnterLoop, AcceptFails, Listen, DestroyMembers, QuitThread, QuitWakeup, JoinThread,
                    QuitBase, StartElsewhere, StartListen, StartTooLate, WakeupBase,
                    RemoveConnectionInLoop, DestroyConnection, PeerCloses, poolVars, acceptVars, serverVars
<1>9. CASE UNCHANGED vars
  BY <1>9, <1>6 DEF vars, poolVars, acceptVars, serverVars
<1> QED
  BY <1>2, <1>3, <1>4, <1>5, <1>s, <1>6, <1>7, <1>8, <1>9 DEF Next, BaseStep, OtherStep, Done

LEMMA FreeFdFacts ==
    ASSUME NEW fd \in FreeFds
    PROVE  fd \in Fds /\ \A c \in Conns : Open(c) => conn[c].fd # fd
BY DEF FreeFds

LEMMA ConnStep == ServerInv /\ [Next]_vars => ConnInv'
<1> SUFFICES ASSUME ServerInv, [Next]_vars, TypeOK, ConnInv
             PROVE  ConnInv'
  BY DEF ServerInv
<1>1. nextConnId_' - 1 + backlog' <= clients' /\ Threads \subseteq Threads'
  BY CountStep
<1>2. ASSUME SameHomes, \A c \in Conns : Open(c)' => Open(c),
             nextConnId_' = nextConnId_, connections_' \subseteq connections_
      PROVE  ConnInv'
  BY <1>1, <1>2 DEF ConnInv, SameHomes
<1>3. ASSUME NEW c \in Conns, NEW fd \in FreeFds, NewStep(c, fd),
             \A d \in Conns : Open(d)' => Open(d) \/ d = c
      PROVE  ConnInv'
  <2>1. /\ c = nextConnId_ /\ nextConnId_' = c + 1 /\ connections_' = connections_ \cup {c}
        /\ \A d \in Conns \ {c} : conn'[d] = conn[d]
        /\ conn'[c].fd = fd /\ (conn'[c].loop_ = 0 \/ conn'[c].loop_ \in Threads)
    BY <1>3 DEF NewStep, TypeOK
  <2>2. fd \in Fds /\ \A d \in Conns : Open(d) => conn[d].fd # fd
    BY FreeFdFacts
  <2>3. \A d \in connections_' : d < nextConnId_'
    <3>1. \A d \in connections_ : d < nextConnId_ /\ d \in Nat
      BY DEF ConnInv, TypeOK, Conns
    <3>2. nextConnId_ \in Nat
      BY DEF TypeOK
    <3> QED
      BY <2>1, <3>1, <3>2
  <2>4. \A d \in Conns : d < nextConnId_' =>
            /\ conn'[d].fd \in Fds
            /\ conn'[d].loop_ = 0 \/ conn'[d].loop_ \in Threads'
    <3>1. \A d \in Conns : d < nextConnId_' => d = c \/ d < nextConnId_
      BY <2>1 DEF Conns
    <3> QED
      BY <1>1, <2>1, <2>2, <3>1 DEF ConnInv
  <2>5. \A d, e \in Conns : Open(d)' /\ Open(e)' /\ conn'[d].fd = conn'[e].fd => d = e
    BY <1>3, <2>1, <2>2 DEF ConnInv
  <2> QED
    BY <1>1, <2>3, <2>4, <2>5 DEF ConnInv
<1>4. \/ nextConnId_' = nextConnId_ /\ connections_' \subseteq connections_
      \/ \E c \in Conns : \E fd \in FreeFds : NewStep(c, fd)
  BY Kinds DEF CalmStep, ListenStep, MoveStep, CloseStep, EstablishStep, RemoveStep, DistroyStep,
               EndStep, SameTables
<1>5. ASSUME NEW c \in Conns, NEW fd \in FreeFds, NewStep(c, fd)
      PROVE  \E d \in Conns : \E e \in FreeFds : NewStep(d, e) /\ \A x \in Conns : Open(x)' => Open(x) \/ x = d
  <2>1. conn'[c] # conn[c] \/ nextConnId_' # nextConnId_
    BY <1>5 DEF NewStep, Conns
  <2> QED
    BY <1>5, OpenStep
<1> QED
  BY <1>2, <1>3, <1>4, <1>5, OpenStep

------------------------------------------------------------------------------
(* What the pollers know.                                                    *)

\* An open connection has a number, a loop and a descriptor of its own.
LEMMA OpenFacts ==
    ASSUME ServerInv, NEW c \in Conns, Open(c)
    PROVE  /\ c < nextConnId_ /\ conn[c].loop_ \in Loops /\ conn[c].fd \in Fds /\ conn[c].fd # None
           /\ \A d \in Conns : Open(d) /\ conn[c].fd = conn[d].fd => c = d
<1>1. c < nextConnId_
  BY OpenNamed, QueuePlaced DEF ServerInv, ConnInv, Placed
<1>2. conn[c].fd \in Fds /\ conn[c].loop_ \in Loops
  BY <1>1 DEF ServerInv, ConnInv, TypeOK
<1>3. conn[c].fd # None
  BY <1>2, ServerAssumption
<1> QED
  BY <1>1, <1>2, <1>3 DEF ServerInv, ConnInv

\* What the poller of a loop has is open.
LEMMA PolledFacts ==
    ASSUME ServerInv, NEW l \in Loops, NEW fd \in Fds, NEW c \in Conns,
           loop[l].at # "ended", channels_[l][fd] = c
    PROVE  /\ conn[c].fd = fd /\ conn[c].loop_ = l /\ Open(c)
           /\ c \in connections_ \/ Due(<<"connectDistroyed", c>>, l)
<1>1. /\ conn[c].fd = fd /\ conn[c].loop_ = l
      /\ c \in connections_ \/ Due(<<"connectDistroyed", c>>, l)
  BY DEF ServerInv, KnownInv
<1>2. TypeOK
  BY DEF ServerInv
<1>3. Open(c)
  BY <1>1, <1>2, QueuesTyped, OpenNamed
<1> QED
  BY <1>1, <1>3

\* What is due stays due, except the functor that runs and those of a loop that ends.
LEMMA DueStep ==
    ASSUME ServerInv, [Next]_vars, NEW l \in Loops, loop'[l].at # "ended", NEW g, Due(g, l)
    PROVE  \/ Due(g, l)'
           \/ g = <<"listen", Listener>>
           \/ \E c \in Conns :
                 \/ EstablishStep(c) /\ g = <<"connectEstablished", c>>
                 \/ RemoveStep(c) /\ g = <<"remove", c>>
                 \/ DistroyStep(c) /\ g = <<"connectDistroyed", c>>
<1>t. TypeOK /\ 0 \in Loops
  BY ServerAssumption DEF ServerInv, Loops
<1>1. ASSUME SameQueues(loop', l)
      PROVE  Due(g, l)'
  BY <1>1, SameEffect
<1>2. ASSUME NEW f, Pushed(l, f)
      PROVE  Due(g, l)'
  BY <1>t, <1>2, PushEffect
<1>3. ASSUME NEW f, Advanced(l, f)
      PROVE  Due(g, l)' \/ g = f
  BY <1>t, <1>3, AdvanceEffect
<1>o. ASSUME NEW k, OthersSame(k), k # l
      PROVE  Due(g, l)'
  BY <1>1, <1>o DEF OthersSame
<1>4. CASE CalmStep
  BY <1>1, <1>4 DEF CalmStep
<1>5. CASE ListenStep
  BY <1>2, <1>3, <1>5, <1>o DEF ListenStep
<1>6. ASSUME NEW k \in Loops, MoveStep(k)
      PROVE  Due(g, l)'
  <2>1. CASE k # l
    BY <1>6, <1>o, <2>1 DEF MoveStep
  <2>2. CASE k = l
    BY <1>t, <1>6, <2>2, MoveEffect
  <2> QED
    BY <2>1, <2>2
<1>c. ASSUME NEW c \in Conns
      PROVE  /\ \A fd \in FreeFds : NewStep(c, fd) => Due(g, l)'
             /\ CloseStep(c) => Due(g, l)'
             /\ EstablishStep(c) => Due(g, l)' \/ g = <<"connectEstablished", c>>
             /\ RemoveStep(c) => Due(g, l)' \/ g = <<"remove", c>>
             /\ DistroyStep(c) => Due(g, l)' \/ g = <<"connectDistroyed", c>>
             /\ EndStep(c) => Due(g, l)'
  <2>1. ASSUME NEW fd \in FreeFds, NewStep(c, fd)
        PROVE  Due(g, l)'
    <3>1. PICK k \in Loops : k = conn'[c].loop_ /\ OthersSame(k)
      BY <2>1 DEF NewStep
    <3>2. SameQueues(loop', k) \/ Pushed(k, <<"connectEstablished", c>>)
      BY <2>1, <3>1 DEF NewStep
    <3> QED
      BY <1>1, <1>2, <1>o, <3>1, <3>2
  <2>2. CASE CloseStep(c)
    <3>1. /\ OthersSame(0)
          /\ Pushed(0, <<"connectDistroyed", c>>) \/ Pushed(0, <<"remove", c>>)
      BY <2>2 DEF CloseStep
    <3> QED
      BY <1>2, <1>o, <3>1
  <2>3. PICK k \in Loops : k = conn[c].loop_
    BY <1>t DEF TypeOK
  <2>4. ASSUME EstablishStep(c)
        PROVE  Due(g, l)' \/ g = <<"connectEstablished", c>>
    <3>1. OthersSame(k) /\ Advanced(k, <<"connectEstablished", c>>)
      BY <2>3, <2>4 DEF EstablishStep
    <3> QED
      BY <1>3, <1>o, <3>1
  <2>5. ASSUME DistroyStep(c)
        PROVE  Due(g, l)' \/ g = <<"connectDistroyed", c>>
    <3>1. OthersSame(k) /\ Advanced(k, <<"connectDistroyed", c>>)
      BY <2>3, <2>5 DEF DistroyStep
    <3> QED
      BY <1>3, <1>o, <3>1
  <2>6. CASE EndStep(c)
    <3>1. OthersSame(k) /\ (SameQueues(loop', k) \/ Pushed(k, <<"connectDistroyed", c>>))
      BY <2>3, <2>6 DEF EndStep
    <3> QED
      BY <1>1, <1>2, <1>o, <3>1
  <2>7. ASSUME RemoveStep(c)
        PROVE  Due(g, l)' \/ g = <<"remove", c>>
    <3>1. /\ Advanced(0, <<"remove", c>>) /\ Pushed(k, <<"connectDistroyed", c>>)
          /\ \A j \in Loops \ {0, k} : SameQueues(loop', j)
      BY <2>3, <2>7 DEF RemoveStep
    <3> QED
      BY <1>1, <1>2, <1>3, <3>1
  <2> QED
    BY <2>1, <2>2, <2>4, <2>5, <2>6, <2>7
<1> QED
  BY <1>4, <1>5, <1>6, <1>c, Kinds

\* The functors in the queues are about connections there are.
LEMMA RunFacts ==
    ASSUME ServerInv, NEW l \in Loops, NEW c \in Conns, NEW name, Advanced(l, <<name, c>>)
    PROVE  Open(c) /\ Placed(<<name, c>>, l) /\ Due(<<name, c>>, l)
BY AdvanceEffect, QueuePlaced, OpenNamed DEF ServerInv

\* How a step changes what a poller has for a descriptor.
LEMMA ChannelStep ==
    ASSUME ServerInv, [Next]_vars, NEW l \in Loops, NEW fd \in Fds
    PROVE  \/ channels_'[l][fd] = channels_[l][fd]
           \/ \E c \in Conns :
                 \/ /\ channels_'[l][fd] = c /\ l = 0 /\ conn'[c].loop_ = 0 /\ conn'[c].fd = fd
                    /\ fd \in FreeFds /\ NewStep(c, fd)
                 \/ /\ channels_'[l][fd] = c /\ l = conn[c].loop_ /\ fd = conn[c].fd
                    /\ EstablishStep(c)
                 \/ /\ channels_'[l][fd] = None /\ l = conn[c].loop_ /\ fd = conn[c].fd
                    /\ DistroyStep(c) \/ EndStep(c)
<1>1. channels_ \in [Loops -> [Fds -> Conns \cup {None}]]
  BY DEF ServerInv, TypeOK
<1>2. CASE UNCHANGED channels_
  BY <1>2
<1>3. ASSUME NEW c \in Conns, NEW e \in FreeFds, NewStep(c, e),
             channels_' = [channels_ EXCEPT ![0][e] = c], conn'[c].loop_ = 0, conn'[c].fd = e
      PROVE  \/ channels_'[l][fd] = channels_[l][fd]
             \/ /\ channels_'[l][fd] = c /\ l = 0 /\ conn'[c].loop_ = 0 /\ conn'[c].fd = fd
                /\ fd \in FreeFds /\ NewStep(c, fd)
  BY <1>1, <1>3
<1>4. ASSUME NEW c \in Conns, EstablishStep(c)
      PROVE  \/ channels_'[l][fd] = channels_[l][fd]
             \/ channels_'[l][fd] = c /\ l = conn[c].loop_ /\ fd = conn[c].fd
  BY <1>1, <1>4 DEF EstablishStep
<1>5. ASSUME NEW c \in Conns, Destroy(c)
      PROVE  \/ channels_'[l][fd] = channels_[l][fd]
             \/ channels_'[l][fd] = None /\ l = conn[c].loop_ /\ fd = conn[c].fd
  BY <1>1, <1>5 DEF Destroy
<1>6. CASE CalmStep \/ ListenStep \/ (\E k \in Loops : MoveStep(k))
  BY <1>2, <1>6 DEF CalmStep, ListenStep, MoveStep, SameTables
<1>7. ASSUME NEW c \in Conns, NEW e \in FreeFds, NewStep(c, e)
      PROVE  UNCHANGED channels_ \/ (/\ channels_' = [channels_ EXCEPT ![0][e] = c]
                                     /\ conn'[c].loop_ = 0 /\ conn'[c].fd = e)
  BY <1>7 DEF NewStep
<1>8. \A c \in Conns : /\ CloseStep(c) \/ RemoveStep(c) => UNCHANGED channels_
                       /\ DistroyStep(c) => Destroy(c)
                       /\ EndStep(c) => UNCHANGED channels_ \/ Destroy(c)
  BY DEF CloseStep, RemoveStep, DistroyStep, EndStep
<1> QED
  BY <1>2, <1>3, <1>4, <1>5, <1>6, <1>7, <1>8, Kinds

\* How a step changes the state and the place of a connection in the map.
LEMMA MapStep ==
    ASSUME ServerInv, [Next]_vars, NEW c \in Conns
    PROVE  /\ c \in connections_' =>
                 c \in connections_ \/ \E fd \in FreeFds : NewStep(c, fd)
           /\ c \in connections_ =>
                 \/ c \in connections_'
                 \/ CloseStep(c) /\ conn[c].loop_ = 0
                 \/ RemoveStep(c) \/ EndStep(c)
           /\ \/ conn'[c] = conn[c]
              \/ conn'[c].loop_ = conn[c].loop_ /\ conn'[c].fd = conn[c].fd
              \/ \E fd \in FreeFds : NewStep(c, fd)
           /\ \/ conn'[c].state_ = conn[c].state_
              \/ conn'[c].state_ = "kDisconnecting" /\ Registered(c) /\ CalmStep
              \/ CloseStep(c) \/ EstablishStep(c) \/ DistroyStep(c) \/ EndStep(c)
              \/ \E fd \in FreeFds : NewStep(c, fd)
<1>1. conn \in [Conns -> ConnType]
  BY DEF ServerInv, TypeOK, ConnType
<1>2. CASE CalmStep
  BY <1>2 DEF CalmStep, SameTables, SameHomes
<1>3. CASE ListenStep \/ (\E k \in Loops : MoveStep(k))
  BY <1>3 DEF ListenStep, MoveStep, SameTables
<1>4. ASSUME NEW d \in Conns, NEW fd \in FreeFds, NewStep(d, fd)
      PROVE  /\ connections_' = connections_ \cup {d}
             /\ c # d => conn'[c] = conn[c]
  BY <1>1, <1>4 DEF NewStep
<1>5. ASSUME NEW d \in Conns, c # d,
             CloseStep(d) \/ EstablishStep(d) \/ RemoveStep(d) \/ DistroyStep(d) \/ EndStep(d)
      PROVE  conn'[c] = conn[c] /\ (c \in connections_' <=> c \in connections_)
  BY <1>1, <1>5 DEF CloseStep, EstablishStep, RemoveStep, DistroyStep, EndStep, Destroy
<1>6. CASE CloseStep(c) \/ EstablishStep(c) \/ RemoveStep(c) \/ DistroyStep(c) \/ EndStep(c)
  BY <1>1, <1>6 DEF CloseStep, EstablishStep, RemoveStep, DistroyStep, EndStep, Destroy, SameHomes
<1> QED
  BY <1>2, <1>3, <1>4, <1>5, <1>6, Kinds

LEMMA KnownStep == ServerInv /\ [Next]_vars => KnownInv'
<1> SUFFICES ASSUME ServerInv, [Next]_vars, TypeOK
             PROVE  KnownInv'
  BY DEF ServerInv
<1>1. ASSUME NEW l \in Loops, NEW fd \in Fds, NEW c \in Conns,
             loop'[l].at # "ended", channels_'[l][fd] = c
      PROVE  /\ conn'[c].fd = fd /\ conn'[c].loop_ = l
             /\ c \in connections_' \/ Due(<<"connectDistroyed", c>>, l)'
  <2>0. loop[l].at # "ended" /\ c # None
    BY <1>1, EndedStays, ServerAssumption DEF Conns
  <2>1. CASE channels_[l][fd] = c
    <3>1. /\ conn[c].fd = fd /\ conn[c].loop_ = l /\ Open(c)
          /\ c \in connections_ \/ Due(<<"connectDistroyed", c>>, l)
      BY <2>0, <2>1, PolledFacts
    <3>2. \A e : ~NewStep(c, e)
      BY <3>1, OpenFacts DEF NewStep, TypeOK
    <3>3. conn'[c].fd = fd /\ conn'[c].loop_ = l
      BY <3>1, <3>2, MapStep
    <3>4. ~DistroyStep(c)
      <4> SUFFICES ASSUME DistroyStep(c)
                   PROVE  channels_'[l][fd] = None
        BY <1>1, <2>0
      <4> QED
        BY <3>1 DEF DistroyStep, Destroy, TypeOK
    <3>5. CASE c \notin connections_
      <4>1. Due(<<"connectDistroyed", c>>, l)
        BY <3>1, <3>5
      <4>2. /\ <<"connectDistroyed", c>> # <<"listen", Listener>>
            /\ \A d \in Conns : /\ <<"connectDistroyed", c>> # <<"connectEstablished", d>>
                                /\ <<"connectDistroyed", c>> # <<"remove", d>>
                                /\ <<"connectDistroyed", c>> = <<"connectDistroyed", d>> => c = d
        OBVIOUS
      <4>3. Due(<<"connectDistroyed", c>>, l)'
        BY <1>1, <3>4, <4>1, <4>2, DueStep
      <4> QED
        BY <3>3, <4>3
    <3>6. CASE c \in connections_ /\ c \notin connections_'
      <4>1. \/ CloseStep(c) /\ conn[c].loop_ = 0
            \/ RemoveStep(c) \/ EndStep(c)
        BY <3>6, MapStep
      <4>2. ~(EndStep(c) /\ conn[c].loop_ = 0)
        <5> SUFFICES ASSUME EndStep(c), conn[c].loop_ = 0
                     PROVE  channels_'[l][fd] = None
          BY <1>1, <2>0
        <5> QED
          BY <3>1 DEF EndStep, Destroy, TypeOK
      <4>3. Pushed(l, <<"connectDistroyed", c>>)
        BY <3>1, <4>1, <4>2 DEF CloseStep, RemoveStep, EndStep
      <4> QED
        BY <3>3, <4>3, PushEffect
    <3> QED
      BY <3>3, <3>5, <3>6
  <2>2. CASE channels_[l][fd] # c
    <3>1. PICK d \in Conns :
             \/ /\ channels_'[l][fd] = d /\ l = 0 /\ conn'[d].loop_ = 0 /\ conn'[d].fd = fd
                /\ NewStep(d, fd)
             \/ /\ channels_'[l][fd] = d /\ l = conn[d].loop_ /\ fd = conn[d].fd
                /\ EstablishStep(d)
      BY <1>1, <2>0, <2>2, ChannelStep
    <3>2. d = c
      BY <1>1, <3>1
    <3>3. CASE NewStep(c, fd)
      BY <3>1, <3>2, <3>3 DEF NewStep, EstablishStep, Conns
    <3>4. CASE EstablishStep(c) /\ l = conn[c].loop_ /\ fd = conn[c].fd
      <4>1. /\ Advanced(l, <<"connectEstablished", c>>) /\ SameHomes /\ connections_' = connections_
        BY <3>4 DEF EstablishStep
      <4>2. ASSUME c \notin connections_
            PROVE  Due(<<"connectDistroyed", c>>, l)
        <5>1. /\ loop[l].ran + 1 \in (loop[l].ran + 1) .. Len(loop[l].functors)
              /\ loop[l].functors[loop[l].ran + 1] = <<"connectEstablished", c>>
              /\ loop[l].ran \in Nat
              /\ DOMAIN loop[l].functors = 1 .. Len(loop[l].functors)
          BY <4>1, QueuesTyped DEF Advanced, Running
        <5>2. \/ \E j \in DOMAIN loop[l].functors :
                    j > loop[l].ran + 1 /\ loop[l].functors[j] = <<"connectDistroyed", c>>
              \/ \E j \in DOMAIN loop[l].pending : loop[l].pending[j] = <<"connectDistroyed", c>>
          BY <4>2, <5>1 DEF ServerInv, OrderInv
        <5> QED
          BY <5>1, <5>2 DEF Due
      <4>3. <<"connectEstablished", c>> # <<"connectDistroyed", c>>
        OBVIOUS
      <4>4. c \in connections_' \/ Due(<<"connectDistroyed", c>>, l)'
        BY <4>1, <4>2, <4>3, AdvanceEffect
      <4> QED
        BY <3>4, <4>1, <4>4 DEF SameHomes
    <3> QED
      BY <3>1, <3>2, <3>3, <3>4
  <2> QED
    BY <2>1, <2>2
<1>2. ASSUME NEW c \in connections_', conn'[c].state_ # "kConnecting"
      PROVE  Registered(c)'
  <2>0. c \in Conns /\ conn \in [Conns -> ConnType]
    BY TypeStep DEF TypeOK, ConnType
  <2>1. CASE \E fd \in FreeFds : NewStep(c, fd)
    <3>1. PICK fd \in FreeFds : NewStep(c, fd)
      BY <2>1
    <3>2. /\ conn'[c].fd = fd /\ conn'[c].loop_ = 0
          /\ channels_' = [channels_ EXCEPT ![0][fd] = c]
      BY <1>2, <3>1 DEF NewStep
    <3>3. fd \in Fds
      BY FreeFdFacts
    <3>4. fd # None /\ 0 \in Loops
      BY <3>3, ServerAssumption DEF Loops
    <3> QED
      BY <3>2, <3>3, <3>4 DEF Registered, TypeOK
  <2>2. CASE ~\E fd \in FreeFds : NewStep(c, fd)
    <3>1. /\ c \in connections_ /\ Open(c)
          /\ conn'[c].loop_ = conn[c].loop_ /\ conn'[c].fd = conn[c].fd
      BY <1>2, <2>0, <2>2, MapStep DEF Open
    <3>2. PICK l \in Loops, fd \in Fds : l = conn[c].loop_ /\ fd = conn[c].fd /\ fd # None
      BY <2>0, <3>1, OpenFacts
    <3>3. ~EndStep(c) /\ ~DistroyStep(c)
      <4>1. ~EndStep(c)
        BY <1>2 DEF EndStep
      <4>2. ASSUME DistroyStep(c) PROVE FALSE
        <5>1. Placed(<<"connectDistroyed", c>>, l)
          BY <2>0, <3>2, <4>2, RunFacts DEF DistroyStep
        <5> QED
          BY <3>1, <5>1 DEF Placed
      <4> QED
        BY <4>1, <4>2
    <3>4. CASE EstablishStep(c)
      BY <3>1, <3>2, <3>4 DEF EstablishStep, Registered, TypeOK
    <3>5. CASE ~EstablishStep(c)
      <4>1. Registered(c)
        <5>1. CASE CloseStep(c)
          BY <5>1 DEF CloseStep
        <5>2. CASE conn'[c].state_ = conn[c].state_
          BY <1>2, <3>1, <5>2 DEF ServerInv, KnownInv
        <5> QED
          BY <2>0, <2>2, <3>3, <3>5, <5>1, <5>2, MapStep
      <4>2. channels_[l][fd] = c
        BY <3>2, <4>1 DEF Registered
      <4>3. channels_'[l][fd] = c
        <5> SUFFICES ASSUME channels_'[l][fd] # channels_[l][fd]
                     PROVE  FALSE
          BY <4>2
        <5>1. PICK d \in Conns :
                  \/ fd \in FreeFds
                  \/ EstablishStep(d) /\ l = conn[d].loop_ /\ fd = conn[d].fd
                  \/ (DistroyStep(d) \/ EndStep(d)) /\ l = conn[d].loop_ /\ fd = conn[d].fd
          BY ChannelStep
        <5>2. fd \notin FreeFds
          BY <2>0, <3>1, <3>2, FreeFdFacts
        <5>3. /\ l = conn[d].loop_ /\ fd = conn[d].fd
              /\ EstablishStep(d) \/ DistroyStep(d) \/ EndStep(d)
          BY <5>1, <5>2
        <5>4. Open(d)
          <6>1. CASE EndStep(d)
            BY <6>1 DEF EndStep, Open
          <6>2. CASE EstablishStep(d) \/ DistroyStep(d)
            <7>1. Advanced(l, <<"connectEstablished", d>>) \/ Advanced(l, <<"connectDistroyed", d>>)
              BY <5>3, <6>2 DEF EstablishStep, DistroyStep
            <7> QED
              BY <7>1, RunFacts
          <6> QED
            BY <5>3, <6>1, <6>2
        <5>5. d = c
          BY <2>0, <3>1, <3>2, <5>3, <5>4, OpenFacts
        <5> QED
          BY <3>3, <3>5, <5>3, <5>5
      <4> QED
        BY <3>1, <3>2, <4>3 DEF Registered
    <3> QED
      BY <3>4, <3>5
  <2> QED
    BY <2>1, <2>2
<1> QED
  BY <1>1, <1>2 DEF KnownInv

LEMMA DownStep == ServerInv /\ [Next]_vars => DownInv'
<1> SUFFICES ASSUME ServerInv, [Next]_vars, TypeOK,
                    NEW c \in connections_', conn'[c].state_ = "kDisconnected"
             PROVE  Due(<<"remove", c>>, 0)'
  BY DEF ServerInv, DownInv
<1>0. c \in Conns /\ 0 \in Loops /\ conn \in [Conns -> ConnType]
  BY TypeStep, ServerAssumption DEF TypeOK, Loops, ConnType
<1>1. \A fd : ~NewStep(c, fd)
  BY DEF NewStep
<1>2. c \in connections_
  BY <1>0, <1>1, MapStep
<1>3. ~EndStep(c) /\ ~RemoveStep(c)
  BY DEF EndStep, RemoveStep
<1>4. ~EstablishStep(c)
  <2>1. EstablishStep(c) => conn' = [conn EXCEPT ![c].state_ = "kConnected"]
    BY DEF EstablishStep
  <2> QED
    BY <1>0, <2>1 DEF ConnType
<1>5. ~DistroyStep(c)
  <2> SUFFICES ASSUME DistroyStep(c)
               PROVE  FALSE
    OBVIOUS
  <2>1. PICK l \in Loops : l = conn[c].loop_
    BY <1>0 DEF TypeOK
  <2>2. Placed(<<"connectDistroyed", c>>, l)
    BY <1>0, <2>1, RunFacts DEF DistroyStep
  <2> QED
    BY <1>2, <2>2 DEF Placed
<1>6. CASE CloseStep(c)
  <2>1. Pushed(0, <<"remove", c>>)
    BY <1>6 DEF CloseStep
  <2> QED
    BY <1>0, <2>1, PushEffect
<1>7. CASE conn'[c].state_ = conn[c].state_
  <2>1. Due(<<"remove", c>>, 0)
    BY <1>2, <1>7 DEF ServerInv, DownInv
  <2>2. loop'[0].at # "ended"
    BY PhaseStep DEF PhaseInv
  <2>3. /\ <<"remove", c>> # <<"listen", Listener>>
        /\ \A d \in Conns : /\ <<"remove", c>> # <<"connectEstablished", d>>
                            /\ <<"remove", c>> # <<"connectDistroyed", d>>
                            /\ <<"remove", c>> = <<"remove", d>> => c = d
    OBVIOUS
  <2> QED
    BY <1>0, <1>3, <2>1, <2>2, <2>3, DueStep
<1> QED
  BY <1>0, <1>1, <1>3, <1>4, <1>5, <1>6, <1>7, MapStep

------------------------------------------------------------------------------
(* The order of the functors of one connection.                              *)

Behind(q, c, i) == \E j \in DOMAIN q : j > i /\ q[j] = <<"connectDistroyed", c>>

Ordered(l, c) ==
    /\ \A i \in DOMAIN loop[l].pending :
          loop[l].pending[i] = <<"connectEstablished", c>> => Behind(loop[l].pending, c, i)
    /\ \A i \in (loop[l].ran + 1) .. Len(loop[l].functors) :
          loop[l].functors[i] = <<"connectEstablished", c>> =>
              Behind(loop[l].functors, c, i) \/ Behind(loop[l].pending, c, 0)

LEMMA OrderedAll == OrderInv <=> \A l \in Loops, c \in Conns : c \notin connections_ => Ordered(l, c)
BY DEF OrderInv, Ordered, Behind

LEMMA OrderedSame ==
    ASSUME NEW l \in Loops, NEW c, Ordered(l, c), SameQueues(loop', l)
    PROVE  Ordered(l, c)'
BY DEF Ordered, SameQueues, Behind

\* What is pushed comes last.
LEMMA OrderedPush ==
    ASSUME TypeOK, NEW l \in Loops, NEW c, NEW f, Pushed(l, f),
           f = <<"connectDistroyed", c>> \/ (Ordered(l, c) /\ f # <<"connectEstablished", c>>)
    PROVE  Ordered(l, c)'
<1> DEFINE p == loop[l].pending
           pp == loop'[l].pending
<1>1. /\ DOMAIN pp = 1 .. Len(p) + 1 /\ DOMAIN p = 1 .. Len(p) /\ Len(p) \in Nat
      /\ \A i \in DOMAIN p : pp[i] = p[i]
      /\ pp[Len(p) + 1] = f
      /\ loop'[l].functors = loop[l].functors /\ loop'[l].ran = loop[l].ran
  BY QueuesTyped DEF Pushed
<1> HIDE DEF pp, p
<1>2. CASE f = <<"connectDistroyed", c>>
  <2>1. f # <<"connectEstablished", c>>
    BY <1>2
  <2>2. \A i \in DOMAIN pp : pp[i] = <<"connectEstablished", c>> => Behind(pp, c, i)
    BY <1>1, <1>2, <2>1 DEF Behind
  <2>3. Behind(pp, c, 0)
    BY <1>1, <1>2 DEF Behind
  <2> QED
    BY <2>2, <2>3 DEF Ordered, pp, Behind
<1>3. CASE Ordered(l, c) /\ f # <<"connectEstablished", c>>
  <2>1. \A i : Behind(p, c, i) => Behind(pp, c, i)
    BY <1>1 DEF Behind
  <2>2. \A i \in DOMAIN p : p[i] = <<"connectEstablished", c>> => Behind(p, c, i)
    BY <1>3 DEF Ordered, p
  <2>3. \A i \in DOMAIN pp : pp[i] = <<"connectEstablished", c>> => Behind(pp, c, i)
    <3> SUFFICES ASSUME NEW i \in DOMAIN pp, pp[i] = <<"connectEstablished", c>>
                 PROVE  Behind(pp, c, i)
      OBVIOUS
    <3>0. i # Len(p) + 1
      BY <1>1, <1>3
    <3>1. i \in DOMAIN p /\ p[i] = <<"connectEstablished", c>>
      BY <1>1, <3>0
    <3> QED
      BY <2>1, <2>2, <3>1
  <2> QED
    BY <1>1, <1>3, <2>1, <2>3 DEF Ordered, pp, p, Behind
<1> QED
  BY <1>2, <1>3

LEMMA OrderedAdvance ==
    ASSUME TypeOK, NEW l \in Loops, NEW c, NEW f, Advanced(l, f), Ordered(l, c)
    PROVE  Ordered(l, c)'
<1>1. /\ loop'[l].pending = loop[l].pending /\ loop'[l].functors = loop[l].functors
      /\ loop'[l].ran = loop[l].ran + 1 /\ loop[l].ran \in Nat
  BY QueuesTyped DEF Advanced
<1>2. \A i : i \in (loop'[l].ran + 1) .. Len(loop'[l].functors)
            => i \in (loop[l].ran + 1) .. Len(loop[l].functors)
  BY <1>1
<1> QED
  BY <1>1, <1>2 DEF Ordered

LEMMA OrderedMove ==
    ASSUME TypeOK, NEW l \in Loops, NEW c, MoveStep(l), Ordered(l, c),
           loop'[l].at = "ended" => loop'[l].functors = <<>>
    PROVE  Ordered(l, c)'
<1>1. DOMAIN <<>> = {} /\ Len(<<>>) = 0
  OBVIOUS
<1>2. CASE loop'[l].functors = loop[l].pending /\ loop'[l].pending = <<>> /\ loop'[l].ran = 0
  <2>1. DOMAIN loop[l].pending = 1 .. Len(loop[l].pending)
    BY QueuesTyped
  <2> QED
    BY <1>1, <1>2, <2>1 DEF Ordered
<1>3. CASE loop'[l].pending = loop[l].pending /\ loop'[l].functors = <<>> /\ loop'[l].ran = 0
  BY <1>1, <1>3 DEF Ordered
<1>4. CASE loop'[l].pending = <<>> /\ loop'[l].functors = <<>> /\ loop'[l].ran = loop[l].ran
  <2>1. loop[l].ran \in Nat
    BY QueuesTyped
  <2> QED
    BY <1>1, <1>4, <2>1 DEF Ordered, Behind
<1> QED
  BY <1>2, <1>3, <1>4 DEF MoveStep

LEMMA OrderStep == ServerInv /\ [Next]_vars => OrderInv'
<1> SUFFICES ASSUME ServerInv, [Next]_vars, TypeOK,
                    NEW l \in Loops, NEW c \in Conns, c \notin connections_'
             PROVE  Ordered(l, c)'
  BY DEF ServerInv, OrderInv, Ordered, Behind
<1>0. 0 \in Loops
  BY ServerAssumption DEF Loops
<1>1. CASE c \in connections_
  <2>1. PICK k \in Loops : k = conn[c].loop_
    BY DEF TypeOK
  <2>2. conn'[c].loop_ = k /\ (k = 0 \/ Pushed(k, <<"connectDistroyed", c>>))
    BY <1>1, <2>1, MapStep DEF CloseStep, RemoveStep, EndStep, SameHomes
  <2>3. CASE l = k /\ k # 0
    BY <2>2, <2>3, OrderedPush
  <2>4. CASE l # k \/ k = 0
    <3>1. ~InQueue(<<"connectEstablished", c>>, l)'
      <4> SUFFICES ASSUME InQueue(<<"connectEstablished", c>>, l)'
                   PROVE  FALSE
        OBVIOUS
      <4>1. Placed(<<"connectEstablished", c>>, l)'
        BY QueueStep DEF QueueInv, InQueue
      <4> QED
        BY <2>2, <2>4, <4>1 DEF Placed
    <3>2. loop'[l].ran \in Nat /\ DOMAIN loop'[l].functors = 1 .. Len(loop'[l].functors)
      BY TypeStep DEF TypeOK, LoopType
    <3> QED
      BY <3>1, <3>2 DEF Ordered, InQueue
  <2> QED
    BY <2>3, <2>4
<1>2. CASE c \notin connections_
  <2>0. Ordered(l, c)
    BY <1>2, OrderedAll DEF ServerInv
  <2>a. \A d \in Conns : /\ <<"remove", d>> # <<"connectEstablished", c>>
                         /\ <<"connectDistroyed", d>> # <<"connectEstablished", c>>
                         /\ <<"listen", Listener>> # <<"connectEstablished", c>>
                         /\ <<"connectEstablished", d>> = <<"connectEstablished", c>> => d = c
    OBVIOUS
  <2>s. ASSUME SameQueues(loop', l)
        PROVE  Ordered(l, c)'
    BY <2>0, <2>s, OrderedSame
  <2>p. ASSUME NEW f, Pushed(l, f), f # <<"connectEstablished", c>>
        PROVE  Ordered(l, c)'
    BY <2>0, <2>p, OrderedPush
  <2>r. ASSUME NEW f, Advanced(l, f)
        PROVE  Ordered(l, c)'
    BY <2>0, <2>r, OrderedAdvance
  <2>o. ASSUME NEW k, OthersSame(k), k # l
        PROVE  Ordered(l, c)'
    BY <2>s, <2>o DEF OthersSame
  <2>1. CASE CalmStep
    BY <2>1, <2>s DEF CalmStep
  <2>2. CASE ListenStep
    BY <2>2, <2>a, <2>o, <2>p, <2>r DEF ListenStep
  <2>3. ASSUME NEW k \in Loops, MoveStep(k)
        PROVE  Ordered(l, c)'
    <3>1. CASE k # l
      BY <2>3, <2>o, <3>1 DEF MoveStep
    <3>2. CASE k = l
      <4>1. loop'[l].at = "ended" => loop'[l].functors = <<>>
        BY TypeStep DEF TypeOK
      <4> QED
        BY <2>0, <2>3, <3>2, <4>1, OrderedMove
    <3> QED
      BY <3>1, <3>2
  <2>4. ASSUME NEW d \in Conns, NEW fd \in FreeFds, NewStep(d, fd)
        PROVE  Ordered(l, c)'
    <3>1. PICK k \in Loops : k = conn'[d].loop_ /\ OthersSame(k)
      BY <2>4 DEF NewStep
    <3>2. SameQueues(loop', k) \/ Pushed(k, <<"connectEstablished", d>>)
      BY <2>4, <3>1 DEF NewStep
    <3>3. d # c
      BY <2>4 DEF NewStep
    <3> QED
      BY <2>a, <2>s, <2>p, <2>o, <3>1, <3>2, <3>3
  <2>5. ASSUME NEW d \in Conns, CloseStep(d)
        PROVE  Ordered(l, c)'
    BY <2>5, <2>a, <2>o, <2>p DEF CloseStep
  <2>6. ASSUME NEW d \in Conns, EstablishStep(d) \/ DistroyStep(d)
        PROVE  Ordered(l, c)'
    <3>1. PICK k \in Loops : k = conn[d].loop_
      BY DEF TypeOK
    <3>2. PICK f : OthersSame(k) /\ Advanced(k, f)
      BY <2>6, <3>1 DEF EstablishStep, DistroyStep
    <3> QED
      BY <2>o, <2>r, <3>2
  <2>7. ASSUME NEW d \in Conns, RemoveStep(d)
        PROVE  Ordered(l, c)'
    <3>1. PICK k \in Loops : k = conn[d].loop_
      BY DEF TypeOK
    <3>2. /\ Advanced(0, <<"remove", d>>) /\ Pushed(k, <<"connectDistroyed", d>>)
          /\ \A j \in Loops \ {0, k} : SameQueues(loop', j)
      BY <2>7, <3>1 DEF RemoveStep
    <3> QED
      BY <2>a, <2>s, <2>p, <2>r, <3>2
  <2>8. ASSUME NEW d \in Conns, EndStep(d)
        PROVE  Ordered(l, c)'
    <3>1. PICK k \in Loops : k = conn[d].loop_
      BY DEF TypeOK
    <3>2. OthersSame(k) /\ (SameQueues(loop', k) \/ Pushed(k, <<"connectDistroyed", d>>))
      BY <2>8, <3>1 DEF EndStep
    <3> QED
      BY <2>a, <2>s, <2>p, <2>o, <3>2
  <2> QED
    BY <2>1, <2>2, <2>3, <2>4, <2>5, <2>6, <2>7, <2>8, Kinds
<1> QED
  BY <1>1, <1>2

------------------------------------------------------------------------------
(* What the loops are about to handle.                                       *)

\* While a loop handles its channels, its poller keeps them.
LEMMA RegisteredStays ==
    ASSUME ServerInv, [Next]_vars, NEW l \in Loops, NEW c \in Conns,
           loop[l].at = "handle", Registered(c), conn[c].loop_ = l
    PROVE  Registered(c)' /\ conn'[c].loop_ = l
<1>t. TypeOK
  BY DEF ServerInv
<1>1. PICK fd \in Fds : fd = conn[c].fd /\ channels_[l][fd] = c /\ fd # None
  BY <1>t DEF TypeOK, Registered
<1>2. Open(c)
  BY <1>1, PolledFacts
<1>3. \A e : ~NewStep(c, e)
  BY <1>t, <1>2, OpenFacts DEF NewStep, TypeOK
<1>4. conn'[c].loop_ = l /\ conn'[c].fd = fd
  BY <1>1, <1>3, MapStep
<1>5. channels_'[l][fd] = c
  <2> SUFFICES ASSUME channels_'[l][fd] # channels_[l][fd]
               PROVE  FALSE
    BY <1>1
  <2>1. PICK d \in Conns :
            \/ fd \in FreeFds
            \/ l = conn[d].loop_ /\ (EstablishStep(d) \/ DistroyStep(d) \/ EndStep(d))
    BY ChannelStep
  <2>2. fd \notin FreeFds
    BY <1>1, <1>2, FreeFdFacts
  <2>3. ~EstablishStep(d) /\ ~DistroyStep(d)
    BY <2>1, <2>2 DEF EstablishStep, DistroyStep, Advanced, Running
  <2>4. ~EndStep(d)
    BY <2>1, <2>2 DEF EndStep
  <2> QED
    BY <2>1, <2>2, <2>3, <2>4
<1> QED
  BY <1>1, <1>4, <1>5 DEF Registered

\* A loop takes channels from its poller only where nobody else steps.
LEMMA ActiveKept ==
    ASSUME ServerInv, [Next]_vars, NEW l \in Loops
    PROVE  \/ loop'[l].active \subseteq loop[l].active
           \/ /\ loop'[l].active \subseteq Ready(l) \cup Others(l)
              /\ UNCHANGED <<poolVars, acceptVars, conn, channels_>>
<1> DEFINE Kept == loop'[l].active \subseteq loop[l].active
<1>1. TypeOK /\ PhaseInv /\ 0 \in Loops /\ loop \in [Loops -> LoopType]
  BY ServerAssumption DEF ServerInv, TypeOK, Loops
<1>q. ASSUME NEW lp \in [Loops -> LoopType], lp[l].active \subseteq loop[l].active,
             NEW k \in Loops, NEW f \in Functor, loop' = Queued(lp, k, f)
      PROVE  Kept
  BY <1>q, QueuedFacts
<1>h. \A k \in Loops : \A ch : /\ Handled(k, ch) \in [Loops -> LoopType]
                               /\ Handled(k, ch)[l].active \subseteq loop[l].active
  BY <1>1, HandledFacts
<1>r. \A k \in Loops : Ran(k) \in [Loops -> LoopType] /\ Ran(k)[l].active \subseteq loop[l].active
  BY <1>1, RanFacts
<1>2. CASE Start
  <2>1. Started[l].active = loop[l].active
    BY <1>1, <1>2, StartedFacts DEF Start
  <2> QED
    BY <1>2, <2>1 DEF Start
<1>s. CASE StartThread
  BY <1>1, <1>s, StartThreadFacts
<1>t. CASE StartListen
  BY <1>1, <1>t, <1>q, FunctorNames DEF StartListen
<1>4. ASSUME NEW k \in Loops, NEW lp \in [Loops -> LoopType], Turn(lp, k),
             \A j \in Loops : lp[j].active = loop[j].active
      PROVE  Kept \/ loop'[l].active \subseteq Ready(l) \cup Others(l)
  <2>1. CASE k = l
    BY <1>4, <2>1, TurnFacts
  <2>2. CASE k # l
    BY <1>4, <2>2, TurnFacts
  <2> QED
    BY <2>1, <2>2
<1>5. ASSUME NEW k \in Loops, FirstTurn(k) \/ EndFunctors(k)
      PROVE  /\ Kept \/ loop'[l].active \subseteq Ready(l) \cup Others(l)
             /\ UNCHANGED <<poolVars, acceptVars, conn, channels_>>
  <2>1. Turn(loop, k) \/ Turn(Emptied(k), k)
    BY <1>5 DEF FirstTurn, EndFunctors, Emptied
  <2>2. Emptied(k) \in [Loops -> LoopType] /\ \A j \in Loops : Emptied(k)[j].active = loop[j].active
    BY <1>1, EmptiedFacts
  <2>3. UNCHANGED <<poolVars, acceptVars, conn, channels_>>
    BY <1>5 DEF FirstTurn, EndFunctors
  <2> QED
    BY <1>1, <1>4, <2>1, <2>2, <2>3
<1>6. ASSUME NEW k \in Loops, Swap(k) \/ EndLoop(k)
      PROVE  Kept
  <2>1. CASE Swap(k)
    BY <1>1, <2>1, SwapFacts
  <2>2. CASE EndLoop(k)
    BY <1>1, <2>2 DEF EndLoop, LoopType
  <2> QED
    BY <1>6, <2>1, <2>2
<1>7. CASE Accept
  <2>1. InHandler(0, Listener)
    BY <1>7 DEF Accept
  <2>2. PICK c \in Conns, k \in Loops : c = nextConnId_ /\ k = NextLoop
    BY <2>1, NextConnFacts
  <2>3. \/ loop' = Handled(0, Listener)
        \/ \E f \in Functor : loop' = Queued(Handled(0, Listener), k, f)
    BY <1>7, <2>2, FunctorNames DEF Accept, NewConnection
  <2> QED
    BY <1>1, <1>h, <1>q, <2>3
<1>8. CASE AcceptFails \/ Listen
  BY <1>1, <1>8, <1>h, <1>r DEF AcceptFails, Listen
<1>9. ASSUME NEW c \in Conns, HandleRead(c) \/ HandleClose(c) \/ ConnectEstablished(c) \/ ConnectDistroyed(c)
      PROVE  Kept
  <2>1. PICK k \in Loops : k = conn[c].loop_
    BY <1>1 DEF TypeOK
  <2>2. \/ loop' = Handled(k, c) \/ loop' = Ran(k)
        \/ \E f \in Functor : loop' = Queued(Handled(k, c), 0, f)
    BY <1>9, <2>1, FunctorNames DEF HandleRead, HandleClose, ConnectEstablished, ConnectDistroyed
  <2> QED
    BY <1>1, <1>h, <1>r, <1>q, <2>2
<1>10. ASSUME NEW c \in Conns, RemoveConnectionInLoop(c) \/ DestroyConnection(c)
       PROVE  Kept
  <2>1. PICK k \in Loops, f \in Functor : k = conn[c].loop_ /\ f = <<"connectDistroyed", c>>
    BY <1>1, FunctorNames DEF TypeOK
  <2>2. loop' = Queued(Ran(0), k, f) \/ loop' = Queued(loop, k, f) \/ loop' = loop
    BY <1>10, <2>1 DEF RemoveConnectionInLoop, DestroyConnection
  <2> QED
    BY <1>1, <1>r, <1>q, <2>2
<1>11. CASE EnterLoop \/ QuitBase \/ QuitThread
  <2>1. CASE EnterLoop \/ QuitBase
    <3>1. /\ \A k \in Loops : k # 0 => loop'[k] = loop[k]
          /\ loop'[0].active = loop[0].active
      BY <1>1, <2>1 DEF EnterLoop, QuitBase, LoopType
    <3> QED
      BY <1>1, <3>1
  <2>2. CASE QuitThread
    <3>1. cur \in Loops
      BY <1>1, <2>2, ServerAssumption DEF QuitThread, Threads, Loops, TypeOK
    <3>2. loop' = [loop EXCEPT ![cur].quit_ = TRUE]
      BY <2>2 DEF QuitThread
    <3> QED
      BY <1>1, <3>1, <3>2 DEF LoopType
  <2> QED
    BY <1>11, <2>1, <2>2
<1>12. CASE DestroyMembers \/ QuitWakeup \/ JoinThread \/ DestroyAcceptor \/ Connect
            \/ StartElsewhere \/ StartTooLate \/ WakeupBase \/ UNCHANGED vars
            \/ \E c \in Conns : PeerCloses(c)
  BY <1>12 DEF DestroyMembers, QuitWakeup, JoinThread, DestroyAcceptor, Connect, StartElsewhere,
               StartTooLate, WakeupBase, PeerCloses, vars
<1> QED
  BY <1>2, <1>s, <1>t, <1>5, <1>6, <1>7, <1>8, <1>9, <1>10, <1>11, <1>12
     DEF Next, BaseStep, OtherStep, LoopStep, Done

\* The clients that the listener was reported for are still there when it is handled.
LEMMA ListenerStep ==
    ASSUME ServerInv, [Next]_vars, Listener \in loop[0].active, Listener \in loop'[0].active
    PROVE  backlog' > 0 /\ started_'
<1>0. TypeOK /\ PhaseInv /\ ActiveInv /\ 0 \in Loops
  BY ServerAssumption DEF ServerInv, Loops
<1>a. loop[0].at = "handle" /\ backlog \in Nat
  BY <1>0 DEF TypeOK
<1>1. /\ TypeOK /\ PhaseInv /\ 0 \in Loops /\ loop[0].at = "handle"
      /\ backlog > 0 /\ backlog \in Nat /\ started_
  BY <1>0, <1>a DEF ActiveInv
<1>2. ~Accept
  <2> SUFFICES ASSUME Accept
               PROVE  FALSE
    OBVIOUS
  <2>1. InHandler(0, Listener)
    BY DEF Accept
  <2>2. PICK c \in Conns, k \in Loops : c = nextConnId_ /\ k = NextLoop
    BY <2>1, NextConnFacts
  <2>3. \/ loop' = Handled(0, Listener)
        \/ \E f \in Functor : loop' = Queued(Handled(0, Listener), k, f)
    BY <2>2, FunctorNames DEF Accept, NewConnection
  <2>4. /\ Handled(0, Listener) \in [Loops -> LoopType]
        /\ Handled(0, Listener)[0].active = loop[0].active \ {Listener}
    BY <1>1, HandledFacts
  <2>q. ASSUME NEW lp \in [Loops -> LoopType], NEW f \in Functor, loop' = Queued(lp, k, f)
        PROVE  loop'[0].active = lp[0].active
    BY <1>1, <2>q, QueuedFacts
  <2>5. ASSUME NEW f \in Functor, loop' = Queued(Handled(0, Listener), k, f)
        PROVE  loop'[0].active = loop[0].active \ {Listener}
    BY <2>q, <2>4, <2>5
  <2> QED
    BY <2>3, <2>4, <2>5
<1>3. ~DestroyAcceptor
  BY <1>1 DEF DestroyAcceptor, PhaseInv
<1>4. CASE Connect
  BY <1>1, <1>4 DEF Connect, poolVars
<1>5. CASE Start \/ StartElsewhere
  BY <1>1, <1>5 DEF Start, StartElsewhere, acceptVars
<1>6. CASE UNCHANGED <<started_, backlog>>
  BY <1>1, <1>6
<1>7. ASSUME NEW l \in Loops, LoopStep(l)
      PROVE  UNCHANGED <<started_, backlog>>
  BY <1>7 DEF LoopStep, FirstTurn, Swap, EndFunctors, EndLoop, HandleRead, HandleClose,
              ConnectEstablished, ConnectDistroyed, poolVars, acceptVars
<1>8. CASE EnterLoop \/ AcceptFails \/ Listen \/ DestroyMembers \/ QuitThread \/ QuitWakeup
           \/ JoinThread \/ QuitBase \/ StartThread \/ StartListen \/ StartTooLate \/ WakeupBase
           \/ \E c \in Conns : RemoveConnectionInLoop(c) \/ DestroyConnection(c) \/ PeerCloses(c)
  BY <1>6, <1>8 DEF EnterLoop, AcceptFails, Listen, DestroyMembers, QuitThread, QuitWakeup, JoinThread,
                    QuitBase, StartThread, StartListen, StartTooLate, WakeupBase,
                    RemoveConnectionInLoop, DestroyConnection, PeerCloses, poolVars, acceptVars
<1>9. CASE UNCHANGED vars
  BY <1>6, <1>9 DEF vars, poolVars, acceptVars
<1> QED
  BY <1>2, <1>3, <1>4, <1>5, <1>6, <1>7, <1>8, <1>9 DEF Next, BaseStep, OtherStep, Done

LEMMA ActiveStep == ServerInv /\ [Next]_vars => ActiveInv'
<1> SUFFICES ASSUME ServerInv, [Next]_vars, TypeOK, PhaseInv, NEW l \in Loops
             PROVE  /\ Listener \in loop'[l].active => l = 0 /\ backlog' > 0 /\ started_'
                    /\ \A c \in loop'[l].active \ {Listener} : Registered(c)' /\ conn'[c].loop_ = l
  BY DEF ServerInv, ActiveInv
<1>1. CASE loop'[l].active \subseteq loop[l].active
  <2>1. Listener \in loop'[l].active => l = 0 /\ backlog' > 0 /\ started_'
    <3> SUFFICES ASSUME Listener \in loop'[l].active
                 PROVE  l = 0 /\ backlog' > 0 /\ started_'
      OBVIOUS
    <3>1. Listener \in loop[l].active /\ l = 0
      BY <1>1 DEF ServerInv, ActiveInv
    <3> QED
      BY <3>1, ListenerStep
  <2>2. ASSUME NEW c \in loop'[l].active \ {Listener}
        PROVE  Registered(c)' /\ conn'[c].loop_ = l
    <3>1. /\ c \in loop[l].active /\ c # Listener /\ c \in Conns /\ loop[l].at = "handle"
      BY <1>1, <2>2 DEF TypeOK, LoopType
    <3>2. Registered(c) /\ conn[c].loop_ = l
      BY <3>1 DEF ServerInv, ActiveInv
    <3> QED
      BY <3>1, <3>2, RegisteredStays
  <2> QED
    BY <2>1, <2>2
<1>2. CASE /\ loop'[l].active \subseteq Ready(l) \cup Others(l)
           /\ UNCHANGED <<poolVars, acceptVars, conn, channels_>>
  <2>1. UNCHANGED <<started_, backlog, conn, channels_>>
    BY <1>2 DEF poolVars, acceptVars
  <2>2. Listener \in Ready(l) \cup Others(l) => l = 0 /\ backlog > 0 /\ started_
    BY DEF Ready, Others, Listener, Conns, PhaseInv
  <2>3. \A c \in (Ready(l) \cup Others(l)) \ {Listener} : Registered(c) /\ conn[c].loop_ = l
    BY DEF Ready, Others
  <2> QED
    BY <1>2, <2>1, <2>2, <2>3 DEF Registered
<1> QED
  BY <1>1, <1>2, ActiveKept

------------------------------------------------------------------------------
(* What is used.                                                             *)

\* The loop of a connection runs while the server is there.
LEMMA LoopThere ==
    ASSUME ServerInv, server = "alive", NEW l, l \in Threads \/ (l = 0 /\ loop[0].at # "ended")
    PROVE  LoopExists(l)
<1>1. TypeOK /\ PhaseInv /\ 0 \in Loops
  BY ServerAssumption DEF ServerInv, Loops
<1>2. CASE l = 0 /\ loop[0].at # "ended"
  BY <1>1, <1>2 DEF PhaseInv, LoopExists
<1>3. CASE l \in Threads
  <2>1. l \in Loops \ {0}
    BY <1>1, <1>3, ServerAssumption DEF Threads, TypeOK, Loops
  <2> QED
    BY <1>1, <1>3, <2>1 DEF PhaseInv, Serving, LoopExists
<1> QED
  BY <1>2, <1>3

LEMMA UsedStep == ServerInv /\ [Next]_vars => NothingDeadUsed'
<1> SUFFICES ASSUME ServerInv, [Next]_vars, TypeOK, PhaseInv, misused \subseteq {"wakeup", "start"}
             PROVE  misused' \subseteq {"wakeup", "start"}
  BY DEF ServerInv, NothingDeadUsed
<1>0. 0 \in Loops
  BY ServerAssumption DEF Loops
<1>u. ASSUME UNCHANGED misused
      PROVE  misused' \subseteq {"wakeup", "start"}
  BY <1>u
<1>r. ASSUME NEW l \in Loops, loop[l].at \in {"handle", "run"}
      PROVE  server # "gone" /\ (l = 0 => server = "alive")
  BY <1>r DEF PhaseInv, NewLoop
<1>h. ASSUME NEW l \in Loops, NEW c \in Conns, InHandler(l, c)
      PROVE  Open(c)
  <2>1. Registered(c) /\ conn[c].loop_ = l /\ loop[l].at = "handle"
    BY <1>h DEF InHandler, ServerInv, ActiveInv, Listener, Conns
  <2>2. conn[c].fd \in Fds /\ channels_[l][conn[c].fd] = c
    BY <2>1 DEF Registered, TypeOK
  <2> QED
    BY <2>1, <2>2, PolledFacts
<1>p. ASSUME NEW c \in Conns, Open(c), server = "alive", loop[0].at # "ended"
      PROVE  LoopExists(conn[c].loop_)
  <2>1. conn[c].loop_ = 0 \/ conn[c].loop_ \in Threads
    BY <1>p, OpenFacts DEF ServerInv, ConnInv
  <2> QED
    BY <1>p, <2>1, LoopThere
<1>1. CASE Accept
  <2>1. InHandler(0, Listener) /\ loop[0].at = "handle" /\ server = "alive"
    BY <1>0, <1>1, <1>r DEF Accept, InHandler
  <2>2. started_
    BY <1>0, <2>1, BeforeStart
  <2>3. LoopExists(NextLoop)
    <3>1. NextLoop = 0 \/ NextLoop \in Threads
      BY <2>1, <2>2, NextConnFacts DEF Threads
    <3> QED
      BY <2>1, <3>1, LoopThere
  <2> QED
    BY <1>1, <1>u, <2>3 DEF Accept, NewConnection, Uses
<1>2. ASSUME NEW c \in Conns, HandleRead(c) \/ HandleClose(c)
      PROVE  UNCHANGED misused
  <2>1. PICK l \in Loops : l = conn[c].loop_
    BY DEF TypeOK
  <2>2. Open(c) /\ server # "gone"
    BY <1>2, <1>h, <1>r, <2>1 DEF HandleRead, HandleClose, InHandler
  <2> QED
    BY <1>2, <2>2 DEF HandleRead, HandleClose, Uses
<1>3. CASE Listen
  <2>1. server # "gone"
    BY <1>0, <1>3, <1>r DEF Listen, Running
  <2> QED
    BY <1>3, <2>1 DEF Listen, Uses
<1>4. ASSUME NEW c \in Conns, RemoveConnectionInLoop(c)
      PROVE  UNCHANGED misused
  <2>1. Running(0, <<"remove", c>>) /\ loop[0].at = "run" /\ server = "alive"
    BY <1>0, <1>4, <1>r DEF RemoveConnectionInLoop, Running
  <2>2. InQueue(<<"remove", c>>, 0)
    BY <1>0, <2>1, QueuesTyped DEF Running, InQueue
  <2>3. Open(c)
    BY <1>0, <2>2, OpenNamed
  <2>4. LoopExists(conn[c].loop_)
    BY <1>p, <2>1, <2>3
  <2> QED
    BY <1>4, <2>1, <2>4 DEF RemoveConnectionInLoop
<1>5. ASSUME NEW c \in Conns, DestroyConnection(c)
      PROVE  UNCHANGED misused
  <2>1. Open(c) /\ loop[0].at = "left" /\ server = "alive"
    BY <1>5 DEF DestroyConnection, Destroying, Open
  <2>2. LoopExists(conn[c].loop_)
    BY <1>p, <2>1
  <2> QED
    BY <1>5, <2>2 DEF DestroyConnection, Uses
<1>6. ASSUME NEW l \in Loops, FirstTurn(l) \/ Swap(l) \/ EndFunctors(l) \/ EndLoop(l)
      PROVE  UNCHANGED misused
  BY <1>6 DEF FirstTurn, Swap, EndFunctors, EndLoop
<1>7. ASSUME NEW c \in Conns, ConnectEstablished(c) \/ ConnectDistroyed(c) \/ PeerCloses(c)
      PROVE  UNCHANGED misused
  BY <1>7 DEF ConnectEstablished, ConnectDistroyed, PeerCloses
<1>8. CASE Start \/ StartElsewhere \/ StartThread \/ StartListen \/ QuitBase \/ EnterLoop \/ AcceptFails
           \/ DestroyMembers \/ QuitThread \/ JoinThread \/ DestroyAcceptor \/ Connect \/ UNCHANGED vars
  BY <1>8 DEF Start, StartElsewhere, StartThread, StartListen, QuitBase, EnterLoop, AcceptFails,
              DestroyMembers, QuitThread, JoinThread, DestroyAcceptor, Connect, vars
<1>9. CASE QuitWakeup \/ WakeupBase \/ StartTooLate
  BY <1>9 DEF QuitWakeup, WakeupBase, StartTooLate, Uses
<1> QED
  BY <1>1, <1>2, <1>3, <1>4, <1>5, <1>6, <1>7, <1>8, <1>9, <1>u DEF Next, BaseStep, OtherStep, LoopStep, Done

------------------------------------------------------------------------------
(* The theorems.                                                             *)

LEMMA InvInit == Init => ServerInv
<1> SUFFICES ASSUME Init
             PROVE  ServerInv
  OBVIOUS
<1>1. TypeOK /\ PhaseInv
  BY TypeInit, PhaseInit
<1>2. \A l \in Loops : loop[l].pending = <<>> /\ loop[l].functors = <<>> /\ loop[l].active = {}
  BY DEF Init, NewLoop
<1>3. DOMAIN <<>> = {} /\ Len(<<>>) = 0 /\ connections_ = {} /\ nextConnId_ = 1
  BY DEF Init
<1>4. QueueInv
  BY <1>2, <1>3 DEF QueueInv
<1>5. \A c \in Conns : ~Open(c) /\ ~(c < nextConnId_)
  BY <1>2, <1>3 DEF Open, Holds, Conns
<1>6. ConnInv
  BY <1>3, <1>5 DEF ConnInv, Init
<1>7. \A l \in Loops, fd \in Fds : channels_[l][fd] \notin Conns
  BY ServerAssumption DEF Init, Conns
<1>8. KnownInv
  BY <1>3, <1>7 DEF KnownInv
<1>9. ActiveInv
  BY <1>2 DEF ActiveInv
<1>10. OrderInv
  <2>1. \A l \in Loops : loop[l].ran \in Nat
    BY <1>1 DEF TypeOK, LoopType
  <2> QED
    BY <1>2, <1>3, <2>1 DEF OrderInv
<1>11. DownInv
  BY <1>3 DEF DownInv
<1>12. NothingDeadUsed
  BY DEF Init, NothingDeadUsed
<1> QED
  BY <1>1, <1>4, <1>6, <1>8, <1>9, <1>10, <1>11, <1>12 DEF ServerInv

LEMMA Inductive == Spec => []ServerInv
<1>1. ServerInv /\ [Next]_vars => ServerInv'
  BY TypeStep, PhaseStep, QueueStep, ConnStep, KnownStep, ActiveStep, OrderStep, DownStep, UsedStep
     DEF ServerInv
<1> QED
  BY InvInit, <1>1, PTL DEF Spec

\* The types, and what the control points say of each loop, whatever the
\* interleaving of the loops, the clients and the destructor.
THEOREM TypeCorrect == Spec => []TypeOK
<1>1. ServerInv => TypeOK
  BY DEF ServerInv
<1> QED
  BY Inductive, <1>1, PTL

\* The pollers and the lists of active channels never keep a pointer to a
\* connection that is gone, nor miss one that is up, however descriptors are
\* reused and removals repeated.
THEOREM PollersKnow == Spec => []PollersAgree
<1>1. ASSUME ServerInv
      PROVE  PollersAgree
  <2> SUFFICES ASSUME NEW l \in Loops, LoopExists(l)
               PROVE  /\ \A fd \in Fds, c \in Conns :
                            channels_[l][fd] = c => Open(c) /\ conn[c].fd = fd /\ conn[c].loop_ = l
                      /\ \A c \in connections_ : conn[c].state_ # "kConnecting" => Registered(c)
                      /\ \A c \in loop[l].active \ {Listener} : Open(c) /\ Registered(c)
    BY DEF PollersAgree
  <2>1. loop[l].at # "ended" /\ TypeOK
    BY <1>1 DEF LoopExists, ServerInv
  <2>2. \A fd \in Fds, c \in Conns :
            channels_[l][fd] = c => Open(c) /\ conn[c].fd = fd /\ conn[c].loop_ = l
    <3> SUFFICES ASSUME NEW fd \in Fds, NEW c \in Conns, channels_[l][fd] = c
                 PROVE  Open(c) /\ conn[c].fd = fd /\ conn[c].loop_ = l
      OBVIOUS
    <3> QED
      BY <1>1, <2>1, PolledFacts
  <2>3. \A c \in connections_ : conn[c].state_ # "kConnecting" => Registered(c)
    BY <1>1 DEF ServerInv, KnownInv
  <2>4. ASSUME NEW c \in loop[l].active \ {Listener}
        PROVE  Open(c) /\ Registered(c)
    <3>1. Registered(c) /\ conn[c].loop_ = l /\ c \in Conns
      BY <1>1, <2>1, <2>4 DEF ServerInv, ActiveInv, TypeOK, LoopType
    <3>2. conn[c].fd \in Fds /\ channels_[l][conn[c].fd] = c
      BY <2>1, <3>1 DEF Registered, TypeOK
    <3> QED
      BY <2>2, <3>1, <3>2
  <2> QED
    BY <2>2, <2>3, <2>4
<1> QED
  BY Inductive, <1>1, PTL

\* A removal that has begun always has its next step queued on the loop that
\* has to take it, as long as that loop exists.
THEOREM RemovalContinues == Spec => []RemovalUnderWay
<1>1. ASSUME ServerInv
      PROVE  RemovalUnderWay
  <2> SUFFICES ASSUME NEW c \in Conns
               PROVE  /\ conn[c].state_ = "kDisconnected" /\ c \in connections_ => Due(<<"remove", c>>, 0)
                      /\ Registered(c) /\ LoopExists(conn[c].loop_) /\ c \notin connections_
                         => Due(<<"connectDistroyed", c>>, conn[c].loop_)
    BY DEF RemovalUnderWay
  <2>1. conn[c].state_ = "kDisconnected" /\ c \in connections_ => Due(<<"remove", c>>, 0)
    BY <1>1 DEF ServerInv, DownInv
  <2>2. ASSUME Registered(c), LoopExists(conn[c].loop_), c \notin connections_
        PROVE  Due(<<"connectDistroyed", c>>, conn[c].loop_)
    <3>1. /\ conn[c].loop_ \in Loops /\ conn[c].fd \in Fds
          /\ channels_[conn[c].loop_][conn[c].fd] = c /\ loop[conn[c].loop_].at # "ended"
      BY <1>1, <2>2 DEF ServerInv, TypeOK, Registered, LoopExists
    <3> QED
      BY <1>1, <2>2, <3>1 DEF ServerInv, KnownInv
  <2> QED
    BY <2>1, <2>2
<1> QED
  BY Inductive, <1>1, PTL

\* No functor, handler or close callback uses the server, its acceptor, a loop
\* or a connection after its end: the joins of ~EventLoopThreadPool and the
\* references that functors hold suffice.  A wakeup() after what made the loop
\* end, and a start() that the destructor overtakes, are not claimed.
THEOREM NothingDead == Spec => []NothingDeadUsed
<1>1. ServerInv => NothingDeadUsed
  BY DEF ServerInv
<1> QED
  BY Inductive, <1>1, PTL

=============================================================================
