------------------------------ MODULE TcpServer ------------------------------
(***************************************************************************)
(* A TcpServer (src/TcpServer.cc) with its Acceptor (src/Acceptor.cc), the *)
(* base loop 0, on which main() runs it, and the sub-loops of its pool:    *)
(* connections are accepted, handed to a loop, closed by their peers, and  *)
(* removed, each with the descriptor it owns, until main() leaves the base *)
(* loop and destroys the server.                                           *)
(*                                                                         *)
(* A loop is the one of module EventLoop, whose wakeups are here only for  *)
(* what they are written to; the pool is the one of EventLoopThreadPool,   *)
(* whose threads are inside loop() once startLoop has returned; of a       *)
(* connection only what the server has to do with is here (TcpConnection   *)
(* has the rest), and its handlers are steps.  One other thread calls      *)
(* start() or quit() on the base loop, with nothing to keep either alive.  *)
(***************************************************************************)
EXTENDS Naturals, Sequences, FiniteSets

CONSTANTS MaxThreads,       \* bound: the argument of setThreadNum
          Fds,              \* the descriptors left for connections, numbers
          None,
          MaxClients,       \* bound: the clients that connect
          MaxRemovals       \* bound: the removals of one connection queued at a time

ASSUME ServerAssumption == /\ MaxThreads \in Nat
                           /\ MaxClients \in Nat \ {0} /\ MaxRemovals \in Nat \ {0}
                           /\ Fds \subseteq Nat /\ None \notin Nat

VARIABLES
    numThreads_, next_,     \* threadPool_
    threads,                \* how many EventLoopThreads it has
    started_,
    other,                  \* the thread beside the loops: what it is about to do
    listening_,             \* the acceptor listens and is in the base loop's poller
    clients, backlog,       \* those that ever connected; those not yet accepted
    nextConnId_,
    connections_,
    conn,                   \* the TcpConnections
    channels_,              \* of each loop's poller: the connection of each descriptor
    loop,
    server, cur,            \* the server, and the thread its destructor is at
    misused                 \* history: the kinds of objects used after their end

poolVars == <<numThreads_, next_, threads, started_, other>>
acceptVars == <<listening_, clients, backlog>>
serverVars == <<nextConnId_, connections_, server, cur>>
vars == <<poolVars, acceptVars, serverVars, conn, channels_, loop, misused>>

Conns == 1..MaxClients      \* by the number in their names
Loops == 0..MaxThreads
Threads == 1..threads
Listener == 0               \* stands for acceptChannel_ among the channels

NewConn == [state_ |-> "none", loop_ |-> 0, fd |-> None, closed |-> FALSE]
NewLoop == [at |-> "none", quit_ |-> FALSE, active |-> {},
            pending |-> <<>>, functors |-> <<>>, ran |-> 0]

Init == /\ numThreads_ \in Loops /\ next_ = 1 /\ threads = 0 /\ started_ = FALSE
        /\ other = "idle"
        /\ listening_ = FALSE /\ clients = 0 /\ backlog = 0
        /\ nextConnId_ = 1 /\ connections_ = {}
        /\ conn = [c \in Conns |-> NewConn]
        /\ channels_ = [l \in Loops |-> [fd \in Fds |-> None]]
        /\ loop = [l \in Loops |-> IF l = 0 THEN [NewLoop EXCEPT !.at = "start"] ELSE NewLoop]
        /\ server = "alive" /\ cur = 1
        /\ misused = {}

------------------------------------------------------------------------------
(* Who refers to a connection: connections_, and the functors of all loops,  *)
(* those already run included until their vector dies.  When nobody does,    *)
(* it is destroyed and its descriptor closed.                                *)

Holds(q, c) == \E i \in DOMAIN q : q[i][2] = c
Open(c) == \/ c \in connections_
           \/ \E l \in Loops : Holds(loop[l].pending, c) \/ Holds(loop[l].functors, c)
FreeFds == Fds \ {conn[c].fd : c \in {d \in Conns : Open(d)}}

Registered(c) == /\ conn[c].fd # None
                 /\ channels_[conn[c].loop_][conn[c].fd] = c

\* queueInLoop, on the loops lp.
Queued(lp, l, f) == [lp EXCEPT ![l].pending = Append(@, f)]

Uses(kind, exists) == misused' = IF exists THEN misused ELSE misused \cup {kind}
LoopExists(l) == loop[l].at \notin {"none", "ended"}

------------------------------------------------------------------------------
(* start().                                                                  *)

Started == [l \in Loops |-> IF l \in 1..numThreads_ THEN [loop[l] EXCEPT !.at = "check"] ELSE loop[l]]

\* By main(), before loop(): the threads of the pool are in their loops before
\* the acceptor listens.  Called again, start() returns at once.
Start == /\ ~started_ /\ loop[0].at = "start"
         /\ started_' = TRUE /\ threads' = numThreads_
         /\ listening_' = TRUE /\ loop' = Started
         /\ UNCHANGED <<numThreads_, next_, other, clients, backlog, serverVars, conn, channels_, misused>>

\* By the other thread, while main() goes on; ...
StartElsewhere == /\ ~started_ /\ server = "alive" /\ other = "idle"
                  /\ started_' = TRUE /\ other' = "start"
                  /\ UNCHANGED <<numThreads_, next_, threads, acceptVars, serverVars, conn,
                                 channels_, loop, misused>>

\* ... it makes the threads of the pool, one after the other, ...
StartThread == /\ other = "start" /\ server = "alive" /\ threads < numThreads_
               /\ threads' = threads + 1
               /\ loop' = [loop EXCEPT ![threads + 1].at = "check"]
               /\ UNCHANGED <<numThreads_, next_, started_, other, acceptVars, serverVars, conn,
                              channels_, misused>>

\* ... and queues listen() on the base loop.
StartListen == /\ other = "start" /\ server = "alive" /\ threads = numThreads_
               /\ loop' = Queued(loop, 0, <<"listen", Listener>>)
               /\ other' = "wakeup"
               /\ UNCHANGED <<numThreads_, next_, threads, started_, acceptVars, serverVars, conn,
                              channels_, misused>>

\* Nothing keeps main() from destroying the server meanwhile: what the thread
\* does next, it does to a dead pool.
StartTooLate == /\ other = "start" /\ server # "alive"
                /\ other' = "idle"
                /\ misused' = misused \cup {"start"}
                /\ UNCHANGED <<numThreads_, next_, threads, started_, acceptVars, serverVars, conn,
                               channels_, loop>>

\* The wakeup of the base loop, after its functor was queued or its flag set.
WakeupBase == /\ other = "wakeup"
              /\ other' = "idle"
              /\ Uses("wakeup", LoopExists(0))
              /\ UNCHANGED <<numThreads_, next_, threads, started_, acceptVars, serverVars, conn,
                             channels_, loop>>

------------------------------------------------------------------------------
(* A loop.                                                                   *)

EnterLoop == /\ loop[0].at = "start"
             /\ loop' = [loop EXCEPT ![0].at = "check", ![0].quit_ = FALSE]
             /\ UNCHANGED <<poolVars, acceptVars, serverVars, conn, channels_, misused>>

Removals(c) == Cardinality({i \in DOMAIN loop[0].pending : loop[0].pending[i] = <<"remove", c>>})

\* What epoll_wait has to report, whose array has room for all channels here (see
\* EPollPoller for the other case): a client waits, a peer has closed.
Ready(l) == {c \in Conns : /\ Registered(c) /\ conn[c].loop_ = l
                           /\ conn[c].closed /\ Removals(c) < MaxRemovals}
            \cup (IF l = 0 /\ listening_ /\ backlog > 0 THEN {Listener} ELSE {})

\* A message may have arrived for any other; only those whose callback calls
\* shutdown are counted, the others change nothing here.
Others(l) == {c \in Conns : /\ Registered(c) /\ conn[c].loop_ = l
                            /\ conn[c].state_ = "kConnected" /\ ~conn[c].closed}

\* The test of quit_ and epoll_wait: nobody sees the loop between.
Turn(lp, l) ==
    \/ lp[l].quit_ /\ loop' = [lp EXCEPT ![l].at = "left"]
    \/ /\ ~lp[l].quit_
       /\ \E messages \in SUBSET Others(l) :
            loop' = [lp EXCEPT ![l].at = "handle", ![l].active = Ready(l) \cup messages]

FirstTurn(l) == /\ loop[l].at = "check"
                /\ Turn(loop, l)
                /\ UNCHANGED <<poolVars, acceptVars, serverVars, conn, channels_, misused>>

Swap(l) == /\ loop[l].at = "handle" /\ loop[l].active = {}
           /\ loop' = [loop EXCEPT ![l].at = "run", ![l].functors = loop[l].pending,
                                   ![l].pending = <<>>, ![l].ran = 0]
           /\ UNCHANGED <<poolVars, acceptVars, serverVars, conn, channels_, misused>>

EndFunctors(l) == /\ loop[l].at = "run" /\ loop[l].ran = Len(loop[l].functors)
                  /\ Turn([loop EXCEPT ![l].functors = <<>>, ![l].ran = 0], l)
                  /\ UNCHANGED <<poolVars, acceptVars, serverVars, conn, channels_, misused>>

\* The EventLoop dies with what is still queued in it: at the end of threadFunc,
\* or of main(), where the server dies first.
EndLoop(l) == /\ loop[l].at = "left" /\ (l = 0 => server = "gone")
              /\ loop' = [loop EXCEPT ![l].at = "ended", ![l].pending = <<>>]
              /\ UNCHANGED <<poolVars, acceptVars, serverVars, conn, channels_, misused>>

\* User code ends the base loop, on its own thread or on the other one.
QuitBase == /\ LoopExists(0) /\ loop[0].at # "left" /\ ~loop[0].quit_
            /\ loop' = [loop EXCEPT ![0].quit_ = TRUE]
            /\ UNCHANGED other \/ (other = "idle" /\ other' = "wakeup")
            /\ UNCHANGED <<numThreads_, next_, threads, started_, acceptVars, serverVars, conn, channels_, misused>>

------------------------------------------------------------------------------
(* Handlers.                                                                 *)

InHandler(l, ch) == loop[l].at = "handle" /\ ch \in loop[l].active
Handled(l, ch) == [loop EXCEPT ![l].active = @ \ {ch}]

\* Mutant: wraps one too late.
AdvanceLate == next_' = IF threads = 0 THEN next_
                        ELSE IF next_ > threads THEN 1 ELSE next_ + 1

\* getNextLoop, its result and its effect.
NextLoop == IF threads = 0 THEN 0 ELSE next_
Advance == next_' = IF threads = 0 THEN next_
                    ELSE IF next_ + 1 > threads THEN 1 ELSE next_ + 1

\* connectEstablished runs at once in the loop's own thread.
NewConnection(fd) ==
    LET c == nextConnId_
        l == NextLoop
    IN  /\ Advance
        /\ nextConnId_' = c + 1
        /\ connections_' = connections_ \cup {c}
        /\ conn' = [conn EXCEPT ![c] = [state_ |-> IF l = 0 THEN "kConnected" ELSE "kConnecting",
                                        loop_ |-> l, fd |-> fd, closed |-> FALSE]]
        /\ IF l = 0 THEN /\ channels_' = [channels_ EXCEPT ![0][fd] = c]
                         /\ loop' = Handled(0, Listener)
           ELSE /\ loop' = Queued(Handled(0, Listener), l, <<"connectEstablished", c>>)
                /\ UNCHANGED channels_
        /\ Uses("loop", LoopExists(l))

\* Acceptor::handleRead, with the lowest free descriptor.  The length that accept
\* reads is not initialised: if the kernel finds it negative, accept fails after
\* the client has left the queue, and the client is gone.
Accept == /\ InHandler(0, Listener) /\ FreeFds # {}
          /\ backlog' = backlog - 1
          /\ \/ \E fd \in FreeFds : (\A low \in FreeFds : fd <= low) /\ NewConnection(fd)
             \/ /\ loop' = Handled(0, Listener)
                /\ UNCHANGED <<next_, nextConnId_, connections_, conn, channels_, misused>>
          /\ UNCHANGED <<numThreads_, threads, started_, other, listening_, clients, server, cur>>

\* Mutant: the client is turned away.
AcceptRefusing == /\ InHandler(0, Listener) /\ FreeFds = {}
                  /\ loop' = Handled(0, Listener)
                  /\ listening_' = FALSE
                  /\ UNCHANGED <<poolVars, clients, backlog, serverVars, conn, channels_, misused>>

\* EMFILE: the client goes on waiting.
AcceptFails == /\ InHandler(0, Listener) /\ FreeFds = {}
               /\ loop' = Handled(0, Listener)
               /\ UNCHANGED <<poolVars, acceptVars, serverVars, conn, channels_, misused>>

\* handleRead, with user code that calls shutdown.
HandleRead(c) ==
    LET l == conn[c].loop_
    IN  /\ InHandler(l, c) /\ ~conn[c].closed
        /\ loop' = Handled(l, c)
        /\ conn' = [conn EXCEPT ![c].state_ = "kDisconnecting"]
        /\ Uses("connection", Open(c))
        /\ UNCHANGED <<poolVars, acceptVars, serverVars, channels_>>

\* Mutant: a connection that was being shut down is not removed.
HandleCloseIfUp(c) ==
    LET l == conn[c].loop_
    IN  /\ InHandler(l, c) /\ conn[c].closed
        /\ conn' = [conn EXCEPT ![c].state_ = "kDisconnected"]
        /\ IF conn[c].state_ = "kConnected" /\ l = 0
           THEN /\ connections_' = connections_ \ {c}
                /\ loop' = Queued(Handled(l, c), 0, <<"connectDistroyed", c>>)
           ELSE /\ loop' = IF conn[c].state_ = "kConnected"
                           THEN Queued(Handled(l, c), 0, <<"remove", c>>) ELSE Handled(l, c)
                /\ UNCHANGED connections_
        /\ UNCHANGED <<poolVars, acceptVars, nextConnId_, server, cur, channels_, misused>>

\* handleClose and, through closeCallback_, removeConnection: in the base loop's
\* own thread removeConnectionInLoop runs at once.
HandleClose(c) ==
    LET l == conn[c].loop_
    IN  /\ InHandler(l, c) /\ conn[c].closed
        /\ conn' = [conn EXCEPT ![c].state_ = "kDisconnected"]
        /\ IF l = 0 THEN /\ connections_' = connections_ \ {c}
                         /\ loop' = Queued(Handled(l, c), 0, <<"connectDistroyed", c>>)
           ELSE /\ loop' = Queued(Handled(l, c), 0, <<"remove", c>>)
                /\ UNCHANGED connections_
        /\ misused' = misused \cup (IF Open(c) THEN {} ELSE {"connection"})
                              \cup (IF server # "gone" THEN {} ELSE {"server"})
        /\ UNCHANGED <<poolVars, acceptVars, nextConnId_, server, cur, channels_>>

------------------------------------------------------------------------------
(* Functors.                                                                 *)

Running(l, f) == /\ loop[l].at = "run" /\ loop[l].ran < Len(loop[l].functors)
                 /\ f = loop[l].functors[loop[l].ran + 1]
Ran(l) == [loop EXCEPT ![l].ran = @ + 1]

\* Acceptor::listen, through a plain pointer to the acceptor.
Listen == /\ Running(0, <<"listen", Listener>>)
          /\ listening_' = TRUE
          /\ loop' = Ran(0)
          /\ Uses("server", server # "gone")
          /\ UNCHANGED <<poolVars, clients, backlog, serverVars, conn, channels_>>

ConnectEstablished(c) ==
    LET l == conn[c].loop_
    IN  /\ Running(l, <<"connectEstablished", c>>)
        /\ conn' = [conn EXCEPT ![c].state_ = "kConnected"]
        /\ channels_' = [channels_ EXCEPT ![l][conn[c].fd] = c]
        /\ loop' = Ran(l)
        /\ UNCHANGED <<poolVars, acceptVars, serverVars, misused>>

\* Mutant: the connection is only taken from the map.
RemoveOnly(c) ==
    /\ Running(0, <<"remove", c>>)
    /\ connections_' = connections_ \ {c}
    /\ loop' = Ran(0)
    /\ UNCHANGED <<poolVars, acceptVars, nextConnId_, server, cur, conn, channels_, misused>>

\* removeConnectionInLoop, through a plain pointer to the server.
RemoveConnectionInLoop(c) ==
    /\ Running(0, <<"remove", c>>)
    /\ connections_' = connections_ \ {c}
    /\ loop' = Queued(Ran(0), conn[c].loop_, <<"connectDistroyed", c>>)
    /\ misused' = misused \cup (IF server # "gone" THEN {} ELSE {"server"})
                          \cup (IF LoopExists(conn[c].loop_) THEN {} ELSE {"loop"})
    /\ UNCHANGED <<poolVars, acceptVars, nextConnId_, server, cur, conn, channels_>>

\* Mutant: a connection that has gone down is left in the poller.
DestroyIfUp(c) == /\ conn' = [conn EXCEPT ![c].state_ = IF @ = "kConnected" THEN "kDisconnected" ELSE @]
                  /\ channels_' = IF conn[c].state_ = "kConnected"
                                  THEN [channels_ EXCEPT ![conn[c].loop_][conn[c].fd] = None]
                                  ELSE channels_

\* connectDistroyed: the poller forgets whatever has the descriptor.
Destroy(c) == /\ conn' = [conn EXCEPT ![c].state_ = IF @ = "kConnected" THEN "kDisconnected" ELSE @]
              /\ channels_' = [channels_ EXCEPT ![conn[c].loop_][conn[c].fd] = None]

ConnectDistroyed(c) == /\ Running(conn[c].loop_, <<"connectDistroyed", c>>)
                       /\ Destroy(c)
                       /\ loop' = Ran(conn[c].loop_)
                       /\ UNCHANGED <<poolVars, acceptVars, serverVars, misused>>

------------------------------------------------------------------------------
(* ~TcpServer, after main() has left the base loop.                          *)

Destroying == loop[0].at = "left" /\ server = "alive"

\* connectDistroyed runs at once for a connection of the base loop.
DestroyConnection(c) ==
    /\ Destroying /\ c \in connections_
    /\ connections_' = connections_ \ {c}
    /\ IF conn[c].loop_ = 0 THEN Destroy(c) /\ UNCHANGED loop
       ELSE /\ loop' = Queued(loop, conn[c].loop_, <<"connectDistroyed", c>>)
            /\ UNCHANGED <<conn, channels_>>
    /\ Uses("loop", LoopExists(conn[c].loop_))
    /\ UNCHANGED <<poolVars, acceptVars, nextConnId_, server, cur>>

\* The members follow, threadPool_ first: ~EventLoopThread, one after the other.
DestroyMembers == /\ Destroying /\ connections_ = {}
                  /\ server' = "quit"
                  /\ UNCHANGED <<poolVars, acceptVars, nextConnId_, connections_, cur, conn,
                                 channels_, loop, misused>>

\* quit() sets the flag, ...
QuitThread == /\ server = "quit" /\ cur \in Threads
              /\ server' = "wakeup"
              /\ loop' = [loop EXCEPT ![cur].quit_ = TRUE]
              /\ UNCHANGED <<poolVars, acceptVars, nextConnId_, connections_, cur, conn,
                             channels_, misused>>

\* ... and then wakes the loop, which may have seen the flag and be gone.
QuitWakeup == /\ server = "wakeup"
              /\ server' = "join"
              /\ Uses("wakeup", LoopExists(cur))
              /\ UNCHANGED <<poolVars, acceptVars, nextConnId_, connections_, cur, conn,
                             channels_, loop>>

\* Mutant: the thread is told to quit and not waited for.
JoinNot == /\ server = "join"
           /\ server' = "quit" /\ cur' = cur + 1
           /\ UNCHANGED <<poolVars, acceptVars, nextConnId_, connections_, conn,
                          channels_, loop, misused>>

JoinThread == /\ server = "join" /\ loop[cur].at = "ended"
              /\ server' = "quit" /\ cur' = cur + 1
              /\ UNCHANGED <<poolVars, acceptVars, nextConnId_, connections_, conn,
                             channels_, loop, misused>>

\* acceptor_ is the last, and with it the listening socket.
DestroyAcceptor == /\ server = "quit" /\ cur \notin Threads
                   /\ server' = "gone"
                   /\ listening_' = FALSE /\ backlog' = 0
                   /\ UNCHANGED <<poolVars, clients, nextConnId_, connections_, cur, conn,
                                  channels_, loop, misused>>

------------------------------------------------------------------------------
(* The clients.                                                              *)

Connect == /\ listening_ /\ clients < MaxClients
           /\ clients' = clients + 1 /\ backlog' = backlog + 1
           /\ UNCHANGED <<poolVars, listening_, serverVars, conn, channels_, loop, misused>>

PeerCloses(c) == /\ c < nextConnId_ /\ Open(c) /\ ~conn[c].closed
                 /\ conn' = [conn EXCEPT ![c].closed = TRUE]
                 /\ UNCHANGED <<poolVars, acceptVars, serverVars, channels_, loop, misused>>

------------------------------------------------------------------------------
LoopStep(l) == \/ FirstTurn(l) \/ Swap(l) \/ EndFunctors(l) \/ EndLoop(l)
               \/ \E c \in Conns : conn[c].loop_ = l /\ \/ HandleRead(c) \/ HandleClose(c)
                                                        \/ ConnectEstablished(c)
                                                        \/ ConnectDistroyed(c)

BaseStep == \/ EnterLoop \/ Accept \/ AcceptFails \/ Listen \/ DestroyMembers
            \/ QuitThread \/ QuitWakeup \/ JoinThread \/ DestroyAcceptor
            \/ \E c \in Conns : RemoveConnectionInLoop(c) \/ DestroyConnection(c)

Done == loop[0].at = "ended" /\ UNCHANGED vars

OtherStep == StartElsewhere \/ StartThread \/ StartListen \/ StartTooLate \/ WakeupBase

Next == \/ Start \/ OtherStep \/ QuitBase \/ BaseStep
        \/ \E l \in Loops : LoopStep(l)
        \/ Connect \/ \E c \in Conns : PeerCloses(c)
        \/ Done

Spec == Init /\ [][Next]_vars

\* Threads are scheduled and callbacks return.  Nothing of clients, start and quit.
Fairness == /\ WF_vars(BaseStep)
            /\ \A l \in Loops : WF_vars(LoopStep(l))

FairSpec == Spec /\ Fairness

------------------------------------------------------------------------------
State == {"none", "kConnecting", "kConnected", "kDisconnecting", "kDisconnected"}
Functor == {<<"listen", Listener>>}
           \cup {"connectEstablished", "remove", "connectDistroyed"} \X Conns
Point == {"none", "start", "check", "handle", "run", "left", "ended"}

LoopType == [at : Point, quit_ : BOOLEAN, active : SUBSET (Conns \cup {Listener}),
             pending : Seq(Functor), functors : Seq(Functor), ran : Nat]

\* Types, and what the control points say of each loop.
TypeOK == /\ numThreads_ \in Loops /\ threads \in 0..numThreads_
          /\ next_ \in 1 .. (IF threads = 0 THEN 1 ELSE threads)
          /\ started_ \in BOOLEAN /\ other \in {"idle", "start", "wakeup"}
          /\ listening_ \in BOOLEAN /\ clients \in 0..MaxClients /\ backlog \in 0..clients
          /\ nextConnId_ \in 1..(MaxClients + 1) /\ connections_ \in SUBSET Conns
          /\ conn \in [Conns -> [state_ : State, loop_ : Loops, fd : Fds \cup {None}, closed : BOOLEAN]]
          /\ channels_ \in [Loops -> [Fds -> Conns \cup {None}]]
          /\ loop \in [Loops -> LoopType]
          /\ \A l \in Loops : /\ loop[l].ran <= Len(loop[l].functors)
                              /\ loop[l].at # "handle" => loop[l].active = {}
                              /\ loop[l].at # "run" => loop[l].functors = <<>>
          /\ server \in {"alive", "quit", "wakeup", "join", "gone"}
          /\ cur \in 1..(MaxThreads + 1)
          /\ misused \in SUBSET {"server", "loop", "connection", "start", "wakeup"}

\* While a loop exists, its poller and its list of active channels, which keep
\* plain pointers by descriptor, know exactly the connections of this loop that
\* are up, and none that is gone, however often a descriptor's number comes
\* back and a removal is repeated (connectEstablished, connectDistroyed).
PollersAgree ==
    \A l \in Loops : LoopExists(l) =>
        /\ \A fd \in Fds, c \in Conns :
              channels_[l][fd] = c => Open(c) /\ conn[c].fd = fd /\ conn[c].loop_ = l
        /\ \A c \in Conns : /\ conn[c].loop_ = l /\ conn[c].state_ \in {"kConnected", "kDisconnecting"}
                            /\ Open(c) /\ c \in connections_
                            => Registered(c)
        /\ \A c \in loop[l].active \ {Listener} : Open(c) /\ Registered(c)

Due(f, l) == \/ \E i \in DOMAIN loop[l].pending : loop[l].pending[i] = f
             \/ \E i \in (loop[l].ran + 1) .. Len(loop[l].functors) : loop[l].functors[i] = f

\* The removal handshake never drops a connection half-way: one reported down
\* and still in the map has its removal due on the base loop, one out of the
\* map and still in a poller has connectDistroyed due on its own loop.
RemovalUnderWay ==
    \A c \in Conns :
        /\ conn[c].state_ = "kDisconnected" /\ c \in connections_ => Due(<<"remove", c>>, 0)
        /\ Registered(c) /\ LoopExists(conn[c].loop_) /\ c \notin connections_
           => Due(<<"connectDistroyed", c>>, conn[c].loop_)

\* No functor, handler or close callback uses the server, its acceptor, a loop
\* or a connection after its end, through the plain pointers that it keeps:
\* ~TcpServer joins the sub-loops first, and main() has left its own.  Two uses
\* the code does not prevent: a wakeup() after what made the loop end (quit()
\* from another thread, ~EventLoopThread among them, EventLoop.cc:115-120), and
\* start() on another thread than the one that destroys the server.
NothingDeadUsed == misused \subseteq {"wakeup", "start"}

\* A connection that its peer has closed comes to be destroyed, and its
\* descriptor closed, whenever the server is destroyed meanwhile: as they close
\* only once, again and again none is left.
ClosedIsReleased == []<>(\A c \in Conns : conn[c].closed => ~Open(c))

\* A client that waits while descriptors are used up is taken when some become
\* free, as long as the base loop runs: as clients are at most MaxClients, again
\* and again none waits.
WaitingIsTaken == []<>(FreeFds # {}) => []<>(backlog = 0 \/ loop[0].quit_)

------------------------------------------------------------------------------
(* What PollersAgree, RemovalUnderWay and NothingDeadUsed rest on (proved in *)
(* TcpServerProofs).                                                         *)

Serving(l) == loop[l].at \in {"check", "handle", "run"} /\ ~loop[l].quit_

\* The base loop outlives the others, which run until the destructor is at them;
\* before start() there is nothing.
PhaseInv ==
    /\ loop[0].at # "none"
    /\ server # "alive" => loop[0].at \in {"left", "ended"} /\ connections_ = {}
    /\ server = "alive" => cur = 1
    /\ server \in {"wakeup", "join"} => cur \in Threads
    /\ loop[0].at = "ended" => server = "gone"
    /\ ~started_ => /\ ~listening_ /\ nextConnId_ = 1 /\ threads = 0
                    /\ loop[0].pending = <<>> /\ loop[0].functors = <<>>
    /\ other = "start" => started_
    /\ \A l \in Loops \ {0} :
          /\ loop[l].at # "start"
          /\ l \notin Threads => loop[l] = NewLoop
          /\ l \in Threads => /\ loop[l].at # "none"
                              /\ server \notin {"alive", "gone"} /\ l < cur => loop[l].at = "ended"
                              /\ server = "alive" => Serving(l)
                              /\ server = "quit" /\ l >= cur => Serving(l)
                              /\ server \in {"wakeup", "join"} /\ l > cur => Serving(l)
                              /\ server = "gone" => loop[l].at = "ended"
          /\ loop[l].at = "ended" => loop[l].pending = <<>>

\* Each functor is in the loop it belongs to and names a connection there is;
\* connectDistroyed comes after the connection has left the map.
Placed(f, l) == /\ f[2] < nextConnId_
                /\ f[1] = "listen" => l = 0
                /\ f[1] = "remove" => l = 0 /\ conn[f[2]].loop_ # 0
                /\ f[1] = "connectEstablished" => l # 0 /\ conn[f[2]].loop_ = l
                /\ f[1] = "connectDistroyed" => conn[f[2]].loop_ = l /\ f[2] \notin connections_

QueueInv == \A l \in Loops : /\ \A i \in DOMAIN loop[l].pending : Placed(loop[l].pending[i], l)
                             /\ \A i \in DOMAIN loop[l].functors : Placed(loop[l].functors[i], l)

\* The connections there are have a descriptor and a loop; two that are open
\* never share a descriptor.
ConnInv ==
    /\ nextConnId_ - 1 + backlog <= clients
    /\ \A c \in connections_ : c < nextConnId_
    /\ \A c \in Conns : c < nextConnId_ => /\ conn[c].fd \in Fds
                                           /\ conn[c].loop_ = 0 \/ conn[c].loop_ \in Threads
    /\ \A c, d \in Conns : Open(c) /\ Open(d) /\ conn[c].fd = conn[d].fd => c = d

\* What is in a poller is in the map, or about to leave the poller; what is in
\* the map and was established is in its poller.
KnownInv ==
    /\ \A l \in Loops, fd \in Fds, c \in Conns : loop[l].at # "ended" /\ channels_[l][fd] = c =>
          /\ conn[c].fd = fd /\ conn[c].loop_ = l
          /\ c \in connections_ \/ Due(<<"connectDistroyed", c>>, l)
    /\ \A c \in connections_ : conn[c].state_ # "kConnecting" => Registered(c)

\* What epoll_wait reported stays in the poller until it has been handled.
ActiveInv ==
    \A l \in Loops : /\ Listener \in loop[l].active => l = 0 /\ backlog > 0 /\ started_
                     /\ \A c \in loop[l].active \ {Listener} : Registered(c) /\ conn[c].loop_ = l

\* connectEstablished of a connection that has left the map has its
\* connectDistroyed behind it.
OrderInv ==
    \A l \in Loops, c \in Conns : c \notin connections_ =>
        LET later(q, i) == \E j \in DOMAIN q : j > i /\ q[j] = <<"connectDistroyed", c>>
        IN  /\ \A i \in DOMAIN loop[l].pending :
                  loop[l].pending[i] = <<"connectEstablished", c>> => later(loop[l].pending, i)
            /\ \A i \in (loop[l].ran + 1) .. Len(loop[l].functors) :
                  loop[l].functors[i] = <<"connectEstablished", c>> =>
                      later(loop[l].functors, i) \/ later(loop[l].pending, 0)

\* A connection that was reported down leaves the map.
DownInv == \A c \in connections_ : conn[c].state_ = "kDisconnected" => Due(<<"remove", c>>, 0)

ServerInv == /\ TypeOK /\ PhaseInv /\ QueueInv /\ ConnInv /\ KnownInv
             /\ ActiveInv /\ OrderInv /\ DownInv /\ NothingDeadUsed
==============================================================================
