---------------------------- MODULE TcpConnection ----------------------------
(***************************************************************************)
(* One TcpConnection (src/TcpConnection.cc) from the moment that           *)
(* TcpServer::newConnection has built it until nothing refers to it:       *)
(*   - the loop that owns it, which alone touches its channel, its socket  *)
(*     and its output buffer, and runs user code in callbacks;             *)
(*   - the base loop, on which TcpServer removes it from connections_;     *)
(*   - other threads that a callback gave the connection to;               *)
(*   - the kernel and the peer.                                            *)
(* The loop is the one of module EventLoop without its wakeups, the poller *)
(* keeps the contract of Poller.h, and outputBuffer_ is the byte queue of  *)
(* module Buffer.  SIGPIPE is taken to be ignored by the application.      *)
(*                                                                         *)
(* What the loop's thread still has to do before it returns to loop() is   *)
(* the sequence todo, innermost call first: handlers of the event being    *)
(* handled, the functor being run, user code, a write(2) under way.        *)
(***************************************************************************)
EXTENDS Naturals, Sequences, FiniteSets

CONSTANTS Threads,          \* the other threads
          Owner,            \* the thread of the connection's loop
          Msgs, Size,       \* the strings given to send, of Size bytes each
          SendBuffer,       \* room of the kernel's send buffer, in bytes
          highWaterMark_,
          SingleLoop,       \* TcpServer with no sub-loops (setThreadNum(0))
          Careful,          \* other threads keep the string and the connection
                            \* until the functors that use them have run
          Callbacks,        \* which of "writeComplete", "highWater" are set
          ServerMayDie,     \* TcpServer may be destroyed, and the sub-loop quit
          MaxIn,            \* bound: the bytes the peer sends
          MaxDowns          \* bound: the calls of handleClose

ASSUME ConnectionAssumption ==
    /\ Owner \notin Threads
    /\ Size \in Nat \ {0} /\ SendBuffer \in Nat \ {0} /\ highWaterMark_ \in Nat
    /\ {SingleLoop, Careful, ServerMayDie} \subseteq BOOLEAN
    /\ Callbacks \subseteq {"writeComplete", "highWater"}
    /\ MaxIn \in Nat /\ MaxDowns \in Nat \ {0}

VARIABLES
    state_,
    events_, index,         \* channel_: the interest set; its place in the poller
    outputBuffer_,
    sock,                   \* the kernel's side of the socket, and the peer
    connections_,           \* TcpServer's map still holds the connection
    mainPending,            \* calls of removeConnectionInLoop queued on the base loop
    serverAlive,
    phase,                  \* where loop() is: "poll", "handle", "run", "left", or
                            \* how the process ended
    todo,
    pending, functors, next,\* pendingFunctors_; those swapped out; which is next
    write,                  \* the write(2) under way: what it took, what is left
    thr,                    \* what each other thread is doing
    accepted,               \* history: the bytes that sendInLoop took charge of
    sentBy,                 \* history: the messages each thread's send() let through
    promised,               \* history: those of the thread whose shutdown() took effect
    downs, upcall           \* history: calls for "down"; the last call into user code

connVars == <<state_, events_, index, outputBuffer_>>
serverVars == <<connections_, mainPending, serverAlive>>
queueVars == <<pending, functors, next>>
loopVars == <<phase, todo, queueVars, write>>
historyVars == <<accepted, sentBy, promised, downs, upcall>>
vars == <<connVars, sock, serverVars, loopVars, thr, historyVars>>

Bytes(m) == [i \in 1..Size |-> m]
Garbage == "garbage"        \* what is read from a string that is gone

NoWrite == [nwrote |-> 0, rest |-> <<>>]

\* The functors that hold a shared_ptr to the connection; send and shutdown
\* bind the raw this instead.
SharedButLast == {"connectEstablished", "writeComplete", "highWater"}   \* Mutant
Shared == {"connectEstablished", "connectDistroyed", "writeComplete", "highWater"}
HoldsShared(q) == \E i \in DOMAIN q : q[i][1] \in Shared
HoldsRaw(q) == \E i \in DOMAIN q : q[i][1] \notin Shared

\* Some shared_ptr to the connection exists: the map, a functor (those already
\* run included, until the vector dies), another thread, or the guard that
\* Channel::handleEvent takes from tie_.
Referenced == \/ connections_
              \/ mainPending > 0
              \/ HoldsShared(pending) \/ HoldsShared(functors)
              \/ \E t \in Threads : thr[t] \notin {<<"none">>, <<"gone">>}
              \/ phase = "handle" /\ todo # <<>>

\* What the constructor leaves.
Constructed == /\ state_ = "kConnecting"
               /\ events_ = {} /\ index = "kNew"
               /\ outputBuffer_ = <<>>

\* newConnection: built, in the map, and connectEstablished is run at once or
\* queued on the sub-loop, before or behind its swap.
Init == /\ Constructed
        /\ sock = [in |-> 0, more |-> MaxIn, peer |-> "open", err |-> FALSE,
                   shut |-> FALSE, sent |-> <<>>, unread |-> 0]
        /\ connections_ = TRUE /\ mainPending = 0 /\ serverAlive = TRUE
        /\ IF SingleLoop
           THEN phase = "handle" /\ todo = <<<<"connectEstablished">>>> /\ pending = <<>>
           ELSE phase \in {"poll", "run"} /\ todo = <<>> /\ pending = <<<<"connectEstablished">>>>
        /\ functors = <<>> /\ next = 1
        /\ write = NoWrite
        /\ thr = [t \in Threads |-> <<"none">>]
        /\ accepted = <<>> /\ promised = {} /\ downs = 0 /\ upcall = "none"
        /\ sentBy = [t \in Threads \cup {Owner} |-> {}]

------------------------------------------------------------------------------
(* The loop: poll, handlers of the reported events, queued functors.         *)

At(op) == todo # <<>> /\ Head(todo)[1] = op
Return == todo' = Tail(todo)
ThenDo(ops) == todo' = ops \o Tail(todo)

Room == SendBuffer - sock.unread
Broken == sock.shut \/ sock.peer = "reset"

\* What epoll reports of the socket, given the interest set.
In  == "read" \in events_ /\ (sock.in > 0 \/ sock.peer # "open")
Out == "write" \in events_ /\ (Room > 0 \/ Broken)
Err == sock.err
Hup == sock.peer = "reset" \/ (sock.peer = "fin" /\ sock.shut)

If(cond, op) == IF cond THEN <<<<op>>>> ELSE <<>>

\* epoll_wait reports the channel, and handleEventWithGuard calls the handlers
\* in its order.  It may return without: for the eventfd, for other channels.
Ready == index = "kAdded" /\ (In \/ Out \/ Err \/ Hup)

\* Mutant: HUP closes even when there are bytes to read.
PollReportEager ==
    /\ phase = "poll" /\ Ready /\ downs < MaxDowns
    /\ phase' = "handle"
    /\ todo' = If(Hup, "handleClose") \o If(Err, "handleError")
               \o If(In, "handleRead") \o If(Out, "handleWrite")
    /\ UNCHANGED <<connVars, sock, serverVars, queueVars, write, thr, historyVars>>

PollReport == /\ phase = "poll" /\ Ready
              /\ In /\ sock.in = 0 => downs < MaxDowns
              /\ phase' = "handle"
              /\ todo' = If(Hup /\ ~In, "handleClose") \o If(Err, "handleError")
                         \o If(In, "handleRead") \o If(Out, "handleWrite")
              /\ UNCHANGED <<connVars, sock, serverVars, queueVars, write, thr, historyVars>>

PollIdle == /\ phase = "poll"
            /\ phase' = "handle"
            /\ UNCHANGED <<connVars, sock, serverVars, todo, queueVars, write, thr, historyVars>>

Swap == /\ phase = "handle" /\ todo = <<>>
        /\ phase' = "run"
        /\ functors' = pending /\ pending' = <<>> /\ next' = 1
        /\ UNCHANGED <<connVars, sock, serverVars, todo, write, thr, historyVars>>

\* A functor bound to the raw this of a connection that is gone is undefined,
\* and std::function throws when highWaterMarkCallback_ was never set.
RunFunctor == /\ phase = "run" /\ todo = <<>> /\ next <= Len(functors)
              /\ next' = next + 1
              /\ todo' = <<functors[next]>>
              /\ phase' = IF ~Referenced THEN "undefined"
                          ELSE IF functors[next][1] = "highWater" /\ "highWater" \notin Callbacks
                          THEN "terminated" ELSE phase
              /\ UNCHANGED <<connVars, sock, serverVars, pending, functors, write, thr, historyVars>>

\* Mutant: the next turn goes on counting where this one ended.
EndFunctorsCounting == /\ phase = "run" /\ todo = <<>> /\ next > Len(functors)
                       /\ phase' = "poll"
                       /\ functors' = <<>>
                       /\ UNCHANGED <<connVars, sock, serverVars, todo, pending, next, write, thr,
                                      historyVars>>

EndFunctors == /\ phase = "run" /\ todo = <<>> /\ next > Len(functors)
               /\ phase' = "poll"
               /\ functors' = <<>> /\ next' = 1
               /\ UNCHANGED <<connVars, sock, serverVars, todo, pending, write, thr, historyVars>>

\* The pool's destructor, which follows the body of ~TcpServer, makes the sub-loop
\* quit: at its next test of quit_ it is left, and dies with what is queued.
LeaveLoop == /\ phase = "run" /\ todo = <<>> /\ next > Len(functors)
             /\ ~SingleLoop /\ ~serverAlive
             /\ phase' = "left"
             /\ pending' = <<>> /\ functors' = <<>> /\ next' = 1
             /\ UNCHANGED <<connVars, sock, serverVars, todo, write, thr, historyVars>>

LoopGone == phase \in {"left", "misused"}

\* The loop's thread is at op of its calls.
Doing(op) == phase \in {"handle", "run"} /\ At(op)

\* Channel::update and EPollPoller::updateChannel.
Enable(events) == /\ events_' = events
                  /\ index' = IF index = "kAdded" /\ events = {} THEN "kDeleted" ELSE "kAdded"

------------------------------------------------------------------------------
(* Set-up, tear-down, and the handlers of the channel.                       *)

ConnectEstablished == /\ Doing("connectEstablished")
                      /\ state_' = "kConnected"
                      /\ Enable(events_ \cup {"read"})
                      /\ upcall' = "up"
                      /\ ThenDo(<<<<"user">>>>)
                      /\ UNCHANGED <<outputBuffer_, sock, serverVars, phase, queueVars, write,
                                     thr, accepted, sentBy, promised, downs>>

\* Mutant: the state is not tested.
ConnectDistroyedAnyway ==
    /\ Doing("connectDistroyed")
    /\ ThenDo(<<<<"disconnect">>, <<"remove">>>>)
    /\ UNCHANGED <<connVars, sock, serverVars, phase, queueVars, write, thr, historyVars>>

\* connectDistroyed tests state_, ...
ConnectDistroyed ==
    /\ Doing("connectDistroyed")
    /\ ThenDo(If(state_ = "kConnected", "disconnect") \o <<<<"remove">>>>)
    /\ UNCHANGED <<connVars, sock, serverVars, phase, queueVars, write, thr, historyVars>>

\* ... and then sets it: another thread may do so in between.
Disconnect == /\ Doing("disconnect")
              /\ state_' = "kDisconnected"
              /\ Enable({})
              /\ upcall' = "down" /\ downs' = downs + 1
              /\ ThenDo(<<<<"user">>>>)
              /\ UNCHANGED <<outputBuffer_, sock, serverVars, phase, queueVars, write, thr,
                             accepted, sentBy, promised>>

\* Mutant: the poller keeps the channel.
LeaveChannel == /\ Doing("remove")
                /\ Return
                /\ UNCHANGED <<connVars, sock, serverVars, phase, queueVars, write, thr, historyVars>>

RemoveChannel == /\ Doing("remove")
                 /\ index' = "kNew"
                 /\ Return
                 /\ UNCHANGED <<state_, events_, outputBuffer_, sock, serverVars, phase,
                                queueVars, write, thr, historyVars>>

\* readv brings bytes, which the message callback is told of.
HandleRead == /\ Doing("handleRead") /\ sock.in > 0
              /\ \E n \in 1..sock.in : sock' = [sock EXCEPT !.in = @ - n]
              /\ upcall' = "message"
              /\ ThenDo(<<<<"user">>>>)
              /\ UNCHANGED <<connVars, serverVars, phase, queueVars, write, thr,
                             accepted, sentBy, promised, downs>>

\* Called by the channel, by handleRead when readv fails, with no more effect
\* than the log: reading SO_ERROR clears it, as a failed readv does.
HandleError == /\ \/ Doing("handleError")
                  \/ Doing("handleRead") /\ sock.in = 0 /\ sock.err
               /\ sock' = [sock EXCEPT !.err = FALSE]
               /\ Return
               /\ UNCHANGED <<connVars, serverVars, phase, queueVars, write, thr, historyVars>>

\* Called by the channel, or by handleRead when readv returns 0.
HandleClose == /\ \/ Doing("handleClose")
                  \/ Doing("handleRead") /\ sock.in = 0 /\ ~sock.err
               /\ state_' = "kDisconnected"
               /\ upcall' = "down" /\ downs' = downs + 1
               /\ ThenDo(<<<<"user">>, <<"closeCallback">>>>)
               /\ UNCHANGED <<events_, index, outputBuffer_, sock, serverVars, phase,
                              queueVars, write, thr, accepted, sentBy, promised>>

\* removeConnection: in the base loop's own thread it runs at once.
CloseCallback ==
    /\ Doing("closeCallback")
    /\ IF SingleLoop
       THEN /\ connections_' = FALSE
            /\ pending' = Append(pending, <<"connectDistroyed">>)
            /\ UNCHANGED mainPending
       ELSE /\ mainPending' = mainPending + 1
            /\ UNCHANGED <<connections_, pending>>
    /\ Return
    /\ UNCHANGED <<connVars, sock, serverAlive, phase, functors, next, write, thr, historyVars>>

------------------------------------------------------------------------------
(* Writing.                                                                  *)

\* write(2) copies into the kernel what there is room for ...
WriteSome == /\ Doing("write")
             /\ ~Broken /\ Room > 0 /\ write.rest # <<>>
             /\ LET n == IF Room < Len(write.rest) THEN Room ELSE Len(write.rest)
                IN  /\ sock' = [sock EXCEPT !.sent = @ \o SubSeq(write.rest, 1, n),
                                            !.unread = @ + n]
                    /\ write' = [nwrote |-> write.nwrote + n,
                                 rest |-> SubSeq(write.rest, n + 1, Len(write.rest))]
             /\ UNCHANGED <<connVars, serverVars, phase, todo, queueVars, thr, historyVars>>

\* ... and returns when all is copied or the connection is broken.  accept leaves
\* the descriptor blocking, so a full buffer makes write wait for the peer unless
\* a signal interrupts it.
MustReturn == write.rest = <<>> \/ Broken
MayReturn == MustReturn \/ Room = 0

Fault == Broken /\ write.nwrote = 0     \* EPIPE or ECONNRESET

\* Mutant: EPOLLOUT is not asked for.
KeepOnly(data) == /\ outputBuffer_' = outputBuffer_ \o data
                  /\ UNCHANGED <<events_, index, pending>>

\* sendInLoop keeps what write did not take, and asks for EPOLLOUT.
Keep(data) ==
    LET old == Len(outputBuffer_)
        new == old + Len(data)
    IN  /\ outputBuffer_' = outputBuffer_ \o data
        /\ IF "write" \in events_ THEN UNCHANGED <<events_, index>>
           ELSE Enable(events_ \cup {"write"})
        /\ pending' = pending \o If(/\ new >= highWaterMark_ /\ old < highWaterMark_
                                    /\ highWaterMark_ # 0, "highWater")

\* Mutant: write is tried even when bytes are buffered.
SendInLoopEager(data, rest) ==
    /\ todo' = <<<<"write">>, <<"sent">>>> \o rest
    /\ write' = [nwrote |-> 0, rest |-> data]
    /\ accepted' = accepted \o data
    /\ UNCHANGED <<outputBuffer_, events_, index, pending>>

\* Mutant: state_ is not tested, and a send of a closed connection goes on.
SendInLoopAnyway(data, rest) ==
    \/ /\ "write" \notin events_ /\ outputBuffer_ = <<>>
       /\ todo' = <<<<"write">>, <<"sent">>>> \o rest
       /\ write' = [nwrote |-> 0, rest |-> data]
       /\ accepted' = accepted \o data
       /\ UNCHANGED <<outputBuffer_, events_, index, pending>>
    \/ /\ "write" \in events_ \/ outputBuffer_ # <<>>
       /\ Keep(data)
       /\ todo' = rest
       /\ accepted' = accepted \o data
       /\ UNCHANGED write

\* The first part of sendInLoop, in the place of the first rest calls of todo.
SendInLoop(data, rest) ==
    \/ /\ state_ = "kDisconnected"
       /\ todo' = rest
       /\ UNCHANGED <<outputBuffer_, events_, index, pending, write, accepted>>
    \/ /\ state_ # "kDisconnected"
       /\ "write" \notin events_ /\ outputBuffer_ = <<>>
       /\ todo' = <<<<"write">>, <<"sent">>>> \o rest
       /\ write' = [nwrote |-> 0, rest |-> data]
       /\ accepted' = accepted \o data
       /\ UNCHANGED <<outputBuffer_, events_, index, pending>>
    \/ /\ state_ # "kDisconnected"
       /\ "write" \in events_ \/ outputBuffer_ # <<>>
       /\ Keep(data)
       /\ todo' = rest
       /\ accepted' = accepted \o data
       /\ UNCHANGED write

\* The rest of sendInLoop, after write returned.
Sent == /\ Doing("write") /\ todo[2] = <<"sent">> /\ MayReturn
        /\ \/ /\ write.rest = <<>>
              /\ pending' = pending \o If("writeComplete" \in Callbacks, "writeComplete")
              /\ UNCHANGED <<outputBuffer_, events_, index, accepted>>
           \/ /\ write.rest # <<>> /\ ~Fault
              /\ Keep(write.rest)
              /\ UNCHANGED accepted
           \/ /\ write.rest # <<>> /\ Fault
              /\ accepted' = SubSeq(accepted, 1, Len(accepted) - Len(write.rest))
              /\ UNCHANGED <<outputBuffer_, events_, index, pending>>
        /\ write' = NoWrite
        /\ todo' = SubSeq(todo, 3, Len(todo))
        /\ UNCHANGED <<state_, sock, serverVars, phase, functors, next, thr,
                       sentBy, promised, downs, upcall>>

ShutdownAtOnce(events) == sock' = [sock EXCEPT !.shut = TRUE]     \* Mutant

ShutdownInLoop(events) ==
    sock' = [sock EXCEPT !.shut = @ \/ "write" \notin events]

HandleWrite == /\ Doing("handleWrite")
               /\ IF "write" \in events_
                  THEN /\ ThenDo(<<<<"write">>, <<"drained">>>>)
                       /\ write' = [nwrote |-> 0, rest |-> outputBuffer_]
                  ELSE Return /\ UNCHANGED write
               /\ UNCHANGED <<connVars, sock, serverVars, phase, queueVars, thr, historyVars>>

\* Mutant: nobody completes the shutdown.
NoFinishShutdown == UNCHANGED sock

\* A shutdown() that found bytes buffered is completed when they are written.
FinishShutdown == IF state_ = "kDisconnecting" THEN ShutdownInLoop(events_ \ {"write"})
                  ELSE UNCHANGED sock

\* The rest of handleWrite, after writeFd returned.
Drained ==
    /\ Doing("write") /\ todo[2] = <<"drained">> /\ MayReturn
    /\ outputBuffer_' = write.rest
    /\ \/ /\ write.rest = <<>> /\ write.nwrote > 0
          /\ Enable(events_ \ {"write"})
          /\ pending' = pending \o If("writeComplete" \in Callbacks, "writeComplete")
          /\ FinishShutdown
       \/ /\ write.rest # <<>> \/ write.nwrote = 0
          /\ UNCHANGED <<events_, index, pending, sock>>
    /\ write' = NoWrite
    /\ todo' = SubSeq(todo, 3, Len(todo))
    /\ UNCHANGED <<state_, serverVars, phase, functors, next, thr, historyVars>>

------------------------------------------------------------------------------
(* The functors that send and shutdown queued from other threads.            *)

\* The string is read where the caller had it: it may be gone.
RunSend == /\ Doing("send")
           /\ \/ SendInLoop(Bytes(Head(todo)[2]), Tail(todo))
              \/ ~Careful /\ SendInLoop(Bytes(Garbage), Tail(todo))
           /\ UNCHANGED <<state_, sock, serverVars, phase, functors, next, thr,
                          sentBy, promised, downs, upcall>>

RunShutdown == /\ Doing("shutdown")
               /\ ShutdownInLoop(events_)
               /\ Return
               /\ UNCHANGED <<connVars, serverVars, phase, queueVars, write, thr, historyVars>>

------------------------------------------------------------------------------
(* User code on the loop's thread, in a callback.                            *)

RunCallback == /\ Doing("writeComplete") \/ Doing("highWater")
               /\ ThenDo(<<<<"user">>>>)
               /\ UNCHANGED <<connVars, sock, serverVars, phase, queueVars, write, thr, historyVars>>

Unsent(m) == \A t \in Threads \cup {Owner} : m \notin sentBy[t]

UserSend(m) == /\ Doing("user") /\ state_ = "kConnected" /\ Unsent(m)
               /\ sentBy' = [sentBy EXCEPT ![Owner] = @ \cup {m}]
               /\ SendInLoop(Bytes(m), todo)
               /\ UNCHANGED <<state_, sock, serverVars, phase, functors, next, thr,
                              promised, downs, upcall>>

UserShutdown == /\ Doing("user") /\ state_ = "kConnected"
                /\ state_' = "kDisconnecting"
                /\ promised' = sentBy[Owner]
                /\ ShutdownInLoop(events_)
                /\ UNCHANGED <<events_, index, outputBuffer_, serverVars, loopVars, thr,
                               accepted, sentBy, downs, upcall>>

\* The callback gives the connection to another thread.
HandOver(t) == /\ Doing("user") /\ thr[t] = <<"none">>
               /\ thr' = [thr EXCEPT ![t] = <<"idle">>]
               /\ UNCHANGED <<connVars, sock, serverVars, loopVars, historyVars>>

UserReturn == /\ Doing("user")
              /\ Return
              /\ UNCHANGED <<connVars, sock, serverVars, phase, queueVars, write, thr, historyVars>>

------------------------------------------------------------------------------
(* Other threads: send and shutdown test state_, then act.                   *)

Goes(t, from, to) == thr[t] = from /\ thr' = [thr EXCEPT ![t] = to]

SendCheck(t, m) == /\ Goes(t, <<"idle">>, <<"send", m>>)
                   /\ state_ = "kConnected" /\ Unsent(m)
                   /\ sentBy' = [sentBy EXCEPT ![t] = @ \cup {m}]
                   /\ UNCHANGED <<connVars, sock, serverVars, loopVars,
                                  accepted, promised, downs, upcall>>

\* queueInLoop, on a loop that may be gone with the server.
Queue(f) == IF LoopGone THEN phase' = "misused" /\ UNCHANGED pending
            ELSE pending' = Append(pending, f) /\ UNCHANGED phase

SendQueue(t, m) == /\ Goes(t, <<"send", m>>, <<"idle">>)
                   /\ Queue(<<"send", m>>)
                   /\ UNCHANGED <<connVars, sock, serverVars, todo, functors, next,
                                  write, historyVars>>

ShutdownCheck(t) == /\ Goes(t, <<"idle">>, <<"setState">>)
                    /\ state_ = "kConnected"
                    /\ UNCHANGED <<connVars, sock, serverVars, loopVars, historyVars>>

ShutdownSet(t) == /\ Goes(t, <<"setState">>, <<"queueShutdown">>)
                  /\ state_' = "kDisconnecting"
                  /\ promised' = IF state_ = "kConnected" THEN sentBy[t] ELSE promised
                  /\ UNCHANGED <<events_, index, outputBuffer_, sock, serverVars, loopVars,
                                 accepted, sentBy, downs, upcall>>

ShutdownQueue(t) == /\ Goes(t, <<"queueShutdown">>, <<"idle">>)
                    /\ Queue(<<"shutdown">>)
                    /\ UNCHANGED <<connVars, sock, serverVars, todo, functors, next,
                                   write, historyVars>>

\* The thread drops its shared_ptr.
Release(t) == /\ Goes(t, <<"idle">>, <<"gone">>)
              /\ Careful => ~HoldsRaw(pending) /\ ~HoldsRaw(functors)
              /\ UNCHANGED <<connVars, sock, serverVars, loopVars, historyVars>>

------------------------------------------------------------------------------
(* The base loop, when the connection is on a sub-loop.                      *)

\* Mutant: the map keeps the connection.
RemoveConnectionKeeping ==
    /\ ~SingleLoop /\ serverAlive /\ mainPending > 0
    /\ mainPending' = mainPending - 1
    /\ pending' = Append(pending, <<"connectDistroyed">>)
    /\ UNCHANGED <<connVars, sock, connections_, serverAlive, phase, todo, functors, next,
                   write, thr, historyVars>>

RemoveConnectionInLoop ==
    /\ ~SingleLoop /\ serverAlive /\ mainPending > 0
    /\ mainPending' = mainPending - 1
    /\ connections_' = FALSE
    /\ pending' = Append(pending, <<"connectDistroyed">>)
    /\ UNCHANGED <<connVars, sock, serverAlive, phase, todo, functors, next, write, thr, historyVars>>

\* ~TcpServer, once the base loop has returned: what is still queued there will
\* not be run.  The sub-loop may leave from now on (LeaveLoop), ...
DestroyServer ==
    /\ ServerMayDie /\ ~SingleLoop /\ serverAlive
    /\ serverAlive' = FALSE
    /\ connections_' = FALSE
    /\ pending' = pending \o If(connections_, "connectDistroyed")
    /\ UNCHANGED <<connVars, sock, mainPending, phase, todo, functors, next, write, thr, historyVars>>

\* ... and when it has been joined the base loop dies with its functors.
EndBase == /\ ~serverAlive /\ phase = "left" /\ mainPending > 0
           /\ mainPending' = 0
           /\ UNCHANGED <<connVars, sock, connections_, serverAlive, loopVars, thr, historyVars>>

------------------------------------------------------------------------------
(* The peer.                                                                 *)

PeerSends == /\ sock.peer = "open" /\ sock.more > 0
             /\ sock' = [sock EXCEPT !.in = @ + 1, !.more = @ - 1]

PeerReads == /\ sock.peer # "reset" /\ sock.unread > 0
             /\ sock' = [sock EXCEPT !.unread = 0]

PeerCloses == /\ sock.peer = "open"
              /\ sock' = [sock EXCEPT !.peer = "fin"]

PeerResets == /\ sock.peer # "reset"
              /\ sock' = [sock EXCEPT !.peer = "reset", !.err = TRUE]

Peer == /\ PeerSends \/ PeerReads \/ PeerCloses \/ PeerResets
        /\ UNCHANGED <<connVars, serverVars, loopVars, thr, historyVars>>

------------------------------------------------------------------------------
Handlers == \/ ConnectEstablished \/ ConnectDistroyed \/ Disconnect \/ RemoveChannel
            \/ HandleRead \/ HandleError \/ HandleClose \/ CloseCallback
            \/ HandleWrite \/ WriteSome \/ Sent \/ Drained
            \/ RunSend \/ RunShutdown \/ RunCallback \/ UserReturn

LoopStep == PollIdle \/ Swap \/ RunFunctor \/ EndFunctors \/ LeaveLoop \/ Handlers

ThreadStep(t) == \/ \E m \in Msgs : SendQueue(t, m)
                 \/ ShutdownSet(t) \/ ShutdownQueue(t)

Next == \/ LoopStep \/ PollReport
        \/ UserShutdown \/ \E m \in Msgs : UserSend(m)
        \/ \E t \in Threads : \/ HandOver(t) \/ ThreadStep(t) \/ ShutdownCheck(t) \/ Release(t)
                              \/ \E m \in Msgs : SendCheck(t, m)
        \/ RemoveConnectionInLoop \/ DestroyServer \/ EndBase
        \/ Peer

Spec == Init /\ [][Next]_vars

\* The loop's thread is scheduled, user code returns, and so does every write
\* but one into a full buffer; epoll_wait reports a descriptor that
\* stays ready (epoll serves the ready list in turn); the base loop and the
\* threads inside send or shutdown go on; ~TcpServer goes on to the quit() of
\* the sub-loop, which then leaves at one of its tests of quit_, and to the end
\* of the base loop.  Nothing is assumed of the peer, nor that the server dies.
Fairness == /\ WF_vars(LoopStep /\ (At("write") => MustReturn))
            /\ WF_vars(WriteSome)
            /\ SF_vars(PollReport)
            /\ WF_vars(RemoveConnectionInLoop)
            /\ SF_vars(LeaveLoop) /\ WF_vars(EndBase)
            /\ \A t \in Threads : WF_vars(ThreadStep(t))

FairSpec == Spec /\ Fairness

\* A peer that goes on reading until it breaks the connection.
ReadingPeerSpec == FairSpec /\ WF_vars(PeerReads /\ Peer)

------------------------------------------------------------------------------
(* Properties.                                                               *)

State == {"kDisconnected", "kConnecting", "kConnected", "kDisconnecting"}
FunctorOps == {"connectEstablished", "connectDistroyed", "writeComplete", "highWater", "shutdown"}
OtherOps == {"handleClose", "handleError", "handleRead", "handleWrite", "closeCallback",
             "disconnect", "remove", "user", "write", "sent", "drained"}
SendOf == {<<"send", m>> : m \in Msgs}
Functor == {<<op>> : op \in FunctorOps} \cup SendOf
Call == Functor \cup {<<op>> : op \in OtherOps}
ThreadPoint == {<<at>> : at \in {"none", "idle", "setState", "queueShutdown", "gone"}} \cup SendOf
Content == Seq(Msgs \cup {Garbage})
Count(bytes, m) == Cardinality({i \in DOMAIN bytes : bytes[i] = m})

\* Types, and what the control points say of the loop's own variables.
TypeOK == /\ state_ \in State
          /\ events_ \in SUBSET {"read", "write"}
          /\ index \in {"kNew", "kAdded", "kDeleted"}
          /\ outputBuffer_ \in Content
          /\ sock \in [in : Nat, more : Nat, peer : {"open", "fin", "reset"},
                       err : BOOLEAN, shut : BOOLEAN, sent : Content, unread : 0..SendBuffer]
          /\ connections_ \in BOOLEAN /\ mainPending \in Nat /\ serverAlive \in BOOLEAN
          /\ phase \in {"poll", "handle", "run", "left", "misused", "undefined", "terminated"}
          /\ todo \in Seq(Call) /\ (phase = "poll" \/ LoopGone => todo = <<>>)
          /\ pending \in Seq(Functor) /\ functors \in Seq(Functor)
          /\ next \in 1 .. Len(functors) + 1
          /\ write \in [nwrote : Nat, rest : Content] /\ (write # NoWrite => At("write"))
          /\ thr \in [Threads -> ThreadPoint]
          /\ accepted \in Content /\ promised \in SUBSET Msgs
          /\ sentBy \in [Threads \cup {Owner} -> SUBSET Msgs]
          /\ downs \in Nat /\ upcall \in {"none", "up", "message", "down"}

\* What the kernel took and what is still to be written are, together, the
\* bytes sendInLoop accepted, in order: direct writes never overtake buffered
\* ones, and nothing is lost or repeated by partial writes (sendInLoop, handleWrite).
StreamIntact == sock.sent \o (IF At("write") THEN write.rest ELSE outputBuffer_) = accepted

\* While it waits in epoll_wait, the loop asks for EPOLLOUT exactly when bytes
\* are buffered: otherwise they would stay for ever, or the loop would spin.
WritingIffBuffered ==
    phase = "poll" /\ index = "kAdded" => ("write" \in events_ <=> outputBuffer_ # <<>>)

\* The write side is shut down only after every byte of the messages that the
\* thread that called shutdown() had sent before (shutdown, shutdownInLoop,
\* handleWrite), unless the peer reset the connection: TcpConnection.cc:269 says
\* that all data has been sent.
SentBeforeFin ==
    sock.shut /\ sock.peer # "reset" => \A m \in promised : Count(sock.sent, m) = Size

\* As long as its loop is there, the poller, which keeps a plain pointer to the
\* channel, never keeps it past the life of the connection that owns the channel
\* (connectDistroyed).
RegisteredAlive == index # "kNew" /\ ~LoopGone => Referenced

\* Once removed from the poller the channel is never registered again, though
\* functors queued by send() before the close may still run (connectDistroyed,
\* sendInLoop): the poller would have to report a connection that is going.
RemovedForGood == [][state_ # "kConnecting" /\ index = "kNew" => index' = "kNew"]_vars

\* No message is delivered after the user was told that the connection is down.
NoMessageAfterDown == upcall = "message" => downs = 0

\* The loop never calls into a connection that is gone (the use of tie_ and of
\* shared_ptr, Channel.h:76-83), nor a thread into a loop that is.  For send and
\* shutdown called on other threads it takes careful callers, since they bind the
\* raw this, and a server that outlives their use of the connection.
NoUseOfDead == phase \notin {"undefined", "misused"}

Lifecycle == INSTANCE ConnectionLifecycle WITH
    life <- CASE upcall = "none" -> "connecting"
              [] upcall # "none" /\ index = "kNew" -> "removed"
              [] upcall # "none" /\ index # "kNew" /\ downs = 0 -> "up"
              [] OTHER -> "down"

\* The user sees the connection go up, then down once, then it is removed and
\* stays so (handleClose, removeConnection, connectDistroyed on one loop).
LifecycleSpec == Lifecycle!Spec

\* Once the peer has closed or reset, the connection comes to be released for good,
\* and out of its poller unless that has gone with the loop; the user has been told
\* that it is down, unless the server is destroyed: ~TcpServer makes the sub-loop
\* quit, which may die with connectDistroyed queued, at any point of the removal.
CloseReleases ==
    sock.peer # "open" ~> [](/\ ~Referenced
                             /\ index = "kNew" \/ phase = "left"
                             /\ downs > 0 \/ ~serverAlive)

Ended == downs > 0 \/ index = "kNew" \/ phase = "left"

\* With a peer that reads, buffered bytes are flushed unless the connection, or
\* its loop, ends.
BufferedIsFlushed == outputBuffer_ # <<>> ~> outputBuffer_ = <<>> \/ Ended

\* With a peer that reads, a shutdown() comes to shut the write side down
\* unless the connection, or its loop, ends first.
ShutdownCompletes == state_ = "kDisconnecting" ~> sock.shut \/ Ended

------------------------------------------------------------------------------
(* What StreamIntact, WritingIffBuffered and NoMessageAfterDown rest on      *)
(* (proved in TcpConnectionProofs).                                          *)

Has(op) == \E i \in DOMAIN todo : todo[i][1] = op
Rest(op) == At("write") /\ todo[2][1] = op       \* op waits for a write(2)

\* A functor begins with nothing else under way, and the rest of sendInLoop or
\* of handleWrite stands right behind its write.
StackInv ==
    \A i \in DOMAIN todo :
        /\ todo[i][1] \in FunctorOps \cup {"send"} => Len(todo) = 1
        /\ todo[i][1] = "write" => i = 1 /\ Len(todo) >= 2 /\ todo[2][1] \in {"sent", "drained"}
        /\ todo[i][1] \in {"sent", "drained"} => i = 2 /\ todo[1][1] = "write"
        /\ todo[i][1] = "disconnect" => i = 1 /\ Len(todo) = 2 /\ todo[2][1] = "remove"

\* connectEstablished is the first thing that happens to a connection, once.
FreshInv ==
    /\ state_ = "kConnecting" =>
          /\ events_ = {} /\ index = "kNew" /\ outputBuffer_ = <<>> /\ downs = 0
          /\ \A t \in Threads : thr[t][1] = "none"
          /\ \/ todo = <<>> /\ functors = <<>> /\ Len(pending) > 0
                /\ pending[1][1] = "connectEstablished" /\ phase \in {"poll", "handle", "run"}
             \/ todo = <<>> /\ Len(functors) > 0 /\ next = 1
                /\ functors[1][1] = "connectEstablished" /\ phase = "run"
             \/ Len(todo) = 1 /\ todo[1][1] = "connectEstablished"
             \/ LoopGone
    /\ Has("connectEstablished") => state_ = "kConnecting"
    /\ \A i \in DOMAIN pending : pending[i][1] = "connectEstablished" =>
          i = 1 /\ state_ = "kConnecting" /\ functors = <<>> /\ todo = <<>>
    /\ \A i \in DOMAIN functors : functors[i][1] = "connectEstablished" =>
          i = 1 /\ (next = 1 => state_ = "kConnecting" /\ todo = <<>>)

\* Up, the channel is in the poller, reading, and leaves it after disconnect only.
UpInv == state_ = "kConnected" \/ Has("disconnect") =>
             /\ "read" \in events_ /\ index = "kAdded"
             /\ Has("remove") => Has("disconnect")

\* EPOLLOUT is asked for only with bytes buffered, and with bytes buffered
\* whenever the channel is in the poller; a direct write has none before it.
WriteInv ==
    /\ "write" \in events_ => outputBuffer_ # <<>>
    /\ index = "kAdded" /\ outputBuffer_ # <<>> => "write" \in events_
    /\ Rest("sent") => outputBuffer_ = <<>>
    /\ Rest("drained") => /\ "write" \in events_
                          /\ write.nwrote + Len(write.rest) = Len(outputBuffer_)

\* Nothing will be read: the channel does not ask for it, or all has been read
\* and the peer sends no more.
Deaf == "read" \notin events_ /\ ~Has("handleRead")
Drawn == sock.in = 0 /\ sock.peer # "open"

DownInv ==
    /\ downs > 0 => upcall # "message" /\ (Deaf \/ Drawn)
    /\ Has("handleClose") => Deaf
    /\ Has("handleRead") => sock.in > 0 \/ sock.peer # "open"
    /\ \A i, j \in DOMAIN todo :
          todo[i][1] = "handleRead" /\ todo[j][1] = "handleRead" => i = j

ConnectionInv == /\ TypeOK /\ StackInv /\ FreshInv /\ UpInv
                 /\ WriteInv /\ DownInv /\ StreamIntact

------------------------------------------------------------------------------
(* What NoUseOfDead, RegisteredAlive, SentBeforeFin and LifecycleSpec rest   *)
(* on, in the set-ups for which they hold (proved in TcpConnectionLifeProofs). *)

\* Careful callers: as long as a functor with the raw this lives, so does the
\* shared_ptr of a thread.
HeldInv == /\ phase \notin {"undefined", "misused"}
           /\ HoldsRaw(pending) \/ HoldsRaw(functors) =>
                 \E t \in Threads : thr[t] \notin {<<"none">>, <<"gone">>}

\* The functors still to be run, in their order.
Line == SubSeq(functors, next, Len(functors)) \o pending
Queued(op) == \E i \in DOMAIN Line : Line[i][1] = op
Leaving == Queued("connectDistroyed") \/ Has("connectDistroyed") \/ Has("remove")

Closers == {"handleRead", "handleClose"}
ChannelOps == Closers \cup {"handleError", "handleWrite", "closeCallback", "drained"}

\* Handlers run between epoll_wait and the swap, for a channel the poller has;
\* connectDistroyed between the swap and the end of its vector, and last.
PlaceInv ==
    /\ phase \in {"poll", "handle"} => functors = <<>> /\ next = 1
    /\ \A i \in DOMAIN todo :
          /\ todo[i][1] \in ChannelOps => phase = "handle" /\ index # "kNew"
          /\ todo[i][1] \in {"connectDistroyed", "remove"} =>
                phase \notin {"poll", "handle"} /\ HoldsShared(functors) /\ i = Len(todo)
    /\ \A i, j \in DOMAIN todo : todo[i][1] \in Closers /\ todo[j][1] \in Closers => i = j

\* What the user has heard and what state_ says.
AgeInv == /\ state_ = "kConnecting" <=> upcall = "none"
          /\ state_ = "kConnected" \/ Has("disconnect") => downs = 0

\* Nothing that is still to be sent registers a removed channel again.
SendInv == /\ Has("sent") => index # "kNew"
           /\ Has("send") /\ state_ # "kDisconnected" => index # "kNew"

\* Off the map, a connection is removed from the poller or about to be.
LeaveInv == ~connections_ /\ ~LoopGone /\ (index # "kNew" \/ state_ = "kConnecting") => Leaving

\* Nothing removes a connection before the user was told that it is down.
ToldInv == (\/ Leaving \/ Has("closeCallback") \/ mainPending > 0
            \/ index = "kNew" /\ state_ # "kConnecting") => downs > 0

\* On one loop a close is followed by the removal before the next poll.
ClosingInv ==
    /\ downs > 0 => \A i \in DOMAIN todo : todo[i][1] \notin Closers
    /\ downs > 0 /\ index # "kNew" =>
          \/ phase = "handle" /\ (Has("closeCallback") \/ Queued("connectDistroyed"))
          \/ /\ phase = "run"
             /\ \/ \E i \in next..Len(functors) : functors[i][1] = "connectDistroyed"
                \/ Has("connectDistroyed") \/ Has("remove")
          \/ phase \in {"undefined", "terminated"}

\* shutdown()'s assignment may bring a closed connection back to kDisconnecting,
\* where sendInLoop sends: but the one thread's sends stand before connectDistroyed.
Revivable == state_ = "kDisconnecting" \/ \E t \in Threads : thr[t] = <<"setState">>

LateInv ==
    downs > 0 /\ Revivable =>
       /\ \A t \in Threads : thr[t][1] # "send"
       /\ \A i, j \in DOMAIN Line :
             Line[i][1] = "connectDistroyed" /\ Line[j][1] = "send" => j < i
       /\ Has("connectDistroyed") \/ Has("remove") \/ index = "kNew" =>
             ~Queued("send") /\ ~Has("send")

\* Without other threads nothing is sent or shut down later, and the write side
\* is shut down with nothing left to write; each message is accepted whole.
OwnInv ==
    /\ \A op \in {"send", "shutdown"} : ~Queued(op) /\ ~Has(op)
    /\ promised \subseteq sentBy[Owner]
    /\ sock.shut => /\ state_ \in {"kDisconnecting", "kDisconnected"}
                    /\ outputBuffer_ = <<>> /\ ~At("write")
    /\ sock.peer # "reset" =>
          \A m \in Msgs : Count(accepted, m) = IF m \in sentBy[Owner] THEN Size ELSE 0

------------------------------------------------------------------------------
(* What a comment promises and the code does not keep.                       *)

\* TcpConnection.cc:167: what the kernel is too slow for goes to the buffer; the
\* loop, whose other connections wait, comes back to epoll_wait.
LoopKeepsPolling == []<>(phase = "poll")
==============================================================================
