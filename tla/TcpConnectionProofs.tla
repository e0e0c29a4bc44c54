------------------------- MODULE TcpConnectionProofs -------------------------
(***************************************************************************)
(* Theorems about TcpConnection for any threads, messages, sizes and       *)
(* set-up: what TypeOK, StreamIntact, WritingIffBuffered and               *)
(* NoMessageAfterDown say.                                                 *)
(***************************************************************************)
EXTENDS TcpConnection, SequenceTheorems, TLAPS

------------------------------------------------------------------------------
(* Types.                                                                    *)

\* The names of calls, and which of them are functors.
LEMMA CallNames ==
    /\ Functor \subseteq Call
    /\ \A op \in FunctorOps : <<op>> \in Functor
    /\ \A op \in OtherOps : <<op>> \in Call
    /\ \A m \in Msgs : <<"send", m>> \in Functor
    /\ \A f \in Functor : f[1] \in FunctorOps \cup {"send"}
    /\ \A c \in Call : c[1] \in FunctorOps \cup {"send"} => c \in Functor
    /\ \A c \in Call : c[1] = "send" => c[2] \in Msgs
BY DEF Functor, Call, SendOf, FunctorOps, OtherOps

\* The bytes of a message.
LEMMA BytesFacts ==
    ASSUME NEW m \in Msgs \cup {Garbage}
    PROVE  Bytes(m) \in Content /\ Len(Bytes(m)) = Size /\ Bytes(m) # <<>>
<1>1. Bytes(m) \in [1..Size -> Msgs \cup {Garbage}] /\ Size \in Nat \ {0}
  BY ConnectionAssumption DEF Bytes
<1>2. Bytes(m) \in Seq(Msgs \cup {Garbage}) /\ Len(Bytes(m)) = Size
  BY <1>1, LenProperties, SeqDef
<1> QED
  BY <1>1, <1>2 DEF Content

LEMMA IfFunctor ==
    ASSUME NEW q \in Seq(Functor), NEW cond, NEW op \in FunctorOps
    PROVE  q \o If(cond, op) \in Seq(Functor)
BY CallNames DEF If

LEMMA IfCall ==
    ASSUME NEW cond, NEW op \in OtherOps
    PROVE  If(cond, op) \in Seq(Call)
BY CallNames DEF If

\* What connectDistroyed is followed by.
LEMMA DistroyCalls ==
    ASSUME NEW c
    PROVE  If(c, "disconnect") \o <<<<"remove">>>> =
              IF c THEN <<<<"disconnect">>, <<"remove">>>> ELSE <<<<"remove">>>>
<1>1. CASE c
  <2> DEFINE p == <<<<"disconnect">>>>
             q == <<<<"remove">>>>
             r == <<<<"disconnect">>, <<"remove">>>>
  <2>1. <<"disconnect">> \in Call /\ <<"remove">> \in Call
    BY CallNames DEF OtherOps
  <2>2. p \in Seq(Call) /\ Len(p) = 1 /\ p[1] = <<"disconnect">>
    BY <2>1
  <2>3. q \in Seq(Call) /\ Len(q) = 1 /\ q[1] = <<"remove">>
    BY <2>1
  <2>4. r \in Seq(Call) /\ Len(r) = 2 /\ r[1] = <<"disconnect">> /\ r[2] = <<"remove">>
    BY <2>1
  <2> HIDE DEF p, q, r
  <2>5. p \o q \in Seq(Call) /\ Len(p \o q) = 2 /\ (p \o q)[1] = p[1] /\ (p \o q)[2] = q[1]
    BY <2>2, <2>3, ConcatProperties
  <2>6. \A i \in 1..2 : (p \o q)[i] = r[i]
    BY <2>2, <2>3, <2>4, <2>5
  <2>7. p \o q = r
    BY <2>4, <2>5, <2>6, SeqEqual
  <2> QED
    BY <1>1, <2>7 DEF If, p, q, r
<1>2. CASE ~c
  BY <1>2 DEF If
<1> QED
  BY <1>1, <1>2

\* What a step leaves of todo.
LEMMA TodoFacts ==
    ASSUME todo \in Seq(Call), todo # <<>>
    PROVE  /\ Head(todo) \in Call /\ Head(todo) = todo[1]
           /\ Tail(todo) \in Seq(Call) /\ Len(Tail(todo)) = Len(todo) - 1
           /\ \A i \in 1 .. Len(todo) - 1 : Tail(todo)[i] = todo[i + 1]
           /\ \A a \in OtherOps : <<<<a>>>> \o Tail(todo) \in Seq(Call)
           /\ \A a, b \in OtherOps : <<<<a>>, <<b>>>> \o Tail(todo) \in Seq(Call)
           /\ \A a, b \in OtherOps : <<<<a>>, <<b>>>> \o todo \in Seq(Call)
           /\ SubSeq(todo, 3, Len(todo)) \in Seq(Call)
BY CallNames

\* How much a write takes at a time.
LEMMA WriteSomeTakes ==
    ASSUME TypeOK, WriteSome
    PROVE  \E n \in Nat : /\ n >= 1 /\ n <= Room /\ n <= Len(write.rest)
                          /\ sock' = [sock EXCEPT !.sent = @ \o SubSeq(write.rest, 1, n),
                                                  !.unread = @ + n]
                          /\ write' = [nwrote |-> write.nwrote + n,
                                       rest |-> SubSeq(write.rest, n + 1, Len(write.rest))]
<1>1. Room \in Int /\ Room >= 1 /\ Len(write.rest) \in Nat /\ Len(write.rest) >= 1
  <2>1. sock.unread \in Int /\ write.rest \in Content /\ SendBuffer \in Nat
    BY ConnectionAssumption DEF TypeOK
  <2> QED
    BY <2>1 DEF WriteSome, Room, Content
<1> DEFINE n == IF Room < Len(write.rest) THEN Room ELSE Len(write.rest)
<1>2. n \in Nat /\ n >= 1 /\ n <= Room /\ n <= Len(write.rest)
  BY <1>1
<1> QED
  BY <1>2 DEF WriteSome

LEMMA KeepTypes ==
    ASSUME TypeOK, NEW data \in Content, Keep(data)
    PROVE  /\ outputBuffer_' \in Content /\ events_' \in SUBSET {"read", "write"}
           /\ index' \in {"kNew", "kAdded", "kDeleted"} /\ pending' \in Seq(Functor)
<1>1. outputBuffer_' \in Content
  BY DEF Keep, TypeOK, Content
<1>2. events_' \in SUBSET {"read", "write"} /\ index' \in {"kNew", "kAdded", "kDeleted"}
  BY DEF Keep, TypeOK, Enable
<1>3. pending' \in Seq(Functor)
  BY IfFunctor DEF Keep, TypeOK, FunctorOps
<1> QED
  BY <1>1, <1>2, <1>3

\* What sendInLoop may change.
SendTypes == /\ outputBuffer_' \in Content /\ events_' \in SUBSET {"read", "write"}
             /\ index' \in {"kNew", "kAdded", "kDeleted"} /\ pending' \in Seq(Functor)
             /\ todo' \in Seq(Call) /\ accepted' \in Content
             /\ write' \in [nwrote : Nat, rest : Content] /\ (write' # NoWrite => At("write")')

LEMMA SendKeepsTypes ==
    ASSUME TypeOK, write = NoWrite, NEW m \in Msgs \cup {Garbage}, NEW rest \in Seq(Call),
           SendInLoop(Bytes(m), rest)
    PROVE  SendTypes
<1>1. Bytes(m) \in Content /\ accepted \o Bytes(m) \in Content
  BY BytesFacts DEF TypeOK, Content
<1>2. <<"write">> \in Call /\ <<"sent">> \in Call
  BY CallNames DEF OtherOps
<1>3. CASE state_ = "kDisconnected"
  BY <1>3 DEF SendInLoop, TypeOK, SendTypes
<1>4. CASE state_ # "kDisconnected" /\ "write" \notin events_ /\ outputBuffer_ = <<>>
  <2>1. todo' = <<<<"write">>, <<"sent">>>> \o rest /\ write' = [nwrote |-> 0, rest |-> Bytes(m)]
        /\ accepted' = accepted \o Bytes(m) /\ UNCHANGED <<outputBuffer_, events_, index, pending>>
    BY <1>4 DEF SendInLoop
  <2>2. todo' \in Seq(Call) /\ At("write")'
    BY <1>2, <2>1 DEF At
  <2> QED
    BY <1>1, <2>1, <2>2 DEF TypeOK, SendTypes
<1>5. CASE state_ # "kDisconnected" /\ ("write" \in events_ \/ outputBuffer_ # <<>>)
  <2>1. Keep(Bytes(m)) /\ todo' = rest /\ accepted' = accepted \o Bytes(m) /\ write' = write
    BY <1>5 DEF SendInLoop
  <2> QED
    BY <1>1, <2>1, KeepTypes DEF TypeOK, SendTypes
<1> QED
  BY <1>3, <1>4, <1>5

LEMMA GoesTypes ==
    ASSUME TypeOK, NEW t \in Threads, NEW from, NEW to \in ThreadPoint, Goes(t, from, to)
    PROVE  thr' \in [Threads -> ThreadPoint]
BY DEF TypeOK, Goes

LEMMA TypeInit == Init => TypeOK
<1> SUFFICES ASSUME Init PROVE TypeOK
  OBVIOUS
<1>1. <<"connectEstablished">> \in Functor /\ <<"connectEstablished">> \in Call
  BY CallNames DEF FunctorOps
<1>2. todo \in Seq(Call) /\ pending \in Seq(Functor) /\ (phase = "poll" => todo = <<>>)
  <2>1. CASE SingleLoop
    <3>1. phase = "handle" /\ todo = <<<<"connectEstablished">>>> /\ pending = <<>>
      BY <2>1 DEF Init
    <3> QED
      BY <1>1, <3>1
  <2>2. CASE ~SingleLoop
    <3>1. todo = <<>> /\ pending = <<<<"connectEstablished">>>>
      BY <2>2 DEF Init
    <3> QED
      BY <1>1, <3>1
  <2> QED
    BY <2>1, <2>2
<1>3. /\ thr \in [Threads -> ThreadPoint] /\ sentBy \in [Threads \cup {Owner} -> SUBSET Msgs]
      /\ promised \in SUBSET Msgs
  BY DEF Init, ThreadPoint
<1>4. /\ sock \in [in : Nat, more : Nat, peer : {"open", "fin", "reset"}, err : BOOLEAN,
                   shut : BOOLEAN, sent : Content, unread : 0..SendBuffer]
      /\ outputBuffer_ \in Content /\ accepted \in Content
  BY ConnectionAssumption DEF Init, Constructed, Content
<1>5. write = NoWrite /\ write \in [nwrote : Nat, rest : Content]
  BY DEF Init, NoWrite, Content
<1>6. /\ state_ \in State /\ events_ \in SUBSET {"read", "write"} /\ index = "kNew"
      /\ connections_ \in BOOLEAN /\ mainPending \in Nat /\ serverAlive \in BOOLEAN
      /\ phase \in {"poll", "handle", "run"} /\ functors \in Seq(Functor)
      /\ next \in 1 .. Len(functors) + 1 /\ downs \in Nat /\ upcall = "none"
  BY DEF Init, Constructed, State
<1> QED
  BY <1>2, <1>3, <1>4, <1>5, <1>6 DEF TypeOK, LoopGone

LEMMA TypeStep == TypeOK /\ [Next]_vars => TypeOK'
<1> SUFFICES ASSUME TypeOK, [Next]_vars PROVE TypeOK'
  OBVIOUS
<1> USE DEF connVars, serverVars, queueVars, loopVars, historyVars, Return, ThenDo, Doing, LoopGone
<1>t. todo # <<>> => /\ Tail(todo) \in Seq(Call)
                     /\ \A a \in OtherOps : <<<<a>>>> \o Tail(todo) \in Seq(Call)
                     /\ \A a, b \in OtherOps : <<<<a>>, <<b>>>> \o Tail(todo) \in Seq(Call)
                     /\ \A a, b \in OtherOps : <<<<a>>, <<b>>>> \o todo \in Seq(Call)
                     /\ SubSeq(todo, 3, Len(todo)) \in Seq(Call)
  BY TodoFacts DEF TypeOK
<1>u. UNCHANGED vars => TypeOK'
  BY DEF TypeOK, vars, At
<1>1. PollIdle => TypeOK'
  BY DEF PollIdle, TypeOK, At
<1>2. PollReport => TypeOK'
  <2> SUFFICES ASSUME PollReport PROVE TypeOK'
    OBVIOUS
  <2>1. todo' \in Seq(Call)
    <3>1. /\ If(Hup /\ ~In, "handleClose") \in Seq(Call) /\ If(Err, "handleError") \in Seq(Call)
          /\ If(In, "handleRead") \in Seq(Call) /\ If(Out, "handleWrite") \in Seq(Call)
      BY IfCall DEF OtherOps
    <3> QED
      BY <3>1 DEF PollReport
  <2>2. write = NoWrite
    BY DEF TypeOK, At, PollReport
  <2> QED
    BY <2>1, <2>2 DEF PollReport, TypeOK
<1>3. Swap => TypeOK'
  BY DEF Swap, TypeOK, At
<1>4. RunFunctor => TypeOK'
  BY CallNames DEF RunFunctor, TypeOK, At
<1>5. EndFunctors => TypeOK'
  BY DEF EndFunctors, TypeOK, At
<1>l. LeaveLoop => TypeOK'
  <2> SUFFICES ASSUME LeaveLoop PROVE TypeOK'
    OBVIOUS
  <2>1. /\ todo' = <<>> /\ pending' = <<>> /\ functors' = <<>> /\ next' = 1 /\ phase' = "left"
        /\ write' = NoWrite
    BY DEF LeaveLoop, TypeOK, At
  <2>2. pending' \in Seq(Functor) /\ functors' \in Seq(Functor) /\ todo' \in Seq(Call)
        /\ next' \in 1 .. Len(functors') + 1
    BY <2>1
  <2> QED
    BY <2>1, <2>2 DEF LeaveLoop, TypeOK, At
<1>6. ConnectEstablished => TypeOK'
  BY <1>t DEF ConnectEstablished, TypeOK, At, Enable, State, OtherOps
<1>7. ConnectDistroyed => TypeOK'
  <2> SUFFICES ASSUME ConnectDistroyed PROVE TypeOK'
    OBVIOUS
  <2>1. todo' \in Seq(Call)
    <3>1. \/ todo' = <<<<"remove">>>> \o Tail(todo)
          \/ todo' = <<<<"disconnect">>, <<"remove">>>> \o Tail(todo)
      BY DistroyCalls DEF ConnectDistroyed
    <3> QED
      BY <1>t, <3>1 DEF ConnectDistroyed, At, OtherOps
  <2>2. write = NoWrite
    BY DEF TypeOK, At, ConnectDistroyed
  <2> QED
    BY <2>1, <2>2 DEF ConnectDistroyed, TypeOK
<1>d. Disconnect => TypeOK'
  BY <1>t DEF Disconnect, TypeOK, At, Enable, State, OtherOps
<1>8. RemoveChannel => TypeOK'
  BY <1>t DEF RemoveChannel, TypeOK, At
<1>9. HandleRead => TypeOK'
  <2> SUFFICES ASSUME HandleRead PROVE TypeOK'
    OBVIOUS
  <2>1. todo' \in Seq(Call)
    BY <1>t DEF HandleRead, At, OtherOps
  <2>2. write = NoWrite
    BY DEF TypeOK, At, HandleRead
  <2>3. PICK n \in 1..sock.in : sock' = [sock EXCEPT !.in = @ - n]
    BY DEF HandleRead
  <2>4. sock.in \in Nat /\ sock.in - n \in Nat
    BY <2>3 DEF TypeOK
  <2> QED
    BY <2>1, <2>2, <2>3, <2>4 DEF HandleRead, TypeOK
<1>10. HandleError => TypeOK'
  BY <1>t DEF HandleError, TypeOK, At, OtherOps
<1>11. HandleClose => TypeOK'
  BY <1>t DEF HandleClose, TypeOK, At, OtherOps, State
<1>12. CloseCallback => TypeOK'
  <2> SUFFICES ASSUME CloseCallback PROVE TypeOK'
    OBVIOUS
  <2>1. todo' \in Seq(Call) /\ write = NoWrite
    BY <1>t DEF CloseCallback, At, TypeOK
  <2>2. pending' \in Seq(Functor) /\ connections_' \in BOOLEAN /\ mainPending' \in Nat
    <3>1. /\ pending \in Seq(Functor) /\ mainPending \in Nat
          /\ <<"connectDistroyed">> \in Functor
      BY CallNames DEF TypeOK, FunctorOps
    <3>2. /\ pending' \in {pending, Append(pending, <<"connectDistroyed">>)}
          /\ mainPending' \in {mainPending, mainPending + 1}
      BY DEF CloseCallback
    <3>3. Append(pending, <<"connectDistroyed">>) \in Seq(Functor)
      BY <3>1
    <3>4. connections_' \in BOOLEAN
      BY DEF CloseCallback, TypeOK
    <3> QED
      BY <3>1, <3>2, <3>3, <3>4
  <2> QED
    BY <2>1, <2>2 DEF CloseCallback, TypeOK
<1>13. HandleWrite => TypeOK'
  <2> SUFFICES ASSUME HandleWrite PROVE TypeOK'
    OBVIOUS
  <2>1. todo' \in Seq(Call)
    BY <1>t DEF HandleWrite, At, OtherOps
  <2>2. write' \in [nwrote : Nat, rest : Content] /\ (write' # NoWrite => At("write")')
    BY <1>t DEF HandleWrite, TypeOK, At
  <2> QED
    BY <2>1, <2>2 DEF HandleWrite, TypeOK
<1>14. WriteSome => TypeOK'
  <2> SUFFICES ASSUME WriteSome PROVE TypeOK'
    OBVIOUS
  <2>1. PICK n \in Nat : /\ n >= 1 /\ n <= Room /\ n <= Len(write.rest)
                         /\ sock' = [sock EXCEPT !.sent = @ \o SubSeq(write.rest, 1, n),
                                                 !.unread = @ + n]
                         /\ write' = [nwrote |-> write.nwrote + n,
                                      rest |-> SubSeq(write.rest, n + 1, Len(write.rest))]
    BY WriteSomeTakes
  <2>2. /\ SubSeq(write.rest, 1, n) \in Content
        /\ SubSeq(write.rest, n + 1, Len(write.rest)) \in Content
        /\ sock.sent \o SubSeq(write.rest, 1, n) \in Content
    <3>1. write.rest \in Content /\ sock.sent \in Content
      BY DEF TypeOK
    <3>2. /\ SubSeq(write.rest, 1, n) \in Content
          /\ SubSeq(write.rest, n + 1, Len(write.rest)) \in Content
      BY <2>1, <3>1 DEF Content
    <3> QED
      BY <3>1, <3>2 DEF Content
  <2>3. sock.unread + n \in 0..SendBuffer /\ write.nwrote + n \in Nat
    <3>1. sock.unread \in 0..SendBuffer /\ write.nwrote \in Nat /\ SendBuffer \in Nat
      BY ConnectionAssumption DEF TypeOK
    <3> QED
      BY <2>1, <3>1 DEF Room
  <2>4. /\ sock' \in [in : Nat, more : Nat, peer : {"open", "fin", "reset"}, err : BOOLEAN,
                      shut : BOOLEAN, sent : Content, unread : 0..SendBuffer]
        /\ write' \in [nwrote : Nat, rest : Content]
    BY <2>1, <2>2, <2>3 DEF TypeOK
  <2> QED
    BY <2>4 DEF WriteSome, TypeOK, At
<1>15. Sent => TypeOK'
  <2> SUFFICES ASSUME Sent PROVE TypeOK'
    OBVIOUS
  <2>1. todo' \in Seq(Call) /\ write' = NoWrite /\ write' \in [nwrote : Nat, rest : Content]
    BY <1>t DEF Sent, At, NoWrite, Content
  <2>2. /\ outputBuffer_' \in Content /\ events_' \in SUBSET {"read", "write"}
        /\ index' \in {"kNew", "kAdded", "kDeleted"} /\ pending' \in Seq(Functor)
        /\ accepted' \in Content
    <3>1. CASE write.rest = <<>>
      <4>1. /\ pending' = pending \o If("writeComplete" \in Callbacks, "writeComplete")
            /\ UNCHANGED <<outputBuffer_, events_, index, accepted>>
        BY <3>1 DEF Sent
      <4>2. pending \in Seq(Functor) /\ "writeComplete" \in FunctorOps
        BY DEF TypeOK, FunctorOps
      <4>3. pending' \in Seq(Functor)
        BY <4>1, <4>2, IfFunctor
      <4> QED
        BY <4>1, <4>3 DEF TypeOK
    <3>2. CASE write.rest # <<>> /\ ~Fault
      BY <3>2, KeepTypes DEF Sent, TypeOK
    <3>3. CASE write.rest # <<>> /\ Fault
      <4>1. /\ accepted' = SubSeq(accepted, 1, Len(accepted) - Len(write.rest))
            /\ UNCHANGED <<outputBuffer_, events_, index, pending>>
        BY <3>3 DEF Sent
      <4>2. accepted \in Content /\ Len(write.rest) \in Nat
        BY DEF TypeOK, Content
      <4>3. accepted' \in Content
        BY <4>1, <4>2 DEF Content
      <4> QED
        BY <4>1, <4>3 DEF TypeOK
    <3> QED
      BY <3>1, <3>2, <3>3
  <2> QED
    BY <2>1, <2>2 DEF Sent, TypeOK
<1>16. Drained => TypeOK'
  <2> SUFFICES ASSUME Drained PROVE TypeOK'
    OBVIOUS
  <2>1. todo' \in Seq(Call) /\ write' = NoWrite /\ write' \in [nwrote : Nat, rest : Content]
    BY <1>t DEF Drained, At, NoWrite, Content
  <2>2. outputBuffer_' \in Content
    BY DEF Drained, TypeOK
  <2>3. events_' \in SUBSET {"read", "write"} /\ index' \in {"kNew", "kAdded", "kDeleted"}
    BY DEF Drained, TypeOK, Enable
  <2>4. pending' \in Seq(Functor)
    <3>1. pending' \in {pending, pending \o If("writeComplete" \in Callbacks, "writeComplete")}
      BY DEF Drained
    <3>2. pending \in Seq(Functor) /\ "writeComplete" \in FunctorOps
      BY DEF TypeOK, FunctorOps
    <3> QED
      BY <3>1, <3>2, IfFunctor
  <2>5. \/ UNCHANGED sock
        \/ \E b \in BOOLEAN : sock' = [sock EXCEPT !.shut = b]
    BY DEF Drained, FinishShutdown, ShutdownInLoop, TypeOK
  <2> QED
    BY <2>1, <2>2, <2>3, <2>4, <2>5 DEF Drained, TypeOK
<1>17. RunSend => TypeOK'
  <2> SUFFICES ASSUME RunSend PROVE TypeOK'
    OBVIOUS
  <2>1. Head(todo)[2] \in Msgs /\ Tail(todo) \in Seq(Call) /\ write = NoWrite
    BY TodoFacts, CallNames DEF RunSend, At, TypeOK
  <2>2. PICK m \in Msgs \cup {Garbage} : SendInLoop(Bytes(m), Tail(todo))
    BY <2>1 DEF RunSend
  <2>3. SendTypes
    BY <2>1, <2>2, SendKeepsTypes
  <2> QED
    BY <2>3 DEF RunSend, TypeOK, SendTypes
<1>18. RunShutdown => TypeOK'
  BY <1>t DEF RunShutdown, TypeOK, At, ShutdownInLoop
<1>19. RunCallback => TypeOK'
  BY <1>t DEF RunCallback, TypeOK, At, OtherOps
<1>20. UserReturn => TypeOK'
  BY <1>t DEF UserReturn, TypeOK, At
<1>21. ASSUME NEW m \in Msgs, UserSend(m) PROVE TypeOK'
  <2>1. todo \in Seq(Call) /\ write = NoWrite
    BY <1>21 DEF UserSend, At, TypeOK
  <2>2. SendTypes
    BY <1>21, <2>1, SendKeepsTypes DEF UserSend
  <2>3. sentBy' \in [Threads \cup {Owner} -> SUBSET Msgs]
    BY <1>21 DEF UserSend, TypeOK
  <2> QED
    BY <1>21, <2>2, <2>3 DEF UserSend, TypeOK, SendTypes
<1>22. UserShutdown => TypeOK'
  BY <1>t DEF UserShutdown, TypeOK, At, ShutdownInLoop, State
<1>23. ASSUME NEW t \in Threads, ThreadStep(t) \/ HandOver(t) \/ ShutdownCheck(t) \/ Release(t)
                                 \/ \E m \in Msgs : SendCheck(t, m)
       PROVE  TypeOK'
  <2>1. CASE HandOver(t) \/ ShutdownCheck(t) \/ Release(t)
    <3>1. /\ thr' \in [Threads -> ThreadPoint]
          /\ UNCHANGED <<connVars, sock, serverVars, loopVars, historyVars>>
      BY <2>1, GoesTypes DEF HandOver, ShutdownCheck, Release, ThreadPoint, Goes
    <3> QED
      BY <3>1 DEF TypeOK, At
  <2>2. CASE ShutdownSet(t)
    <3>1. /\ thr' \in [Threads -> ThreadPoint] /\ state_' = "kDisconnecting"
          /\ promised' \in {promised, sentBy[t]}
          /\ UNCHANGED <<events_, index, outputBuffer_, sock, serverVars, loopVars, accepted,
                         sentBy, downs, upcall>>
      BY <2>2, GoesTypes DEF ShutdownSet, ThreadPoint
    <3> QED
      BY <3>1 DEF TypeOK, At, State
  <2>3. ASSUME NEW m \in Msgs, SendCheck(t, m)
        PROVE  TypeOK'
    <3>1. /\ thr' \in [Threads -> ThreadPoint]
          /\ sentBy' = [sentBy EXCEPT ![t] = @ \cup {m}]
          /\ UNCHANGED <<connVars, sock, serverVars, loopVars, accepted, promised, downs, upcall>>
      BY <2>3, GoesTypes DEF SendCheck, ThreadPoint, SendOf
    <3> QED
      BY <3>1 DEF TypeOK, At
  <2>4. ASSUME NEW f \in Functor, Queue(f), thr' \in [Threads -> ThreadPoint],
               UNCHANGED <<connVars, sock, serverVars, todo, functors, next, write, historyVars>>
        PROVE  TypeOK'
    <3>0. pending \in Seq(Functor) /\ Append(pending, f) \in Seq(Functor)
      BY <2>4 DEF TypeOK
    <3>1. pending' \in Seq(Functor) /\ phase' \in {phase, "misused"}
      BY <2>4, <3>0 DEF Queue
    <3>2. phase' = "misused" => todo = <<>>
      BY <2>4 DEF TypeOK, Queue
    <3> QED
      BY <2>4, <3>1, <3>2 DEF TypeOK, At
  <2>5. CASE ShutdownQueue(t)
    <3>1. <<"shutdown">> \in Functor
      BY CallNames DEF FunctorOps
    <3>2. thr' \in [Threads -> ThreadPoint]
      BY <2>5, GoesTypes DEF ShutdownQueue, ThreadPoint
    <3> QED
      BY <2>4, <2>5, <3>1, <3>2 DEF ShutdownQueue
  <2>6. ASSUME NEW m \in Msgs, SendQueue(t, m)
        PROVE  TypeOK'
    <3>1. thr' \in [Threads -> ThreadPoint]
      BY <2>6, GoesTypes DEF SendQueue, Queue, ThreadPoint
    <3> QED
      BY <2>4, <2>6, <3>1, CallNames DEF SendQueue
  <2> QED
    BY <1>23, <2>1, <2>2, <2>3, <2>5, <2>6 DEF ThreadStep
<1>24. RemoveConnectionInLoop => TypeOK'
  <2> SUFFICES ASSUME RemoveConnectionInLoop PROVE TypeOK'
    OBVIOUS
  <2>1. pending' \in Seq(Functor) /\ mainPending' \in Nat
    BY CallNames DEF RemoveConnectionInLoop, TypeOK, FunctorOps
  <2>2. UNCHANGED <<phase, todo, functors, next, write, thr, sock, serverAlive>>
    BY DEF RemoveConnectionInLoop
  <2> QED
    BY <2>1, <2>2 DEF RemoveConnectionInLoop, TypeOK, At
<1>25. DestroyServer => TypeOK'
  <2> SUFFICES ASSUME DestroyServer PROVE TypeOK'
    OBVIOUS
  <2>1. pending' \in Seq(Functor)
    BY IfFunctor DEF DestroyServer, EndBase, TypeOK, FunctorOps
  <2> QED
    BY <2>1 DEF DestroyServer, EndBase, TypeOK, At
<1>e. EndBase => TypeOK'
  BY DEF EndBase, TypeOK, At
<1>26. Peer => TypeOK'
  <2> SUFFICES ASSUME Peer PROVE TypeOK'
    OBVIOUS
  <2> DEFINE Sock == [in : Nat, more : Nat, peer : {"open", "fin", "reset"}, err : BOOLEAN,
                      shut : BOOLEAN, sent : Content, unread : 0..SendBuffer]
  <2>0. sock \in Sock /\ 0 \in 0..SendBuffer
    BY ConnectionAssumption DEF TypeOK
  <2>1. sock' \in Sock
    <3>1. PeerSends => sock' \in Sock
      <4>1. sock.in + 1 \in Nat /\ (sock.more > 0 => sock.more - 1 \in Nat)
        BY <2>0
      <4> QED
        BY <2>0, <4>1 DEF PeerSends
    <3>2. PeerReads \/ PeerCloses \/ PeerResets => sock' \in Sock
      BY <2>0 DEF PeerReads, PeerCloses, PeerResets
    <3> QED
      BY <3>1, <3>2 DEF Peer
  <2> QED
    BY <2>1 DEF Peer, TypeOK, At
<1> QED
  BY <1>u, <1>1, <1>2, <1>3, <1>4, <1>5, <1>6, <1>7, <1>8, <1>9, <1>10, <1>11, <1>12, <1>13,
     <1>14, <1>15, <1>16, <1>17, <1>18, <1>19, <1>20, <1>21, <1>22, <1>23, <1>24, <1>25, <1>26,
     <1>d, <1>e, <1>l
  DEF Next, LoopStep, Handlers, ThreadStep

------------------------------------------------------------------------------
(* The calls the loop's thread is in.                                        *)

Plain == OtherOps \ {"write", "sent", "drained", "disconnect"}
AllPlain(q) == \A i \in DOMAIN q : q[i][1] \in Plain

\* What is below the innermost call, or below a write and what waits for it.
LEMMA BelowIsPlain ==
    ASSUME TypeOK, StackInv, todo # <<>>
    PROVE  /\ ~At("write") => AllPlain(Tail(todo))
           /\ At("write") => /\ Len(todo) >= 2 /\ todo[2][1] \in {"sent", "drained"}
                             /\ AllPlain(SubSeq(todo, 3, Len(todo)))
           /\ Head(todo)[1] \in Plain => AllPlain(todo)
<1>1. /\ todo \in Seq(Call) /\ Len(todo) \in Nat /\ Len(todo) >= 1 /\ Head(todo) = todo[1]
      /\ \A i \in 1..Len(todo) : todo[i] \in Call
  BY DEF TypeOK
<1>2. \A i \in 1..Len(todo) : i > 1 => todo[i][1] \notin FunctorOps \cup {"send", "write"}
  BY <1>1 DEF StackInv
<1>3. \A i \in 1..Len(todo) : i > 1 => todo[i][1] \in OtherOps
  BY <1>1, <1>2 DEF Call, Functor, SendOf
<1>4. ~At("write") => \A i \in 1..Len(todo) : i > 1 => todo[i][1] \in Plain
  BY <1>1, <1>2, <1>3 DEF StackInv, At, Plain
<1>5. \A i \in 1..Len(todo) : i > 2 => todo[i][1] \in Plain
  BY <1>1, <1>2, <1>3 DEF StackInv, Plain
<1>6. At("write") => Len(todo) >= 2 /\ todo[2][1] \in {"sent", "drained"}
  BY <1>1 DEF StackInv, At
<1>7. \A i \in 1 .. Len(todo) - 1 : Tail(todo)[i] = todo[i + 1]
  BY <1>1
<1>8. /\ Len(todo) >= 2 => DOMAIN SubSeq(todo, 3, Len(todo)) = 1 .. Len(todo) - 2
      /\ \A i \in 1 .. Len(todo) - 2 : SubSeq(todo, 3, Len(todo))[i] = todo[i + 2]
  BY <1>1
<1>9. ~At("write") => AllPlain(Tail(todo))
  BY <1>1, <1>4, <1>7 DEF AllPlain
<1>10. At("write") => AllPlain(SubSeq(todo, 3, Len(todo)))
  BY <1>1, <1>5, <1>6, <1>8 DEF AllPlain
<1>11. Head(todo)[1] \in Plain => AllPlain(todo)
  BY <1>1, <1>4 DEF AllPlain, At, Plain
<1> QED
  BY <1>6, <1>9, <1>10, <1>11

LEMMA PlainOver ==
    ASSUME NEW q \in Seq(Call), AllPlain(q), NEW a \in Plain, NEW b \in Plain
    PROVE  AllPlain(<<<<a>>>> \o q) /\ AllPlain(<<<<a>>, <<b>>>> \o q)
<1>1. /\ DOMAIN (<<<<a>>>> \o q) = 1 .. Len(q) + 1
      /\ \A i \in 1 .. Len(q) + 1 : (<<<<a>>>> \o q)[i] = IF i = 1 THEN <<a>> ELSE q[i - 1]
  OBVIOUS
<1>2. /\ DOMAIN (<<<<a>>, <<b>>>> \o q) = 1 .. Len(q) + 2
      /\ \A i \in 1 .. Len(q) + 2 :
           (<<<<a>>, <<b>>>> \o q)[i] = IF i = 1 THEN <<a>> ELSE IF i = 2 THEN <<b>> ELSE q[i - 2]
  OBVIOUS
<1> QED
  BY <1>1, <1>2 DEF AllPlain

LEMMA IfPlain ==
    ASSUME NEW cond, NEW op \in Plain
    PROVE  If(cond, op) \in Seq(Call) /\ AllPlain(If(cond, op))
BY IfCall DEF If, AllPlain, Plain

LEMMA PlainConcat ==
    ASSUME NEW p \in Seq(Call), NEW q \in Seq(Call), AllPlain(p), AllPlain(q)
    PROVE  p \o q \in Seq(Call) /\ AllPlain(p \o q)
<1>1. /\ DOMAIN (p \o q) = 1 .. Len(p) + Len(q)
      /\ \A i \in 1 .. Len(p) + Len(q) :
            (p \o q)[i] = IF i <= Len(p) THEN p[i] ELSE q[i - Len(p)]
  OBVIOUS
<1> QED
  BY <1>1 DEF AllPlain

LEMMA TwoIfs ==
    ASSUME NEW c, NEW d, NEW a \in OtherOps, NEW b \in OtherOps
    PROVE  /\ If(c, a) \o If(d, b) \in Seq(Call)
           /\ \A i \in DOMAIN (If(c, a) \o If(d, b)) :
                 LET op == (If(c, a) \o If(d, b))[i][1]
                 IN  (op = a /\ i = 1 /\ If(c, a) # <<>>) \/ op = b
<1>1. CASE c /\ d
  BY <1>1, CallNames DEF If
<1>2. CASE c /\ ~d
  <2>1. If(c, a) \o If(d, b) = <<<<a>>>> /\ If(c, a) = <<<<a>>>> /\ <<a>> \in Call
    BY <1>2, CallNames DEF If
  <2> QED
    BY <2>1
<1>3. CASE ~c /\ d
  BY <1>3, CallNames DEF If
<1>4. CASE ~c /\ ~d
  BY <1>4, CallNames DEF If
<1> QED
  BY <1>1, <1>2, <1>3, <1>4

\* The handlers that the loop calls for one report.
LEMMA ReportCalls ==
    ASSUME PollReport
    PROVE  /\ \A i \in DOMAIN todo' :
                 LET op == todo'[i][1]
                 IN  \/ op = "handleClose" /\ Hup /\ ~In
                     \/ op = "handleRead" /\ In
                     \/ op \in {"handleError", "handleWrite"}
           /\ \A i, j \in DOMAIN todo' :
                 todo'[i][1] = "handleRead" /\ todo'[j][1] = "handleRead" => i = j
<1> DEFINE p == If(Hup /\ ~In, "handleClose") \o If(Err, "handleError")
           q == If(In, "handleRead") \o If(Out, "handleWrite")
<1>1. /\ p \in Seq(Call)
      /\ \A i \in DOMAIN p : (p[i][1] = "handleClose" /\ Hup /\ ~In) \/ p[i][1] = "handleError"
  <2> DEFINE c == Hup /\ ~In
  <2>1. If(c, "handleClose") # <<>> => c
    BY DEF If
  <2>2. "handleClose" \in OtherOps /\ "handleError" \in OtherOps
    BY DEF OtherOps
  <2> HIDE DEF c
  <2>3. /\ If(c, "handleClose") \o If(Err, "handleError") \in Seq(Call)
        /\ \A i \in DOMAIN (If(c, "handleClose") \o If(Err, "handleError")) :
              LET op == (If(c, "handleClose") \o If(Err, "handleError"))[i][1]
              IN  (op = "handleClose" /\ i = 1 /\ If(c, "handleClose") # <<>>) \/ op = "handleError"
    BY <2>2, TwoIfs
  <2> QED
    BY <2>1, <2>3 DEF c
<1>2. /\ q \in Seq(Call)
      /\ \A i \in DOMAIN q : (q[i][1] = "handleRead" /\ i = 1 /\ In) \/ q[i][1] = "handleWrite"
  <2>1. If(In, "handleRead") # <<>> => In
    BY DEF If
  <2>2. "handleRead" \in OtherOps /\ "handleWrite" \in OtherOps
    BY DEF OtherOps
  <2>3. /\ If(In, "handleRead") \o If(Out, "handleWrite") \in Seq(Call)
        /\ \A i \in DOMAIN (If(In, "handleRead") \o If(Out, "handleWrite")) :
              LET op == (If(In, "handleRead") \o If(Out, "handleWrite"))[i][1]
              IN  (op = "handleRead" /\ i = 1 /\ If(In, "handleRead") # <<>>) \/ op = "handleWrite"
    BY <2>2, TwoIfs
  <2> QED
    BY <2>1, <2>3
<1>3. /\ If(Hup /\ ~In, "handleClose") \in Seq(Call) /\ If(Err, "handleError") \in Seq(Call)
      /\ If(In, "handleRead") \in Seq(Call) /\ If(Out, "handleWrite") \in Seq(Call)
  BY IfCall DEF OtherOps
<1>4. todo' = p \o q
  <2>1. p \in Seq(Call)
    BY <1>3
  <2> HIDE DEF p
  <2>2. (p \o If(In, "handleRead")) \o If(Out, "handleWrite")
         = p \o (If(In, "handleRead") \o If(Out, "handleWrite"))
    BY <1>3, <2>1, ConcatAssociative
  <2> QED
    BY <2>2 DEF PollReport, p
<1> HIDE DEF p, q
<1>5. /\ DOMAIN (todo') = 1 .. Len(p) + Len(q)
      /\ \A i \in 1 .. Len(p) + Len(q) : todo'[i] = IF i <= Len(p) THEN p[i] ELSE q[i - Len(p)]
  BY <1>1, <1>2, <1>4
<1>6. ASSUME NEW i \in DOMAIN todo'
      PROVE  \/ todo'[i][1] = "handleClose" /\ Hup /\ ~In
             \/ todo'[i][1] = "handleRead" /\ In /\ i = Len(p) + 1
             \/ todo'[i][1] \in {"handleError", "handleWrite"}
  <2>1. CASE i <= Len(p)
    BY <1>1, <1>5, <2>1
  <2>2. CASE ~(i <= Len(p))
    <3>1. i - Len(p) \in DOMAIN q /\ todo'[i] = q[i - Len(p)] /\ i \in Nat /\ Len(p) \in Nat
      BY <1>1, <1>2, <1>5, <2>2
    <3> QED
      BY <1>2, <3>1
  <2> QED
    BY <2>1, <2>2
<1> QED
  BY <1>6

LEMMA ReportIsPlain == ASSUME PollReport PROVE AllPlain(todo')
BY ReportCalls DEF AllPlain, Plain, OtherOps

LEMMA PlainStack == ASSUME AllPlain(todo)' PROVE StackInv'
BY DEF AllPlain, StackInv, Plain, OtherOps, FunctorOps

\* connectDistroyed is on its own, and disconnect on top of the rest of it.
LEMMA DistroyStack ==
    ASSUME TypeOK, StackInv
    PROVE  /\ ConnectDistroyed => \/ todo' = <<<<"remove">>>> /\ state_ # "kConnected"
                                  \/ /\ todo' = <<<<"disconnect">>, <<"remove">>>>
                                     /\ state_ = "kConnected"
           /\ ConnectDistroyed => Len(todo) = 1 /\ todo[1][1] = "connectDistroyed"
           /\ Disconnect => /\ Len(todo) = 2 /\ todo[1][1] = "disconnect" /\ todo[2][1] = "remove"
                            /\ Len(todo') = 2 /\ todo'[1] = <<"user">> /\ todo'[2] = todo[2]
<1>1. todo \in Seq(Call) /\ DOMAIN todo = 1..Len(todo) /\ (todo # <<>> => Head(todo) = todo[1])
  BY DEF TypeOK
<1>2. ASSUME ConnectDistroyed
      PROVE  /\ Len(todo) = 1 /\ todo[1][1] = "connectDistroyed"
             /\ todo' = If(state_ = "kConnected", "disconnect") \o <<<<"remove">>>>
  <2>1. Len(todo) = 1 /\ todo[1][1] = "connectDistroyed"
    BY <1>1, <1>2 DEF ConnectDistroyed, Doing, At, StackInv, FunctorOps
  <2>2. Tail(todo) = <<>>
    <3>1. Tail(todo) \in Seq(Call) /\ Len(Tail(todo)) = 0
      BY <1>1, <2>1
    <3> QED
      BY <3>1, EmptySeq
  <2>3. todo' = (If(state_ = "kConnected", "disconnect") \o <<<<"remove">>>>) \o <<>>
    BY <1>2, <2>2 DEF ConnectDistroyed, ThenDo
  <2>4. If(state_ = "kConnected", "disconnect") \in {<<>>, <<<<"disconnect">>>>}
    BY DEF If
  <2> QED
    BY <2>1, <2>3, <2>4
<1>3. ASSUME Disconnect
      PROVE  /\ Len(todo) = 2 /\ todo[1][1] = "disconnect" /\ todo[2][1] = "remove"
             /\ Len(todo') = 2 /\ todo'[1] = <<"user">> /\ todo'[2] = todo[2]
  <2>1. Len(todo) = 2 /\ todo[1][1] = "disconnect" /\ todo[2][1] = "remove"
    BY <1>1, <1>3 DEF Disconnect, Doing, At, StackInv
  <2>2. todo' = <<<<"user">>>> \o Tail(todo)
    BY <1>3 DEF Disconnect, ThenDo
  <2> QED
    BY <1>1, <2>1, <2>2
<1>5. ASSUME ConnectDistroyed
      PROVE  \/ todo' = <<<<"remove">>>> /\ state_ # "kConnected"
             \/ todo' = <<<<"disconnect">>, <<"remove">>>> /\ state_ = "kConnected"
  <2>1. CASE state_ = "kConnected"
    BY <1>2, <1>5, <2>1 DEF If
  <2>2. CASE state_ # "kConnected"
    BY <1>2, <1>5, <2>2 DEF If
  <2> QED
    BY <2>1, <2>2
<1> QED
  BY <1>2, <1>3, <1>5

\* A write is begun over a plain stack.
LEMMA WriteStack ==
    ASSUME NEW q \in Seq(Call), AllPlain(q), NEW b \in {"sent", "drained"},
           todo' = <<<<"write">>, <<b>>>> \o q
    PROVE  StackInv' /\ Rest(b)'
<1>1. /\ Len(todo') = Len(q) + 2 /\ DOMAIN (todo') = 1 .. Len(q) + 2
      /\ \A i \in 1 .. Len(q) + 2 :
           todo'[i] = IF i = 1 THEN <<"write">> ELSE IF i = 2 THEN <<b>> ELSE q[i - 2]
  OBVIOUS
<1>2. \A i \in 1 .. Len(q) + 2 : i > 2 => todo'[i][1] \in Plain
  BY <1>1 DEF AllPlain
<1>3. todo'[1][1] = "write" /\ todo'[2][1] = b /\ Head(todo') = todo'[1] /\ todo' # <<>>
  BY <1>1
<1>4. \A c \in Plain :
         c \notin FunctorOps \cup {"send", "write", "sent", "drained", "disconnect"}
  BY DEF Plain, OtherOps, FunctorOps
<1>5. /\ "write" \notin FunctorOps \cup {"send", "sent", "drained", "disconnect"}
      /\ b \notin FunctorOps \cup {"send", "write", "disconnect"}
  BY DEF FunctorOps
<1>6. StackInv'
  BY <1>1, <1>2, <1>3, <1>4, <1>5 DEF StackInv
<1> QED
  BY <1>3, <1>6 DEF Rest, At

LEMMA PlainHead == ASSUME AllPlain(todo)' PROVE ~At("write")'
<1>1. "write" \notin Plain
  BY DEF Plain
<1> QED
  BY <1>1 DEF At, AllPlain

LEMMA StackInit == Init => StackInv
BY DEF Init, StackInv, FunctorOps

LEMMA StackStep == TypeOK /\ StackInv /\ [Next]_vars => StackInv'
<1> SUFFICES ASSUME TypeOK, StackInv, [Next]_vars PROVE StackInv'
  OBVIOUS
<1> USE DEF connVars, serverVars, queueVars, loopVars, historyVars, Return, ThenDo, Doing
<1>1. UNCHANGED todo => StackInv'
  BY DEF StackInv
<1>2. ASSUME AllPlain(todo') PROVE StackInv'
  BY <1>2, PlainStack
<1>3. todo \in Seq(Call) /\ (todo # <<>> => Tail(todo) \in Seq(Call))
  BY TodoFacts DEF TypeOK
<1>4. ASSUME todo # <<>>, ~At("write"), AllPlain(Tail(todo)),
             \/ todo' = Tail(todo)
             \/ \E a \in Plain : todo' = <<<<a>>>> \o Tail(todo)
             \/ \E a, b \in Plain : todo' = <<<<a>>, <<b>>>> \o Tail(todo)
      PROVE  StackInv'
  BY <1>2, <1>3, <1>4, PlainOver
<1>5. ASSUME Head(todo)[1] # "write", todo # <<>>
      PROVE  ~At("write") /\ AllPlain(Tail(todo))
  BY <1>5, BelowIsPlain DEF At
<1> HIDE DEF StackInv
<1>6. PollReport => StackInv'
  <2> SUFFICES ASSUME PollReport PROVE StackInv'
    OBVIOUS
  <2> QED
    BY <1>2, ReportIsPlain
<1>7. RunFunctor => StackInv'
  <2> SUFFICES ASSUME RunFunctor PROVE StackInv'
    OBVIOUS
  <2>1. todo' = <<functors[next]>> /\ functors[next] \in Functor
    BY DEF RunFunctor, TypeOK
  <2>2. functors[next][1] \in FunctorOps \cup {"send"}
    BY <2>1, CallNames
  <2> QED
    BY <2>1, <2>2 DEF StackInv, FunctorOps
<1>8. ConnectEstablished \/ HandleRead \/ RunCallback => StackInv'
  BY <1>4, <1>5 DEF ConnectEstablished, HandleRead, RunCallback, At, Plain, OtherOps
<1>9. HandleClose => StackInv'
  BY <1>4, <1>5 DEF HandleClose, At, Plain, OtherOps
<1>d. ConnectDistroyed \/ Disconnect => StackInv'
  BY DistroyStack DEF StackInv, FunctorOps
<1>10. RemoveChannel \/ HandleError \/ CloseCallback \/ RunShutdown \/ UserReturn => StackInv'
  BY <1>4, <1>5 DEF RemoveChannel, HandleError, CloseCallback, RunShutdown, UserReturn, At
<1>11. HandleWrite => StackInv'
  BY <1>3, <1>4, <1>5, WriteStack DEF HandleWrite, At
<1>12. Sent \/ Drained => StackInv'
  BY <1>2, BelowIsPlain DEF Sent, Drained, At
<1>13. ASSUME NEW data, NEW rest \in Seq(Call), AllPlain(rest), SendInLoop(data, rest)
       PROVE  StackInv'
  BY <1>2, <1>13, WriteStack DEF SendInLoop
<1>14. RunSend => StackInv'
  BY <1>3, <1>5, <1>13 DEF RunSend, At
<1>15. ASSUME NEW m \in Msgs, UserSend(m) PROVE StackInv'
  BY <1>3, <1>13, <1>15, BelowIsPlain DEF UserSend, At, Plain, OtherOps
<1>16. ASSUME NEW t \in Threads, ThreadStep(t) \/ HandOver(t) \/ ShutdownCheck(t) \/ Release(t)
                                 \/ \E m \in Msgs : SendCheck(t, m)
       PROVE  StackInv'
  BY <1>1, <1>16 DEF ThreadStep, HandOver, ShutdownCheck, Release, SendCheck, SendQueue, Queue,
                     ShutdownSet, ShutdownQueue
<1> QED
  BY <1>1, <1>6, <1>7, <1>8, <1>9, <1>10, <1>11, <1>12, <1>14, <1>15, <1>16, <1>d
  DEF Next, LoopStep, Handlers, PollIdle, Swap, EndFunctors, LeaveLoop, WriteSome, UserShutdown,
      RemoveConnectionInLoop, DestroyServer, EndBase, Peer, vars

\* The call at i of a stack q was in the stack p, as far from the end.
KeptIn(p, q, i) == LET j == i + Len(p) - Len(q) IN j \in 1..Len(p) /\ q[i] = p[j]
Kept(i) == KeptIn(todo, todo', i)
Follow == {"user", "closeCallback", "write", "sent", "drained"}

\* The ways in which steps replace the first calls of a stack.
Replaced(p, q, a, b) == \/ q = p
                        \/ q = Tail(p)
                        \/ q = <<<<a>>>> \o Tail(p)
                        \/ q = <<<<a>>, <<b>>>> \o Tail(p)
                        \/ q = <<<<a>>, <<b>>>> \o p
                        \/ q = SubSeq(p, 3, Len(p)) /\ Len(p) >= 2

LEMMA KeptFacts ==
    ASSUME NEW p \in Seq(Call), p # <<>>, NEW S, NEW a \in S, NEW b \in S, NEW q, Replaced(p, q, a, b)
    PROVE  \A i \in DOMAIN q : q[i][1] \in S \/ KeptIn(p, q, i)
<1>1. Len(p) \in Nat /\ Len(p) >= 1 /\ DOMAIN p = 1..Len(p)
  OBVIOUS
<1> DEFINE Good(r) == \A i \in DOMAIN r : r[i][1] \in S \/ KeptIn(p, r, i)
<1>2. Good(p)
  BY <1>1 DEF KeptIn
<1>3. Good(Tail(p))
  BY <1>1 DEF KeptIn
<1>4. Good(<<<<a>>>> \o Tail(p))
  <2> DEFINE r == <<<<a>>>> \o Tail(p)
  <2>1. /\ Len(r) = Len(p) /\ DOMAIN r = 1..Len(p)
        /\ \A i \in 1..Len(p) : r[i] = IF i = 1 THEN <<a>> ELSE p[i]
    BY <1>1
  <2> HIDE DEF r
  <2> QED
    BY <1>1, <2>1 DEF KeptIn
<1>5. Good(<<<<a>>, <<b>>>> \o Tail(p))
  <2> DEFINE r == <<<<a>>, <<b>>>> \o Tail(p)
  <2>1. /\ Len(r) = Len(p) + 1 /\ DOMAIN r = 1 .. Len(p) + 1
        /\ \A i \in 1 .. Len(p) + 1 : r[i] = IF i = 1 THEN <<a>> ELSE IF i = 2 THEN <<b>> ELSE p[i - 1]
    BY <1>1
  <2> HIDE DEF r
  <2> QED
    BY <1>1, <2>1 DEF KeptIn
<1>6. Good(<<<<a>>, <<b>>>> \o p)
  <2> DEFINE r == <<<<a>>, <<b>>>> \o p
  <2>1. /\ Len(r) = Len(p) + 2 /\ DOMAIN r = 1 .. Len(p) + 2
        /\ \A i \in 1 .. Len(p) + 2 : r[i] = IF i = 1 THEN <<a>> ELSE IF i = 2 THEN <<b>> ELSE p[i - 2]
    BY <1>1
  <2> HIDE DEF r
  <2> QED
    BY <1>1, <2>1 DEF KeptIn
<1>7. Len(p) >= 2 => Good(SubSeq(p, 3, Len(p)))
  <2> DEFINE r == SubSeq(p, 3, Len(p))
  <2>1. Len(p) >= 2 => /\ Len(r) = Len(p) - 2 /\ DOMAIN r = 1 .. Len(p) - 2
                       /\ \A i \in 1 .. Len(p) - 2 : r[i] = p[i + 2]
    BY <1>1
  <2> HIDE DEF r
  <2> QED
    BY <1>1, <2>1 DEF KeptIn
<1> HIDE DEF Good
<1>8. Good(q)
  BY <1>2, <1>3, <1>4, <1>5, <1>6, <1>7 DEF Replaced
<1> QED
  BY <1>8 DEF Good

LEMMA NewCalls ==
    ASSUME TypeOK, StackInv, [Next]_vars
    PROVE  \/ RunFunctor \/ PollReport
           \/ \A i \in DOMAIN todo' : \/ Kept(i) \/ todo'[i][1] \in Follow
                                      \/ /\ ConnectDistroyed
                                         /\ todo'[i][1] \in {"remove", "disconnect"}
<1> USE DEF connVars, serverVars, queueVars, loopVars, historyVars, Return, ThenDo, Doing
<1> DEFINE From(S) == \A i \in DOMAIN todo' : todo'[i][1] \in S \/ Kept(i)
<1>1. UNCHANGED todo => From(Follow)
  BY DEF Kept, KeptIn, TypeOK
<1>2. ASSUME todo # <<>>, NEW S, NEW a \in S, NEW b \in S, Replaced(todo, todo', a, b)
      PROVE  From(S)
  BY <1>2, KeptFacts DEF Kept, TypeOK
<1> HIDE DEF From
<1>3. /\ "user" \in Follow /\ "closeCallback" \in Follow
      /\ "write" \in Follow /\ "sent" \in Follow /\ "drained" \in Follow
  BY DEF Follow
<1>4. ConnectEstablished \/ HandleRead \/ RunCallback \/ HandleClose \/ Disconnect => From(Follow)
  BY <1>2, <1>3 DEF Replaced, ConnectEstablished, HandleRead, RunCallback, HandleClose, Disconnect,
                    At
<1>5. ConnectDistroyed => From({"remove", "disconnect"})
  BY DistroyStack DEF From
<1>6. RemoveChannel \/ HandleError \/ CloseCallback \/ RunShutdown \/ UserReturn => From(Follow)
  BY <1>2, <1>3 DEF Replaced, RemoveChannel, HandleError, CloseCallback, RunShutdown, UserReturn, At
<1>7. HandleWrite => From(Follow)
  BY <1>2, <1>3 DEF Replaced, HandleWrite, At
<1>8. Sent \/ Drained => From(Follow)
  BY <1>2, <1>3, BelowIsPlain DEF Replaced, Sent, Drained, At
<1>9. ASSUME todo # <<>>, NEW data, NEW rest, rest \in {todo, Tail(todo)}, SendInLoop(data, rest)
      PROVE  From(Follow)
  BY <1>2, <1>3, <1>9 DEF Replaced, SendInLoop
<1>10. RunSend => From(Follow)
  BY <1>9 DEF RunSend, At
<1>11. ASSUME NEW m \in Msgs, UserSend(m) PROVE From(Follow)
  BY <1>9, <1>11 DEF UserSend, At
<1>12. ASSUME NEW t \in Threads, ThreadStep(t) \/ HandOver(t) \/ ShutdownCheck(t) \/ Release(t)
                                 \/ \E m \in Msgs : SendCheck(t, m)
       PROVE  From(Follow)
  BY <1>1, <1>12 DEF ThreadStep, HandOver, ShutdownCheck, Release, SendCheck, SendQueue, Queue,
                     ShutdownSet, ShutdownQueue
<1>13. \/ RunFunctor \/ PollReport \/ From(Follow)
       \/ ConnectDistroyed /\ From({"remove", "disconnect"})
  BY <1>1, <1>4, <1>5, <1>6, <1>7, <1>8, <1>10, <1>11, <1>12
  DEF Next, LoopStep, Handlers, PollIdle, Swap, EndFunctors, LeaveLoop, WriteSome, UserShutdown,
      RemoveConnectionInLoop, DestroyServer, EndBase, Peer, vars
<1> QED
  BY <1>13 DEF From

------------------------------------------------------------------------------
(* How a connection begins.                                                  *)

LEMMA FreshInit == Init => FreshInv
<1> SUFFICES ASSUME Init PROVE FreshInv
  OBVIOUS
<1>1. CASE SingleLoop
  <2>1. todo = <<<<"connectEstablished">>>> /\ pending = <<>> /\ functors = <<>>
    BY <1>1 DEF Init
  <2> QED
    BY <2>1 DEF Init, Constructed, FreshInv, Has
<1>2. CASE ~SingleLoop
  <2>1. /\ todo = <<>> /\ pending = <<<<"connectEstablished">>>> /\ functors = <<>>
        /\ phase \in {"poll", "run"}
    BY <1>2 DEF Init
  <2> QED
    BY <2>1 DEF Init, Constructed, FreshInv, Has
<1> QED
  BY <1>1, <1>2

\* Nothing else can be under way while connectEstablished is to come.
LEMMA BusyIsNotFresh ==
    ASSUME TypeOK, FreshInv
    PROVE  /\ \A op : Doing(op) /\ op # "connectEstablished" => state_ # "kConnecting"
           /\ \A t \in Threads : thr[t][1] # "none" => state_ # "kConnecting"
           /\ PollReport => state_ # "kConnecting"
<1>1. \A op : Doing(op) => todo # <<>> /\ todo[1][1] = op /\ ~LoopGone
  BY DEF Doing, At, TypeOK, LoopGone
<1>2. PollReport => index = "kAdded"
  BY DEF PollReport, Ready
<1> QED
  BY <1>1, <1>2 DEF FreshInv

\* Threads that have the connection are not at "none".
LEMMA ThreadNotFresh ==
    ASSUME TypeOK, FreshInv, NEW t \in Threads,
           ThreadStep(t) \/ ShutdownCheck(t) \/ Release(t) \/ \E m \in Msgs : SendCheck(t, m)
    PROVE  state_ # "kConnecting"
<1>1. thr[t] \in {<<"idle">>, <<"setState">>, <<"queueShutdown">>} \cup SendOf
  BY DEF ThreadStep, ShutdownCheck, Release, SendCheck, SendQueue, Queue, ShutdownSet,
         ShutdownQueue, Goes, SendOf
<1>2. thr[t][1] # "none"
  BY <1>1 DEF SendOf
<1> QED
  BY <1>2, BusyIsNotFresh

\* What the steps may queue.
Queues == \E f \in Functor : f[1] # "connectEstablished" /\ pending' = Append(pending, f)

LEMMA QueueStep ==
    ASSUME TypeOK, [Next]_vars
    PROVE  \/ UNCHANGED pending
           \/ Queues
           \/ Swap \/ LeaveLoop
<1> USE DEF connVars, serverVars, queueVars, loopVars, historyVars
<1>1. ASSUME NEW cond, NEW op \in FunctorOps, op # "connectEstablished",
             pending' = pending \o If(cond, op)
      PROVE  UNCHANGED pending \/ Queues
  <2>1. <<op>> \in Functor /\ pending \in Seq(Functor)
    BY CallNames DEF TypeOK
  <2>2. CASE cond
    <3>1. pending' = Append(pending, <<op>>)
      BY <1>1, <2>1, <2>2 DEF If
    <3> QED
      BY <1>1, <2>1, <3>1 DEF Queues
  <2>3. CASE ~cond
    BY <1>1, <2>1, <2>3 DEF If
  <2> QED
    BY <2>2, <2>3
<1>2. /\ "writeComplete" \in FunctorOps /\ "highWater" \in FunctorOps
      /\ "connectDistroyed" \in FunctorOps /\ "shutdown" \in FunctorOps
  BY DEF FunctorOps
<1>3. Sent \/ Drained => \/ UNCHANGED pending \/ Queues \/ \E data : Keep(data)
  BY <1>1, <1>2 DEF Sent, Drained
<1>4. ASSUME NEW data, Keep(data) PROVE UNCHANGED pending \/ Queues
  BY <1>1, <1>2, <1>4 DEF Keep
<1>5. ASSUME NEW data, NEW rest, SendInLoop(data, rest)
      PROVE  UNCHANGED pending \/ Queues
  BY <1>4, <1>5 DEF SendInLoop
<1>6. RunSend => UNCHANGED pending \/ Queues
  BY <1>5 DEF RunSend
<1>7. ASSUME NEW m \in Msgs, UserSend(m) PROVE UNCHANGED pending \/ Queues
  BY <1>5, <1>7 DEF UserSend
<1>8. CloseCallback \/ RemoveConnectionInLoop => UNCHANGED pending \/ Queues
  BY <1>2, CallNames DEF CloseCallback, RemoveConnectionInLoop, Queues
<1>9. DestroyServer => UNCHANGED pending \/ Queues
  BY <1>1, <1>2 DEF DestroyServer
<1>10. ASSUME NEW t \in Threads, ThreadStep(t) \/ HandOver(t) \/ ShutdownCheck(t) \/ Release(t)
                                 \/ \E m \in Msgs : SendCheck(t, m)
       PROVE  UNCHANGED pending \/ Queues
  BY <1>2, <1>10, CallNames DEF ThreadStep, HandOver, ShutdownCheck, Release, SendCheck, SendQueue,
                                Queue,
                                ShutdownSet, ShutdownQueue, Queues
<1> QED
  BY <1>3, <1>4, <1>6, <1>7, <1>8, <1>9, <1>10
  DEF Next, LoopStep, Handlers, PollIdle, PollReport, RunFunctor, EndFunctors, ConnectEstablished,
      ConnectDistroyed, Disconnect, RemoveChannel, HandleRead, HandleError, HandleClose,
      HandleWrite, WriteSome,
      RunShutdown, RunCallback, UserReturn, UserShutdown, EndBase, Peer, vars

\* What happens to the channel beside its first and last steps.
LEMMA ChannelStep ==
    ASSUME [Next]_vars, ~ConnectEstablished, ~Disconnect, ~RemoveChannel
    PROVE  \/ UNCHANGED <<events_, index>>
           \/ Enable(events_ \cup {"write"})
           \/ Enable(events_ \ {"write"})
<1> USE DEF connVars
<1>1. ASSUME NEW data, Keep(data)
      PROVE  UNCHANGED <<events_, index>> \/ Enable(events_ \cup {"write"})
  BY <1>1 DEF Keep
<1>2. ASSUME NEW data, NEW rest, SendInLoop(data, rest)
      PROVE  UNCHANGED <<events_, index>> \/ Enable(events_ \cup {"write"})
  BY <1>1, <1>2 DEF SendInLoop
<1>3. RunSend \/ (\E m \in Msgs : UserSend(m)) \/ Sent =>
         UNCHANGED <<events_, index>> \/ Enable(events_ \cup {"write"})
  BY <1>1, <1>2 DEF RunSend, UserSend, Sent
<1>4. Drained => UNCHANGED <<events_, index>> \/ Enable(events_ \ {"write"})
  BY DEF Drained
<1> QED
  BY <1>3, <1>4
  DEF Next, LoopStep, Handlers, ThreadStep, PollIdle, PollReport, Swap, RunFunctor, EndFunctors,
      LeaveLoop,
      ConnectDistroyed, HandleRead, HandleError, HandleClose, CloseCallback, HandleWrite, WriteSome,
      RunShutdown, RunCallback, UserReturn, UserShutdown, HandOver, SendCheck, SendQueue, Queue,
      ShutdownCheck,
      ShutdownSet, ShutdownQueue, Release, RemoveConnectionInLoop, DestroyServer, EndBase, Peer,
      vars

LEMMA FreshEnds == [Next]_vars /\ state_ # "kConnecting" => state_' # "kConnecting"
BY DEF Next, LoopStep, Handlers, ThreadStep, PollIdle, PollReport, Swap, RunFunctor, EndFunctors,
       LeaveLoop,
       ConnectEstablished, ConnectDistroyed, Disconnect, RemoveChannel, HandleRead, HandleError,
       HandleClose,
       CloseCallback, HandleWrite, WriteSome, Sent, Drained, RunSend, RunShutdown, RunCallback,
       UserReturn, UserSend, UserShutdown, HandOver, SendCheck, SendQueue, Queue, ShutdownCheck,
       ShutdownSet, ShutdownQueue, Release, RemoveConnectionInLoop, DestroyServer, EndBase, Peer,
       connVars, vars

\* The vector of functors changes at its swap, its end, and with next.
LEMMA FunctorsStep ==
    [Next]_vars =>
       Swap \/ RunFunctor \/ EndFunctors \/ LeaveLoop \/ UNCHANGED <<functors, next>>
BY DEF Next, LoopStep, Handlers, ThreadStep, PollIdle, PollReport,
       ConnectEstablished, ConnectDistroyed, Disconnect, RemoveChannel, HandleRead, HandleError,
       HandleClose,
       CloseCallback, HandleWrite, WriteSome, Sent, Drained, RunSend, RunShutdown, RunCallback,
       UserReturn, UserSend, UserShutdown, HandOver, SendCheck, SendQueue, Queue, ShutdownCheck,
       ShutdownSet, ShutdownQueue, Release, RemoveConnectionInLoop, DestroyServer, EndBase, Peer,
       queueVars, loopVars, vars

LEMMA SettledStep ==
    ASSUME TypeOK, StackInv, FreshInv, [Next]_vars, state_ # "kConnecting"
    PROVE  FreshInv'
<1>1. state_' # "kConnecting"
  BY FreshEnds
<1>2. /\ ~Has("connectEstablished")
      /\ \A i \in DOMAIN pending : pending[i][1] # "connectEstablished"
      /\ \A i \in DOMAIN functors : functors[i][1] = "connectEstablished" => i = 1 /\ next # 1
  BY DEF FreshInv
<1>3. \A i \in DOMAIN pending' : pending'[i][1] # "connectEstablished"
  <2>1. CASE Queues
    <3>1. PICK f \in Functor : f[1] # "connectEstablished" /\ pending' = Append(pending, f)
      BY <2>1 DEF Queues
    <3> QED
      BY <1>2, <3>1 DEF TypeOK
  <2>2. CASE Swap \/ LeaveLoop
    BY <2>2 DEF Swap, LeaveLoop
  <2> QED
    BY <1>2, <2>1, <2>2, QueueStep
<1>4. \A i \in DOMAIN functors' : functors'[i][1] = "connectEstablished" => i = 1 /\ next' # 1
  <2>1. CASE Swap \/ EndFunctors \/ LeaveLoop
    BY <1>2, <2>1 DEF Swap, EndFunctors, LeaveLoop
  <2>2. CASE RunFunctor
    <3>1. functors' = functors /\ next' = next + 1 /\ next \in Nat /\ next >= 1
      BY <2>2 DEF RunFunctor, TypeOK
    <3> QED
      BY <1>2, <3>1
  <2> QED
    BY <1>2, <2>1, <2>2, FunctorsStep
<1>5. ~Has("connectEstablished")'
  <2>1. CASE RunFunctor
    <3>1. todo' = <<functors[next]>> /\ next \in DOMAIN functors /\ next \in Nat
      BY <2>1 DEF RunFunctor, TypeOK
    <3> QED
      BY <1>2, <3>1 DEF Has
  <2>2. CASE PollReport
    <3>1. AllPlain(todo')
      BY <2>2, ReportIsPlain
    <3> QED
      BY <3>1 DEF AllPlain, Plain, OtherOps, Has
  <2>3. ASSUME NEW i \in DOMAIN todo', \/ Kept(i) \/ todo'[i][1] \in Follow
                                       \/ todo'[i][1] \in {"remove", "disconnect"}
        PROVE  todo'[i][1] # "connectEstablished"
    BY <1>2, <2>3 DEF Kept, KeptIn, Follow, Has, TypeOK
  <2> QED
    BY <2>1, <2>2, <2>3, NewCalls DEF Has
<1> QED
  BY <1>1, <1>3, <1>4, <1>5 DEF FreshInv

LEMMA FreshStep == TypeOK /\ StackInv /\ FreshInv /\ [Next]_vars => FreshInv'
<1> SUFFICES ASSUME TypeOK, StackInv, FreshInv, [Next]_vars, state_ = "kConnecting" PROVE FreshInv'
  BY SettledStep
<1> USE DEF connVars, serverVars, queueVars, loopVars, historyVars
<1>1. \/ PollIdle \/ Swap \/ RunFunctor \/ EndFunctors \/ LeaveLoop \/ ConnectEstablished
      \/ RemoveConnectionInLoop \/ DestroyServer \/ EndBase \/ Peer \/ UNCHANGED vars
  <2>1. \A op : Doing(op) => op = "connectEstablished"
    BY BusyIsNotFresh
  <2>2. ~(Handlers /\ ~ConnectEstablished) /\ ~UserShutdown /\ \A m \in Msgs : ~UserSend(m)
    BY <2>1 DEF Handlers, ConnectDistroyed, Disconnect, RemoveChannel, HandleRead, HandleError,
                HandleClose,
                CloseCallback, HandleWrite, WriteSome, Sent, Drained, RunSend, RunShutdown,
                RunCallback, UserReturn, UserSend, UserShutdown
  <2>3. \A t \in Threads : ~HandOver(t)
    BY <2>1 DEF HandOver
  <2> QED
    BY <2>2, <2>3, BusyIsNotFresh, ThreadNotFresh DEF Next, LoopStep
<1>2. /\ events_ = {} /\ index = "kNew" /\ outputBuffer_ = <<>> /\ downs = 0
      /\ \A t \in Threads : thr[t][1] = "none"
  BY DEF FreshInv
<1>3. CASE PollIdle \/ EndBase \/ Peer \/ UNCHANGED vars
  <2>1. phase' \in {phase, "handle"} /\ (PollIdle => phase = "poll") /\ (phase' # phase => PollIdle)
    BY <1>3 DEF PollIdle, EndBase, Peer, vars
  <2>2. UNCHANGED <<state_, events_, index, outputBuffer_, downs, thr, todo, pending, functors, next>>
    BY <1>3 DEF PollIdle, EndBase, Peer, vars
  <2> QED
    BY <2>1, <2>2 DEF FreshInv, Has, LoopGone
<1>4. CASE Swap
  <2>1. /\ todo = <<>> /\ phase = "handle" /\ phase' = "run" /\ functors' = pending
        /\ pending' = <<>> /\ next' = 1
        /\ UNCHANGED <<state_, events_, index, outputBuffer_, downs, thr, todo>>
    BY <1>4 DEF Swap
  <2>2. Len(pending) > 0 /\ pending[1][1] = "connectEstablished"
    BY <2>1 DEF FreshInv, LoopGone
  <2>3. \A i \in DOMAIN pending : pending[i][1] = "connectEstablished" => i = 1
    BY DEF FreshInv
  <2> QED
    BY <1>2, <2>1, <2>2, <2>3 DEF FreshInv, Has
<1>5. CASE RunFunctor
  <2>1. /\ todo = <<>> /\ phase = "run" /\ todo' = <<functors[next]>> /\ next' = next + 1
        /\ UNCHANGED <<state_, events_, index, outputBuffer_, downs, thr, pending, functors>>
    BY <1>5 DEF RunFunctor
  <2>2. next = 1 /\ functors[1][1] = "connectEstablished" /\ Len(functors) > 0
    <3>1. next \in Nat /\ next <= Len(functors) /\ Len(<<>>) = 0 /\ next >= 1
      BY <1>5 DEF RunFunctor, TypeOK
    <3>2. functors # <<>>
      BY <3>1
    <3> QED
      BY <2>1, <3>2 DEF FreshInv, LoopGone
  <2>3. /\ Len(todo') = 1 /\ todo'[1][1] = "connectEstablished" /\ next' = 2
        /\ functors # <<>>
    BY <2>1, <2>2
  <2>4. /\ \A i \in DOMAIN pending : pending[i][1] # "connectEstablished"
        /\ \A i \in DOMAIN functors : functors[i][1] = "connectEstablished" => i = 1
    BY <2>3 DEF FreshInv
  <2> QED
    BY <1>2, <2>1, <2>3, <2>4 DEF FreshInv, Has
<1>e. CASE EndFunctors
  <2>1. /\ todo = <<>> /\ phase = "run" /\ next > Len(functors) /\ phase' = "poll"
        /\ functors' = <<>> /\ next' = 1
        /\ UNCHANGED <<state_, events_, index, outputBuffer_, downs, thr, todo, pending>>
    BY <1>e DEF EndFunctors
  <2>2. functors \in Seq(Functor) /\ Len(functors) \in Nat
    BY DEF TypeOK
  <2>3. functors = <<>> /\ Len(pending) > 0 /\ pending[1][1] = "connectEstablished"
    BY <2>1, <2>2 DEF FreshInv, LoopGone
  <2> QED
    BY <1>2, <2>1, <2>3 DEF FreshInv, Has
<1>l. CASE LeaveLoop
  <2>1. /\ todo' = <<>> /\ LoopGone' /\ pending' = <<>> /\ functors' = <<>> /\ next' = 1
        /\ UNCHANGED <<state_, events_, index, outputBuffer_, downs, thr>>
    BY <1>l DEF LeaveLoop, LoopGone
  <2> QED
    BY <1>2, <2>1 DEF FreshInv, Has
<1>6. CASE ConnectEstablished
  <2>1. /\ Doing("connectEstablished") /\ state_' = "kConnected" /\ todo' = <<<<"user">>>> \o Tail(todo)
        /\ UNCHANGED <<pending, functors, next>>
    BY <1>6 DEF ConnectEstablished, ThenDo
  <2>2. todo # <<>> /\ ~At("write")
    BY <2>1 DEF Doing, At
  <2>3. ~Has("connectEstablished")'
    <3>1. Tail(todo) \in Seq(Call) /\ AllPlain(Tail(todo)) /\ "user" \in Plain
      BY <2>2, TodoFacts, BelowIsPlain DEF TypeOK, Plain, OtherOps
    <3>2. AllPlain(todo')
      BY <2>1, <3>1, PlainOver
    <3> QED
      BY <3>2 DEF AllPlain, Plain, OtherOps, Has
  <2>4. /\ \A i \in DOMAIN pending : pending[i][1] # "connectEstablished"
        /\ \A i \in DOMAIN functors : functors[i][1] = "connectEstablished" => i = 1 /\ next # 1
    BY <2>2 DEF FreshInv
  <2> QED
    BY <2>1, <2>3, <2>4 DEF FreshInv
<1>7. CASE RemoveConnectionInLoop \/ DestroyServer
  <2>1. UNCHANGED <<state_, events_, index, outputBuffer_, downs, thr, todo, phase, functors, next>>
    BY <1>7 DEF RemoveConnectionInLoop, DestroyServer
  <2>2. UNCHANGED pending \/ Queues
    <3>1. CASE RemoveConnectionInLoop
      BY <3>1, CallNames DEF RemoveConnectionInLoop, Queues, FunctorOps
    <3>2. CASE DestroyServer
      <4>1. CASE connections_
        <5>1. pending' = Append(pending, <<"connectDistroyed">>)
          BY <3>2, <4>1 DEF DestroyServer, If, TypeOK
        <5> QED
          BY <5>1, CallNames DEF Queues, FunctorOps
      <4>2. CASE ~connections_
        BY <3>2, <4>2 DEF DestroyServer, If, TypeOK
      <4> QED
        BY <4>1, <4>2
    <3> QED
      BY <1>7, <3>1, <3>2
  <2>3. /\ Len(pending) > 0 => Len(pending') > 0 /\ pending'[1] = pending[1]
        /\ \A i \in DOMAIN pending' : pending'[i][1] = "connectEstablished" =>
              i \in DOMAIN pending /\ pending[i][1] = "connectEstablished"
    <3>1. CASE UNCHANGED pending
      BY <3>1
    <3>2. CASE Queues
      <4>1. PICK f \in Functor : f[1] # "connectEstablished" /\ pending' = Append(pending, f)
        BY <3>2 DEF Queues
      <4>2. /\ DOMAIN (pending') = 1 .. Len(pending) + 1
            /\ \A i \in 1 .. Len(pending) + 1 :
                 pending'[i] = IF i <= Len(pending) THEN pending[i] ELSE f
        BY <4>1 DEF TypeOK
      <4> QED
        BY <4>1, <4>2 DEF TypeOK
    <3> QED
      BY <2>2, <3>1, <3>2
  <2> QED
    BY <2>1, <2>3 DEF FreshInv, Has, LoopGone
<1> QED
  BY <1>1, <1>3, <1>4, <1>5, <1>6, <1>7, <1>e, <1>l

\* disconnect is the next thing the loop's thread does.
LEMMA DisconnectFirst ==
    ASSUME TypeOK, StackInv, [Next]_vars, Has("disconnect"), ~Disconnect
    PROVE  UNCHANGED todo
<1> USE DEF connVars, serverVars, queueVars, loopVars, historyVars
<1>1. todo # <<>> /\ Head(todo)[1] = "disconnect"
  BY DEF Has, StackInv, TypeOK
<1>2. ~PollReport /\ ~RunFunctor
  BY <1>1 DEF PollReport, RunFunctor, TypeOK
<1>3. \A op : Doing(op) => op = "disconnect"
  BY <1>1 DEF Doing, At
<1>4. /\ Handlers => UNCHANGED todo
      /\ ~UserShutdown /\ \A m \in Msgs : ~UserSend(m)
  BY <1>3 DEF Handlers, ConnectEstablished, ConnectDistroyed, RemoveChannel, HandleRead,
              HandleError,
              HandleClose, CloseCallback, HandleWrite, WriteSome, Sent, Drained, RunSend,
              RunShutdown,
              RunCallback, UserReturn, UserSend, UserShutdown
<1>5. ASSUME NEW t \in Threads, ThreadStep(t) \/ HandOver(t) \/ ShutdownCheck(t) \/ Release(t)
                                 \/ \E m \in Msgs : SendCheck(t, m)
       PROVE  UNCHANGED todo
  BY <1>5 DEF ThreadStep, HandOver, ShutdownCheck, Release, SendCheck, SendQueue,
              ShutdownSet, ShutdownQueue
<1> QED
  BY <1>2, <1>4, <1>5 DEF Next, LoopStep, PollIdle, Swap, EndFunctors, LeaveLoop,
      RemoveConnectionInLoop, DestroyServer, EndBase, Peer, vars

\* A step that removes a channel removes one that is not up.
LEMMA RemovesWhenDown ==
    ASSUME TypeOK, StackInv, UpInv, RemoveChannel
    PROVE  state_ # "kConnected" /\ ~Has("disconnect")
<1>1. todo # <<>> /\ todo[1][1] = "remove" /\ 1 \in DOMAIN todo
  BY DEF RemoveChannel, Doing, At, TypeOK
<1>2. ~Has("disconnect")
  BY <1>1 DEF Has, StackInv
<1> QED
  BY <1>1, <1>2 DEF UpInv, Has

\* Once up, the channel reads and is in the poller until the state changes.
LEMMA UpStep == TypeOK /\ StackInv /\ FreshInv /\ UpInv /\ [Next]_vars => UpInv'
<1> SUFFICES ASSUME TypeOK, StackInv, FreshInv, UpInv, [Next]_vars,
                    state_' = "kConnected" \/ Has("disconnect")'
             PROVE  "read" \in events_' /\ index' = "kAdded" /\ (Has("remove")' => Has("disconnect")')
  BY DEF UpInv
<1> USE DEF connVars, serverVars, queueVars, loopVars, historyVars
<1>1. CASE ConnectEstablished
  <2>1. "read" \in events_' /\ index' = "kAdded"
    BY <1>1 DEF ConnectEstablished, Enable
  <2>2. Doing("connectEstablished") /\ ~RunFunctor /\ ~PollReport /\ ~ConnectDistroyed
    BY <1>1 DEF ConnectEstablished, Doing, At, RunFunctor, PollReport, ConnectDistroyed
  <2>3. Len(todo) = 1 /\ todo[1][1] = "connectEstablished"
    BY <2>2, BusyIsNotFresh DEF Doing, At, StackInv, FunctorOps, TypeOK
  <2>4. \A i \in DOMAIN todo' : todo'[i][1] # "remove"
    BY <2>2, <2>3, NewCalls DEF Kept, KeptIn, Follow
  <2> QED
    BY <2>1, <2>4 DEF Has
<1>2. CASE ConnectDistroyed
  <2>1. UNCHANGED <<state_, events_, index>>
    BY <1>2 DEF ConnectDistroyed
  <2>2. CASE todo' = <<<<"remove">>>> /\ state_ # "kConnected"
    <3>1. ~Has("disconnect")'
      BY <2>2 DEF Has
    <3> QED
      BY <2>1, <2>2, <3>1
  <2>3. CASE todo' = <<<<"disconnect">>, <<"remove">>>> /\ state_ = "kConnected"
    <3>1. Has("disconnect")'
      BY <2>3 DEF Has
    <3> QED
      BY <2>1, <2>3, <3>1 DEF UpInv
  <2> QED
    BY <1>2, <2>2, <2>3, DistroyStack
<1>3. CASE Disconnect
  <2>1. Len(todo') = 2 /\ todo'[1] = <<"user">> /\ todo'[2][1] = "remove" /\ state_' = "kDisconnected"
    BY <1>3, DistroyStack DEF Disconnect
  <2>2. todo' \in Seq(Call)
    BY TypeStep DEF TypeOK
  <2>3. ~Has("disconnect")'
    BY <2>1, <2>2 DEF Has
  <2> QED
    BY <2>1, <2>3
<1>4. CASE ~ConnectEstablished /\ ~ConnectDistroyed /\ ~Disconnect
  <2>1. state_' = "kConnected" => state_ = "kConnected"
    BY <1>4 DEF Next, LoopStep, Handlers, ThreadStep, PollIdle, PollReport, Swap, RunFunctor,
           EndFunctors, LeaveLoop, RemoveChannel, HandleRead, HandleError, HandleClose,
           CloseCallback, HandleWrite, WriteSome, Sent, Drained, RunSend, RunShutdown, RunCallback,
           UserReturn, UserSend, UserShutdown, HandOver, SendCheck, SendQueue, ShutdownCheck,
           ShutdownSet, ShutdownQueue, Release, RemoveConnectionInLoop, DestroyServer, EndBase,
           Peer, vars
  <2>2. ASSUME NEW i \in DOMAIN todo', todo'[i][1] \in {"remove", "disconnect"}
        PROVE  Has(todo'[i][1])
    <3>1. CASE RunFunctor
      <4>1. todo' = <<functors[next]>> /\ functors[next] \in Functor
        BY <3>1 DEF RunFunctor, TypeOK
      <4> QED
        BY <2>2, <4>1, CallNames DEF FunctorOps
    <3>2. CASE PollReport
      BY <2>2, <3>2, ReportCalls
    <3>3. CASE Kept(i) \/ todo'[i][1] \in Follow
      BY <2>2, <3>3 DEF Kept, KeptIn, Follow, Has, TypeOK
    <3> QED
      BY <1>4, <3>1, <3>2, <3>3, NewCalls
  <2>3. \A op \in {"remove", "disconnect"} : Has(op)' => Has(op)
    BY <2>2 DEF Has
  <2>4. state_ = "kConnected" \/ Has("disconnect")
    BY <2>1, <2>3
  <2>5. "read" \in events_ /\ index = "kAdded" /\ (Has("remove") => Has("disconnect"))
    BY <2>4 DEF UpInv
  <2>6. Has("disconnect") => Has("disconnect")'
    BY <1>4, DisconnectFirst DEF Has
  <2>7. \/ UNCHANGED <<events_, index>>
        \/ Enable(events_ \cup {"write"})
        \/ Enable(events_ \ {"write"})
    BY <1>4, <2>4, ChannelStep, RemovesWhenDown
  <2>8. "read" \in events_' /\ index' = "kAdded"
    BY <2>5, <2>7 DEF Enable
  <2> QED
    BY <2>3, <2>5, <2>6, <2>8
<1> QED
  BY <1>1, <1>2, <1>3, <1>4

------------------------------------------------------------------------------
(* Writing: the steps that write, and all the others.                        *)

Writes == \/ HandleWrite \/ WriteSome \/ Sent \/ Drained \/ RunSend
          \/ \E m \in Msgs : UserSend(m)

LEMMA QuietStep ==
    ASSUME TypeOK, StackInv, [Next]_vars, ~Writes
    PROVE  /\ UNCHANGED <<outputBuffer_, write, accepted>> /\ sock'.sent = sock.sent
           /\ UNCHANGED todo \/ (~At("write") /\ ~At("write")')
           /\ \/ UNCHANGED <<events_, index>>
              \/ ConnectEstablished \/ Disconnect \/ RemoveChannel
<1> USE DEF connVars, serverVars, queueVars, loopVars, historyVars, Return, ThenDo, Doing
<1> DEFINE Quiet == /\ UNCHANGED <<outputBuffer_, write, accepted>> /\ sock'.sent = sock.sent
                    /\ \/ UNCHANGED <<events_, index>>
                       \/ ConnectEstablished \/ Disconnect \/ RemoveChannel
           Still == UNCHANGED todo \/ (~At("write") /\ ~At("write")')
<1>1. UNCHANGED todo => Still
  OBVIOUS
<1>2. todo \in Seq(Call) /\ (todo # <<>> => Tail(todo) \in Seq(Call))
  BY TodoFacts DEF TypeOK
<1>3. ASSUME ~At("write"), AllPlain(todo') PROVE Still
  BY <1>3, PlainHead
<1>4. ASSUME todo # <<>>, Head(todo)[1] # "write",
             \/ todo' = Tail(todo)
             \/ \E a \in Plain : todo' = <<<<a>>>> \o Tail(todo)
             \/ \E a, b \in Plain : todo' = <<<<a>>, <<b>>>> \o Tail(todo)
      PROVE  Still
  <2>1. ~At("write") /\ AllPlain(Tail(todo))
    BY <1>4, BelowIsPlain DEF At
  <2>2. AllPlain(todo')
    BY <1>2, <1>4, <2>1, PlainOver
  <2> QED
    BY <1>3, <2>1, <2>2
<1> HIDE DEF Still
<1>5. RunFunctor => Still
  <2> SUFFICES ASSUME RunFunctor PROVE Still
    OBVIOUS
  <2>1. todo = <<>> /\ todo' = <<functors[next]>> /\ functors[next] \in Functor
    BY DEF RunFunctor, TypeOK
  <2>2. functors[next][1] # "write"
    BY <2>1, CallNames DEF FunctorOps
  <2> QED
    BY <2>1, <2>2 DEF Still, At
<1>6. PollReport => Still
  BY <1>3, ReportIsPlain DEF PollReport, TypeOK, At
<1>7. ConnectEstablished \/ HandleRead \/ RunCallback => Still
  BY <1>4 DEF ConnectEstablished, HandleRead, RunCallback, At, Plain, OtherOps
<1>8. HandleClose => Still
  BY <1>4 DEF HandleClose, At, Plain, OtherOps
<1>d. ConnectDistroyed \/ Disconnect => Still
  <2>1. ConnectDistroyed => ~At("write") /\ ~At("write")'
    <3>1. ConnectDistroyed => \/ todo' = <<<<"remove">>>>
                              \/ todo' = <<<<"disconnect">>, <<"remove">>>>
      BY DistroyStack
    <3>2. ConnectDistroyed => ~At("write")
      BY DEF ConnectDistroyed, At
    <3>3. ConnectDistroyed => ~At("write")'
      BY <3>1 DEF At
    <3> QED
      BY <3>2, <3>3
  <2>2. Disconnect => ~At("write") /\ ~At("write")'
    BY DistroyStack, TypeStep DEF Disconnect, At, TypeOK
  <2> QED
    BY <2>1, <2>2 DEF Still
<1>9. RemoveChannel \/ HandleError \/ CloseCallback \/ RunShutdown \/ UserReturn => Still
  BY <1>4 DEF RemoveChannel, HandleError, CloseCallback, RunShutdown, UserReturn, At
<1>10. ASSUME NEW t \in Threads, ThreadStep(t) \/ HandOver(t) \/ ShutdownCheck(t) \/ Release(t)
                                 \/ \E m \in Msgs : SendCheck(t, m)
       PROVE  UNCHANGED <<outputBuffer_, write, accepted, events_, index, sock, todo>>
  BY <1>10 DEF ThreadStep, HandOver, ShutdownCheck, Release, SendCheck, SendQueue, Queue,
               ShutdownSet, ShutdownQueue
<1>11. Still
  BY <1>1, <1>5, <1>6, <1>7, <1>8, <1>9, <1>10, <1>d
  DEF Next, LoopStep, Handlers, PollIdle, Swap, EndFunctors, LeaveLoop, UserShutdown,
      RemoveConnectionInLoop, DestroyServer, EndBase, Peer, Writes, vars
<1>12. HandleRead \/ HandleError \/ RunShutdown \/ UserShutdown \/ Peer => Quiet
  BY DEF HandleRead, HandleError, RunShutdown, UserShutdown, ShutdownInLoop, Peer, PeerSends,
         PeerReads, PeerCloses, PeerResets, TypeOK
<1>13. Quiet
  BY <1>10, <1>12
  DEF Next, LoopStep, Handlers, PollIdle, PollReport, Swap, RunFunctor, EndFunctors, LeaveLoop,
      ConnectEstablished, ConnectDistroyed, Disconnect, RemoveChannel, HandleClose, CloseCallback,
      RunCallback, UserReturn, RemoveConnectionInLoop, DestroyServer, EndBase, Writes, vars
<1> QED
  BY <1>11, <1>13 DEF Still

LEMMA WriteInit == Init => WriteInv
BY DEF Init, Constructed, WriteInv, Rest, At

LEMMA KeepWrites ==
    ASSUME TypeOK, NEW data \in Content, data # <<>>, Keep(data)
    PROVE  outputBuffer_' # <<>> /\ "write" \in events_' /\ outputBuffer_' = outputBuffer_ \o data
<1>1. outputBuffer_ \in Seq(Msgs \cup {Garbage}) /\ data \in Seq(Msgs \cup {Garbage})
  BY DEF TypeOK, Content
<1>2. outputBuffer_ \o data # <<>>
  BY <1>1
<1> QED
  BY <1>2 DEF Keep, Enable

\* The rest of sendInLoop and of handleWrite go when they run.
LEMMA RestGoes ==
    ASSUME TypeOK, StackInv, Sent \/ Drained
    PROVE  /\ Rest("sent") <=> Sent
           /\ Rest("drained") <=> Drained
           /\ ~At("write")'
<1>1. At("write") /\ todo # <<>> /\ todo' = SubSeq(todo, 3, Len(todo))
  BY DEF Sent, Drained, Doing, At
<1>2. AllPlain(todo')
  BY <1>1, BelowIsPlain
<1>3. ~At("write")'
  BY <1>2, PlainHead
<1>4. Sent => todo[2][1] = "sent"
  BY DEF Sent
<1>5. Drained => todo[2][1] = "drained"
  BY DEF Drained
<1> QED
  BY <1>1, <1>3, <1>4, <1>5 DEF Rest

LEMMA WriteStep == TypeOK /\ StackInv /\ FreshInv /\ UpInv /\ WriteInv /\ [Next]_vars => WriteInv'
<1> SUFFICES ASSUME TypeOK, StackInv, FreshInv, UpInv, WriteInv, [Next]_vars PROVE WriteInv'
  OBVIOUS
<1> USE DEF Return, ThenDo, connVars
<1>1. CASE ~Writes
  <2>1. /\ UNCHANGED <<outputBuffer_, write>>
        /\ UNCHANGED todo \/ (~At("write") /\ ~At("write")')
        /\ \/ UNCHANGED <<events_, index>>
           \/ ConnectEstablished \/ Disconnect \/ RemoveChannel
    BY <1>1, QuietStep
  <2>2. \A op : Rest(op)' => Rest(op)
    BY <2>1 DEF Rest, At
  <2>3. CASE UNCHANGED <<events_, index>>
    BY <2>1, <2>2, <2>3 DEF WriteInv
  <2>4. CASE ConnectEstablished
    <3>1. Doing("connectEstablished") /\ events_' = events_ \cup {"read"} /\ todo # <<>>
      BY <2>4 DEF ConnectEstablished, Enable, Doing, At
    <3>2. outputBuffer_ = <<>> /\ events_ = {} /\ ~At("write")
      BY <3>1 DEF FreshInv, Has, Doing, At, TypeOK
    <3> QED
      BY <2>1, <2>2, <3>1, <3>2 DEF WriteInv, Rest
  <2>5. CASE Disconnect
    <3>1. ~At("write") /\ Has("disconnect")
      BY <2>5 DEF Disconnect, Doing, At, Has, TypeOK
    <3>2. events_' = {} /\ index' # "kAdded"
      BY <2>5, <3>1 DEF Disconnect, Enable, UpInv
    <3> QED
      BY <2>2, <3>1, <3>2 DEF WriteInv, Rest
  <2>6. CASE RemoveChannel
    <3>1. ~At("write") /\ events_' = events_ /\ index' = "kNew"
      BY <2>6 DEF RemoveChannel, Doing, At
    <3> QED
      BY <2>1, <2>2, <3>1 DEF WriteInv, Rest
  <2> QED
    BY <2>1, <2>3, <2>4, <2>5, <2>6
<1>2. CASE HandleWrite
  <2>1. /\ UNCHANGED <<outputBuffer_, events_, index>> /\ todo # <<>> /\ ~At("write")
        /\ Tail(todo) \in Seq(Call)
    BY <1>2, TodoFacts DEF HandleWrite, Doing, At, TypeOK
  <2>2. AllPlain(Tail(todo))
    BY <2>1, BelowIsPlain
  <2>3. CASE "write" \in events_
    <3>1. /\ todo' = <<<<"write">>, <<"drained">>>> \o Tail(todo)
          /\ write' = [nwrote |-> 0, rest |-> outputBuffer_]
      BY <1>2, <2>3 DEF HandleWrite
    <3>2. Rest("drained")' /\ ~Rest("sent")'
      BY <2>1, <2>2, <3>1, WriteStack DEF Rest
    <3>3. write'.nwrote + Len(write'.rest) = Len(outputBuffer_')
      BY <2>1, <3>1 DEF TypeOK, Content
    <3> QED
      BY <2>1, <2>3, <3>2, <3>3 DEF WriteInv
  <2>4. CASE "write" \notin events_
    <3>1. todo' = Tail(todo) /\ UNCHANGED write
      BY <1>2, <2>4 DEF HandleWrite
    <3>2. ~At("write")'
      BY <2>1, <2>2, <3>1, PlainHead
    <3> QED
      BY <2>1, <3>2 DEF WriteInv, Rest
  <2> QED
    BY <2>3, <2>4
<1>3. CASE WriteSome
  <2>1. UNCHANGED <<outputBuffer_, events_, index, todo>>
    BY <1>3 DEF WriteSome
  <2>2. write'.nwrote + Len(write'.rest) = write.nwrote + Len(write.rest)
    <3>1. PICK n \in Nat : /\ n <= Len(write.rest)
                           /\ write' = [nwrote |-> write.nwrote + n,
                                        rest |-> SubSeq(write.rest, n + 1, Len(write.rest))]
      BY <1>3, WriteSomeTakes
    <3>2. Len(SubSeq(write.rest, n + 1, Len(write.rest))) = Len(write.rest) - n
      BY <3>1 DEF TypeOK, Content
    <3>3. write.nwrote \in Nat /\ Len(write.rest) \in Nat
      BY DEF TypeOK, Content
    <3> QED
      BY <3>1, <3>2, <3>3
  <2> QED
    BY <2>1, <2>2 DEF WriteInv, Rest, At
<1>4. CASE Sent
  <2>1. ~At("write")' /\ Rest("sent")
    BY <1>4, RestGoes
  <2>2. CASE UNCHANGED <<outputBuffer_, events_, index>>
    BY <2>1, <2>2 DEF WriteInv, Rest
  <2>3. CASE write.rest # <<>> /\ Keep(write.rest)
    BY <2>1, <2>3, KeepWrites DEF WriteInv, Rest, TypeOK
  <2> QED
    BY <1>4, <2>2, <2>3 DEF Sent
<1>5. CASE Drained
  <2>1. ~At("write")' /\ Rest("drained") /\ outputBuffer_' = write.rest
    BY <1>5, RestGoes DEF Drained
  <2>2. /\ "write" \in events_ /\ outputBuffer_ # <<>>
        /\ write.nwrote + Len(write.rest) = Len(outputBuffer_)
    BY <2>1 DEF WriteInv
  <2>3. write.rest = <<>> => write.nwrote # 0
    BY <2>2 DEF TypeOK, Content
  <2>4. CASE write.rest = <<>> /\ write.nwrote > 0
    BY <1>5, <2>1, <2>4 DEF Drained, Enable, WriteInv, Rest
  <2>5. CASE write.rest # <<>>
    BY <1>5, <2>1, <2>2, <2>5 DEF Drained, WriteInv, Rest
  <2> QED
    BY <2>3, <2>4, <2>5 DEF TypeOK
<1>6. ASSUME NEW m \in Msgs \cup {Garbage}, NEW rest \in Seq(Call), AllPlain(rest),
             SendInLoop(Bytes(m), rest)
      PROVE  WriteInv'
  <2>1. AllPlain(todo') => ~At("write")'
    BY PlainHead
  <2>2. CASE todo' = rest /\ UNCHANGED <<outputBuffer_, events_, index>>
    BY <1>6, <2>1, <2>2 DEF WriteInv, Rest
  <2>3. CASE /\ todo' = <<<<"write">>, <<"sent">>>> \o rest /\ outputBuffer_ = <<>>
             /\ UNCHANGED <<outputBuffer_, events_, index>>
    <3>1. Rest("sent")' /\ ~Rest("drained")'
      BY <1>6, <2>3, WriteStack DEF Rest
    <3> QED
      BY <2>3, <3>1 DEF WriteInv
  <2>4. CASE todo' = rest /\ Keep(Bytes(m))
    BY <1>6, <2>1, <2>4, KeepWrites, BytesFacts DEF WriteInv, Rest
  <2> QED
    BY <1>6, <2>2, <2>3, <2>4 DEF SendInLoop
<1>7. CASE RunSend
  <2>1. todo # <<>> /\ ~At("write") /\ todo \in Seq(Call) /\ Head(todo)[1] = "send"
    BY <1>7 DEF RunSend, Doing, At, TypeOK
  <2>2. Tail(todo) \in Seq(Call) /\ AllPlain(Tail(todo)) /\ Head(todo)[2] \in Msgs
    BY <2>1, TodoFacts, BelowIsPlain, CallNames
  <2> QED
    BY <1>6, <1>7, <2>2 DEF RunSend
<1>8. ASSUME NEW m \in Msgs, UserSend(m) PROVE WriteInv'
  <2>1. todo \in Seq(Call) /\ AllPlain(todo)
    BY <1>8, BelowIsPlain DEF UserSend, Doing, At, TypeOK, Plain, OtherOps
  <2> QED
    BY <1>6, <1>8, <2>1 DEF UserSend
<1> QED
  BY <1>1, <1>2, <1>3, <1>4, <1>5, <1>7, <1>8 DEF Writes

------------------------------------------------------------------------------
(* The stream.                                                               *)

LEMMA SplitSeq ==
    ASSUME NEW q \in Content, NEW n \in Nat, n <= Len(q)
    PROVE  /\ SubSeq(q, 1, n) \in Content /\ SubSeq(q, n + 1, Len(q)) \in Content
           /\ SubSeq(q, 1, n) \o SubSeq(q, n + 1, Len(q)) = q
<1> DEFINE a == SubSeq(q, 1, n)
           b == SubSeq(q, n + 1, Len(q))
<1>1. q \in Seq(Msgs \cup {Garbage}) /\ Len(q) \in Nat
  BY DEF Content
<1>2. /\ a \in Seq(Msgs \cup {Garbage}) /\ Len(a) = n /\ \A i \in 1..n : a[i] = q[i]
  BY <1>1
<1>3. /\ b \in Seq(Msgs \cup {Garbage}) /\ Len(b) = Len(q) - n
      /\ \A i \in 1 .. Len(q) - n : b[i] = q[n + i]
  BY <1>1
<1> HIDE DEF a, b
<1>4. /\ a \o b \in Seq(Msgs \cup {Garbage}) /\ Len(a \o b) = Len(q)
      /\ \A i \in 1..Len(q) : (a \o b)[i] = IF i <= n THEN a[i] ELSE b[i - n]
  BY <1>1, <1>2, <1>3
<1>5. \A i \in 1..Len(q) : (a \o b)[i] = q[i]
  BY <1>1, <1>2, <1>3, <1>4
<1>6. a \o b = q
  BY <1>1, <1>4, <1>5, SeqEqual
<1> QED
  BY <1>2, <1>3, <1>6 DEF a, b, Content

\* Taking the end off again.
LEMMA DropEnd ==
    ASSUME NEW p \in Content, NEW q \in Content
    PROVE  SubSeq(p \o q, 1, Len(p \o q) - Len(q)) = p
<1> DEFINE r == SubSeq(p \o q, 1, Len(p \o q) - Len(q))
<1>1. /\ p \in Seq(Msgs \cup {Garbage}) /\ q \in Seq(Msgs \cup {Garbage})
      /\ p \o q \in Seq(Msgs \cup {Garbage}) /\ Len(p \o q) = Len(p) + Len(q)
      /\ Len(p) \in Nat /\ Len(q) \in Nat
      /\ \A i \in 1..Len(p) : (p \o q)[i] = p[i]
  BY DEF Content
<1>2. /\ r \in Seq(Msgs \cup {Garbage}) /\ Len(r) = Len(p)
      /\ \A i \in 1..Len(p) : r[i] = p[i]
  BY <1>1
<1> HIDE DEF r
<1>3. r = p
  BY <1>1, <1>2, SeqEqual
<1> QED
  BY <1>3 DEF r

LEMMA Concat3 ==
    ASSUME NEW p \in Content, NEW q \in Content, NEW r \in Content
    PROVE  (p \o q) \o r = p \o (q \o r)
BY ConcatAssociative DEF Content

LEMMA ConcatNone == ASSUME NEW p \in Content PROVE p \o <<>> = p /\ <<>> \o p = p
BY ConcatEmptySeq DEF Content

LEMMA StreamInit == Init => StreamIntact
BY DEF Init, Constructed, StreamIntact, At

LEMMA StreamStep == TypeOK /\ StackInv /\ WriteInv /\ StreamIntact /\ [Next]_vars => StreamIntact'
<1> SUFFICES ASSUME TypeOK, StackInv, WriteInv, StreamIntact, [Next]_vars PROVE StreamIntact'
  OBVIOUS
<1> USE DEF Return, ThenDo, connVars
<1>t. /\ sock.sent \in Content /\ outputBuffer_ \in Content
      /\ write.rest \in Content /\ accepted \in Content
  BY DEF TypeOK
<1>p. AllPlain(todo') => ~At("write")'
  BY PlainHead
<1>1. CASE ~Writes
  BY <1>1, QuietStep DEF StreamIntact, At
<1>2. CASE HandleWrite
  <2>1. /\ UNCHANGED <<outputBuffer_, sock, accepted>> /\ todo # <<>> /\ ~At("write")
        /\ Tail(todo) \in Seq(Call)
    BY <1>2, TodoFacts DEF HandleWrite, Doing, At, TypeOK, historyVars
  <2>2. AllPlain(Tail(todo))
    BY <2>1, BelowIsPlain
  <2>3. sock.sent \o outputBuffer_ = accepted
    BY <2>1 DEF StreamIntact
  <2>4. CASE "write" \in events_
    <3>1. /\ todo' = <<<<"write">>, <<"drained">>>> \o Tail(todo)
          /\ write' = [nwrote |-> 0, rest |-> outputBuffer_]
      BY <1>2, <2>4 DEF HandleWrite
    <3>2. At("write")'
      BY <2>1, <2>2, <3>1, WriteStack DEF Rest
    <3> QED
      BY <2>1, <2>3, <3>1, <3>2 DEF StreamIntact
  <2>5. CASE "write" \notin events_
    <3>1. todo' = Tail(todo)
      BY <1>2, <2>5 DEF HandleWrite
    <3> QED
      BY <1>p, <2>1, <2>2, <2>3, <3>1 DEF StreamIntact
  <2> QED
    BY <2>4, <2>5
<1>3. CASE WriteSome
  <2>1. At("write") /\ At("write")' /\ UNCHANGED accepted
    BY <1>3 DEF WriteSome, Doing, At, historyVars
  <2>2. PICK n \in Nat : /\ n <= Len(write.rest)
                         /\ sock' = [sock EXCEPT !.sent = @ \o SubSeq(write.rest, 1, n),
                                                 !.unread = @ + n]
                         /\ write' = [nwrote |-> write.nwrote + n,
                                      rest |-> SubSeq(write.rest, n + 1, Len(write.rest))]
    BY <1>3, WriteSomeTakes
  <2>3. /\ sock'.sent = sock.sent \o SubSeq(write.rest, 1, n)
        /\ write'.rest = SubSeq(write.rest, n + 1, Len(write.rest))
    BY <2>2 DEF TypeOK
  <2>4. sock'.sent \o write'.rest = sock.sent \o write.rest
    <3> DEFINE a == SubSeq(write.rest, 1, n)
               b == SubSeq(write.rest, n + 1, Len(write.rest))
    <3>1. a \in Content /\ b \in Content /\ a \o b = write.rest
      BY <1>t, <2>2, SplitSeq
    <3> HIDE DEF a, b
    <3>2. (sock.sent \o a) \o b = sock.sent \o (a \o b)
      BY <1>t, <3>1, Concat3
    <3>3. sock'.sent \o write'.rest = (sock.sent \o a) \o b
      BY <2>3 DEF a, b
    <3> QED
      BY <3>1, <3>2, <3>3
  <2> QED
    BY <2>1, <2>4 DEF StreamIntact
<1>4. CASE Sent
  <2>1. ~At("write")' /\ Rest("sent") /\ UNCHANGED sock
    BY <1>4, RestGoes DEF Sent
  <2>2. outputBuffer_ = <<>> /\ sock.sent \o write.rest = accepted
    BY <2>1 DEF WriteInv, StreamIntact, Rest
  <2>3. CASE write.rest = <<>>
    BY <1>4, <2>1, <2>2, <2>3 DEF Sent, StreamIntact
  <2>4. CASE write.rest # <<>> /\ ~Fault
    <3>1. outputBuffer_' = outputBuffer_ \o write.rest /\ UNCHANGED accepted
      BY <1>4, <2>4 DEF Sent, Keep
    <3>2. outputBuffer_' = write.rest
      BY <1>t, <2>2, <3>1, ConcatNone
    <3> QED
      BY <2>1, <2>2, <3>1, <3>2 DEF StreamIntact
  <2>5. CASE write.rest # <<>> /\ Fault
    <3>1. /\ accepted' = SubSeq(accepted, 1, Len(accepted) - Len(write.rest))
          /\ UNCHANGED outputBuffer_
      BY <1>4, <2>5 DEF Sent
    <3>2. accepted' = sock.sent
      BY <1>t, <2>2, <3>1, DropEnd
    <3>3. sock.sent \o <<>> = sock.sent
      BY <1>t, ConcatNone
    <3> QED
      BY <2>1, <2>2, <3>1, <3>2, <3>3 DEF StreamIntact
  <2> QED
    BY <2>3, <2>4, <2>5
<1>5. CASE Drained
  <2>1. ~At("write")' /\ At("write") /\ outputBuffer_' = write.rest /\ UNCHANGED accepted
    BY <1>5, RestGoes DEF Drained, Rest, historyVars
  <2>2. sock'.sent = sock.sent
    BY <1>5 DEF Drained, FinishShutdown, ShutdownInLoop, TypeOK
  <2> QED
    BY <2>1, <2>2 DEF StreamIntact
<1>6. ASSUME NEW m \in Msgs \cup {Garbage}, NEW rest \in Seq(Call), AllPlain(rest),
             SendInLoop(Bytes(m), rest), UNCHANGED sock, ~At("write")
      PROVE  StreamIntact'
  <2>1. sock.sent \o outputBuffer_ = accepted /\ Bytes(m) \in Content
    BY <1>6, BytesFacts DEF StreamIntact
  <2>2. CASE todo' = rest /\ UNCHANGED <<outputBuffer_, accepted>>
    BY <1>p, <1>6, <2>1, <2>2 DEF StreamIntact
  <2>3. CASE /\ todo' = <<<<"write">>, <<"sent">>>> \o rest /\ outputBuffer_ = <<>>
             /\ write' = [nwrote |-> 0, rest |-> Bytes(m)] /\ accepted' = accepted \o Bytes(m)
    <3>1. At("write")'
      BY <1>6, <2>3, WriteStack DEF Rest
    <3>2. accepted = sock.sent
      BY <1>t, <2>1, <2>3, ConcatNone
    <3> QED
      BY <1>6, <2>3, <3>1, <3>2 DEF StreamIntact
  <2>4. CASE /\ todo' = rest /\ outputBuffer_' = outputBuffer_ \o Bytes(m)
             /\ accepted' = accepted \o Bytes(m)
    <3> DEFINE a == sock.sent
               b == Bytes(m)
    <3>1. a \in Content /\ outputBuffer_ \in Content /\ b \in Content
      BY <1>t, <2>1
    <3> HIDE DEF a, b
    <3>2. (a \o outputBuffer_) \o b = a \o (outputBuffer_ \o b)
      BY <3>1, Concat3
    <3>3. (sock.sent \o outputBuffer_) \o Bytes(m) = sock.sent \o (outputBuffer_ \o Bytes(m))
      BY <3>2 DEF a, b
    <3> QED
      BY <1>p, <1>6, <2>1, <2>4, <3>3 DEF StreamIntact
  <2> QED
    BY <1>6, <2>2, <2>3, <2>4 DEF SendInLoop, Keep
<1>7. CASE RunSend
  <2>1. /\ todo # <<>> /\ ~At("write") /\ todo \in Seq(Call) /\ Head(todo)[1] = "send"
        /\ UNCHANGED sock
    BY <1>7 DEF RunSend, Doing, At, TypeOK
  <2>2. Tail(todo) \in Seq(Call) /\ AllPlain(Tail(todo)) /\ Head(todo)[2] \in Msgs
    BY <2>1, TodoFacts, BelowIsPlain, CallNames
  <2> QED
    BY <1>6, <1>7, <2>1, <2>2 DEF RunSend
<1>8. ASSUME NEW m \in Msgs, UserSend(m) PROVE StreamIntact'
  <2>1. todo \in Seq(Call) /\ AllPlain(todo) /\ ~At("write") /\ UNCHANGED sock
    BY <1>8, BelowIsPlain DEF UserSend, Doing, At, TypeOK, Plain, OtherOps
  <2> QED
    BY <1>6, <1>8, <2>1 DEF UserSend
<1> QED
  BY <1>1, <1>2, <1>3, <1>4, <1>5, <1>7, <1>8 DEF Writes

------------------------------------------------------------------------------
(* The end of a connection.                                                  *)

LEMMA DownInit == Init => DownInv
<1> SUFFICES ASSUME Init PROVE DownInv
  OBVIOUS
<1>1. todo = <<>> \/ todo = <<<<"connectEstablished">>>>
  BY DEF Init
<1> QED
  BY <1>1 DEF Init, DownInv, Has

\* Handlers of the channel come from reports only, and no other step repeats one.
LEMMA NoNewHandler ==
    ASSUME TypeOK, StackInv, [Next]_vars, ~PollReport, NEW op \in {"handleRead", "handleClose"}
    PROVE  /\ \A i \in DOMAIN todo' : todo'[i][1] = op => Kept(i)
           /\ Has(op)' => Has(op)
<1>1. ASSUME NEW i \in DOMAIN todo', todo'[i][1] = op
      PROVE  Kept(i)
  <2>1. CASE RunFunctor
    <3>1. todo' = <<functors[next]>> /\ functors[next] \in Functor
      BY <2>1 DEF RunFunctor, TypeOK
    <3>2. functors[next][1] # op
      BY <3>1, CallNames DEF FunctorOps
    <3> QED
      BY <1>1, <3>1, <3>2
  <2>2. CASE ~RunFunctor
    BY <1>1, <2>2, NewCalls DEF Follow
  <2> QED
    BY <2>1, <2>2
<1> QED
  BY <1>1 DEF Kept, KeptIn, Has, TypeOK

\* How a step changes what there is to read, and what the user hears.
LEMMA ReadStep ==
    ASSUME TypeOK, [Next]_vars
    PROVE  /\ HandleRead => sock.in > 0 /\ Doing("handleRead")
           /\ Drawn => Drawn'
           /\ sock.in > 0 \/ sock.peer # "open" => HandleRead \/ sock'.in > 0 \/ sock'.peer # "open"
           /\ \/ HandleRead \/ HandleClose \/ Disconnect
              \/ downs' = downs /\ upcall' \in {upcall, "up"}
<1> USE DEF connVars, serverVars, queueVars, loopVars, historyVars
<1>1. HandleRead => sock.in > 0 /\ Doing("handleRead") /\ sock'.peer = sock.peer
  BY DEF HandleRead, TypeOK
<1>2. Peer => /\ Drawn => Drawn'
              /\ sock.in > 0 \/ sock.peer # "open" => sock'.in > 0 \/ sock'.peer # "open"
  <2>1. sock.in \in Nat
    BY DEF TypeOK
  <2>2. PeerSends => sock.peer = "open" /\ sock'.in = sock.in + 1
    BY DEF PeerSends, TypeOK
  <2>3. PeerReads => sock'.in = sock.in /\ sock'.peer = sock.peer
    BY DEF PeerReads, TypeOK
  <2>4. PeerCloses \/ PeerResets => sock'.in = sock.in /\ sock'.peer # "open"
    BY DEF PeerCloses, PeerResets, TypeOK
  <2> QED
    BY <2>1, <2>2, <2>3, <2>4 DEF Peer, Drawn
<1>3. HandleError \/ RunShutdown \/ UserShutdown \/ WriteSome \/ Drained =>
        sock'.in = sock.in /\ sock'.peer = sock.peer
  BY DEF HandleError, RunShutdown, UserShutdown, WriteSome, Drained, FinishShutdown,
         ShutdownInLoop, TypeOK
<1>4. \/ sock'.in = sock.in /\ sock'.peer = sock.peer
      \/ HandleRead
      \/ Peer
  BY <1>3 DEF Next, LoopStep, Handlers, ThreadStep, PollIdle, PollReport, Swap, RunFunctor,
              EndFunctors, LeaveLoop,
       ConnectEstablished, ConnectDistroyed, Disconnect, RemoveChannel, HandleClose,
       CloseCallback, HandleWrite, Sent, RunSend, RunCallback,
       UserReturn, UserSend, HandOver, SendCheck, SendQueue, Queue, ShutdownCheck,
       ShutdownSet, ShutdownQueue, Release, RemoveConnectionInLoop, DestroyServer, EndBase, vars
<1>5. \/ HandleRead \/ HandleClose \/ Disconnect \/ UNCHANGED <<downs, upcall>>
      \/ ConnectEstablished
  BY DEF Next, LoopStep, Handlers, ThreadStep, PollIdle, PollReport, Swap, RunFunctor, EndFunctors,
         LeaveLoop,
       ConnectEstablished, ConnectDistroyed, RemoveChannel, HandleError,
       CloseCallback, HandleWrite, WriteSome, Sent, Drained, RunSend, RunShutdown, RunCallback,
       UserReturn, UserSend, UserShutdown, HandOver, SendCheck, SendQueue, Queue, ShutdownCheck,
       ShutdownSet, ShutdownQueue, Release, RemoveConnectionInLoop, DestroyServer, EndBase, Peer,
       vars
<1>6. ConnectEstablished => downs' = downs /\ upcall' = "up"
  BY DEF ConnectEstablished
<1> QED
  BY <1>1, <1>2, <1>4, <1>5, <1>6 DEF Drawn

\* Only connectEstablished makes the channel read.
LEMMA ReadsOnlyUp ==
    ASSUME [Next]_vars, ~ConnectEstablished, "read" \notin events_
    PROVE  "read" \notin events_'
<1>1. Disconnect \/ RemoveChannel => events_' \in {events_, {}}
  BY DEF Disconnect, RemoveChannel, Enable
<1> QED
  BY <1>1, ChannelStep DEF Enable

LEMMA DownStep == TypeOK /\ StackInv /\ FreshInv /\ DownInv /\ [Next]_vars => DownInv'
<1> SUFFICES ASSUME TypeOK, StackInv, FreshInv, DownInv, [Next]_vars PROVE DownInv'
  OBVIOUS
<1>1. /\ downs \in Nat /\ DOMAIN todo = 1..Len(todo) /\ Len(todo) \in Nat
      /\ todo # <<>> => todo[1] = Head(todo) /\ 1 \in DOMAIN todo
  BY DEF TypeOK
<1>2. Doing("handleRead") => Has("handleRead")
  BY <1>1 DEF Doing, At, Has
<1>3. ConnectEstablished => downs = 0 /\ ~Has("handleClose") /\ ~Has("handleRead")
  <2>1. ConnectEstablished => Len(todo) = 1 /\ todo[1][1] = "connectEstablished"
    BY <1>1 DEF ConnectEstablished, Doing, At, StackInv, FunctorOps
  <2> SUFFICES ASSUME ConnectEstablished
               PROVE  downs = 0 /\ ~Has("handleClose") /\ ~Has("handleRead")
    OBVIOUS
  <2>2. DOMAIN todo = {1}
    <3>1. 1..1 = {1}
      OBVIOUS
    <3> QED
      BY <1>1, <2>1, <3>1
  <2>3. \A op : Has(op) <=> op = "connectEstablished"
    BY <2>1, <2>2 DEF Has
  <2> QED
    BY <2>3 DEF FreshInv
<1>4. PollReport => /\ events_' = events_
                    /\ Has("handleRead")' => In
                    /\ Has("handleClose")' => Hup /\ ~In
  BY ReportCalls DEF PollReport, Has, connVars
<1>5. Deaf /\ ~ConnectEstablished => Deaf'
  <2>1. CASE PollReport
    BY <1>4, <2>1 DEF Deaf, In
  <2>2. CASE ~PollReport
    BY <2>2, NoNewHandler, ReadsOnlyUp DEF Deaf
  <2> QED
    BY <2>1, <2>2
<1>6. Has("handleClose")' => Deaf'
  <2>1. CASE PollReport
    <3>1. Hup => sock.peer # "open"
      BY DEF Hup
    <3> QED
      BY <1>4, <2>1, <3>1 DEF Deaf, In
  <2>2. CASE ~PollReport
    BY <1>3, <1>5, <2>2, NoNewHandler DEF DownInv
  <2> QED
    BY <2>1, <2>2
<1>7. Has("handleRead")' => sock'.in > 0 \/ sock'.peer # "open"
  <2>1. CASE PollReport
    BY <1>4, <2>1 DEF In, PollReport
  <2>2. CASE HandleRead
    <3>1. /\ todo' = <<<<"user">>>> \o Tail(todo) /\ todo # <<>> /\ todo[1][1] = "handleRead"
          /\ ~PollReport
      BY <1>1, <2>2 DEF HandleRead, ThenDo, Doing, At, PollReport
    <3>2. /\ Len(todo') = Len(todo) /\ todo'[1][1] = "user"
      BY <3>1 DEF TypeOK
    <3>3. ASSUME NEW i \in DOMAIN todo', todo'[i][1] = "handleRead"
          PROVE  FALSE
      <4>1. KeptIn(todo, todo', i)
        BY <3>1, <3>3, NoNewHandler DEF Kept
      <4>2. i \in 1..Len(todo) /\ todo'[i] = todo[i]
        BY <1>1, <3>2, <4>1, <3>3, TypeStep DEF KeptIn, TypeOK
      <4>3. i = 1
        BY <1>1, <3>1, <3>3, <4>2 DEF DownInv
      <4> QED
        BY <3>2, <3>3, <4>3
    <3> QED
      BY <3>3 DEF Has
  <2>3. CASE ~PollReport /\ ~HandleRead
    BY <2>3, NoNewHandler, ReadStep DEF DownInv
  <2> QED
    BY <2>1, <2>2, <2>3
<1>8. \A i, j \in DOMAIN todo' :
         todo'[i][1] = "handleRead" /\ todo'[j][1] = "handleRead" => i = j
  <2>1. CASE PollReport
    BY <2>1, ReportCalls
  <2>2. CASE ~PollReport
    <3> SUFFICES ASSUME NEW i \in DOMAIN todo', NEW j \in DOMAIN todo',
                        todo'[i][1] = "handleRead", todo'[j][1] = "handleRead"
                 PROVE  i = j
      OBVIOUS
    <3>1. KeptIn(todo, todo', i) /\ KeptIn(todo, todo', j)
      BY <2>2, NoNewHandler DEF Kept
    <3>2. i + Len(todo) - Len(todo') = j + Len(todo) - Len(todo')
      BY <1>1, <3>1 DEF KeptIn, DownInv
    <3>3. i \in Nat /\ j \in Nat /\ Len(todo') \in Nat
      <4>1. todo' \in Seq(Call)
        BY TypeStep DEF TypeOK
      <4> QED
        BY <4>1
    <3> QED
      BY <1>1, <3>2, <3>3
  <2> QED
    BY <2>1, <2>2
<1>9. downs' > 0 => upcall' # "message" /\ (Deaf' \/ Drawn')
  <2>1. CASE HandleClose
    <3>1. upcall' = "down" /\ ~ConnectEstablished
      BY <2>1 DEF HandleClose, ConnectEstablished, Doing, At
    <3>2. CASE Doing("handleClose")
      BY <1>1, <1>5, <3>1, <3>2 DEF Doing, At, Has, DownInv
    <3>3. CASE Doing("handleRead") /\ sock.in = 0
      BY <1>2, <3>1, <3>3, ReadStep DEF DownInv, Drawn
    <3> QED
      BY <2>1, <3>1, <3>2, <3>3 DEF HandleClose
  <2>2. CASE Disconnect
    <3>1. events_' = {} /\ upcall' = "down" /\ ~PollReport
      BY <2>2 DEF Disconnect, Enable, PollReport, Doing, At, TypeOK
    <3>2. Len(todo) = 2 /\ todo[1][1] = "disconnect" /\ todo[2][1] = "remove"
      BY <2>2, DistroyStack
    <3>3. ~Has("handleRead")
      BY <1>1, <3>2 DEF Has
    <3> QED
      BY <3>1, <3>3, NoNewHandler DEF Deaf
  <2>3. CASE HandleRead
    <3>1. sock.in > 0 /\ Has("handleRead") /\ downs' = downs
      BY <1>2, <2>3, ReadStep DEF HandleRead
    <3>2. sock.in \in Nat
      BY DEF TypeOK
    <3> QED
      BY <3>1, <3>2 DEF DownInv, Deaf, Drawn
  <2>4. CASE downs' = downs /\ upcall' \in {upcall, "up"}
    BY <1>1, <1>3, <1>5, <2>4, ReadStep DEF DownInv
  <2> QED
    BY <2>1, <2>2, <2>3, <2>4, ReadStep
<1> QED
  BY <1>6, <1>7, <1>8, <1>9 DEF DownInv

------------------------------------------------------------------------------
(* The theorems.                                                             *)

LEMMA Inductive == Spec => []ConnectionInv
<1>1. Init => ConnectionInv
  <2>1. Init => UpInv
    <3>1. Init => todo = <<>> \/ todo = <<<<"connectEstablished">>>>
      BY DEF Init
    <3> QED
      BY <3>1 DEF UpInv, Has, Init, Constructed
  <2> QED
    BY <2>1, TypeInit, StackInit, FreshInit, WriteInit, DownInit, StreamInit DEF ConnectionInv
<1>2. ConnectionInv /\ [Next]_vars => ConnectionInv'
  BY TypeStep, StackStep, FreshStep, UpStep, WriteStep, DownStep, StreamStep DEF ConnectionInv
<1> QED
  BY <1>1, <1>2, PTL DEF Spec

\* The variables keep their types, and the loop's own fit its control point.
THEOREM TypeCorrect == Spec => []TypeOK
<1>1. ConnectionInv => TypeOK
  BY DEF ConnectionInv
<1> QED
  BY <1>1, Inductive, PTL

\* No byte that sendInLoop took charge of is lost, repeated or overtaken.
THEOREM StreamKept == Spec => []StreamIntact
<1>1. ConnectionInv => StreamIntact
  BY DEF ConnectionInv
<1> QED
  BY <1>1, Inductive, PTL

\* The loop waits for EPOLLOUT exactly when it has something to write.
THEOREM WritesWhenBuffered == Spec => []WritingIffBuffered
<1>1. ConnectionInv => WritingIffBuffered
  BY DEF ConnectionInv, WriteInv, WritingIffBuffered
<1> QED
  BY <1>1, Inductive, PTL

\* After "down" the user hears no more of the peer.
THEOREM DownIsLast == Spec => []NoMessageAfterDown
<1>1. ConnectionInv => NoMessageAfterDown
  BY DEF ConnectionInv, DownInv, NoMessageAfterDown, TypeOK
<1> QED
  BY <1>1, Inductive, PTL
==============================================================================
