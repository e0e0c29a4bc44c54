------------------------- MODULE EventLoopThreadPool -------------------------
(***************************************************************************)
(* The pool of loops of a TcpServer: EventLoopThreadPool, and in it the    *)
(* EventLoopThreads 1..numThreads_ with their Threads (src/*.cc of these   *)
(* names).  The base thread starts the threads one by one, waiting for     *)
(* each to publish its loop, hands the loops out in turn, and destroys the *)
(* pool.  Each thread has its EventLoop on its own stack, as long as       *)
(* threadFunc runs.  Of the loop itself only entering, sleeping and        *)
(* quitting are here (module EventLoop has the rest).                      *)
(***************************************************************************)
EXTENDS Naturals

CONSTANTS numThreads_,
          MaxConns          \* bound: the calls of getNextLoop

ASSUME PoolAssumption == /\ numThreads_ \in Nat \ {0}
                         /\ MaxConns \in Nat

VARIABLES
    pc, cur,                \* the base thread, and the EventLoopThread it is at
    thr,                    \* the threads of the pool
    loop_,                  \* loop_ # nullptr, of each EventLoopThread
    exists,                 \* the EventLoopThread objects
    quit_, wakeupFd_,       \* of each loop
    next_, given,           \* round robin; history: how often each loop was given
    selfQuit,               \* history: the loops that called quit themselves
    misused                 \* history: the kinds of objects used after their end

vars == <<pc, cur, thr, loop_, exists, quit_, wakeupFd_, next_, given, selfQuit, misused>>

Pool == 1..numThreads_
mainVars == <<pc, cur, exists, next_, given>>
loopVars == <<loop_, quit_, wakeupFd_, selfQuit>>

\* The EventLoop object of thread i exists; loop() of it runs.
Alive(i) == thr[i] \in {"publish", "enter", "check", "poll", "handle", "clear", "unlock"}
InLoop(i) == thr[i] \in {"check", "poll", "handle"}

Init == /\ pc = "start" /\ cur = 1
        /\ thr = [i \in Pool |-> "none"]
        /\ loop_ = [i \in Pool |-> FALSE]
        /\ exists = [i \in Pool |-> TRUE]
        /\ quit_ = [i \in Pool |-> FALSE]
        /\ wakeupFd_ = [i \in Pool |-> FALSE]
        /\ next_ = 1 /\ given = [i \in Pool |-> 0]
        /\ selfQuit = {} /\ misused = {}

------------------------------------------------------------------------------
(* The base thread: start(), getNextLoop(), and the end of the pool.         *)

\* Thread::start creates the thread and waits on the semaphore it posts first.
StartThread == /\ pc = "start"
               /\ thr' = [thr EXCEPT ![cur] = "post"]
               /\ pc' = "sem"
               /\ UNCHANGED <<cur, exists, next_, given, loopVars, misused>>

SemWait == /\ pc = "sem" /\ thr[cur] # "post"
           /\ pc' = "lock"
           /\ UNCHANGED <<cur, exists, next_, given, thr, loopVars, misused>>

\* Mutant: the loop is taken for granted.
StartLoopAtOnce == /\ pc = "lock"
                   /\ IF cur < numThreads_ THEN pc' = "start" /\ cur' = cur + 1
                      ELSE pc' = "serve" /\ UNCHANGED cur
                   /\ UNCHANGED <<exists, next_, given, thr, loopVars, misused>>

\* startLoop, with mutex_ held: the loop is there, or the wait releases mutex_.
StartLoop == /\ pc = "lock"
             /\ \/ ~loop_[cur] /\ pc' = "wait" /\ UNCHANGED cur
                \/ loop_[cur] /\ cur < numThreads_ /\ pc' = "start" /\ cur' = cur + 1
                \/ loop_[cur] /\ cur = numThreads_ /\ pc' = "serve" /\ UNCHANGED cur
             /\ UNCHANGED <<exists, next_, given, thr, loopVars, misused>>

SpuriousWakeup == /\ pc = "wait"
                  /\ pc' = "lock"
                  /\ UNCHANGED <<cur, exists, next_, given, thr, loopVars, misused>>

\* Mutant: next_ goes past the end.
GetNextLoopUnwrapped == /\ pc = "serve" /\ given[next_] < MaxConns
                        /\ given' = [given EXCEPT ![next_] = @ + 1]
                        /\ next_' = IF next_ > numThreads_ THEN 1 ELSE next_ + 1
                        /\ UNCHANGED <<pc, cur, exists, thr, loopVars, misused>>

\* Mutant: next_ goes back to the first too early.
GetNextLoopShort == /\ pc = "serve" /\ given[next_] < MaxConns
                    /\ given' = [given EXCEPT ![next_] = @ + 1]
                    /\ next_' = IF next_ + 1 >= numThreads_ THEN 1 ELSE next_ + 1
                    /\ UNCHANGED <<pc, cur, exists, thr, loopVars, misused>>

\* Indices count from 1 here, from 0 in the code.
GetNextLoop == /\ pc = "serve" /\ given[next_] < MaxConns
               /\ given' = [given EXCEPT ![next_] = @ + 1]
               /\ next_' = IF next_ + 1 > numThreads_ THEN 1 ELSE next_ + 1
               /\ UNCHANGED <<pc, cur, exists, thr, loopVars, misused>>

DestroyPool == /\ pc = "serve"
               /\ pc' = "dtor" /\ cur' = 1
               /\ UNCHANGED <<exists, next_, given, thr, loopVars, misused>>

\* ~EventLoopThread reads loop_ without mutex_.
Dtor == /\ pc = "dtor"
        /\ pc' = IF loop_[cur] THEN "quit" ELSE "free"
        /\ UNCHANGED <<cur, exists, next_, given, thr, loopVars, misused>>

\* Each use of the EventLoop, through loop_ or this.
UsesLoop == misused' = IF Alive(cur) THEN misused ELSE misused \cup {"EventLoop"}

\* loop_->quit(): the flag is set, then the loop is woken.
Quit == /\ pc = "quit"
        /\ quit_' = [quit_ EXCEPT ![cur] = TRUE]
        /\ UsesLoop
        /\ pc' = "wakeup"
        /\ UNCHANGED <<cur, exists, next_, given, thr, loop_, wakeupFd_, selfQuit>>

\* Mutant: quit() relies on the timeout of epoll_wait.
QuitWakeupNone == /\ pc = "wakeup"
                  /\ pc' = "join"
                  /\ UNCHANGED <<cur, exists, next_, given, thr, loopVars, misused>>

QuitWakeup == /\ pc = "wakeup"
              /\ wakeupFd_' = [wakeupFd_ EXCEPT ![cur] = TRUE]
              /\ UsesLoop
              /\ pc' = "join"
              /\ UNCHANGED <<cur, exists, next_, given, thr, loop_, quit_, selfQuit>>

\* Mutant: the thread is not joined.
JoinNot == /\ pc = "join"
           /\ pc' = "free"
           /\ UNCHANGED <<cur, exists, next_, given, thr, loopVars, misused>>

Join == /\ pc = "join" /\ thr[cur] = "ended"
        /\ pc' = "free"
        /\ UNCHANGED <<cur, exists, next_, given, thr, loopVars, misused>>

\* The members are destroyed, a thread that was not joined is detached.
Free == /\ pc = "free"
        /\ exists' = [exists EXCEPT ![cur] = FALSE]
        /\ IF cur < numThreads_ THEN pc' = "dtor" /\ cur' = cur + 1
           ELSE pc' = "done" /\ UNCHANGED cur
        /\ UNCHANGED <<next_, given, thr, loopVars, misused>>

Main == \/ StartThread \/ SemWait \/ StartLoop \/ Dtor \/ Quit \/ QuitWakeup \/ Join \/ Free

------------------------------------------------------------------------------
(* A thread of the pool: threadFunc, with the loop it runs.                  *)

Goes(i, from, to) == thr[i] = from /\ thr' = [thr EXCEPT ![i] = to]

\* Each use of a member of the EventLoopThread.
Uses(i) == misused' = IF exists[i] THEN misused ELSE misused \cup {"EventLoopThread"}

Post(i) == /\ Goes(i, "post", "init")
           /\ UNCHANGED <<mainVars, loopVars, misused>>

Construct(i) == /\ Goes(i, "init", "publish")       \* EventLoop loop; callback_(&loop)
                /\ UNCHANGED <<mainVars, loopVars, misused>>

\* Mutant: the condition is not signalled.
PublishQuietly(i) == /\ Goes(i, "publish", "enter")
                     /\ Uses(i)
                     /\ loop_' = [loop_ EXCEPT ![i] = TRUE]
                     /\ UNCHANGED <<mainVars, quit_, wakeupFd_, selfQuit>>

Publish(i) == /\ Goes(i, "publish", "enter")
              /\ Uses(i)
              /\ loop_' = [loop_ EXCEPT ![i] = TRUE]
              /\ pc' = IF pc = "wait" /\ cur = i THEN "lock" ELSE pc
              /\ UNCHANGED <<cur, exists, next_, given, quit_, wakeupFd_, selfQuit>>

\* EventLoop::loop clears quit_ first.
EnterLoop(i) == /\ Goes(i, "enter", "check")
                /\ quit_' = [quit_ EXCEPT ![i] = FALSE]
                /\ UNCHANGED <<mainVars, loop_, wakeupFd_, selfQuit, misused>>

CheckQuit(i) == /\ Goes(i, "check", IF quit_[i] THEN "clear" ELSE "poll")
                /\ UNCHANGED <<mainVars, loopVars, misused>>

\* epoll_wait returns on the eventfd, or on anything else.
Woken(i) == /\ wakeupFd_[i] /\ Goes(i, "poll", "handle")
            /\ wakeupFd_' = [wakeupFd_ EXCEPT ![i] = FALSE]
            /\ UNCHANGED <<mainVars, loop_, quit_, selfQuit, misused>>

OtherEvent(i) == /\ Goes(i, "poll", "handle")
                 /\ UNCHANGED <<mainVars, loopVars, misused>>

Handled(i) == /\ Goes(i, "handle", "check")
              /\ UNCHANGED <<mainVars, loopVars, misused>>

\* User code on the loop calls quit (EventLoop.cc:111).
QuitItself(i) == /\ thr[i] = "handle"
                 /\ quit_' = [quit_ EXCEPT ![i] = TRUE]
                 /\ selfQuit' = selfQuit \cup {i}
                 /\ UNCHANGED <<mainVars, thr, loop_, wakeupFd_, misused>>

\* After loop(): loop_ is cleared under mutex_, which is then released, and
\* the EventLoop dies.
Clear(i) == /\ Goes(i, "clear", "unlock")
            /\ Uses(i)
            /\ loop_' = [loop_ EXCEPT ![i] = FALSE]
            /\ UNCHANGED <<mainVars, quit_, wakeupFd_, selfQuit>>

Unlock(i) == /\ Goes(i, "unlock", "ended")
             /\ Uses(i)
             /\ UNCHANGED <<mainVars, loopVars>>

ThreadStep(i) == \/ Post(i) \/ Construct(i) \/ Publish(i) \/ EnterLoop(i) \/ CheckQuit(i)
                 \/ Woken(i) \/ Handled(i) \/ Clear(i) \/ Unlock(i)

------------------------------------------------------------------------------
\* Everything has ended.
Done == pc = "done" /\ (\A i \in Pool : thr[i] = "ended") /\ UNCHANGED vars

Next == \/ Main \/ SpuriousWakeup \/ GetNextLoop \/ DestroyPool
        \/ \E i \in Pool : ThreadStep(i) \/ OtherEvent(i) \/ QuitItself(i)
        \/ Done

Spec == Init /\ [][Next]_vars

\* The threads are scheduled; no other event than the eventfd is assumed.
FairSpec == Spec /\ WF_vars(Main) /\ \A i \in Pool : WF_vars(ThreadStep(i))

------------------------------------------------------------------------------
\* Types.
TypeOK == /\ pc \in {"start", "sem", "lock", "wait", "serve", "dtor", "quit", "wakeup",
                     "join", "free", "done"}
          /\ cur \in Pool /\ next_ \in Pool
          /\ thr \in [Pool -> {"none", "post", "init", "publish", "enter", "check", "poll",
                               "handle", "clear", "unlock", "ended"}]
          /\ loop_ \in [Pool -> BOOLEAN] /\ exists \in [Pool -> BOOLEAN]
          /\ quit_ \in [Pool -> BOOLEAN] /\ wakeupFd_ \in [Pool -> BOOLEAN]
          /\ given \in [Pool -> 0..MaxConns] /\ selfQuit \in SUBSET Pool
          /\ misused \in SUBSET {"EventLoop", "EventLoopThread"}

\* While the server serves, each loop that getNextLoop may hand out exists and
\* has its thread, as long as it did not quit itself: startLoop returns only what
\* threadFunc has published (the wait on cond_).
LoopsAlive == pc = "serve" => \A i \in Pool \ selfQuit : loop_[i] /\ Alive(i)

\* No thread uses its EventLoopThread after its end, as long as only the
\* destructor calls quit: it joins the thread before the members die.
NoUseAfterEnd == selfQuit = {} => "EventLoopThread" \notin misused

\* The loops are handed out evenly (getNextLoop).
Even == \A i, j \in Pool : given[i] <= given[j] + 1

\* Why LoopsAlive holds: a loop is published by a thread inside threadFunc, the
\* base thread has started those before cur and waits for each, and until the pool
\* is destroyed a loop is left only when it quits itself.
Starting == pc \in {"start", "sem", "lock", "wait"}
Published(i) == loop_[i] => thr[i] \in {"enter", "check", "poll", "handle", "clear"}
Quitting(i) == quit_[i] \/ thr[i] \in {"clear", "unlock", "ended"}
ServingInv ==
    /\ \A i \in Pool : Published(i)
    /\ Starting \/ pc = "serve" => /\ \A i \in Pool : Quitting(i) => i \in selfQuit
                                  /\ \A i \in Pool \ selfQuit : pc = "serve" \/ i < cur => loop_[i]
    /\ Starting => \A i \in Pool : i > cur => thr[i] = "none"
    /\ pc = "start" => thr[cur] = "none"

\* Why Even holds: those before next_ are one ahead of the others.
RoundRobin ==
    \A i, j \in Pool : /\ (i < next_ <=> j < next_) => given[i] = given[j]
                       /\ i < next_ /\ next_ <= j => given[i] = given[j] + 1

\* Why NoUseAfterEnd holds: the destructor finds each loop published and not yet
\* told to quit, so it always takes the way through join.
EndingInv ==
    selfQuit = {} =>
        /\ "EventLoopThread" \notin misused
        /\ \A i \in Pool : /\ ~exists[i] => thr[i] = "ended"
                           /\ thr[i] \in {"clear", "unlock", "ended"} => quit_[i]
        /\ pc = "free" => thr[cur] = "ended"
        /\ pc \in {"dtor", "quit", "wakeup", "join", "free"} =>
              \A i \in Pool : (IF pc = "dtor" THEN i >= cur ELSE i > cur) => loop_[i] /\ ~quit_[i]

\* The server always gets started, no notification of cond_ is missed, unless a
\* loop quits before startLoop has seen it.
StartReturns == <>(pc = "serve" \/ selfQuit # {})

\* A pool that is destroyed while its loops are inside loop() is joined to the end.
JoinReturns == pc = "quit" /\ InLoop(cur) ~> pc = "free"

------------------------------------------------------------------------------
(* What a comment promises and the code does not keep.                       *)

\* EventLoop.cc:110: quit ends the event loop; the destructor of the pool,
\* which relies on it, returns.
DtorReturns == pc = "dtor" ~> pc = "done"
==============================================================================
