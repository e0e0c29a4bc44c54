----------------------------- MODULE EPollPoller -----------------------------
(***************************************************************************)
(* The poller of one loop (src/EPollPoller.cc) and the channels registered *)
(* in it (src/Channel.h): the interest set and index_ of each channel, the *)
(* map channels_, the array events_ handed to epoll_wait, and the kernel's *)
(* own table, which the first three must stay in step with while           *)
(* descriptors are closed and their numbers used again.                    *)
(*                                                                         *)
(* All of it belongs to the loop's thread.  Hang-ups and errors of a       *)
(* descriptor are left out here (TcpConnection has them), so an event is   *)
(* reported only where the interest set has it.                            *)
(***************************************************************************)
EXTENDS Naturals, FiniteSets

CONSTANTS Channels, Fds,
          None,
          Events,
          kInitEventListSize,
          UnionData         \* epoll_data_t is the union it is in <sys/epoll.h>

\* A channel's address whose lower half was overwritten with a descriptor.
WildPtrs == (Fds \cup {None}) \X Channels

ASSUME PollerAssumption == /\ None \notin Channels \cup Fds \cup WildPtrs
                           /\ Channels \cap WildPtrs = {}
                           /\ kInitEventListSize \in Nat \ {0} /\ IsFiniteSet(Fds)
                           /\ UnionData \in BOOLEAN

VARIABLES
    fd_,                    \* the descriptor of each channel, None when it has no more
    events_, index_,        \* of each channel
    channels_,              \* the channel of each descriptor, or None
    size,                   \* events_.size() of the poller
    epoll,                  \* the kernel's table: events and data.ptr of each descriptor
    ready,                  \* what each descriptor is ready for
    activeChannels,         \* what poll reported and is still to be handled
    polling,                \* the loop is in poll, no callback runs
    fatal                   \* epoll_ctl failed to add or modify: LOG_FATAL exits

chanVars == <<fd_, events_, index_>>
vars == <<chanVars, channels_, size, epoll, ready, activeChannels, polling, fatal>>

Absent == [events |-> {}, ptr |-> None]

Init == /\ fd_ = [c \in Channels |-> None]
        /\ events_ = [c \in Channels |-> {}]
        /\ index_ = [c \in Channels |-> "kNew"]
        /\ channels_ = [fd \in Fds |-> None]
        /\ size = kInitEventListSize
        /\ epoll = [fd \in Fds |-> Absent]
        /\ ready = [fd \in Fds |-> {}]
        /\ activeChannels = {}
        /\ polling = FALSE
        /\ fatal = FALSE

\* fillActiveChannels writes through each pointer that poll reports: nothing
\* after a write through a wild one is defined, and nothing after it is modelled.
Running == ~polling /\ ~fatal /\ activeChannels \subseteq Channels
Open(c) == fd_[c] # None

------------------------------------------------------------------------------
(* epoll_ctl.                                                                *)

\* EPollPoller::update stores the channel in data.ptr and then the descriptor
\* in data.fd, which is the lower half of the same memory.
Data(c) == IF UnionData THEN <<fd_[c], c>> ELSE c

EpollAdd(c, events) ==
    /\ fatal' = (epoll[fd_[c]] # Absent)
    /\ epoll' = [epoll EXCEPT ![fd_[c]] = IF @ = Absent THEN [events |-> events, ptr |-> Data(c)] ELSE @]

EpollMod(c, events) ==
    /\ fatal' = (epoll[fd_[c]] = Absent)
    /\ epoll' = [epoll EXCEPT ![fd_[c]] = IF @ = Absent THEN @ ELSE [events |-> events, ptr |-> Data(c)]]

EpollDel(c) == /\ UNCHANGED fatal
               /\ epoll' = [epoll EXCEPT ![fd_[c]] = Absent]

------------------------------------------------------------------------------
(* The operations of a channel, which user code of the loop calls.           *)

\* Mutant: a channel that was taken out of epoll is modified, not added.
UpdateNewOnly(c, events) ==
    /\ events_' = [events_ EXCEPT ![c] = events]
    /\ \/ /\ index_[c] = "kNew"
          /\ channels_' = [channels_ EXCEPT ![fd_[c]] = c]
          /\ index_' = [index_ EXCEPT ![c] = "kAdded"]
          /\ EpollAdd(c, events)
       \/ /\ index_[c] # "kNew" /\ events = {}
          /\ EpollDel(c)
          /\ index_' = [index_ EXCEPT ![c] = "kDeleted"]
          /\ UNCHANGED channels_
       \/ /\ index_[c] # "kNew" /\ events # {}
          /\ EpollMod(c, events)
          /\ UNCHANGED <<index_, channels_>>

\* updateChannel.
UpdateChannel(c, events) ==
    /\ events_' = [events_ EXCEPT ![c] = events]
    /\ \/ /\ index_[c] \in {"kNew", "kDeleted"}
          /\ channels_' = IF index_[c] = "kNew" THEN [channels_ EXCEPT ![fd_[c]] = c] ELSE channels_
          /\ index_' = [index_ EXCEPT ![c] = "kAdded"]
          /\ EpollAdd(c, events)
       \/ /\ index_[c] = "kAdded" /\ events = {}
          /\ EpollDel(c)
          /\ index_' = [index_ EXCEPT ![c] = "kDeleted"]
          /\ UNCHANGED channels_
       \/ /\ index_[c] = "kAdded" /\ events # {}
          /\ EpollMod(c, events)
          /\ UNCHANGED <<index_, channels_>>

\* enableReading, disableReading, enableWriting, disableWriting, disableAll.
Update(c) == /\ Running /\ Open(c)
             /\ \E events \in {events_[c] \cup {e} : e \in Events}
                             \cup {events_[c] \ {e} : e \in Events} \cup {{}} :
                    UpdateChannel(c, events)
             /\ UNCHANGED <<fd_, size, ready, activeChannels, polling>>

\* Mutant: the kernel's entry stays.
RemoveFromMap(c) == /\ Running /\ Open(c)
                    /\ channels_' = [channels_ EXCEPT ![fd_[c]] = None]
                    /\ index_' = [index_ EXCEPT ![c] = "kNew"]
                    /\ UNCHANGED <<fd_, events_, size, epoll, ready, activeChannels, polling, fatal>>

\* Mutant: the entry of the map stays.
RemoveFromEpoll(c) == /\ Running /\ Open(c)
                      /\ IF index_[c] = "kAdded" THEN EpollDel(c) ELSE UNCHANGED <<epoll, fatal>>
                      /\ index_' = [index_ EXCEPT ![c] = "kNew"]
                      /\ UNCHANGED <<fd_, events_, channels_, size, ready, activeChannels, polling>>

\* Channel::remove, removeChannel.  The interest set stays what it was.
Remove(c) == /\ Running /\ Open(c)
             /\ channels_' = [channels_ EXCEPT ![fd_[c]] = None]
             /\ IF index_[c] = "kAdded" THEN EpollDel(c) ELSE UNCHANGED <<epoll, fatal>>
             /\ index_' = [index_ EXCEPT ![c] = "kNew"]
             /\ UNCHANGED <<fd_, events_, size, ready, activeChannels, polling>>

------------------------------------------------------------------------------
(* Channels made and destroyed by their owners (Acceptor, TcpConnection).    *)

\* A new channel gets a descriptor that no open one has.
Make(c) == /\ Running /\ ~Open(c)
           /\ \E fd \in Fds : /\ \A d \in Channels : fd_[d] # fd
                              /\ fd_' = [fd_ EXCEPT ![c] = fd]
           /\ events_' = [events_ EXCEPT ![c] = {}]
           /\ UNCHANGED <<index_, channels_, size, epoll, ready, activeChannels, polling, fatal>>

\* Once it is removed and no handler of it is due (connectDistroyed runs as a
\* functor), its descriptor is closed and drops out of epoll.
Destroy(c) == /\ Running /\ Open(c) /\ index_[c] = "kNew" /\ activeChannels = {}
              /\ fd_' = [fd_ EXCEPT ![c] = None]
              /\ epoll' = [epoll EXCEPT ![fd_[c]] = Absent]
              /\ ready' = [ready EXCEPT ![fd_[c]] = {}]
              /\ UNCHANGED <<events_, index_, channels_, size, activeChannels, polling, fatal>>

------------------------------------------------------------------------------
(* poll.                                                                     *)

Ready == {fd \in Fds : epoll[fd] # Absent /\ epoll[fd].events \cap ready[fd] # {}}

EnterPoll == /\ Running /\ activeChannels = {}
             /\ polling' = TRUE
             /\ UNCHANGED <<chanVars, channels_, size, epoll, ready, activeChannels, fatal>>

\* Mutants: the array keeps its size; it is doubled each time.
GrownNever(n) == size
GrownAlways(n) == size * 2

\* A full array is doubled for the next time.
Grown(n) == IF n = size THEN size * 2 ELSE size

\* epoll_wait fills the array as far as it goes, in an order of its own;
\* fillActiveChannels takes the channels from data.ptr.
PollEvents == /\ polling
              /\ \E fds \in SUBSET Ready :
                    /\ fds # {}
                    /\ Cardinality(fds) = size \/ (fds = Ready /\ Cardinality(fds) < size)
                    /\ activeChannels' = {epoll[fd].ptr : fd \in fds}
                    /\ size' = Grown(Cardinality(fds))
              /\ polling' = FALSE
              /\ UNCHANGED <<chanVars, channels_, epoll, ready, fatal>>

\* The timeout, or EINTR.
PollNothing == /\ polling
               /\ polling' = FALSE
               /\ UNCHANGED <<chanVars, channels_, size, epoll, ready, activeChannels, fatal>>

\* The handlers of one channel begin; what they call are the actions above.
Handle(c) == /\ Running /\ c \in activeChannels
             /\ activeChannels' = activeChannels \ {c}
             /\ UNCHANGED <<chanVars, channels_, size, epoll, ready, polling, fatal>>

\* A descriptor gets ready, or what it was ready for is used up.
Becomes(fd) == /\ \E c \in Channels : fd_[c] = fd
               /\ \E events \in SUBSET Events : ready' = [ready EXCEPT ![fd] = events]
               /\ UNCHANGED <<chanVars, channels_, size, epoll, activeChannels, polling, fatal>>

Next == \/ \E c \in Channels : Update(c) \/ Remove(c) \/ Make(c) \/ Destroy(c) \/ Handle(c)
        \/ \E fd \in Fds : Becomes(fd)
        \/ EnterPoll \/ PollEvents \/ PollNothing

Spec == Init /\ [][Next]_vars

\* The loop goes from one poll to the next, and user code lets it.
Fairness == /\ \A c \in Channels : WF_vars(Handle(c))
            /\ WF_vars(EnterPoll) /\ SF_vars(PollEvents)

FairSpec == Spec /\ Fairness

------------------------------------------------------------------------------
Entry == [events : SUBSET Events, ptr : Channels \cup WildPtrs]

\* Types; the array grows with the channels that are ready at once and no more.
TypeOK == /\ fd_ \in [Channels -> Fds \cup {None}]
          /\ events_ \in [Channels -> SUBSET Events]
          /\ index_ \in [Channels -> {"kNew", "kAdded", "kDeleted"}]
          /\ channels_ \in [Fds -> Channels \cup {None}]
          /\ size \in Nat /\ size <= kInitEventListSize + 2 * Cardinality(Fds)
          /\ epoll \in [Fds -> Entry \cup {Absent}]
          /\ ready \in [Fds -> SUBSET Events]
          /\ activeChannels \in SUBSET (Channels \cup WildPtrs)
          /\ polling \in BOOLEAN /\ fatal \in BOOLEAN

\* The kernel's table is what the channels say: an entry for each channel at
\* kAdded, with its interest set and the data that update() made for it, and no
\* other entry.
KernelAgrees ==
    ~fatal => \A fd \in Fds :
        \/ epoll[fd] = Absent /\ \A c \in Channels : fd_[c] = fd => index_[c] # "kAdded"
        \/ \E c \in Channels : /\ fd_[c] = fd /\ index_[c] = "kAdded"
                               /\ epoll[fd] = [events |-> events_[c], ptr |-> Data(c)]

\* channels_ holds the channels that are not kNew and no stale pointer, so that
\* hasChannel answers rightly after a descriptor's number was used again.
MapAgrees ==
    \A fd \in Fds, c \in Channels :
        channels_[fd] = c <=> fd_[c] = fd /\ index_[c] # "kNew"

\* epoll_ctl never fails to add or modify, which would end the process.
NoFatal == ~fatal

Abstract == INSTANCE Poller WITH
    interest <- [c \in Channels |-> IF Open(c) /\ index_[c] = "kAdded" THEN events_[c] ELSE {}],
    ready <- [c \in Channels |-> IF Open(c) THEN ready[fd_[c]] ELSE {}],
    active <- {c \in Channels : Data(c) \in activeChannels}

\* The poller keeps the promise of Poller.h as far as epoll_wait goes: what it
\* returns is the data of channels, each interested in an event that its
\* descriptor has.  That the data is a pointer to the channel is
\* ReportsChannels, which the union breaks.
AbstractSpec == Abstract!Spec

\* A channel whose event stays is reported, however many others are ready and
\* whichever epoll_wait prefers: the array is doubled until all have room.
Waiting(c) == Open(c) /\ index_[c] = "kAdded" /\ events_[c] \cap ready[fd_[c]] # {}
ReadyIsReported == \A c \in Channels : []<>(~Waiting(c) \/ c \in activeChannels)

------------------------------------------------------------------------------
\* EPollPoller.cc:80: the EventLoop gets the list of the channels with events.
ReportsChannels == activeChannels \subseteq Channels
==============================================================================
