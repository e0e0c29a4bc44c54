-------------------------- MODULE EPollPollerProofs --------------------------
(***************************************************************************)
(* Theorems about EPollPoller: index_, channels_ and the kernel's table    *)
(* stay in step, epoll_ctl never fails fatally, what epoll_wait returns is *)
(* the data of channels that wait for what their descriptors have, and     *)
(* events_ grows to a bound, for any channels and any descriptors, however *)
(* these are used again.  Nothing is assumed of epoll_data_t: all of it    *)
(* holds of the union of <sys/epoll.h>.                                    *)
(***************************************************************************)
EXTENDS EPollPoller, FiniteSetTheorems, TLAPS

\* The part of the types that the argument needs.
TableTypes == /\ fd_ \in [Channels -> Fds \cup {None}]
              /\ events_ \in [Channels -> SUBSET Events]
              /\ index_ \in [Channels -> {"kNew", "kAdded", "kDeleted"}]
              /\ channels_ \in [Fds -> Channels \cup {None}]
              /\ epoll = [fd \in Fds |-> epoll[fd]]

\* Two channels never have the same descriptor, and one that has none is kNew.
FdsDistinct == \A c, d \in Channels : Open(c) /\ fd_[c] = fd_[d] => c = d
ClosedIsNew == \A c \in Channels : ~Open(c) => index_[c] = "kNew"

\* The inductive invariant.
TablesAgree == TableTypes /\ FdsDistinct /\ ClosedIsNew /\ KernelAgrees /\ MapAgrees /\ NoFatal

------------------------------------------------------------------------------
\* What update() stores is never the null of an empty entry, and tells which
\* channel it was stored for.
LEMMA DataOf ==
    ASSUME NEW c \in Channels, Open(c), fd_[c] \in Fds \cup {None}
    PROVE  /\ Data(c) \in Channels \cup WildPtrs
           /\ Data(c) # None
           /\ \A d \in Channels : Data(d) = Data(c) => d = c
<1>2. <<fd_[c], c>> \in WildPtrs
  BY DEF WildPtrs
<1>3. \A d \in Channels : <<fd_[d], d>> = <<fd_[c], c>> => d = c
  OBVIOUS
<1> QED BY <1>2, <1>3, PollerAssumption DEF Data

LEMMA DataSame == fd_' = fd_ => \A c : Data(c)' = Data(c)
BY DEF Data

LEMMA TablesInit == Init => TablesAgree
BY PollerAssumption DEF Init, TablesAgree, TableTypes, FdsDistinct, ClosedIsNew,
   KernelAgrees, MapAgrees, NoFatal, Open, Absent

\* An open channel that is not in epoll finds the place of its descriptor empty
\* (EPOLL_CTL_ADD succeeds), and one that is finds its own entry there.
LEMMA EntryOf ==
    ASSUME TablesAgree, NEW c \in Channels, Open(c)
    PROVE  /\ fd_[c] \in Fds
           /\ index_[c] # "kAdded" => epoll[fd_[c]] = Absent
           /\ index_[c] = "kAdded" => epoll[fd_[c]] = [events |-> events_[c], ptr |-> Data(c)]
           /\ [events |-> events_[c], ptr |-> Data(c)] # Absent
<1>1. fd_[c] \in Fds
  BY DEF TablesAgree, TableTypes, Open
<1>2. [events |-> events_[c], ptr |-> Data(c)] # Absent
  BY <1>1, DataOf DEF Absent
<1>3. CASE epoll[fd_[c]] = Absent
  BY <1>1, <1>2, <1>3 DEF TablesAgree, KernelAgrees, NoFatal, FdsDistinct, Open
<1>4. CASE epoll[fd_[c]] # Absent
  <2>1. PICK d \in Channels : /\ fd_[d] = fd_[c] /\ index_[d] = "kAdded"
                              /\ epoll[fd_[c]] = [events |-> events_[d], ptr |-> Data(d)]
    BY <1>1, <1>4 DEF TablesAgree, KernelAgrees, NoFatal
  <2>2. d = c
    BY <2>1 DEF TablesAgree, FdsDistinct, Open
  <2> QED BY <1>1, <1>2, <2>1, <2>2
<1> QED BY <1>3, <1>4

\* What a step owes that leaves the tables and the channels alone.
LEMMA TablesSame ==
    ASSUME TablesAgree, UNCHANGED <<chanVars, channels_, epoll, fatal>>
    PROVE  TablesAgree'
<1>1. \A c : Data(c)' = Data(c)
  BY DataSame DEF chanVars
<1>2. KernelAgrees'
  BY <1>1 DEF TablesAgree, KernelAgrees, chanVars
<1> QED BY <1>2 DEF TablesAgree, TableTypes, FdsDistinct, ClosedIsNew, MapAgrees, NoFatal,
   Open, chanVars

\* The kernel's table agrees after a step that leaves it alone, and the
\* channels at kAdded with it.
LEMMA KernelFrame ==
    ASSUME KernelAgrees, ~fatal, UNCHANGED <<index_, epoll>>,
           \A d \in Channels : index_[d] = "kAdded" =>
              fd_'[d] = fd_[d] /\ events_'[d] = events_[d] /\ Data(d)' = Data(d)
    PROVE  KernelAgrees'
<1> SUFFICES ASSUME NEW fd \in Fds
             PROVE  \/ epoll[fd] = Absent /\ \A d \in Channels : fd_'[d] = fd => index_[d] # "kAdded"
                    \/ \E d \in Channels : /\ fd_'[d] = fd /\ index_[d] = "kAdded"
                                           /\ epoll[fd] = [events |-> events_'[d], ptr |-> Data(d)']
  BY DEF KernelAgrees
<1>1. CASE epoll[fd] = Absent /\ \A d \in Channels : fd_[d] = fd => index_[d] # "kAdded"
  BY <1>1
<1>2. CASE \E d \in Channels : /\ fd_[d] = fd /\ index_[d] = "kAdded"
                              /\ epoll[fd] = [events |-> events_[d], ptr |-> Data(d)]
  BY <1>2
<1> QED BY <1>1, <1>2 DEF KernelAgrees

\* EPollPoller::updateChannel, its three branches.
LEMMA UpdateKeeps ==
    ASSUME TablesAgree, NEW c \in Channels, Update(c)
    PROVE  TablesAgree'
<1>1. PICK events \in SUBSET Events : UpdateChannel(c, events)
  BY DEF Update, TablesAgree, TableTypes
<1>2. Open(c) /\ fd_' = fd_
  BY DEF Update
<1>3. /\ fd_[c] \in Fds
      /\ index_[c] # "kAdded" => epoll[fd_[c]] = Absent
      /\ index_[c] = "kAdded" => epoll[fd_[c]] # Absent
  BY <1>2, EntryOf
<1>d. \A d : Data(d)' = Data(d)
  BY <1>2, DataSame
<1> DEFINE entry == [events |-> events, ptr |-> Data(c)]
<1>4. CASE index_[c] \in {"kNew", "kDeleted"}
  <2>1. /\ index_' = [index_ EXCEPT ![c] = "kAdded"]
        /\ events_' = [events_ EXCEPT ![c] = events]
        /\ channels_' = IF index_[c] = "kNew" THEN [channels_ EXCEPT ![fd_[c]] = c] ELSE channels_
        /\ epoll' = [epoll EXCEPT ![fd_[c]] = entry] /\ ~fatal'
    BY <1>1, <1>3, <1>4 DEF UpdateChannel, EpollAdd
  <2>2. TableTypes' /\ FdsDistinct' /\ ClosedIsNew' /\ NoFatal'
    BY <1>2, <1>3, <2>1 DEF TablesAgree, TableTypes, FdsDistinct, ClosedIsNew, NoFatal, Open
  <2>3. KernelAgrees'
    BY <1>2, <1>3, <1>d, <2>1 DEF TablesAgree, TableTypes, FdsDistinct, KernelAgrees, NoFatal, Open
  <2>4. MapAgrees'
    BY <1>2, <1>3, <1>4, <2>1 DEF TablesAgree, TableTypes, FdsDistinct, MapAgrees, Open
  <2> QED BY <2>2, <2>3, <2>4 DEF TablesAgree
<1>5. CASE index_[c] = "kAdded" /\ events = {}
  <2>1. /\ index_' = [index_ EXCEPT ![c] = "kDeleted"]
        /\ epoll' = [epoll EXCEPT ![fd_[c]] = Absent]
        /\ events_' = [events_ EXCEPT ![c] = events]
        /\ UNCHANGED <<channels_, fatal>>
    BY <1>1, <1>5 DEF UpdateChannel, EpollDel
  <2>2. TableTypes' /\ FdsDistinct' /\ ClosedIsNew' /\ NoFatal'
    BY <1>2, <1>3, <2>1 DEF TablesAgree, TableTypes, FdsDistinct, ClosedIsNew, NoFatal, Open
  <2>3. KernelAgrees'
    <3>1. epoll'[fd_[c]] = Absent /\ \A d \in Channels : fd_[d] = fd_[c] => index_'[d] # "kAdded"
      BY <1>2, <1>3, <2>1 DEF TablesAgree, TableTypes, FdsDistinct
    <3>2. ASSUME NEW fd \in Fds, fd # fd_[c]
          PROVE  /\ epoll'[fd] = epoll[fd]
                 /\ \A d \in Channels : fd_[d] = fd => index_'[d] = index_[d] /\ events_'[d] = events_[d]
      BY <2>1, <3>2 DEF TablesAgree, TableTypes
    <3>3. ASSUME NEW fd \in Fds
          PROVE  \/ epoll'[fd] = Absent /\ \A d \in Channels : fd_[d] = fd => index_'[d] # "kAdded"
                 \/ \E d \in Channels : /\ fd_[d] = fd /\ index_'[d] = "kAdded"
                                        /\ epoll'[fd] = [events |-> events_'[d], ptr |-> Data(d)]
      <4>1. CASE fd = fd_[c]
        BY <3>1, <4>1
      <4>2. CASE fd # fd_[c] /\ epoll[fd] = Absent /\ \A d \in Channels : fd_[d] = fd => index_[d] # "kAdded"
        BY <3>2, <4>2
      <4>3. CASE fd # fd_[c] /\ \E d \in Channels : /\ fd_[d] = fd /\ index_[d] = "kAdded"
                                                   /\ epoll[fd] = [events |-> events_[d], ptr |-> Data(d)]
        <5>1. PICK d \in Channels : /\ fd_[d] = fd /\ index_[d] = "kAdded"
                                    /\ epoll[fd] = [events |-> events_[d], ptr |-> Data(d)]
          BY <4>3
        <5>2. index_'[d] = "kAdded" /\ epoll'[fd] = [events |-> events_'[d], ptr |-> Data(d)]
          BY <3>2, <4>3, <5>1
        <5> QED BY <5>1, <5>2
      <4> QED BY <4>1, <4>2, <4>3 DEF TablesAgree, KernelAgrees, NoFatal
    <3> QED BY <1>2, <1>d, <3>3 DEF KernelAgrees
  <2>4. MapAgrees'
    BY <1>2, <1>3, <1>5, <2>1 DEF TablesAgree, TableTypes, FdsDistinct, MapAgrees, Open
  <2> QED BY <2>2, <2>3, <2>4 DEF TablesAgree
<1>6. CASE index_[c] = "kAdded" /\ events # {}
  <2>1. /\ epoll' = [epoll EXCEPT ![fd_[c]] = entry] /\ ~fatal'
        /\ events_' = [events_ EXCEPT ![c] = events]
        /\ UNCHANGED <<index_, channels_>>
    BY <1>1, <1>3, <1>6 DEF UpdateChannel, EpollMod
  <2>2. TableTypes' /\ FdsDistinct' /\ ClosedIsNew' /\ NoFatal' /\ MapAgrees'
    BY <1>2, <1>3, <2>1 DEF TablesAgree, TableTypes, FdsDistinct, ClosedIsNew, NoFatal,
       MapAgrees, Open
  <2>3. KernelAgrees'
    BY <1>2, <1>3, <1>d, <1>6, <2>1 DEF TablesAgree, TableTypes, FdsDistinct, KernelAgrees, NoFatal, Open
  <2> QED BY <2>2, <2>3 DEF TablesAgree
<1> QED BY <1>4, <1>5, <1>6 DEF TablesAgree, TableTypes

\* EPollPoller::removeChannel.
LEMMA RemoveKeeps ==
    ASSUME TablesAgree, NEW c \in Channels, Remove(c)
    PROVE  TablesAgree'
<1>1. /\ Open(c)
      /\ channels_' = [channels_ EXCEPT ![fd_[c]] = None]
      /\ index_' = [index_ EXCEPT ![c] = "kNew"]
      /\ UNCHANGED <<fd_, events_, fatal>>
  BY DEF Remove, EpollDel
<1>2. fd_[c] \in Fds
  BY <1>1, EntryOf
<1>3. epoll' = [epoll EXCEPT ![fd_[c]] = Absent]
  <2>1. CASE index_[c] = "kAdded"
    BY <2>1 DEF Remove, EpollDel
  <2>2. CASE index_[c] # "kAdded"
    <3>1. epoll' = epoll /\ epoll[fd_[c]] = Absent
      BY <1>1, <2>2, EntryOf DEF Remove
    <3> QED BY <3>1, <1>2 DEF TablesAgree, TableTypes
  <2> QED BY <2>1, <2>2
<1>4. TableTypes' /\ FdsDistinct' /\ ClosedIsNew' /\ NoFatal'
  BY <1>1, <1>2, <1>3 DEF TablesAgree, TableTypes, FdsDistinct, ClosedIsNew, NoFatal, Open
<1>5. KernelAgrees'
  <2>1. \A d : Data(d)' = Data(d)
    BY <1>1, DataSame
  <2> QED BY <1>1, <1>2, <1>3, <2>1 DEF TablesAgree, TableTypes, FdsDistinct, KernelAgrees, NoFatal, Open
<1>6. MapAgrees'
  BY <1>1, <1>2, PollerAssumption DEF TablesAgree, TableTypes, FdsDistinct, MapAgrees, Open
<1> QED BY <1>4, <1>5, <1>6 DEF TablesAgree

\* A channel takes the descriptor of none, so the entry of its place is empty.
LEMMA MakeKeeps ==
    ASSUME TablesAgree, NEW c \in Channels, Make(c)
    PROVE  TablesAgree'
<1>1. PICK fd \in Fds : /\ \A d \in Channels : fd_[d] # fd
                        /\ fd_' = [fd_ EXCEPT ![c] = fd]
  BY DEF Make
<1>2. /\ ~Open(c) /\ index_[c] = "kNew"
      /\ events_' = [events_ EXCEPT ![c] = {}]
      /\ UNCHANGED <<index_, channels_, epoll, fatal>>
  BY DEF Make, TablesAgree, ClosedIsNew
<1>3. TableTypes' /\ FdsDistinct' /\ ClosedIsNew' /\ NoFatal'
  BY <1>1, <1>2 DEF TablesAgree, TableTypes, FdsDistinct, ClosedIsNew, NoFatal, Open
<1>4. KernelAgrees'
  <2>1. \A d \in Channels : index_[d] = "kAdded" => fd_'[d] = fd_[d] /\ events_'[d] = events_[d]
    BY <1>1, <1>2 DEF TablesAgree, TableTypes
  <2>2. \A d \in Channels : index_[d] = "kAdded" => Data(d)' = Data(d)
    BY <2>1 DEF Data
  <2>3. ~fatal /\ UNCHANGED <<index_, epoll>>
    BY <1>2 DEF TablesAgree, NoFatal
  <2> QED BY <2>1, <2>2, <2>3, KernelFrame DEF TablesAgree
<1>5. MapAgrees'
  BY <1>1, <1>2 DEF TablesAgree, TableTypes, MapAgrees
<1> QED BY <1>3, <1>4, <1>5 DEF TablesAgree

\* Only a channel that is kNew is destroyed, and it has no entry anywhere.
LEMMA DestroyKeeps ==
    ASSUME TablesAgree, NEW c \in Channels, Destroy(c)
    PROVE  TablesAgree'
<1>1. /\ Open(c) /\ index_[c] = "kNew"
      /\ fd_' = [fd_ EXCEPT ![c] = None]
      /\ UNCHANGED <<events_, index_, channels_, fatal>>
  BY DEF Destroy
<1>2. fd_[c] \in Fds /\ epoll[fd_[c]] = Absent
  BY <1>1, EntryOf
<1>3. epoll' = epoll
  BY <1>2 DEF Destroy, TablesAgree, TableTypes
<1>4. TableTypes' /\ FdsDistinct' /\ ClosedIsNew' /\ NoFatal'
  BY <1>1, <1>3 DEF TablesAgree, TableTypes, FdsDistinct, ClosedIsNew, NoFatal, Open
<1>5. KernelAgrees'
  <2>1. \A d \in Channels : d # c => fd_'[d] = fd_[d] /\ Data(d)' = Data(d)
    BY <1>1 DEF TablesAgree, TableTypes, Data
  <2>2. fd_'[c] \notin Fds /\ ~fatal /\ UNCHANGED <<events_, index_, epoll>>
    BY <1>1, <1>3, PollerAssumption DEF TablesAgree, TableTypes, NoFatal
  <2> QED BY <1>1, <2>1, <2>2, KernelFrame DEF TablesAgree
<1>6. MapAgrees'
  BY <1>1, PollerAssumption DEF TablesAgree, TableTypes, MapAgrees
<1> QED BY <1>4, <1>5, <1>6 DEF TablesAgree

------------------------------------------------------------------------------
LEMMA TablesStep ==
    ASSUME TablesAgree, [Next]_vars
    PROVE  TablesAgree'
<1>1. ASSUME NEW c \in Channels, Update(c) PROVE TablesAgree'
  BY <1>1, UpdateKeeps
<1>2. ASSUME NEW c \in Channels, Remove(c) PROVE TablesAgree'
  BY <1>2, RemoveKeeps
<1>3. ASSUME NEW c \in Channels, Make(c) PROVE TablesAgree'
  BY <1>3, MakeKeeps
<1>4. ASSUME NEW c \in Channels, Destroy(c) PROVE TablesAgree'
  BY <1>4, DestroyKeeps
<1>5. ASSUME NEW c \in Channels, Handle(c) PROVE TablesAgree'
  BY <1>5, TablesSame DEF Handle
<1>6. ASSUME NEW fd \in Fds, Becomes(fd) PROVE TablesAgree'
  BY <1>6, TablesSame DEF Becomes
<1>7. CASE EnterPoll
  BY <1>7, TablesSame DEF EnterPoll
<1>8. CASE PollEvents
  BY <1>8, TablesSame DEF PollEvents
<1>9. CASE PollNothing
  BY <1>9, TablesSame DEF PollNothing
<1>10. CASE UNCHANGED vars
  BY <1>10, TablesSame DEF vars, chanVars
<1> QED BY <1>1, <1>2, <1>3, <1>4, <1>5, <1>6, <1>7, <1>8, <1>9, <1>10 DEF Next

LEMMA TablesInvariant == Spec => []TablesAgree
<1>1. Init => TablesAgree
  BY TablesInit
<1>2. TablesAgree /\ [Next]_vars => TablesAgree'
  BY TablesStep
<1> QED BY <1>1, <1>2, PTL DEF Spec

\* The kernel's table holds an entry for each channel at kAdded, with that
\* channel's interest set and the data that update() made for it, and no other
\* entry (EPollPoller.cc:89-158), whatever of data.ptr the union leaves.
THEOREM KernelTableAgrees == Spec => []KernelAgrees
<1>1. TablesAgree => KernelAgrees
  BY DEF TablesAgree
<1> QED BY <1>1, TablesInvariant, PTL

\* channels_ holds the channels that are not kNew, and no stale pointer.
THEOREM ChannelMapAgrees == Spec => []MapAgrees
<1>1. TablesAgree => MapAgrees
  BY DEF TablesAgree
<1> QED BY <1>1, TablesInvariant, PTL

\* EPOLL_CTL_ADD and EPOLL_CTL_MOD never meet the entry they would fail on.
THEOREM NeverFatal == Spec => []NoFatal
<1>1. TablesAgree => NoFatal
  BY DEF TablesAgree
<1> QED BY <1>1, TablesInvariant, PTL

------------------------------------------------------------------------------
(* Type correctness, whatever data.ptr holds.                                *)

LEMMA TypeInit == Init => TypeOK
<1>1. Cardinality(Fds) \in Nat
  BY PollerAssumption, FS_CardinalityType
<1> SUFFICES ASSUME Init
             PROVE  TypeOK
  OBVIOUS
<1>2. size \in Nat /\ size <= kInitEventListSize + 2 * Cardinality(Fds)
  BY <1>1, PollerAssumption DEF Init
<1> QED BY <1>2 DEF Init, TypeOK

\* epoll_ctl takes and leaves entries of the kernel's table.
LEMMA CtlTypes ==
    ASSUME TypeOK, NEW c \in Channels, Open(c), NEW events \in SUBSET Events
    PROVE  EpollAdd(c, events) \/ EpollMod(c, events) \/ EpollDel(c) =>
              /\ epoll' \in [Fds -> Entry \cup {Absent}]
              /\ fatal' \in BOOLEAN
<1> DEFINE new == [events |-> events, ptr |-> Data(c)]
<1>1. new \in Entry
  BY DataOf DEF Entry, TypeOK
<1>2. epoll \in [Fds -> Entry \cup {Absent}] /\ fatal \in BOOLEAN
  BY DEF TypeOK
<1> HIDE DEF new
<1>3. ASSUME EpollAdd(c, events) PROVE epoll' \in [Fds -> Entry \cup {Absent}] /\ fatal' \in BOOLEAN
  BY <1>1, <1>2, <1>3 DEF EpollAdd, new
<1>4. ASSUME EpollMod(c, events) PROVE epoll' \in [Fds -> Entry \cup {Absent}] /\ fatal' \in BOOLEAN
  BY <1>1, <1>2, <1>4 DEF EpollMod, new
<1>5. ASSUME EpollDel(c) PROVE epoll' \in [Fds -> Entry \cup {Absent}] /\ fatal' \in BOOLEAN
  BY <1>1, <1>2, <1>5 DEF EpollDel
<1> QED BY <1>3, <1>4, <1>5

LEMMA TypeStep == TypeOK /\ [Next]_vars => TypeOK'
<1> SUFFICES ASSUME TypeOK, [Next]_vars
             PROVE  TypeOK'
  OBVIOUS
<1>1. ASSUME NEW c \in Channels, Update(c) PROVE TypeOK'
  <2>1. PICK events \in SUBSET Events : UpdateChannel(c, events)
    BY <1>1 DEF Update, TypeOK
  <2>2. /\ epoll' \in [Fds -> Entry \cup {Absent}]
        /\ fatal' \in BOOLEAN
    BY <1>1, <2>1, CtlTypes DEF Update, UpdateChannel
  <2>3. /\ events_' \in [Channels -> SUBSET Events]
        /\ index_' \in [Channels -> {"kNew", "kAdded", "kDeleted"}]
        /\ channels_' \in [Fds -> Channels \cup {None}]
    BY <2>1 DEF UpdateChannel, TypeOK
  <2> QED BY <1>1, <2>2, <2>3 DEF Update, TypeOK
<1>2. ASSUME NEW c \in Channels, Remove(c) PROVE TypeOK'
  <2>1. /\ epoll' \in [Fds -> Entry \cup {Absent}]
        /\ fatal' \in BOOLEAN
    BY <1>2, CtlTypes DEF Remove, TypeOK
  <2>2. /\ index_' \in [Channels -> {"kNew", "kAdded", "kDeleted"}]
        /\ channels_' \in [Fds -> Channels \cup {None}]
    BY <1>2 DEF Remove, TypeOK
  <2> QED BY <1>2, <2>1, <2>2 DEF Remove, TypeOK
<1>3. ASSUME NEW c \in Channels, Make(c) PROVE TypeOK'
  BY <1>3 DEF Make, TypeOK
<1>4. ASSUME NEW c \in Channels, Destroy(c) PROVE TypeOK'
  <2>1. epoll' \in [Fds -> Entry \cup {Absent}]
    BY <1>4 DEF Destroy, TypeOK
  <2> QED BY <1>4, <2>1 DEF Destroy, TypeOK
<1>5. ASSUME NEW c \in Channels, Handle(c) PROVE TypeOK'
  BY <1>5 DEF Handle, chanVars, TypeOK
<1>6. ASSUME NEW fd \in Fds, Becomes(fd) PROVE TypeOK'
  BY <1>6 DEF Becomes, chanVars, TypeOK
<1>7. CASE EnterPoll
  BY <1>7 DEF EnterPoll, chanVars, TypeOK
<1>8. CASE PollEvents
  <2>1. PICK fds \in SUBSET Ready : /\ fds # {}
                                    /\ activeChannels' = {epoll[fd].ptr : fd \in fds}
                                    /\ size' = Grown(Cardinality(fds))
    BY <1>8 DEF PollEvents
  <2>2. fds \in SUBSET Fds /\ \A fd \in fds : epoll[fd] # Absent
    BY <2>1 DEF Ready
  <2>3. Cardinality(fds) \in Nat /\ Cardinality(Fds) \in Nat /\ Cardinality(fds) <= Cardinality(Fds)
    BY <2>2, PollerAssumption, FS_Subset, FS_CardinalityType
  <2>4. size' \in Nat /\ size' <= kInitEventListSize + 2 * Cardinality(Fds)
    BY <2>1, <2>3, PollerAssumption DEF Grown, TypeOK
  <2>5. ready' = ready /\ epoll' = epoll /\ UNCHANGED <<chanVars, channels_, fatal>> /\ polling' = FALSE
    BY <1>8 DEF PollEvents
  <2>6. activeChannels' \in SUBSET (Channels \cup WildPtrs)
    <3> SUFFICES ASSUME NEW fd \in fds
                 PROVE  epoll[fd].ptr \in Channels \cup WildPtrs
      BY <2>1
    <3> QED BY <2>2 DEF Entry, TypeOK
  <2> QED BY <2>4, <2>5, <2>6 DEF chanVars, TypeOK
<1>9. CASE PollNothing
  BY <1>9 DEF PollNothing, chanVars, TypeOK
<1>10. CASE UNCHANGED vars
  BY <1>10 DEF vars, chanVars, TypeOK
<1> QED BY <1>1, <1>2, <1>3, <1>4, <1>5, <1>6, <1>7, <1>8, <1>9, <1>10 DEF Next

\* The channels, the tables and the array keep their types, and the array is no
\* larger than twice the descriptors beyond its first size (EPollPoller.cc:52-56).
THEOREM TypeCorrect == Spec => []TypeOK
BY TypeInit, TypeStep, PTL DEF Spec

------------------------------------------------------------------------------
(* The refinement of Poller.                                                 *)

\* What the abstract poller sees of the channels and their descriptors.
Interest == [c \in Channels |-> IF Open(c) /\ index_[c] = "kAdded" THEN events_[c] ELSE {}]
ReadyOf == [c \in Channels |-> IF Open(c) THEN ready[fd_[c]] ELSE {}]
Active == {c \in Channels : Data(c) \in activeChannels}

\* Where only channels are left to handle, none was reported with a wild pointer.
LEMMA ActiveOf ==
    ASSUME fd_ \in [Channels -> Fds \cup {None}], activeChannels \subseteq Channels
    PROVE  Active = IF UnionData THEN {} ELSE activeChannels
<1>1. \A c \in Channels : <<fd_[c], c>> \in WildPtrs
  BY DEF WildPtrs
<1> QED BY <1>1, PollerAssumption DEF Active, Data

\* Nothing is left to handle when poll is called.
HandledFirst == polling => activeChannels = {}
ContractInv == TablesAgree /\ TypeOK /\ HandledFirst

LEMMA HandledStep == HandledFirst /\ [Next]_vars => HandledFirst'
BY DEF HandledFirst, Next, vars, chanVars, Update, Remove, Make, Destroy, Handle, Becomes,
   EnterPoll, PollEvents, PollNothing, Running

LEMMA ContractInvariant == Spec => []ContractInv
<1>1. Init => HandledFirst
  BY DEF Init, HandledFirst
<1>2. TablesAgree /\ [Next]_vars => TablesAgree'
  BY TablesStep
<1> QED BY <1>1, <1>2, TablesInit, TypeInit, TypeStep, HandledStep, PTL DEF Spec, ContractInv

\* A step that touches one channel's interest.
LEMMA InterestOf ==
    ASSUME NEW c \in Channels, NEW x, UNCHANGED <<ready, activeChannels, fd_>>,
           Open(c) /\ index_'[c] = "kAdded" => events_'[c] = x,
           ~(Open(c) /\ index_'[c] = "kAdded") => x = {},
           x \in SUBSET Events,
           \A d \in Channels \ {c} : index_'[d] = index_[d] /\ events_'[d] = events_[d]
    PROVE  Abstract!Update(c)
<1>1. Interest' = [Interest EXCEPT ![c] = x]
  BY DEF Interest, Open
<1>2. ReadyOf' = ReadyOf
  BY DEF ReadyOf, Open
<1>3. Active' = Active
  BY DataSame DEF Active
<1> QED BY <1>1, <1>2, <1>3 DEF Abstract!Update, Interest, ReadyOf, Active

LEMMA UpdateContract ==
    ASSUME ContractInv, NEW c \in Channels, Update(c)
    PROVE  Abstract!Update(c)
<1>1. PICK events \in SUBSET Events : UpdateChannel(c, events)
  BY DEF Update, ContractInv, TypeOK
<1>2. /\ events_' = [events_ EXCEPT ![c] = events]
      /\ \/ index_' = [index_ EXCEPT ![c] = "kAdded"]
         \/ index_' = [index_ EXCEPT ![c] = "kDeleted"] /\ events = {}
         \/ index_[c] = "kAdded" /\ index_' = index_
  BY <1>1 DEF UpdateChannel
<1>3. index_ \in [Channels -> {"kNew", "kAdded", "kDeleted"}] /\ events_ \in [Channels -> SUBSET Events]
  BY DEF ContractInv, TypeOK
<1>4. Open(c) /\ UNCHANGED <<ready, activeChannels, fd_>>
  BY DEF Update
<1>5. /\ events_'[c] = events /\ (index_'[c] = "kAdded" \/ events = {})
      /\ \A d \in Channels \ {c} : index_'[d] = index_[d] /\ events_'[d] = events_[d]
  BY <1>2, <1>3
<1> QED BY <1>2, <1>3, <1>4, <1>5, InterestOf

LEMMA RemoveContract ==
    ASSUME ContractInv, NEW c \in Channels, Remove(c)
    PROVE  Abstract!Update(c)
<1>1. index_'[c] = "kNew" /\ \A d \in Channels \ {c} : index_'[d] = index_[d] /\ events_'[d] = events_[d]
  BY DEF Remove, ContractInv, TypeOK
<1>2. UNCHANGED <<ready, activeChannels, fd_>> /\ {} \in SUBSET Events
  BY DEF Remove
<1> QED BY <1>1, <1>2, InterestOf

\* A step that touches what one channel's descriptor is ready for.
LEMMA ReadinessOf ==
    ASSUME NEW c \in Channels, NEW x \in SUBSET Events, Interest' = Interest,
           Active' = Active, ReadyOf' = [ReadyOf EXCEPT ![c] = x]
    PROVE  Abstract!Becomes(c)
BY DEF Abstract!Becomes, Interest, ReadyOf, Active

LEMMA MakeContract ==
    ASSUME ContractInv, NEW c \in Channels, Make(c)
    PROVE  Abstract!Becomes(c)
<1>1. PICK fd \in Fds : /\ \A d \in Channels : fd_[d] # fd
                        /\ fd_' = [fd_ EXCEPT ![c] = fd]
  BY DEF Make
<1>2. /\ fd_ \in [Channels -> Fds \cup {None}] /\ events_ \in [Channels -> SUBSET Events]
      /\ ready[fd] \in SUBSET Events /\ index_[c] = "kNew" /\ ~Open(c)
  BY <1>1 DEF ContractInv, TypeOK, TablesAgree, ClosedIsNew, Make
<1>3. events_' = [events_ EXCEPT ![c] = {}] /\ UNCHANGED <<index_, ready, activeChannels>>
  BY DEF Make
<1>4. Interest' = Interest
  BY <1>1, <1>2, <1>3 DEF Interest, Open
<1>5. ReadyOf' = [ReadyOf EXCEPT ![c] = ready[fd]]
  BY <1>1, <1>2, <1>3, PollerAssumption DEF ReadyOf, Open
<1>6. Active' = Active
  <2>1. activeChannels \subseteq Channels /\ activeChannels' \subseteq Channels
    BY <1>3 DEF Make, Running
  <2>2. fd_' \in [Channels -> Fds \cup {None}]
    BY <1>1, <1>2
  <2>3. Active = IF UnionData THEN {} ELSE activeChannels
    BY <1>2, <2>1, ActiveOf
  <2>4. \A d \in Channels : <<fd_'[d], d>> \in WildPtrs
    BY <2>2 DEF WildPtrs
  <2>5. Active' = IF UnionData THEN {} ELSE activeChannels'
    BY <2>1, <2>4, PollerAssumption DEF Active, Data
  <2> QED BY <1>3, <2>3, <2>5
<1> QED BY <1>2, <1>4, <1>5, <1>6, ReadinessOf

LEMMA DestroyContract ==
    ASSUME ContractInv, NEW c \in Channels, Destroy(c)
    PROVE  Abstract!Becomes(c)
<1>1. /\ fd_' = [fd_ EXCEPT ![c] = None] /\ ready' = [ready EXCEPT ![fd_[c]] = {}]
      /\ UNCHANGED <<events_, index_, activeChannels>> /\ index_[c] = "kNew" /\ Open(c)
  BY DEF Destroy
<1>2. fd_ \in [Channels -> Fds \cup {None}] /\ ready \in [Fds -> SUBSET Events]
  BY DEF ContractInv, TypeOK
<1>3. \A d \in Channels : d # c => fd_[d] # fd_[c]
  BY <1>1 DEF ContractInv, TablesAgree, FdsDistinct, Open
<1>4. Interest' = Interest
  BY <1>1, <1>2 DEF Interest, Open
<1>5. ReadyOf' = [ReadyOf EXCEPT ![c] = {}]
  BY <1>1, <1>2, <1>3 DEF ReadyOf, Open
<1>6. {} \in SUBSET Events /\ Active' = Active
  <2>1. activeChannels = {} /\ activeChannels' = {}
    BY <1>1 DEF Destroy
  <2> QED BY <2>1 DEF Active
<1> QED BY <1>4, <1>5, <1>6, ReadinessOf

LEMMA BecomesContract ==
    ASSUME ContractInv, NEW fd \in Fds, Becomes(fd)
    PROVE  Abstract!Next
<1>1. PICK c \in Channels : fd_[c] = fd
  BY DEF Becomes
<1>2. PICK events \in SUBSET Events : ready' = [ready EXCEPT ![fd] = events]
  BY DEF Becomes
<1>3. fd_ \in [Channels -> Fds \cup {None}] /\ ready \in [Fds -> SUBSET Events] /\ Open(c)
  BY <1>1, PollerAssumption DEF ContractInv, TypeOK, Open
<1>4. \A d \in Channels : d # c => fd_[d] # fd
  BY <1>1, <1>3 DEF ContractInv, TablesAgree, FdsDistinct
<1>5. UNCHANGED <<fd_, events_, index_, activeChannels>>
  BY DEF Becomes, chanVars
<1>6. Interest' = Interest
  BY <1>5 DEF Interest, Open
<1>7. ReadyOf' = [ReadyOf EXCEPT ![c] = events]
  BY <1>1, <1>2, <1>3, <1>4, <1>5 DEF ReadyOf, Open
<1>8. Active' = Active
  BY <1>5, DataSame DEF Active
<1> QED BY <1>6, <1>7, <1>8, ReadinessOf DEF Abstract!Next

\* What epoll_wait returns is the data of channels that wait for what their
\* descriptors have.
LEMMA PollContract ==
    ASSUME ContractInv, PollEvents
    PROVE  Abstract!Report
<1>1. PICK fds \in SUBSET Ready : activeChannels' = {epoll[fd].ptr : fd \in fds}
  BY DEF PollEvents
<1>2. Active = {}
  BY DEF PollEvents, ContractInv, HandledFirst, Active
<1>3. UNCHANGED <<fd_, events_, index_, ready>>
  BY DEF PollEvents, chanVars
<1>4. Interest' = Interest /\ ReadyOf' = ReadyOf
  BY <1>3 DEF Interest, ReadyOf, Open
<1>5. ASSUME NEW c \in Channels, Data(c) \in activeChannels'
      PROVE  Interest[c] \cap ReadyOf[c] # {}
  <2>1. PICK fd \in fds : Data(c) = epoll[fd].ptr
    BY <1>1, <1>5
  <2>2. fd \in Fds /\ epoll[fd] # Absent /\ epoll[fd].events \cap ready[fd] # {}
    BY <1>1 DEF Ready
  <2>3. PICK d \in Channels : /\ fd_[d] = fd /\ index_[d] = "kAdded"
                              /\ epoll[fd] = [events |-> events_[d], ptr |-> Data(d)]
    BY <2>2 DEF ContractInv, TablesAgree, KernelAgrees, NoFatal
  <2>4. Open(d) /\ fd_[d] \in Fds \cup {None}
    BY <2>2, <2>3, PollerAssumption DEF Open
  <2>5. d = c
    BY <2>1, <2>3, <2>4, DataOf
  <2>6. Interest[c] = events_[c] /\ ReadyOf[c] = ready[fd]
    BY <2>3, <2>4, <2>5 DEF Interest, ReadyOf
  <2> QED BY <2>2, <2>3, <2>5, <2>6
<1>6. Active' \in SUBSET {c \in Channels : Interest[c] \cap ReadyOf[c] # {}}
  <2>1. \A c \in Channels : Data(c)' = Data(c)
    BY <1>3, DataSame
  <2> QED BY <1>5, <2>1 DEF Active
<1> QED BY <1>2, <1>4, <1>6 DEF Abstract!Report, Interest, ReadyOf, Active

LEMMA ContractInit == Init => Abstract!Init
<1> SUFFICES ASSUME Init
             PROVE  Abstract!Init
  OBVIOUS
<1>1. Interest = [c \in Channels |-> {}] /\ ReadyOf = [c \in Channels |-> {}] /\ Active = {}
  BY DEF Init, Interest, ReadyOf, Open, Active
<1> QED BY <1>1 DEF Abstract!Init, Interest, ReadyOf, Active

LEMMA ContractStep == ContractInv /\ [Next]_vars => [Abstract!Next]_(Abstract!vars)
<1> SUFFICES ASSUME ContractInv, [Next]_vars
             PROVE  [Abstract!Next]_(Abstract!vars)
  OBVIOUS
<1>1. ASSUME NEW c \in Channels, Update(c) PROVE Abstract!Next
  BY <1>1, UpdateContract DEF Abstract!Next
<1>2. ASSUME NEW c \in Channels, Remove(c) PROVE Abstract!Next
  BY <1>2, RemoveContract DEF Abstract!Next
<1>3. ASSUME NEW c \in Channels, Make(c) PROVE Abstract!Next
  BY <1>3, MakeContract DEF Abstract!Next
<1>4. ASSUME NEW c \in Channels, Destroy(c) PROVE Abstract!Next
  BY <1>4, DestroyContract DEF Abstract!Next
<1>5. ASSUME NEW c \in Channels, Handle(c) PROVE Abstract!Next
  <2>1. Interest' = Interest /\ ReadyOf' = ReadyOf
    BY <1>5 DEF Handle, chanVars, Interest, ReadyOf, Open
  <2>2. Active' = Active \ {c}
    <3>1. /\ activeChannels \subseteq Channels /\ activeChannels' = activeChannels \ {c} /\ fd_' = fd_
          /\ fd_ \in [Channels -> Fds \cup {None}]
      BY <1>5 DEF Handle, Running, chanVars, ContractInv, TypeOK
    <3>2. Active = IF UnionData THEN {} ELSE activeChannels
      BY <3>1, ActiveOf
    <3>3. Active' = {d \in Channels : Data(d) \in activeChannels \ {c}}
      BY <3>1, DataSame DEF Active
    <3> QED BY <3>1, <3>2, <3>3 DEF Active, Data
  <2>3. Abstract!Handle(c)
    BY <2>1, <2>2 DEF Abstract!Handle, Interest, ReadyOf, Active
  <2> QED BY <2>3 DEF Abstract!Next
<1>6. ASSUME NEW fd \in Fds, Becomes(fd) PROVE Abstract!Next
  BY <1>6, BecomesContract
<1>7. CASE PollEvents
  BY <1>7, PollContract DEF Abstract!Next
<1>8. CASE EnterPoll \/ PollNothing \/ UNCHANGED vars
  <2>1. UNCHANGED <<fd_, events_, index_, ready, activeChannels>>
    BY <1>8 DEF EnterPoll, PollNothing, vars, chanVars
  <2>2. Interest' = Interest /\ ReadyOf' = ReadyOf
    BY <2>1 DEF Interest, ReadyOf, Open
  <2>3. Active' = Active
    BY <2>1, DataSame DEF Active
  <2> QED BY <2>2, <2>3 DEF Abstract!vars, Interest, ReadyOf, Active
<1> QED BY <1>1, <1>2, <1>3, <1>4, <1>5, <1>6, <1>7, <1>8 DEF Next

\* What epoll_wait returns to EPollPoller::poll is the data of channels, each
\* interested in an event that its descriptor has (Poller.h), up to the first
\* use of a wild pointer, after which nothing is defined.
THEOREM ImplementsPoller == Spec => AbstractSpec
BY ContractInit, ContractStep, ContractInvariant, PTL DEF Spec, AbstractSpec, Abstract!Spec
==============================================================================
