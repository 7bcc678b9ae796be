-------------------------- MODULE Connections_proofs --------------------------
(***************************************************************************)
(* Proofs about module EventLoop, for every size of the event table and    *)
(* every number of descriptors, and about module Connections, for any      *)
(* number of connections, descriptors and clients and whatever peers do.   *)
(* The server is a caller of the event loop, so that what is shown of the  *)
(* loop holds in the running server; its variables keep their types, and   *)
(* its events reach the connection they fired for.                         *)
(***************************************************************************)
EXTENDS Connections, Commands_proofs, FiniteSetTheorems, WellFoundedInduction, TLAPS

-----------------------------------------------------------------------------
(* The event loop, whoever calls it: the downward scan *)

\* A set of naturals has a smallest element.
LEMMA Smallest ==
    ASSUME NEW S, S \subseteq Nat, S # {}
    PROVE  \E i \in S : \A j \in S : i <= j
<1> DEFINE R == OpToRel(<, Nat)
<1>1. IsWellFoundedOn(R, Nat)
  BY NatLessThanWellFounded
<1>2. PICK i \in S : \A j \in S : ~(<<j, i>> \in R)
  <2> HIDE DEF R
  <2> QED BY <1>1, WFMin
<1>3. \A j \in S : i <= j
  <2> SUFFICES ASSUME NEW j \in S, j < i PROVE FALSE
    OBVIOUS
  <2>1. <<j, i>> \in Nat \X Nat /\ <<j, i>>[1] < <<j, i>>[2]
    OBVIOUS
  <2>2. <<j, i>> \in R
    BY <2>1, Zenon DEF OpToRel
  <2> QED BY <2>2, <1>2
<1> QED BY <1>3

\* A set of naturals below a bound has a largest element: what the loop in
\* ev_delete_event stops at exists.
LEMMA Largest ==
    ASSUME NEW n \in Nat, NEW S, S \subseteq 0 .. n, S # {}
    PROVE  \E i \in S : \A j \in S : j <= i
<1> DEFINE T == {n - i : i \in S}
<1>1. T \subseteq Nat /\ T # {}
  <2>1. \A i \in S : n - i \in Nat
    OBVIOUS
  <2> QED BY <2>1, Zenon
<1>2. PICK t \in T : \A u \in T : t <= u
  <2> HIDE DEF T
  <2> QED BY <1>1, Smallest
<1>3. PICK i \in S : t = n - i
  BY <1>2
<1>4. \A j \in S : j <= i
  <2> TAKE j \in S
  <2>1. n - j \in T
    OBVIOUS
  <2> QED BY <2>1, <1>2, <1>3
<1> QED BY <1>4

\* ScanBelow(fd) is the highest registered descriptor below fd, -1 without one.
LEMMA ScanBelowHighest ==
    ASSUME EvTypeOK, NEW fd \in EvFds
    PROVE  /\ ScanBelow(fd) \in -1 .. (num_fds - 1)
           /\ ScanBelow(fd) < fd
           /\ ScanBelow(fd) # -1 => mask[ScanBelow(fd)] # {}
           /\ \A i \in EvFds : i < fd /\ mask[i] # {} => i <= ScanBelow(fd)
<1> DEFINE used == {i \in EvFds : i < fd /\ mask[i] # {}}
<1> USE EvAssumption
<1>1. CASE used = {}
  <2>1. ScanBelow(fd) = -1
    BY <1>1 DEF ScanBelow
  <2> QED BY <1>1, <2>1 DEF EvFds
<1>2. CASE used # {}
  <2>1. \E i \in used : \A j \in used : j <= i
    <3>1. used \subseteq 0 .. num_fds
      BY DEF EvFds
    <3> HIDE DEF used
    <3> QED BY <1>2, <3>1, Largest
  <2>2. ScanBelow(fd) = CHOOSE i \in used : \A j \in used : j <= i
    BY <1>2 DEF ScanBelow
  <2>3. ScanBelow(fd) \in used /\ \A j \in used : j <= ScanBelow(fd)
    <3> HIDE DEF used
    <3> QED BY <2>1, <2>2
  <2> QED BY <2>3 DEF EvFds
<1> QED BY <1>1, <1>2

-----------------------------------------------------------------------------
(* Type correctness *)

\* ev_new starts well-typed.
LEMMA EvInitTypeOK == EvInit => EvTypeOK
BY EvAssumption DEF EvInit, EvTypeOK, EvFds, Fds, Bits

\* Deleting m leaves a table and an epoll set of the right shape.
LEMMA DeleteTypeOK ==
    ASSUME EvTypeOK, NEW fd \in Fds, NEW m \in SUBSET Bits
    PROVE  /\ MaskAfterDelete(fd, m) \in [EvFds -> SUBSET Bits]
           /\ MaxFdAfterDelete(fd, m) \in -1 .. (num_fds - 1)
           /\ InterestAfterDelete(fd, m) \in [Fds -> SUBSET Bits]
<1> USE EvAssumption
<1>1. ~DeleteIgnored(fd) => fd \in EvFds
  BY DEF DeleteIgnored, Fds, EvFds
<1>2. MaskAfterDelete(fd, m) \in [EvFds -> SUBSET Bits]
  BY <1>1 DEF MaskAfterDelete, EvTypeOK
<1>3. MaxFdAfterDelete(fd, m) \in -1 .. (num_fds - 1)
  BY <1>1, ScanBelowHighest DEF MaxFdAfterDelete, EvTypeOK
<1>4. InterestAfterDelete(fd, m) \in [Fds -> SUBSET Bits]
  BY <1>1 DEF InterestAfterDelete, EvTypeOK
<1> QED BY <1>2, <1>3, <1>4

\* Every call keeps the types.
LEMMA EvNextTypeOK == EvTypeOK /\ [EvNext]_evVars => EvTypeOK'
<1> SUFFICES ASSUME EvTypeOK, [EvNext]_evVars PROVE EvTypeOK'
  OBVIOUS
<1> USE EvAssumption
<1>1. ASSUME NEW fd \in Fds, EvClose(fd) PROVE EvTypeOK'
  BY <1>1 DEF EvClose, close_fd, EvTypeOK
<1>2. ASSUME NEW fd \in Fds, NEW m \in SUBSET Bits, EvAdd(fd, m) PROVE EvTypeOK'
  <2>1. fd \in EvFds
    BY <1>2 DEF EvAdd, ev_add_event, ev_add_event_ok, Fds, EvFds
  <2> QED BY <1>2, <2>1 DEF EvAdd, ev_add_event, EvTypeOK, EvFds
<1>3. ASSUME NEW fd \in Fds, NEW m \in SUBSET Bits, EvDelete(fd, m) PROVE EvTypeOK'
  BY <1>3, DeleteTypeOK DEF EvDelete, ev_delete_event, EvTypeOK
<1>4. ASSUME NEW fd \in Fds, NEW m \in SUBSET Bits, EvDeleteAndClose(fd, m)
      PROVE  EvTypeOK'
  BY <1>4, DeleteTypeOK DEF EvDeleteAndClose, delete_and_close, EvTypeOK
<1>5. CASE UNCHANGED evVars
  BY <1>5 DEF evVars, EvTypeOK
<1> QED BY <1>1, <1>2, <1>3, <1>4, <1>5 DEF EvNext

\* ev.c never writes a mask, a max_fd or an epoll entry outside its type, for
\* any callers.
THEOREM EvTypeCorrect == EvSpec => []EvTypeOK
BY EvInitTypeOK, EvNextTypeOK, PTL DEF EvSpec

-----------------------------------------------------------------------------
(* ev->max_fd *)

\* The highest descriptor after a deletion.
LEMMA DeleteMaxFdExact ==
    ASSUME EvTypeOK, MaxFdExact, NEW fd \in Fds, NEW m \in SUBSET Bits,
           mask' = MaskAfterDelete(fd, m), max_fd' = MaxFdAfterDelete(fd, m)
    PROVE  MaxFdExact'
<1> USE EvAssumption
<1>1. CASE DeleteIgnored(fd)
  BY <1>1 DEF MaskAfterDelete, MaxFdAfterDelete, MaxFdExact
<1>2. CASE ~DeleteIgnored(fd)
  <2>1. fd \in EvFds /\ mask[fd] # {}
    BY <1>2 DEF DeleteIgnored, Fds, EvFds
  <2>2. mask' = [mask EXCEPT ![fd] = @ \ m]
    BY <1>2 DEF MaskAfterDelete
  <2>3. CASE fd = max_fd /\ mask[fd] \subseteq m
    <3>1. max_fd' = ScanBelow(fd)
      BY <1>2, <2>3 DEF MaxFdAfterDelete
    <3>2. mask'[fd] = {}
      BY <2>1, <2>2, <2>3 DEF EvTypeOK
    <3>3. \A i \in EvFds : i # fd => mask'[i] = mask[i]
      BY <2>2 DEF EvTypeOK
    <3>4. \A i \in EvFds : mask[i] # {} => i <= fd
      BY <2>3 DEF MaxFdExact
    <3>5. /\ ScanBelow(fd) \in -1 .. (num_fds - 1) /\ ScanBelow(fd) < fd
          /\ ScanBelow(fd) # -1 => mask[ScanBelow(fd)] # {}
          /\ \A i \in EvFds : i < fd /\ mask[i] # {} => i <= ScanBelow(fd)
      BY <2>1, ScanBelowHighest
    <3>6. \A i \in EvFds : mask'[i] # {} => i <= max_fd'
      BY <3>1, <3>2, <3>3, <3>4, <3>5, <2>1 DEF EvFds
    <3>7. max_fd' # -1 => mask'[max_fd'] # {}
      BY <3>1, <3>3, <3>5, <2>1 DEF EvFds
    <3> QED BY <3>6, <3>7 DEF MaxFdExact
  <2>4. CASE ~(fd = max_fd /\ mask[fd] \subseteq m)
    <3>1. max_fd' = max_fd
      BY <1>2, <2>4 DEF MaxFdAfterDelete
    <3>2. \A i \in EvFds : mask'[i] # {} => i <= max_fd
      BY <2>1, <2>2 DEF EvTypeOK, MaxFdExact
    <3>3. max_fd # -1 => mask'[max_fd] # {}
      <4> SUFFICES ASSUME max_fd # -1 PROVE mask'[max_fd] # {}
        OBVIOUS
      <4>1. max_fd \in EvFds /\ mask[max_fd] # {}
        BY DEF EvTypeOK, EvFds, MaxFdExact
      <4>2. CASE fd = max_fd
        BY <4>1, <4>2, <2>2, <2>4 DEF EvTypeOK
      <4>3. CASE fd # max_fd
        BY <4>1, <4>3, <2>2 DEF EvTypeOK
      <4> QED BY <4>2, <4>3
    <3> QED BY <3>1, <3>2, <3>3 DEF MaxFdExact
  <2> QED BY <2>3, <2>4
<1> QED BY <1>1, <1>2

\* Nothing is registered at the start.
LEMMA EvInitMaxFd == EvInit => MaxFdExact
BY EvAssumption DEF EvInit, MaxFdExact, EvFds

\* Every call keeps max_fd exact.
LEMMA EvNextMaxFd == EvTypeOK /\ MaxFdExact /\ [EvNext]_evVars => MaxFdExact'
<1> SUFFICES ASSUME EvTypeOK, MaxFdExact, [EvNext]_evVars PROVE MaxFdExact'
  OBVIOUS
<1> USE EvAssumption
<1>1. ASSUME NEW fd \in Fds, EvClose(fd) PROVE MaxFdExact'
  BY <1>1 DEF EvClose, close_fd, MaxFdExact
<1>2. ASSUME NEW fd \in Fds, NEW m \in SUBSET Bits, m # {}, EvAdd(fd, m)
      PROVE  MaxFdExact'
  <2>1. fd \in EvFds
    BY <1>2 DEF EvAdd, ev_add_event, ev_add_event_ok, Fds, EvFds
  <2>2. /\ mask' = [mask EXCEPT ![fd] = @ \cup m]
        /\ max_fd' = IF fd > max_fd THEN fd ELSE max_fd
    BY <1>2 DEF EvAdd, ev_add_event
  <2>3. \A i \in EvFds : mask'[i] # {} => i <= max_fd'
    BY <2>1, <2>2 DEF EvTypeOK, MaxFdExact, EvFds
  <2>4. max_fd' # -1 => mask'[max_fd'] # {}
    BY <1>2, <2>1, <2>2 DEF EvTypeOK, MaxFdExact, EvFds
  <2> QED BY <2>3, <2>4 DEF MaxFdExact
<1>3. ASSUME NEW fd \in Fds, NEW m \in SUBSET Bits,
             EvDelete(fd, m) \/ EvDeleteAndClose(fd, m)
      PROVE  MaxFdExact'
  BY <1>3, DeleteMaxFdExact
  DEF EvDelete, ev_delete_event, EvDeleteAndClose, delete_and_close
<1>4. CASE UNCHANGED evVars
  BY <1>4 DEF evVars, MaxFdExact
<1> QED BY <1>1, <1>2, <1>3, <1>4 DEF EvNext

\* ev->max_fd is -1 exactly when no handler is registered, and otherwise the
\* highest descriptor with one, for any callers: ev_process_events neither
\* ends the server while a handler is waiting nor goes on without one.
THEOREM EvMaxFdExact == EvSpec => []MaxFdExact
BY EvInitTypeOK, EvNextTypeOK, EvInitMaxFd, EvNextMaxFd, PTL DEF EvSpec

-----------------------------------------------------------------------------
(* The kernel's epoll set *)

\* Nothing is watched at the start.
LEMMA EvInitWatched == EvInit => WatchedAsRegistered
BY EvAssumption DEF EvInit, WatchedAsRegistered, EvFds, Fds

\* Every call keeps epoll's interest within ev's masks.
LEMMA EvNextWatched ==
    EvTypeOK /\ WatchedAsRegistered /\ [EvNext]_evVars => WatchedAsRegistered'
<1> SUFFICES ASSUME EvTypeOK, WatchedAsRegistered, [EvNext]_evVars
             PROVE  WatchedAsRegistered'
  OBVIOUS
<1> USE EvAssumption
<1>1. ASSUME NEW fd \in Fds, EvClose(fd) PROVE WatchedAsRegistered'
  BY <1>1 DEF EvClose, close_fd, EvTypeOK, WatchedAsRegistered
<1>2. ASSUME NEW fd \in Fds, NEW m \in SUBSET Bits, EvAdd(fd, m)
      PROVE  WatchedAsRegistered'
  <2>1. fd \in EvFds
    BY <1>2 DEF EvAdd, ev_add_event, ev_add_event_ok, Fds, EvFds
  <2> QED BY <1>2, <2>1 DEF EvAdd, ev_add_event, EvTypeOK, WatchedAsRegistered
<1>3. ASSUME NEW fd \in Fds, NEW m \in SUBSET Bits, EvDelete(fd, m)
      PROVE  WatchedAsRegistered'
  <2>1. CASE DeleteIgnored(fd)
    BY <1>3, <2>1
    DEF EvDelete, ev_delete_event, MaskAfterDelete, InterestAfterDelete,
        WatchedAsRegistered
  <2>2. CASE ~DeleteIgnored(fd)
    <3>1. fd \in EvFds
      BY <2>2 DEF DeleteIgnored, Fds, EvFds
    <3> QED BY <1>3, <2>2, <3>1
            DEF EvDelete, ev_delete_event, MaskAfterDelete, InterestAfterDelete,
                EvTypeOK, WatchedAsRegistered
  <2> QED BY <2>1, <2>2
<1>4. ASSUME NEW fd \in Fds, NEW m \in SUBSET Bits, EvDeleteAndClose(fd, m)
      PROVE  WatchedAsRegistered'
  <2>1. \A i \in Fds : i # fd => /\ interest'[i] = interest[i]
                                 /\ i \in EvFds => mask'[i] = mask[i]
    BY <1>4
    DEF EvDeleteAndClose, delete_and_close, MaskAfterDelete, InterestAfterDelete,
        EvTypeOK
  <2>2. interest'[fd] = {}
    <3>1. InterestAfterDelete(fd, m) \in [Fds -> SUBSET Bits]
      BY DeleteTypeOK
    <3> QED BY <1>4, <3>1 DEF EvDeleteAndClose, delete_and_close
  <2> QED BY <2>1, <2>2 DEF WatchedAsRegistered
<1>5. CASE UNCHANGED evVars
  BY <1>5 DEF evVars, WatchedAsRegistered
<1> QED BY <1>1, <1>2, <1>3, <1>4, <1>5 DEF EvNext

\* Whatever epoll reports for a descriptor was registered in ev->events, for any
\* callers and also after descriptors were closed behind ev's back.  (Not the
\* converse: the mask of a closed descriptor may be stale.)
THEOREM EvWatchedAsRegistered == EvSpec => []WatchedAsRegistered
BY EvInitTypeOK, EvNextTypeOK, EvInitWatched, EvNextWatched, PTL DEF EvSpec

-----------------------------------------------------------------------------
(* The server *)

\* The descriptors the loop is working on come from ev->events: what is left of
\* ev->fired, and the write handler that is running.
DispatchOK ==
    /\ \A e \in fired : e.fd \in Fds /\ e.mask \in SUBSET Bits
    /\ cur = [fd |-> cur.fd, mask |-> cur.mask, bytes_sent |-> cur.bytes_sent]
    /\ cur = Idle \/ (cur.fd \in Fds /\ cur.mask \in SUBSET Bits)

\* Nothing has fired at the start.
LEMMA DispatchInit == Init => DispatchOK
BY DEF Init, DispatchOK, Idle

\* What epoll reports are bits of a mask.
LEMMA EventsAreBits ==
    ASSUME EvTypeOK, NEW fd \in Fds
    PROVE  Events(fd) \in SUBSET Bits
BY DEF Events, EvTypeOK

\* A read handler followed by the write handler of the same event.
LEMMA ThenWriteDispatch ==
    ASSUME DispatchOK, NEW e \in fired, ThenWrite(e)
    PROVE  DispatchOK'
BY DEF DispatchOK, ThenWrite, Idle

\* Every step keeps the dispatched descriptors in range.
LEMMA DispatchNext == EvTypeOK /\ DispatchOK /\ [Next]_vars => DispatchOK'
<1> SUFFICES ASSUME EvTypeOK, DispatchOK, [Next]_vars PROVE DispatchOK'
  OBVIOUS
<1>1. CASE ev_api_poll
  <2>1. cur' = cur
    BY <1>1 DEF ev_api_poll
  <2>2. \A e \in fired' : e.fd \in Fds /\ e.mask \in SUBSET Bits
    BY <1>1, EventsAreBits DEF ev_api_poll
  <2> QED BY <2>1, <2>2 DEF DispatchOK
<1>2. ASSUME NEW e \in fired,
             SkipsReadFn(e) \/ server_accept(e) \/ read_from_client(e)
      PROVE  DispatchOK'
  BY <1>2, ThenWriteDispatch DEF SkipsReadFn, server_accept, read_from_client
<1>3. CASE write_to_client
  <2>1. fired' = fired
    BY SMTT(60), <1>3
    DEF write_to_client, WriteUnknown, WriteNothing, WriteSome, WriteReturns,
        WriteKills, loopVars
  <2>2. \/ cur' = Idle
        \/ cur' = cur
        \/ cur' = [cur EXCEPT !.bytes_sent = cur'.bytes_sent]
    BY <1>3
    DEF write_to_client, WriteUnknown, WriteNothing, WriteSome, WriteReturns,
        WriteKills, FinishesWrite, loopVars
  <2>3. cur.fd \in Fds /\ cur.mask \in SUBSET Bits
    BY <1>3 DEF write_to_client, WritesClient, DispatchOK
  <2>4. ASSUME cur' = [cur EXCEPT !.bytes_sent = cur'.bytes_sent]
        PROVE  cur' = [fd |-> cur.fd, mask |-> cur.mask, bytes_sent |-> cur'.bytes_sent]
    BY <2>4 DEF DispatchOK
  <2> QED BY SMTT(60), <2>1, <2>2, <2>3, <2>4 DEF DispatchOK, Idle
<1>4. CASE PeerStep \/ ServerStops \/ UNCHANGED vars
  <2>1. fired' = fired /\ cur' = cur
    BY ZenonT(60), <1>4
    DEF PeerStep, PeerConnect, PeerSend, PeerSendTail, PeerRecv, PeerShutdown,
        PeerReset, ServerStops, vars, loopVars
  <2> QED BY SMTT(60), <2>1 DEF DispatchOK
<1> QED BY <1>1, <1>2, <1>3, <1>4 DEF Next, ServerStep

-----------------------------------------------------------------------------
(* The server's steps are the event loop's *)

\* The server's deletions are calls that EventLoop has.
LEMMA DeleteStep ==
    ASSUME NEW fd \in Fds, NEW m \in SUBSET Bits,
           ev_delete_event(fd, m) \/ delete_and_close(fd, m)
    PROVE  EvNext
BY DEF EvNext, EvDelete, EvDeleteAndClose

\* So are its registrations.
LEMMA AddStep ==
    ASSUME NEW fd \in Fds, NEW m \in SUBSET Bits, m # {}, ev_add_event(fd, m)
    PROVE  EvNext
BY DEF EvNext, EvAdd

\* Every handler leaves the event loop alone or calls it as EvNext allows.
LEMMA StepIsEvStep == DispatchOK /\ [Next]_vars => [EvNext]_evVars
<1> SUFFICES ASSUME DispatchOK, [Next]_vars PROVE [EvNext]_evVars
  OBVIOUS
<1> USE DEF Bits
<1>1. CASE ev_api_poll
  BY <1>1 DEF ev_api_poll
<1>2. ASSUME NEW e \in fired, SkipsReadFn(e) PROVE [EvNext]_evVars
  BY <1>2 DEF SkipsReadFn
<1>3. ASSUME NEW e \in fired, server_accept(e) PROVE [EvNext]_evVars
  <2>1. CASE AcceptFails(e)
    BY <2>1 DEF AcceptFails
  <2>2. ASSUME NEW c \in Conns, NEW fd \in Fds, AcceptCreateFails(e, c, fd)
        PROVE  [EvNext]_evVars
    BY <2>2 DEF AcceptCreateFails
  <2>3. ASSUME NEW c \in Conns, NEW fd \in Fds, NEW x \in Cells, AcceptOk(e, c, fd, x)
        PROVE  [EvNext]_evVars
    BY <2>3, AddStep DEF AcceptOk
  <2>4. ASSUME NEW c \in Conns, NEW fd \in Fds, NEW x \in Cells,
               AcceptRegisterFails(e, c, fd, x) \/ AcceptPushFails(e, c, fd, x)
        PROVE  [EvNext]_evVars
    BY <2>4 DEF AcceptRegisterFails, AcceptPushFails
  <2> QED BY <1>3, <2>1, <2>2, <2>3, <2>4 DEF server_accept
<1>4. ASSUME NEW e \in fired, read_from_client(e) PROVE [EvNext]_evVars
  <2>1. e.fd \in Fds /\ e.mask \in SUBSET Bits
    BY DEF DispatchOK
  <2>2. CASE ReadUnknown(e.fd)
    BY <2>1, <2>2, DeleteStep DEF ReadUnknown
  <2>3. CASE ReadGrowFails(e) \/ ReadEof(e)
    <3>1. delete_and_close(e.fd, e.mask)
      BY <2>3 DEF ReadGrowFails, ReadEof, CloseClient
    <3> QED BY <2>1, <3>1, DeleteStep
  <2>4. CASE ReadError(e)
    BY <2>4 DEF ReadError
  <2>5. CASE ReadExecutes(e)
    <3>1. ev_add_event(e.fd, {EV_WRITE}) \/ UNCHANGED evVars
      BY <2>5 DEF ReadExecutes
    <3> QED BY SMTT(60), <2>1, <3>1, AddStep
  <2> QED BY <1>4, <2>2, <2>3, <2>4, <2>5 DEF read_from_client
<1>5. CASE write_to_client
  <2>1. cur.fd \in Fds /\ cur.mask \in SUBSET Bits
    BY SMTT(60), <1>5 DEF write_to_client, WritesClient, DispatchOK
  <2>2. \/ UNCHANGED evVars
        \/ ev_delete_event(cur.fd, {EV_WRITE})
        \/ delete_and_close(cur.fd, cur.mask)
    BY SMTT(60), <1>5
    DEF write_to_client, WriteUnknown, WriteNothing, WriteSome, WriteReturns,
        WriteKills, FinishesWrite
  <2> QED BY <2>1, <2>2, DeleteStep
<1>6. CASE PeerStep \/ ServerStops \/ UNCHANGED vars
  BY ZenonT(60), <1>6
  DEF PeerStep, PeerConnect, PeerSend, PeerSendTail, PeerRecv, PeerShutdown,
      PeerReset, ServerStops, vars
<1> QED BY <1>1, <1>2, <1>3, <1>4, <1>5, <1>6 DEF Next, ServerStep

-----------------------------------------------------------------------------
(* Theorems *)

\* server_new leaves the loop as EventLoop starts.
LEMMA InitIsEvInit == Init => EvInit
BY DEF Init

\* Type correctness of the loop and of what it dispatches, by one induction.
LEMMA DispatchInvariant == Spec => [](EvTypeOK /\ DispatchOK)
<1>1. Init => EvTypeOK /\ DispatchOK
  BY InitIsEvInit, EvInitTypeOK, DispatchInit
<1>2. EvTypeOK /\ DispatchOK /\ [Next]_vars => (EvTypeOK /\ DispatchOK)'
  BY StepIsEvStep, EvNextTypeOK, DispatchNext
<1> QED BY <1>1, <1>2, PTL DEF Spec

\* server.c uses the event loop only through calls that module EventLoop has:
\* the server implements EvSpec.
LEMMA ImplementsEventLoop == Spec => EvSpec
<1>1. DispatchOK /\ [Next]_vars => [EvNext]_evVars
  BY StepIsEvStep
<1> QED BY <1>1, DispatchInvariant, InitIsEvInit, PTL DEF Spec, EvSpec

\* In the running server the loop ends (max_fd = -1) only when nothing is
\* registered, and it never misses a descriptor below its max_fd.
THEOREM ServerMaxFdExact == Spec => []MaxFdExact
BY ImplementsEventLoop, EvMaxFdExact, PTL

\* In the running server the kernel reports no event without a handler, through
\* accepts that fail, closes that leave a stale mask, and reused descriptors.
THEOREM ServerWatchedAsRegistered == Spec => []WatchedAsRegistered
BY ImplementsEventLoop, EvWatchedAsRegistered, PTL

-----------------------------------------------------------------------------
(* Shapes *)

\* S stands for the tokens of replies: what they are made of matters to no shape.
SockOf(S) ==
    [state : {"new", "backlog", "accepted", "closed"}, in : Seq(Token),
     nsegs : 0 .. MaxSegs, cut : CmdsTried \cup {Illegal},
     fin : BOOLEAN, rst : BOOLEAN, err : BOOLEAN,
     sent : Seq(S), taken : Nat, short : BOOLEAN,
     login : BOOLEAN, database : Dbs, replied : Nat]

ClientOf(S) ==
    [fd : Fds \cup {Garbage}, view : ClientView, read_buf : Seq(Token),
     read_cap : Nat \ {0}, builder : Seq(S), write_size : Nat]

Shaped(S) == sock \in [Conns -> SockOf(S)] /\ heap \in [Cells -> ClientOf(S)]

\* What a peer has not taken fits the socket's buffer, and what a client has not
\* executed its read buffer.
BuffersOK ==
    /\ \A c \in Conns : /\ sock[c].taken <= Len(sock[c].sent)
                        /\ Len(sock[c].sent) - sock[c].taken <= snd_cap
    /\ \A x \in Cells : Len(heap[x].read_buf) < heap[x].read_cap

VectorOK ==
    /\ clients \in Seq(Cells)
    /\ clients_cap \in Nat \ {0} /\ Len(clients) <= clients_cap
    /\ live \subseteq Cells

ShapeOK ==
    /\ \E S : Shaped(S)
    /\ file \in [Fds -> Conns \cup {Free, Listener, "other"}]
    /\ backlog \in Seq(Conns)
    /\ cur.bytes_sent \in Nat
    /\ st \in ServerState
    /\ alive \in BOOLEAN /\ regfail \in BOOLEAN /\ moved \in BOOLEAN
    /\ ooms \in 0 .. MaxOom

-----------------------------------------------------------------------------
(* Descriptors and rounds *)

\* Until server_free has run, what epoll watches is open: sfd for reading, and
\* connections, for reading at least.
FilesOK ==
    /\ \A fd \in Fds : file[fd] = Listener => fd = sfd
    /\ alive => ~Stopped
    /\ ~Stopped =>
           /\ file[sfd] = Listener /\ interest[sfd] = {EV_READ}
           /\ \A fd \in Fds \ {sfd} : interest[fd] # {} =>
                  file[fd] \in Conns /\ EV_READ \in interest[fd]

\* Every connection that is watched has a client, the freed ones that a failed
\* registration leaves in the vector notwithstanding.
Served ==
    ~Stopped =>
        \A fd \in Fds \ {sfd} : interest[fd] # {} =>
            \E i \in DOMAIN clients : clients[i] \in live /\ heap[clients[i]].fd = fd

\* The rest of the round is about descriptors that are still watched, each once.
RoundOK ==
    /\ \A e \in fired : file[e.fd] = e.file
    /\ Stopped => fired = {} /\ cur = Idle
    /\ \A e \in fired : interest[e.fd] # {}
    /\ \A e, f \in fired : e.fd = f.fd => e = f
    /\ cur # Idle => /\ cur.fd # sfd /\ EV_WRITE \in interest[cur.fd]
                     /\ \A e \in fired : e.fd # cur.fd

-----------------------------------------------------------------------------
(* Connections and clients, until an accept fails to register its connection *)

\* A connection is new, waits in the backlog once, has one descriptor, or is
\* closed; nothing has happened on it before it is accepted.
ConnsOK ==
    ~regfail =>
        /\ \A i \in DOMAIN backlog : sock[backlog[i]].state = "backlog"
        /\ \A i, j \in DOMAIN backlog : backlog[i] = backlog[j] => i = j
        /\ \A fd \in Fds : file[fd] \in Conns => sock[file[fd]].state = "accepted"
        /\ \A fd, gd \in Fds : file[fd] \in Conns /\ file[fd] = file[gd] => fd = gd
        /\ \A c \in Conns : sock[c].state \in {"new", "backlog"} =>
               /\ ~sock[c].login /\ sock[c].database = 0
               /\ sock[c].sent = <<>> /\ sock[c].replied = 0
        /\ \A c \in Conns : sock[c].err => sock[c].rst

\* s->clients: allocated, each descriptor once, all of them watched.
ClientsOK ==
    ~regfail /\ ~Stopped =>
        /\ \A i \in DOMAIN clients :
               /\ clients[i] \in live
               /\ heap[clients[i]].fd \in Fds \ {sfd}
               /\ interest[heap[clients[i]].fd] # {}
        /\ \A i, j \in DOMAIN clients :
               heap[clients[i]].fd = heap[clients[j]].fd => i = j

\* What the client struct of a connection holds is the connection's.
OwnOK ==
    ~regfail /\ ~Stopped =>
        \A i \in DOMAIN clients :
            LET h == heap[clients[i]]
                s == sock[file[h.fd]]
            IN  /\ h.view.authenticated <=> s.login
                /\ h.view.database_num = s.database
                /\ \A k \in DOMAIN h.builder : h.builder[k].conn = file[h.fd]
                /\ h.read_buf # <<>> => s.rst

\* server_free closes every client.
StopOK == ~regfail /\ Stopped => Connected = {}

\* vec_find returns the first entry with the descriptor.
LEMMA VecFind ==
    ASSUME NEW fd, clients \in Seq(Cells)
    PROVE  /\ vec_find(fd) \in 0 .. Len(clients)
           /\ vec_find(fd) # 0 => /\ vec_find(fd) \in DOMAIN clients
                                  /\ heap[clients[vec_find(fd)]].fd = fd
           /\ \A i \in DOMAIN clients :
                  heap[clients[i]].fd = fd => vec_find(fd) # 0 /\ vec_find(fd) <= i
<1> DEFINE I == {i \in 1 .. Len(clients) : heap[clients[i]].fd = fd}
<1>1. vec_find(fd) = IF I # {} THEN CHOOSE i \in I : \A j \in I : i <= j ELSE 0
  BY DEF vec_find, SelectInSeq, Min
<1>2. I \subseteq Nat /\ I \subseteq 1 .. Len(clients) /\ DOMAIN clients = 1 .. Len(clients)
  OBVIOUS
<1>3. CASE I = {}
  BY <1>1, <1>2, <1>3
<1>4. CASE I # {}
  <2>1. \E i \in I : \A j \in I : i <= j
    <3> HIDE DEF I
    <3> QED BY <1>2, <1>4, Smallest
  <2>2. vec_find(fd) \in I /\ \A j \in I : vec_find(fd) <= j
    <3> HIDE DEF I
    <3> QED BY <1>1, <1>4, <2>1
  <2> QED BY <1>2, <2>2
<1> QED BY <1>3, <1>4

\* The descriptor of a handler that runs has a client.
LEMMA ServedFind ==
    ASSUME VectorOK, Served, ~Stopped, NEW fd \in Fds \ {sfd}, interest[fd] # {}
    PROVE  /\ vec_find(fd) \in DOMAIN clients
           /\ ClientAt(fd) \in Cells
           /\ heap[ClientAt(fd)].fd = fd
<1>1. PICK i \in DOMAIN clients : heap[clients[i]].fd = fd
  BY DEF Served
<1>2. clients \in Seq(Cells)
  BY DEF VectorOK
<1>3. vec_find(fd) \in DOMAIN clients /\ heap[clients[vec_find(fd)]].fd = fd
  BY <1>1, <1>2, VecFind
<1> QED BY <1>2, <1>3 DEF ClientAt

-----------------------------------------------------------------------------
(* What the calls of the event loop do to what epoll watches *)

\* What a successful registration does to epoll's interest.
LEMMA AddEffect ==
    ASSUME EvTypeOK, WatchedAsRegistered, NEW fd \in Fds, NEW m \in SUBSET Bits,
           ev_add_event(fd, m)
    PROVE  interest' = [interest EXCEPT ![fd] = @ \cup m]
<1>1. fd \in EvFds
  BY EvAssumption DEF ev_add_event, ev_add_event_ok, Fds, EvFds
<1>2. mask[fd] = interest[fd]
  BY <1>1 DEF ev_add_event, ev_add_event_ok, ev_api_add_event_ok, WatchedAsRegistered
<1> QED BY <1>2 DEF ev_add_event

\* What deleting and closing does to it.
LEMMA CloseEffect ==
    ASSUME EvTypeOK, NEW fd \in Fds, NEW m \in SUBSET Bits, delete_and_close(fd, m)
    PROVE  /\ interest' = [interest EXCEPT ![fd] = {}]
           /\ fd \in EvFds => mask'[fd] \cap m = {}
<1>1. InterestAfterDelete(fd, m) = [interest EXCEPT ![fd] = InterestAfterDelete(fd, m)[fd]]
  BY DEF EvTypeOK, InterestAfterDelete
<1>2. interest' = [interest EXCEPT ![fd] = {}]
  BY <1>1 DEF delete_and_close, EvTypeOK
<1>3. ASSUME fd \in EvFds PROVE mask'[fd] \cap m = {}
  BY <1>3, EvAssumption
  DEF delete_and_close, MaskAfterDelete, DeleteIgnored, EvTypeOK, EvFds, Fds
<1> QED BY <1>2, <1>3

\* What the end of a write does to it.
LEMMA FinishEffect ==
    ASSUME EvTypeOK, WatchedAsRegistered, NEW fd \in Fds, interest[fd] # {},
           ev_delete_event(fd, {EV_WRITE})
    PROVE  interest' = [interest EXCEPT ![fd] = @ \ {EV_WRITE}]
<1>1. fd \in EvFds /\ mask[fd] = interest[fd]
  BY DEF WatchedAsRegistered
<1>2. ~DeleteIgnored(fd)
  BY <1>1, EvAssumption DEF DeleteIgnored, EvFds
<1> QED BY <1>1, <1>2 DEF ev_delete_event, InterestAfterDelete

-----------------------------------------------------------------------------
(* Where a handler runs *)

\* The inductive invariant: ev's tables are in step, variables and buffers are in
\* shape, and the descriptors that are watched, served and dispatched are the same.
Base ==
    /\ EvTypeOK /\ WatchedAsRegistered /\ DispatchOK
    /\ ShapeOK /\ VectorOK /\ BuffersOK
    /\ FilesOK /\ Served /\ RoundOK

\* What holds when server_accept has taken a connection.
LEMMA AcceptContext ==
    ASSUME Base, NEW e \in fired, NEW c, NEW fd, Accepts(e, c, fd)
    PROVE  /\ e.fd = sfd /\ ~Stopped
           /\ fd \in Fds \ {sfd} /\ file[fd] = Free /\ interest[fd] = {}
           /\ backlog # <<>> /\ c = backlog[1] /\ c \in Conns /\ backlog' = Tail(backlog)
<1>1. backlog \in Seq(Conns) /\ backlog # <<>> /\ c = Head(backlog) /\ backlog' = Tail(backlog)
  BY DEF Base, ShapeOK, Accepts
<1>2. e.fd = sfd /\ ~Stopped
  BY DEF Accepts, CallsReadFn, Dispatches, Base, FilesOK
<1>3. FreeFds # {} /\ fd = CHOOSE f \in FreeFds : \A g \in FreeFds : f <= g
  BY DEF Accepts, Min
<1>4. FreeFds \subseteq Nat
  BY DEF FreeFds, Fds
<1>5. \E f \in FreeFds : \A g \in FreeFds : f <= g
  BY <1>3, <1>4, Smallest
<1>6. fd \in FreeFds
  BY <1>3, <1>5
<1>7. fd \in Fds /\ file[fd] = Free
  BY <1>6 DEF FreeFds
<1>8. fd # sfd
  BY <1>2, <1>7 DEF Base, FilesOK, Free, Listener
<1>9. Free \notin Conns
  BY ConnectionsAssumption DEF Free
<1>10. interest[fd] = {}
  BY <1>2, <1>7, <1>8, <1>9 DEF Base, FilesOK
<1> QED BY <1>1, <1>2, <1>7, <1>8, <1>10

\* What holds when read_from_client has found its client.
LEMMA ReadContext ==
    ASSUME Base, NEW e \in fired, ReadsClient(e)
    PROVE  /\ alive /\ ~Stopped /\ cur = Idle
           /\ e.fd \in Fds \ {sfd} /\ e.mask \in SUBSET Bits
           /\ EV_READ \in interest[e.fd] /\ EV_READ \in e.mask
           /\ file[e.fd] \in Conns
           /\ vec_find(e.fd) \in DOMAIN clients
           /\ ClientAt(e.fd) \in Cells /\ heap[ClientAt(e.fd)].fd = e.fd
<1>1. alive /\ ~Stopped /\ cur = Idle /\ e.fd # sfd /\ EV_READ \in e.mask
  BY DEF ReadsClient, CallsReadFn, Dispatches, Base, FilesOK
<1>2. e.fd \in Fds /\ e.mask \in SUBSET Bits /\ interest[e.fd] # {}
  BY DEF Base, DispatchOK, RoundOK
<1>3. file[e.fd] \in Conns /\ EV_READ \in interest[e.fd]
  BY <1>1, <1>2 DEF Base, FilesOK
<1> QED BY <1>1, <1>2, <1>3, ServedFind DEF Base

\* What holds when write_to_client has found its client.
LEMMA WriteContext ==
    ASSUME Base, WritesClient
    PROVE  /\ alive /\ ~Stopped
           /\ cur.fd \in Fds \ {sfd} /\ cur.mask \in SUBSET Bits
           /\ EV_READ \in interest[cur.fd] /\ EV_WRITE \in interest[cur.fd]
           /\ file[cur.fd] \in Conns
           /\ vec_find(cur.fd) \in DOMAIN clients
           /\ ClientAt(cur.fd) \in Cells /\ heap[ClientAt(cur.fd)].fd = cur.fd
<1>1. alive /\ ~Stopped /\ cur # Idle
  BY DEF WritesClient, Base, FilesOK
<1>2. /\ cur.fd \in Fds \ {sfd} /\ cur.mask \in SUBSET Bits
      /\ EV_WRITE \in interest[cur.fd]
  BY <1>1 DEF Base, DispatchOK, RoundOK
<1>3. file[cur.fd] \in Conns /\ EV_READ \in interest[cur.fd]
  BY <1>1, <1>2 DEF Base, FilesOK
<1> QED BY <1>1, <1>2, <1>3, ServedFind DEF Base

\* The steps of the server for a descriptor that some client has.
Accepted(e) ==
    /\ ThenWrite(e)
    /\ \/ AcceptFails(e)
       \/ \E c \in Conns, fd \in Fds : AcceptCreateFails(e, c, fd)
       \/ \E c \in Conns, fd \in Fds, x \in Cells :
              \/ AcceptOk(e, c, fd, x)
              \/ AcceptRegisterFails(e, c, fd, x)
              \/ AcceptPushFails(e, c, fd, x)

ReadDone(e) ==
    /\ ThenWrite(e) /\ ReadsClient(e)
    /\ ReadGrowFails(e) \/ ReadEof(e) \/ ReadError(e) \/ ReadExecutes(e)

WriteDone ==
    WritesClient /\ (WriteNothing \/ WriteSome \/ WriteReturns \/ WriteKills)

\* The steps for a descriptor that no client has are never taken.
LEMMA Steps ==
    ASSUME Base, [Next]_vars
    PROVE  \/ ev_api_poll
           \/ \E e \in fired : SkipsReadFn(e) \/ Accepted(e) \/ ReadDone(e)
           \/ WriteDone
           \/ PeerStep
           \/ ServerStops
           \/ UNCHANGED vars
<1>1. ASSUME NEW e \in fired, read_from_client(e) PROVE ReadDone(e)
  <2>1. ReadsClient(e) /\ ThenWrite(e)
    BY <1>1 DEF read_from_client
  <2>2. vec_find(e.fd) # 0
    BY <2>1, ReadContext DEF Base, VectorOK
  <2> QED BY <1>1, <2>1, <2>2 DEF read_from_client, ReadDone
<1>2. ASSUME write_to_client PROVE WriteDone
  <2>1. vec_find(cur.fd) # 0
    BY <1>2, WriteContext DEF write_to_client, Base, VectorOK
  <2> QED BY <1>2, <2>1 DEF write_to_client, WriteDone
<1>3. ASSUME NEW e \in fired, server_accept(e) PROVE Accepted(e)
  BY <1>3 DEF server_accept, Accepted
<1> QED BY <1>1, <1>2, <1>3, Zenon DEF Next, ServerStep

-----------------------------------------------------------------------------
(* Shapes are kept *)

\* New and closed sockets, and new client structs, have their shape.
LEMMA NewShapes ==
    ASSUME NEW S
    PROVE  /\ NewSocket \in SockOf(S) /\ ClosedSocket \in SockOf(S)
           /\ NewSocket.taken = 0 /\ NewSocket.sent = <<>>
           /\ NewSocket.database = 0 /\ NewSocket.replied = 0
           /\ ClosedSocket.taken = 0 /\ ClosedSocket.sent = <<>>
           /\ ClosedSocket.state = "closed" /\ ClosedSocket.in = <<>>
           /\ \A fd \in Fds \cup {Garbage} :
                  /\ NewClient(fd) \in ClientOf(S)
                  /\ NewClient(fd).fd = fd
                  /\ NewClient(fd).read_buf = <<>> /\ NewClient(fd).read_cap > 0
<1>1. /\ NewSocket \in SockOf(S) /\ ClosedSocket \in SockOf(S)
      /\ NewSocket.taken = 0 /\ NewSocket.sent = <<>>
      /\ NewSocket.database = 0 /\ NewSocket.replied = 0
      /\ ClosedSocket.taken = 0 /\ ClosedSocket.sent = <<>>
      /\ ClosedSocket.state = "closed" /\ ClosedSocket.in = <<>>
  <2>1. /\ NewSocket \in SockOf(S) /\ NewSocket.taken = 0 /\ NewSocket.sent = <<>>
        /\ NewSocket.database = 0 /\ NewSocket.replied = 0
    <3>1. <<>> \in Seq(Token) /\ <<>> \in Seq(S) /\ 0 \in 0 .. MaxSegs /\ 0 \in Dbs
      BY ConnectionsAssumption, CommandsAssumption DEF Dbs
    <3> QED BY <3>1 DEF NewSocket, SockOf
  <2>2. NewSocket.in = <<>>
    BY DEF NewSocket
  <2> QED BY <2>1, <2>2 DEF ClosedSocket, SockOf
<1>2. ASSUME NEW fd \in Fds \cup {Garbage}
      PROVE  /\ NewClient(fd) \in ClientOf(S)
             /\ NewClient(fd).fd = fd
             /\ NewClient(fd).read_buf = <<>> /\ NewClient(fd).read_cap > 0
  BY InitialTypes, ConnectionsAssumption DEF NewClient, ClientOf
<1> QED BY <1>1, <1>2

\* Peers keep the sockets in shape, and take no more than was sent.
LEMMA PeerShape ==
    ASSUME NEW S, Shaped(S), BuffersOK, PeerStep
    PROVE  Shaped(S)' /\ BuffersOK'
<1>1. heap' = heap
  BY ZenonT(60) DEF PeerStep, PeerConnect, PeerSend, PeerSendTail, PeerRecv, PeerShutdown,
         PeerReset, heapVars
<1>2. \E c \in Conns :
          \/ PeerConnect(c)
          \/ \E cmd \in CmdsTried, part \in {"all", "head"} : PeerSend(c, cmd, part)
          \/ PeerSendTail(c)
          \/ PeerRecv(c)
          \/ PeerShutdown(c)
          \/ PeerReset(c)
  BY DEF PeerStep
<1>3. PICK c \in Conns :
          \/ PeerConnect(c)
          \/ \E cmd \in CmdsTried, part \in {"all", "head"} : PeerSend(c, cmd, part)
          \/ PeerSendTail(c)
          \/ PeerRecv(c)
          \/ PeerShutdown(c)
          \/ PeerReset(c)
  BY <1>2
<1>4. sock \in [Conns -> SockOf(S)] /\ sock[c] \in SockOf(S)
  BY DEF Shaped
<1> DEFINE Ok(s) == /\ s \in SockOf(S)
                    /\ s.taken <= Len(s.sent) /\ Len(s.sent) - s.taken <= snd_cap
<1>5. Ok(sock[c])
  BY <1>4 DEF BuffersOK
<1>6. \E s : Ok(s) /\ sock' = [sock EXCEPT ![c] = s]
  <2>1. CASE PeerConnect(c)
    <3>1. sock' = [sock EXCEPT ![c] = [sock[c] EXCEPT !.state = "backlog"]]
      BY <1>4, <2>1 DEF PeerConnect
    <3> QED BY <1>4, <1>5, <3>1 DEF SockOf
  <2>2. ASSUME NEW cmd \in CmdsTried, NEW part \in {"all", "head"}, PeerSend(c, cmd, part)
        PROVE  \E s : Ok(s) /\ sock' = [sock EXCEPT ![c] = s]
    <3> DEFINE tk == [n |-> sock[c].nsegs + 1, cmd |-> cmd, part |-> part]
               s  == [sock[c] EXCEPT !.nsegs = @ + 1,
                                     !.cut = IF part = "head" THEN cmd ELSE Illegal,
                                     !.in = Append(@, tk)]
    <3>1. sock' = [sock EXCEPT ![c] = s]
      BY <1>4, <2>2 DEF PeerSend
    <3>2. tk \in Token /\ sock[c].nsegs + 1 \in 0 .. MaxSegs
      BY SMTT(60), <1>4, <2>2, ConnectionsAssumption DEF PeerSend, MaySend, Token, Part, SockOf
    <3>3. Append(sock[c].in, tk) \in Seq(Token)
      BY <1>4, <3>2 DEF SockOf
    <3>4. s \in SockOf(S) /\ s.taken = sock[c].taken /\ s.sent = sock[c].sent
      <4> HIDE DEF tk
      <4> QED BY <1>4, <3>2, <3>3 DEF SockOf
    <3> QED BY <1>5, <3>1, <3>4
  <2>3. CASE PeerSendTail(c)
    <3> DEFINE tk == [n |-> sock[c].nsegs + 1, cmd |-> sock[c].cut, part |-> "tail"]
               s  == [sock[c] EXCEPT !.cut = Illegal,
                                     !.nsegs = @ + 1,
                                     !.in = Append(@, tk)]
    <3>1. sock' = [sock EXCEPT ![c] = s]
      BY <1>4, <2>3 DEF PeerSendTail
    <3>2. tk \in Token /\ sock[c].nsegs + 1 \in 0 .. MaxSegs
      BY SMTT(60), <1>4, <2>3, ConnectionsAssumption DEF PeerSendTail, Token, Part, SockOf
    <3>3. Append(sock[c].in, tk) \in Seq(Token)
      BY <1>4, <3>2 DEF SockOf
    <3>4. s \in SockOf(S) /\ s.taken = sock[c].taken /\ s.sent = sock[c].sent
      <4> HIDE DEF tk
      <4> QED BY <1>4, <3>2, <3>3 DEF SockOf
    <3> QED BY <1>5, <3>1, <3>4
  <2>4. CASE PeerRecv(c)
    <3> DEFINE s == [sock[c] EXCEPT !.taken = Len(sock[c].sent)]
    <3>1. sock' = [sock EXCEPT ![c] = s]
      BY <1>4, <2>4 DEF PeerRecv
    <3>2. Len(sock[c].sent) \in Nat
      BY <1>4 DEF SockOf
    <3>3. s \in SockOf(S) /\ s.taken = Len(sock[c].sent) /\ s.sent = sock[c].sent
      BY <1>4, <3>2 DEF SockOf
    <3>4. Ok(s)
      BY <3>2, <3>3, ConnectionsAssumption
    <3> QED BY <3>1, <3>4
  <2>5. CASE PeerShutdown(c)
    <3> DEFINE s == [sock[c] EXCEPT !.fin = TRUE]
    <3>1. sock' = [sock EXCEPT ![c] = s]
      BY <1>4, <2>5 DEF PeerShutdown
    <3> QED BY <1>4, <1>5, <3>1 DEF SockOf
  <2>6. CASE PeerReset(c)
    <3> DEFINE s == [sock[c] EXCEPT !.rst = TRUE, !.err = TRUE, !.taken = Len(sock[c].sent)]
    <3>1. sock' = [sock EXCEPT ![c] = s]
      BY <1>4, <2>6 DEF PeerReset
    <3>2. Len(sock[c].sent) \in Nat
      BY <1>4 DEF SockOf
    <3>3. s \in SockOf(S) /\ s.taken = Len(sock[c].sent) /\ s.sent = sock[c].sent
      BY <1>4, <3>2 DEF SockOf
    <3>4. Ok(s)
      BY <3>2, <3>3, ConnectionsAssumption
    <3> QED BY <3>1, <3>4
  <2> QED BY <1>3, <2>1, <2>2, <2>3, <2>4, <2>5, <2>6
<1> QED BY SMTT(60), <1>1, <1>4, <1>6 DEF Shaped, BuffersOK

\* 2^n is more than n: the read buffer that grows by doubling gets large enough.
LEMMA TwoToThe ==
    ASSUME NEW n \in Nat
    PROVE  2^n \in Nat /\ n < 2^n
<1>1. IsFiniteSet(1 .. n) /\ Cardinality(1 .. n) = n
  BY FS_Interval
<1>2. IsFiniteSet(SUBSET (1 .. n)) /\ Cardinality(SUBSET (1 .. n)) = 2^n
  <2>1. IsFiniteSet(SUBSET (1 .. n)) /\ Cardinality(SUBSET (1 .. n)) = 2^Cardinality(1 .. n)
    BY <1>1, FS_SUBSET
  <2> QED BY <1>1, <2>1
<1>3. 2^n \in Nat
  BY <1>2, FS_CardinalityType
<1> DEFINE f == [i \in 0 .. n |-> 1 .. i]
<1>4. f \in Injection(0 .. n, SUBSET (1 .. n))
  <2>1. f \in [0 .. n -> SUBSET (1 .. n)]
    OBVIOUS
  <2>2. ASSUME NEW i \in 0 .. n, NEW j \in 0 .. n, f[i] = f[j] PROVE i = j
    <3>1. 1 .. i = 1 .. j
      BY <2>2
    <3>2. i \in 1 .. i \/ i = 0
      OBVIOUS
    <3>3. j \in 1 .. j \/ j = 0
      OBVIOUS
    <3> QED BY <3>1, <3>2, <3>3
  <2>3. IsInjective(f)
    BY <2>2 DEF IsInjective
  <2> QED BY <2>1, <2>3 DEF Injection
<1>5. Cardinality(0 .. n) <= Cardinality(SUBSET (1 .. n))
  <2> HIDE DEF f
  <2> QED BY <1>2, <1>4, FS_Injection
<1>6. Cardinality(0 .. n) = n + 1
  BY FS_Interval
<1> QED BY <1>2, <1>3, <1>5, <1>6

\* The read buffer is grown until there is room behind what was read.
LEMMA GrownCapFits ==
    ASSUME NEW S, Shaped(S), NEW fd, file[fd] \in Conns, ClientAt(fd) \in Cells
    PROVE  /\ Received(fd) \in Seq(Token)
           /\ GrownCap(fd) \in Nat \ {0}
           /\ Len(Received(fd)) < GrownCap(fd)
<1> DEFINE cap == heap[ClientAt(fd)].read_cap
           len == Len(Received(fd))
           N   == {n \in {cap * 2^k : k \in 0 .. len} : n > len}
<1>1. heap[ClientAt(fd)] \in ClientOf(S) /\ sock[file[fd]] \in SockOf(S)
  BY DEF Shaped
<1>2. cap \in Nat /\ cap >= 1
  BY <1>1 DEF ClientOf
<1>3. Received(fd) \in Seq(Token) /\ len \in Nat
  <2>1. heap[ClientAt(fd)].read_buf \in Seq(Token) /\ sock[file[fd]].in \in Seq(Token)
    BY <1>1 DEF ClientOf, SockOf
  <2>2. Received(fd) \in Seq(Token)
    BY <2>1 DEF Received
  <2> QED BY <2>2
<1>4. GrownCap(fd) = CHOOSE n \in N : \A m \in N : n <= m
  BY DEF GrownCap, Min
<1> HIDE DEF cap, len
<1>5. N \subseteq Nat
  <2>1. \A k \in 0 .. len : cap * 2^k \in Nat
    BY <1>2, <1>3, TwoToThe
  <2> QED BY <2>1
<1>6. N # {}
  <2>1. cap * 2^len > len
    <3>1. 2^len \in Nat /\ len < 2^len
      BY <1>3, TwoToThe
    <3> DEFINE p == 2^len
    <3>2. p \in Nat /\ len < p
      BY <3>1
    <3> HIDE DEF p
    <3>3. p <= cap * p
      BY <1>2, <3>2
    <3>4. len < cap * p
      BY <1>2, <1>3, <3>2, <3>3
    <3> QED BY <3>4 DEF p
  <2>2. cap * 2^len \in N
    BY <1>3, <2>1
  <2> QED BY <2>2
<1>7. GrownCap(fd) \in N
  <2> HIDE DEF N
  <2> QED BY <1>4, <1>5, <1>6, Smallest
<1> QED BY <1>3, <1>5, <1>7 DEF len

\* What vec_remove_at leaves: everything else, in order.
LEMMA RemovedAt ==
    ASSUME NEW S, NEW s \in Seq(S), NEW k \in DOMAIN s
    PROVE  /\ RemoveAt(s, k) \in Seq(S)
           /\ Len(RemoveAt(s, k)) = Len(s) - 1
           /\ \A i \in DOMAIN RemoveAt(s, k) :
                  LET j == IF i < k THEN i ELSE i + 1
                  IN  j \in DOMAIN s /\ j # k /\ RemoveAt(s, k)[i] = s[j]
           /\ \A j \in DOMAIN s : j # k =>
                  \E i \in DOMAIN RemoveAt(s, k) : RemoveAt(s, k)[i] = s[j]
<1> DEFINE u == SubSeq(s, 1, k - 1)
           v == SubSeq(s, k + 1, Len(s))
           r == RemoveAt(s, k)
<1>1. k \in 1 .. Len(s) /\ Len(s) \in Nat /\ DOMAIN s = 1 .. Len(s)
  OBVIOUS
<1>2. u \in Seq(S) /\ Len(u) = k - 1 /\ \A i \in 1 .. k - 1 : u[i] = s[i]
  BY <1>1
<1>3. v \in Seq(S) /\ Len(v) = Len(s) - k /\ \A i \in 1 .. Len(s) - k : v[i] = s[i + k]
  BY <1>1
<1>4. r = u \o v
  BY DEF RemoveAt
<1> HIDE DEF u, v, r
<1>5. r \in Seq(S) /\ Len(r) = Len(s) - 1
  <2>1. u \in Seq(S) /\ v \in Seq(S)
    BY <1>2, <1>3
  <2>2. r \in Seq(S) /\ Len(r) = Len(u) + Len(v)
    BY <1>4, <2>1
  <2> QED BY <1>1, <1>2, <1>3, <2>2
<1>6. \A i \in 1 .. Len(s) - 1 : r[i] = s[IF i < k THEN i ELSE i + 1]
  <2> TAKE i \in 1 .. Len(s) - 1
  <2>1. CASE i < k
    BY <1>1, <1>2, <1>3, <1>4, <2>1
  <2>2. CASE i >= k
    <3>1. r[i] = v[i - (k - 1)]
      BY SMTT(60), <1>1, <1>2, <1>3, <1>4, <2>2
    <3>2. v[i - (k - 1)] = s[i - (k - 1) + k]
      BY <1>1, <1>3, <2>2
    <3> QED BY <1>1, <2>2, <3>1, <3>2
  <2> QED BY <1>1, <2>1, <2>2
<1>7. DOMAIN r = 1 .. Len(s) - 1
  BY <1>5
<1>8. ASSUME NEW i \in DOMAIN r
      PROVE  LET j == IF i < k THEN i ELSE i + 1
             IN  j \in DOMAIN s /\ j # k /\ r[i] = s[j]
  BY <1>1, <1>6, <1>7
<1>9. ASSUME NEW j \in DOMAIN s, j # k PROVE \E i \in DOMAIN r : r[i] = s[j]
  <2>1. CASE j < k
    <3>1. j \in DOMAIN r /\ r[j] = s[j]
      BY <1>1, <1>6, <1>7, <2>1
    <3> QED BY <3>1
  <2>2. CASE j > k
    <3>1. j - 1 \in DOMAIN r /\ r[j - 1] = s[j - 1 + 1] /\ j - 1 + 1 = j
      BY <1>1, <1>6, <1>7, <2>2
    <3> QED BY <3>1
  <2> QED BY <1>1, <1>9, <2>1, <2>2
<1> QED BY <1>5, <1>8, <1>9 DEF r

SockGood(S, s) ==
    s \in SockOf(S) /\ s.taken <= Len(s.sent) /\ Len(s.sent) - s.taken <= snd_cap

CellGood(S, h) == h \in ClientOf(S) /\ Len(h.read_buf) < h.read_cap

\* The shape invariant, one socket and one struct at a time.
LEMMA GoodParts ==
    ASSUME NEW S, Shaped(S), BuffersOK
    PROVE  /\ sock \in [Conns -> SockOf(S)] /\ \A c \in Conns : SockGood(S, sock[c])
           /\ heap \in [Cells -> ClientOf(S)] /\ \A x \in Cells : CellGood(S, heap[x])
BY DEF Shaped, BuffersOK, SockGood, CellGood

\* A step changes one connection's socket and one cell at most.
LEMMA GoodUpdate ==
    ASSUME NEW S, Shaped(S), BuffersOK,
           NEW c \in Conns, NEW s, SockGood(S, s), sock' = [sock EXCEPT ![c] = s],
           NEW x \in Cells, NEW h, CellGood(S, h), heap' = [heap EXCEPT ![x] = h]
    PROVE  Shaped(S)' /\ BuffersOK'
<1>1. /\ sock \in [Conns -> SockOf(S)] /\ \A d \in Conns : SockGood(S, sock[d])
      /\ heap \in [Cells -> ClientOf(S)] /\ \A y \in Cells : CellGood(S, heap[y])
  BY GoodParts
<1>2. s \in SockOf(S) /\ h \in ClientOf(S)
  BY DEF SockGood, CellGood
<1>3. sock' \in [Conns -> SockOf(S)] /\ heap' \in [Cells -> ClientOf(S)]
  BY <1>1, <1>2
<1>4. \A d \in Conns : SockGood(S, sock'[d])
  BY <1>1
<1>5. \A y \in Cells : CellGood(S, heap'[y])
  BY <1>1
<1> QED BY <1>3, <1>4, <1>5 DEF Shaped, BuffersOK, SockGood, CellGood

\* It holds for a larger set of reply tokens, too.
LEMMA GoodWiden ==
    ASSUME NEW S, NEW T, S \subseteq T, Shaped(S)
    PROVE  Shaped(T)
<1>1. Seq(S) \subseteq Seq(T)
  OBVIOUS
<1>2. SockOf(S) \subseteq SockOf(T)
  BY <1>1 DEF SockOf
<1>3. ClientOf(S) \subseteq ClientOf(T)
  BY <1>1 DEF ClientOf
<1> QED BY <1>2, <1>3 DEF Shaped

\* The handlers of server_accept.
LEMMA AcceptShape ==
    ASSUME Base, NEW S, Shaped(S), NEW e \in fired, NEW c \in Conns, NEW fd \in Fds,
           NEW x \in Cells,
           \/ AcceptCreateFails(e, c, fd)
           \/ AcceptOk(e, c, fd, x)
           \/ AcceptRegisterFails(e, c, fd, x)
           \/ AcceptPushFails(e, c, fd, x)
    PROVE  Shaped(S)' /\ BuffersOK'
<1> DEFINE s == [sock[c] EXCEPT !.state = "accepted"]
<1>1. /\ sock \in [Conns -> SockOf(S)] /\ SockGood(S, sock[c])
      /\ heap \in [Cells -> ClientOf(S)] /\ CellGood(S, heap[x])
  BY GoodParts DEF Base
<1>2. SockGood(S, s) /\ SockGood(S, ClosedSocket)
  <2>1. s \in SockOf(S) /\ s.taken = sock[c].taken /\ s.sent = sock[c].sent
    BY ZenonT(60), <1>1 DEF SockOf
  <2> QED BY <1>1, <2>1, NewShapes, ConnectionsAssumption DEF SockGood
<1>3. \A f \in Fds \cup {Garbage} : CellGood(S, NewClient(f))
  BY NewShapes DEF CellGood
<1>4. [sock EXCEPT ![c].state = "accepted"] = [sock EXCEPT ![c] = s]
  BY <1>1
<1>5. heap = [heap EXCEPT ![x] = heap[x]]
  BY <1>1
<1>6. CASE AcceptCreateFails(e, c, fd)
  <2>1. heap' = [heap EXCEPT ![x] = heap[x]] /\ sock' = [sock EXCEPT ![c] = s]
    BY <1>4, <1>5, <1>6 DEF AcceptCreateFails, heapVars
  <2> HIDE DEF s
  <2> QED BY <1>1, <1>2, <2>1, GoodUpdate DEF Base
<1>7. CASE AcceptOk(e, c, fd, x) \/ AcceptPushFails(e, c, fd, x)
  <2>1. heap' = [heap EXCEPT ![x] = NewClient(fd)] /\ sock' = [sock EXCEPT ![c] = s]
    BY <1>4, <1>7 DEF AcceptOk, AcceptPushFails
  <2>2. CellGood(S, NewClient(fd))
    BY <1>3
  <2> HIDE DEF s
  <2> QED BY <1>2, <2>1, <2>2, GoodUpdate DEF Base
<1>8. CASE AcceptRegisterFails(e, c, fd, x)
  <2>1. PICK f \in {fd, Garbage} : heap' = [heap EXCEPT ![x] = NewClient(f)]
    BY <1>8 DEF AcceptRegisterFails
  <2>2. sock' = [sock EXCEPT ![c] = ClosedSocket]
    BY <1>8 DEF AcceptRegisterFails
  <2>3. CellGood(S, NewClient(f))
    BY <1>3
  <2> QED BY <1>2, <2>1, <2>2, <2>3, GoodUpdate DEF Base
<1> QED BY <1>6, <1>7, <1>8

\* What CloseClient leaves in the cell.
LEMMA CloseCell ==
    ASSUME NEW fd, NEW m, CloseClient(fd, m)
    PROVE  \E h : /\ heap' = [heap EXCEPT ![ClientAt(fd)] = h]
                  /\ \/ h = Forgotten
                     \/ \E left \in {fd, Garbage} : h = [heap[ClientAt(fd)] EXCEPT !.fd = left]
<1>1. CASE heap' = [heap EXCEPT ![ClientAt(fd)] = Forgotten]
  BY <1>1
<1>2. ASSUME NEW left \in {fd, Garbage}, heap' = [heap EXCEPT ![ClientAt(fd)].fd = left]
      PROVE  heap' = [heap EXCEPT ![ClientAt(fd)] = [heap[ClientAt(fd)] EXCEPT !.fd = left]]
  BY <1>2
<1> QED BY <1>1, <1>2, Zenon DEF CloseClient

\* A close keeps it.
LEMMA CloseShape ==
    ASSUME Base, NEW S, Shaped(S), NEW e \in fired, ReadsClient(e), CloseClient(e.fd, e.mask)
    PROVE  Shaped(S)' /\ BuffersOK'
<1> DEFINE x == ClientAt(e.fd)
<1>1. e.fd \in Fds /\ file[e.fd] \in Conns /\ x \in Cells
  BY ReadContext
<1>2. sock' = [sock EXCEPT ![file[e.fd]] = ClosedSocket]
  BY DEF CloseClient
<1>3. PICK h : /\ heap' = [heap EXCEPT ![x] = h]
               /\ \/ h = Forgotten
                  \/ \E left \in {e.fd, Garbage} : h = [heap[x] EXCEPT !.fd = left]
  BY CloseCell
<1>4. CellGood(S, heap[x])
  BY <1>1, GoodParts DEF Base
<1>5. CellGood(S, h)
  <2>1. CASE h = Forgotten
    <3>1. Garbage \in Fds \cup {Garbage}
      OBVIOUS
    <3> QED BY <2>1, <3>1, NewShapes DEF CellGood, Forgotten
  <2>2. ASSUME NEW left \in {e.fd, Garbage}, h = [heap[x] EXCEPT !.fd = left]
        PROVE  CellGood(S, h)
    <3> HIDE DEF x
    <3> QED BY <1>1, <1>4, <2>2 DEF CellGood, ClientOf
  <2> QED BY <1>3, <2>1, <2>2
<1>6. SockGood(S, ClosedSocket)
  BY NewShapes, ConnectionsAssumption DEF SockGood
<1> HIDE DEF x
<1> QED BY <1>1, <1>2, <1>3, <1>5, <1>6, GoodUpdate DEF Base

-----------------------------------------------------------------------------
(* A command is executed *)

\* The parser returns a command the peers sent, or the illegal one.
LEMMA ParsedCmd ==
    ASSUME NEW buf \in Seq(Token)
    PROVE  parse(buf) \in CmdsTried \cup {Illegal} /\ parse(buf) \in Cmd
<1>1. Illegal \in Cmd
  BY DEF Illegal, Cmd
<1>2. buf # <<>> => Head(buf) \in Token
  OBVIOUS
<1>3. parse(buf) = Illegal \/ (buf # <<>> /\ parse(buf) = Head(buf).cmd)
  BY Zenon DEF parse
<1>4. parse(buf) \in CmdsTried \cup {Illegal}
  BY <1>2, <1>3 DEF Token
<1> QED BY <1>1, <1>4, ConnectionsAssumption

\* A reply is a sequence of tokens.
LEMMA ReplySeq ==
    ASSUME NEW c, NEW n, NEW r
    PROVE  \E T : ReplyTokens(c, n, r) \in Seq(T)
<1> DEFINE tk == [i \in 1 .. reply_len |-> [conn |-> c, n |-> n, reply |-> r, i |-> i]]
           T  == {tk[i] : i \in 1 .. reply_len}
<1>1. tk \in Seq(T)
  <2>1. reply_len \in Nat
    BY ConnectionsAssumption
  <2>2. tk \in [1 .. reply_len -> T]
    OBVIOUS
  <2> HIDE DEF T, tk
  <2> QED BY <2>1, <2>2
<1>2. <<>> \in Seq(T)
  OBVIOUS
<1> QED BY <1>1, <1>2 DEF ReplyTokens

\* What read_from_client assigns to a client struct keeps its shape.
LEMMA StructUpdate ==
    ASSUME NEW S, NEW h \in ClientOf(S), NEW v \in ClientView, NEW T, NEW b \in Seq(T),
           NEW w \in Nat, NEW r \in Seq(Token), NEW g \in Nat \ {0}, S \subseteq T
    PROVE  LET u == [h EXCEPT !.view = v, !.builder = b, !.write_size = w, !.read_cap = g,
                              !.read_buf = r]
           IN  /\ u \in ClientOf(T) /\ u.fd = h.fd /\ u.view = v /\ u.read_buf = r
               /\ u.read_cap = g /\ u.builder = b /\ u.write_size = w
BY DEF ClientOf

\* What ReadExecutes does, its registration of the write event included, which
\* cannot fail for a connection that is watched.
LEMMA ReadExecutesEffect ==
    ASSUME Base, NEW e \in fired, ReadsClient(e), ReadExecutes(e)
    PROVE  LET c   == file[e.fd]
               x   == ClientAt(e.fd)
               buf == Received(e.fd)
               cmd == parse(buf)
               n   == IF buf = <<>> THEN 0 ELSE Head(buf).n
           IN  /\ ~sock[c].fin /\ ~sock[c].rst
               /\ interest' = [interest EXCEPT ![e.fd] = @ \cup {EV_WRITE}]
               /\ \E o \in execute_cmd(st, heap[x].view, cmd, Len(clients)) :
                      LET out == heap[x].builder \o ReplyTokens(c, n, o.reply)
                      IN  /\ st' = o.st
                          /\ last' = [conn |-> c, cmd |-> cmd, reply |-> o.reply]
                          /\ heap' = [heap EXCEPT ![x] = [heap[x] EXCEPT
                                 !.view = o.client,
                                 !.builder = out,
                                 !.write_size = Len(out),
                                 !.read_cap = GrownCap(e.fd),
                                 !.read_buf = <<>>]]
                          /\ sock' = [sock EXCEPT ![c] = [sock[c] EXCEPT
                                 !.in = <<>>,
                                 !.login = @ \/ (cmd.type = "Auth" /\ o.reply.kind = "OK"),
                                 !.database = Selected(@, cmd, o.reply),
                                 !.replied = @ + Len(ReplyTokens(c, n, o.reply))]]
<1> DEFINE c   == file[e.fd]
           x   == ClientAt(e.fd)
           buf == Received(e.fd)
           cmd == parse(buf)
           n   == IF buf = <<>> THEN 0 ELSE Head(buf).n
<1>1. /\ e.fd \in Fds /\ interest[e.fd] # {} /\ c \in Conns /\ x \in Cells
      /\ heap[x].fd = e.fd
  BY ReadContext
<1>2. ev_add_event_ok(e.fd)
  BY <1>1, EvAssumption
  DEF Base, WatchedAsRegistered, ev_add_event_ok, ev_api_add_event_ok, EvFds
<1>3. interest' = [interest EXCEPT ![e.fd] = @ \cup {EV_WRITE}]
  <2>1. ev_add_event(e.fd, {EV_WRITE})
    BY ZenonT(60), <1>2 DEF ReadExecutes
  <2> QED BY SMTT(60), <1>1, <2>1, AddEffect DEF Base, Bits
<1>4. ~sock[c].fin /\ ~sock[c].rst
  BY ZenonT(60) DEF ReadExecutes
<1>5. PICK o \in execute_cmd(st, heap[x].view, cmd, Len(clients)) :
          LET out == heap[x].builder \o ReplyTokens(c, n, o.reply)
          IN  /\ st' = o.st
              /\ last' = [conn |-> c, cmd |-> cmd, reply |-> o.reply]
              /\ heap' = [heap EXCEPT
                     ![x].view = o.client,
                     ![x].builder = out,
                     ![x].write_size = Len(out),
                     ![x].read_cap = GrownCap(e.fd),
                     ![x].read_buf = IF ev_add_event_ok(e.fd) THEN <<>> ELSE buf]
              /\ sock' = [sock EXCEPT
                     ![c].in = <<>>,
                     ![c].login = @ \/ (cmd.type = "Auth" /\ o.reply.kind = "OK"),
                     ![c].database = Selected(@, cmd, o.reply),
                     ![c].replied = @ + Len(ReplyTokens(c, n, o.reply))]
  BY DEF ReadExecutes
<1> DEFINE out == heap[x].builder \o ReplyTokens(c, n, o.reply)
<1>6. PICK S : Shaped(S)
  BY DEF Base, ShapeOK
<1>7. heap \in [Cells -> ClientOf(S)] /\ sock \in [Conns -> SockOf(S)]
  BY <1>6 DEF Shaped
<1>8. heap' = [heap EXCEPT ![x] = [heap[x] EXCEPT
                 !.view = o.client,
                 !.builder = out,
                 !.write_size = Len(out),
                 !.read_cap = GrownCap(e.fd),
                 !.read_buf = <<>>]]
  <2> HIDE DEF x, c, buf, cmd, n
  <2> QED BY <1>1, <1>2, <1>5, <1>7
<1>9. sock' = [sock EXCEPT ![c] = [sock[c] EXCEPT
                 !.in = <<>>,
                 !.login = @ \/ (cmd.type = "Auth" /\ o.reply.kind = "OK"),
                 !.database = Selected(@, cmd, o.reply),
                 !.replied = @ + Len(ReplyTokens(c, n, o.reply))]]
  <2>1. sock[c] \in SockOf(S)
    BY <1>1, <1>7
  <2> HIDE DEF x, c, buf, cmd, n
  <2> QED BY <1>1, <1>5, <1>7, <2>1 DEF SockOf
<1> QED BY <1>3, <1>4, <1>5, <1>8, <1>9

\* A read that executes a command keeps it.
LEMMA ExecuteShape ==
    ASSUME Base, NEW S, Shaped(S), NEW e \in fired, ReadsClient(e), ReadExecutes(e)
    PROVE  (\E T : Shaped(T)') /\ BuffersOK' /\ st' \in ServerState
<1> DEFINE c   == file[e.fd]
           x   == ClientAt(e.fd)
           buf == Received(e.fd)
           cmd == parse(buf)
           n   == IF buf = <<>> THEN 0 ELSE Head(buf).n
<1>1. c \in Conns /\ x \in Cells
  BY ReadContext
<1>2. /\ buf \in Seq(Token) /\ GrownCap(e.fd) \in Nat \ {0}
  BY <1>1, GrownCapFits
<1>3. PICK o \in execute_cmd(st, heap[x].view, cmd, Len(clients)) :
          LET out == heap[x].builder \o ReplyTokens(c, n, o.reply)
          IN  /\ st' = o.st
              /\ heap' = [heap EXCEPT ![x] = [heap[x] EXCEPT
                     !.view = o.client,
                     !.builder = out,
                     !.write_size = Len(out),
                     !.read_cap = GrownCap(e.fd),
                     !.read_buf = <<>>]]
              /\ sock' = [sock EXCEPT ![c] = [sock[c] EXCEPT
                     !.in = <<>>,
                     !.login = @ \/ (cmd.type = "Auth" /\ o.reply.kind = "OK"),
                     !.database = Selected(@, cmd, o.reply),
                     !.replied = @ + Len(ReplyTokens(c, n, o.reply))]]
  BY ReadExecutesEffect
<1>4. heap[x] \in ClientOf(S) /\ sock[c] \in SockOf(S) /\ SockGood(S, sock[c])
  BY <1>1, GoodParts DEF Base, Shaped
<1>5. o.client \in ClientView /\ o.st \in ServerState
  <2>1. cmd \in Cmd
    BY <1>2, ParsedCmd
  <2>2. st \in ServerState /\ heap[x].view \in ClientView
    BY <1>4 DEF Base, ShapeOK, ClientOf
  <2> HIDE DEF cmd, x
  <2> QED BY <2>1, <2>2, ExecuteOK DEF OutcomeOK
<1> DEFINE out == heap[x].builder \o ReplyTokens(c, n, o.reply)
<1>6. PICK R : ReplyTokens(c, n, o.reply) \in Seq(R)
  BY ReplySeq
<1> DEFINE T == S \cup R
<1>7. out \in Seq(T) /\ Len(out) \in Nat
  <2>1. heap[x].builder \in Seq(T)
    BY <1>4 DEF ClientOf
  <2>2. ReplyTokens(c, n, o.reply) \in Seq(T)
    BY <1>6
  <2>3. out \in Seq(T)
    <3> HIDE DEF x, c, n, T
    <3> QED BY <2>1, <2>2
  <2> HIDE DEF out, T
  <2> QED BY <2>3
<1>8. Shaped(T)
  BY GoodWiden
<1> DEFINE h == [heap[x] EXCEPT !.view = o.client, !.builder = out, !.write_size = Len(out),
                                !.read_cap = GrownCap(e.fd), !.read_buf = <<>>]
           s == [sock[c] EXCEPT
                     !.in = <<>>,
                     !.login = @ \/ (cmd.type = "Auth" /\ o.reply.kind = "OK"),
                     !.database = Selected(@, cmd, o.reply),
                     !.replied = @ + Len(ReplyTokens(c, n, o.reply))]
<1>9. CellGood(T, h)
  <2> DEFINE nil == <<>>
             g   == GrownCap(e.fd)
             w   == Len(out)
  <2>1. nil \in Seq(Token) /\ Len(nil) = 0 /\ S \subseteq T
    OBVIOUS
  <2>2. g \in Nat \ {0}
    BY <1>2
  <2>3. w \in Nat
    BY <1>7, Zenon
  <2>4. h = [heap[x] EXCEPT !.view = o.client, !.builder = out, !.write_size = w,
                            !.read_cap = g, !.read_buf = nil]
    OBVIOUS
  <2> HIDE DEF h, nil, g, w, out, x, T
  <2>5. h \in ClientOf(T) /\ h.read_buf = nil /\ h.read_cap = g
    <3>1. heap[x] \in ClientOf(S) /\ o.client \in ClientView /\ out \in Seq(T)
      BY <1>4, <1>5, <1>7
    <3> DEFINE u == [heap[x] EXCEPT !.view = o.client, !.builder = out, !.write_size = w,
                                    !.read_cap = g, !.read_buf = nil]
    <3>2. u \in ClientOf(T) /\ u.read_buf = nil /\ u.read_cap = g
      BY <2>1, <2>2, <2>3, <3>1 DEF ClientOf
    <3> QED BY <2>4, <3>2
  <2> QED BY <2>1, <2>5, <2>2 DEF CellGood
<1>10. SockGood(T, s)
  <2>1. sock[c] \in SockOf(T)
    BY <1>1, <1>8 DEF Shaped
  <2> DEFINE nil == <<>>
             l   == sock[c].login \/ (cmd.type = "Auth" /\ o.reply.kind = "OK")
             d   == Selected(sock[c].database, cmd, o.reply)
             k   == sock[c].replied + Len(ReplyTokens(c, n, o.reply))
  <2>2. nil \in Seq(Token) /\ l \in BOOLEAN
    OBVIOUS
  <2>5. d \in Dbs
    <3>1. sock[c].database \in Dbs /\ o.client.database_num \in Dbs
      BY <1>4, <1>5 DEF SockOf, ClientView
    <3>2. heap[x].view \in ClientView
      BY <1>4 DEF ClientOf
    <3> HIDE DEF c, x, cmd
    <3>3. cmd.type = "Select" /\ o.reply.kind = "OK" => o.client.database_num = cmd.value
      BY <3>2, ExecuteDatabase
    <3> QED BY <3>1, <3>3 DEF Selected
  <2>6. k \in Nat
    <3>1. sock[c].replied \in Nat
      BY <1>4 DEF SockOf
    <3> DEFINE r == ReplyTokens(c, n, o.reply)
    <3>2. r \in Seq(R)
      BY <1>6
    <3> HIDE DEF c, r
    <3>3. Len(r) \in Nat
      BY <3>2
    <3> QED BY <3>1, <3>3 DEF r
  <2>3. s = [sock[c] EXCEPT !.in = nil, !.login = l, !.database = d, !.replied = k]
    OBVIOUS
  <2> HIDE DEF c, T, cmd, nil, l, d, k, s
  <2>4. s \in SockOf(T) /\ s.sent = sock[c].sent /\ s.taken = sock[c].taken
    BY <2>1, <2>2, <2>3, <2>5, <2>6 DEF SockOf
  <2> QED BY <1>4, <2>4 DEF SockGood
<1>11. sock' = [sock EXCEPT ![c] = s] /\ heap' = [heap EXCEPT ![x] = h]
  BY <1>3
<1>12. Shaped(T)' /\ BuffersOK'
  <2> HIDE DEF c, x, T, s, h
  <2> QED BY <1>1, <1>8, <1>9, <1>10, <1>11, GoodUpdate DEF Base
<1> QED BY <1>3, <1>5, <1>12

\* A read that fails keeps it.
LEMMA ReadErrorShape ==
    ASSUME Base, NEW S, Shaped(S), NEW e \in fired, ReadsClient(e), ReadError(e)
    PROVE  Shaped(S)' /\ BuffersOK'
<1> DEFINE c == file[e.fd]
           x == ClientAt(e.fd)
           h == [heap[x] EXCEPT !.read_buf = Received(e.fd), !.read_cap = GrownCap(e.fd)]
           s == [sock[c] EXCEPT !.in = <<>>, !.err = FALSE]
<1>1. c \in Conns /\ x \in Cells
  BY ReadContext
<1>2. /\ Received(e.fd) \in Seq(Token) /\ GrownCap(e.fd) \in Nat \ {0}
      /\ Len(Received(e.fd)) < GrownCap(e.fd)
  BY <1>1, GrownCapFits
<1>3. /\ heap \in [Cells -> ClientOf(S)] /\ heap[x] \in ClientOf(S)
      /\ sock \in [Conns -> SockOf(S)] /\ sock[c] \in SockOf(S)
      /\ SockGood(S, sock[c])
  BY <1>1, GoodParts DEF Base, Shaped
<1>4. sock' = [sock EXCEPT ![c] = s] /\ heap' = [heap EXCEPT ![x] = h]
  <2>1. /\ heap' = [heap EXCEPT ![x].read_buf = Received(e.fd), ![x].read_cap = GrownCap(e.fd)]
        /\ sock' = [sock EXCEPT ![c].in = <<>>, ![c].err = FALSE]
    BY DEF ReadError
  <2> HIDE DEF c, x
  <2> QED BY <1>1, <1>3, <2>1
<1>5. CellGood(S, h)
  <2> HIDE DEF x
  <2>1. h \in ClientOf(S) /\ h.read_buf = Received(e.fd) /\ h.read_cap = GrownCap(e.fd)
    BY <1>2, <1>3 DEF ClientOf
  <2> HIDE DEF h
  <2> QED BY <1>2, <2>1 DEF CellGood
<1>6. SockGood(S, s)
  <2> DEFINE nil == <<>>
  <2>1. s \in SockOf(S) /\ s.sent = sock[c].sent /\ s.taken = sock[c].taken
    <3>1. nil \in Seq(Token) /\ s = [sock[c] EXCEPT !.in = nil, !.err = FALSE]
      OBVIOUS
    <3> HIDE DEF c, s, nil
    <3> QED BY <1>3, <3>1 DEF SockOf
  <2> QED BY <1>3, <2>1 DEF SockGood
<1> HIDE DEF c, x, h, s
<1> QED BY <1>1, <1>4, <1>5, <1>6, GoodUpdate DEF Base

\* A beginning of a sequence holds its first elements only.
LEMMA PrefixSeq ==
    ASSUME NEW S, NEW b \in Seq(S), NEW k \in Nat
    PROVE  /\ SubSeq(b, 1, k) \in Seq({b[i] : i \in 1 .. k})
           /\ Len(SubSeq(b, 1, k)) = k
<1>1. SubSeq(b, 1, k) \in Seq({b[i] : i \in 1 .. k})
  OBVIOUS
<1>2. Len(SubSeq(b, 1, k)) = k
  OBVIOUS
<1> QED BY <1>1, <1>2

\* The write handler's steps.
LEMMA WriteShape ==
    ASSUME Base, NEW S, Shaped(S), WritesClient,
           WriteNothing \/ WriteSome \/ WriteReturns \/ WriteKills
    PROVE  (\E T : Shaped(T)') /\ BuffersOK'
<1> DEFINE c == file[cur.fd]
           x == ClientAt(cur.fd)
           b == [heap[x] EXCEPT !.builder = <<>>]
<1>1. c \in Conns /\ x \in Cells
  BY WriteContext
<1>2. /\ heap \in [Cells -> ClientOf(S)] /\ heap[x] \in ClientOf(S)
      /\ sock \in [Conns -> SockOf(S)] /\ sock[c] \in SockOf(S)
      /\ SockGood(S, sock[c]) /\ CellGood(S, heap[x])
  BY <1>1, GoodParts DEF Base, Shaped
<1>3. ASSUME NEW T, Shaped(T)
      PROVE  CellGood(T, b) /\ CellGood(T, heap[x])
  <2>1. heap[x] \in ClientOf(T)
    BY <1>1, <1>3 DEF Shaped
  <2> DEFINE nil == <<>>
  <2>2. b \in ClientOf(T) /\ b.read_buf = heap[x].read_buf /\ b.read_cap = heap[x].read_cap
    <3>1. nil \in Seq(T) /\ b = [heap[x] EXCEPT !.builder = nil]
      OBVIOUS
    <3> HIDE DEF x, b, nil
    <3> QED BY <2>1, <3>1 DEF ClientOf
  <2> QED BY <1>2, <2>1, <2>2 DEF CellGood
<1>4. sock = [sock EXCEPT ![c] = sock[c]] /\ heap = [heap EXCEPT ![x] = heap[x]]
  <2> HIDE DEF c, x
  <2> QED BY <1>2
<1>5. FinishesWrite(x) => heap' = [heap EXCEPT ![x] = b]
  BY DEF FinishesWrite
<1>6. CASE WriteNothing
  <2>1. heap' = [heap EXCEPT ![x] = b] /\ sock' = [sock EXCEPT ![c] = sock[c]]
    BY <1>4, <1>5, <1>6 DEF WriteNothing, kernelVars
  <2>2. CellGood(S, b)
    BY <1>3
  <2> HIDE DEF c, x, b
  <2> QED BY <1>1, <1>2, <2>1, <2>2, GoodUpdate DEF Base
<1>7. CASE WriteSome
  <2> DEFINE size == heap[x].write_size
             k    == IF Space(c) < size THEN Space(c) ELSE size
             s    == [sock[c] EXCEPT !.sent = @ \o SubSeq(heap[x].builder, 1, k),
                                     !.short = @ \/ k < size]
  <2>1. /\ Space(c) = snd_cap - (Len(sock[c].sent) - sock[c].taken)
        /\ Space(c) \in Int /\ Space(c) > 0 /\ size \in Nat
        /\ Len(sock[c].sent) \in Nat /\ sock[c].taken \in Nat
        /\ sock[c].sent \in Seq(S) /\ heap[x].builder \in Seq(S)
    <3>1. Space(c) > 0
      BY <1>7 DEF WriteSome
    <3>2. sock[c].sent \in Seq(S) /\ heap[x].builder \in Seq(S) /\ sock[c].taken \in Nat
          /\ size \in Nat
      BY <1>2 DEF SockOf, ClientOf
    <3>3. Len(sock[c].sent) \in Nat
      BY <3>2
    <3>4. Space(c) = snd_cap - (Len(sock[c].sent) - sock[c].taken)
      BY DEF Space
    <3> HIDE DEF c, x
    <3> QED BY SMTT(60), <3>1, <3>2, <3>3, <3>4, ConnectionsAssumption
  <2>2. k \in Nat /\ k <= Space(c)
    <3> HIDE DEF c, size
    <3> QED BY SMTT(60), <2>1
  <2>3. /\ sock' = [sock EXCEPT ![c].sent = @ \o SubSeq(heap[x].builder, 1, k),
                                ![c].short = @ \/ k < size]
        /\ heap' = [heap EXCEPT ![x] = b] \/ heap' = [heap EXCEPT ![x] = heap[x]]
    BY <1>4, <1>5, <1>7 DEF WriteSome
  <2>4. sock' = [sock EXCEPT ![c] = s]
    <3> HIDE DEF c, x, k, size
    <3> QED BY <1>1, <1>2, <2>3
  <2>5. PICK T : T = S \cup {heap[x].builder[i] : i \in 1 .. k}
    OBVIOUS
  <2>6. Shaped(T)
    BY <2>5, GoodWiden
  <2>7. SockGood(T, s)
    <3> HIDE DEF k, size
    <3>1. /\ SubSeq(heap[x].builder, 1, k) \in Seq({heap[x].builder[i] : i \in 1 .. k})
          /\ Len(SubSeq(heap[x].builder, 1, k)) = k
      BY <2>1, <2>2, PrefixSeq
    <3> DEFINE p == SubSeq(heap[x].builder, 1, k)
    <3>2. p \in Seq(T) /\ sock[c].sent \in Seq(T)
      BY <2>1, <2>5, <3>1
    <3>3. sock[c].sent \o p \in Seq(T) /\ Len(sock[c].sent \o p) = Len(sock[c].sent) + k
      <4>1. Len(p) = k
        BY <3>1
      <4> HIDE DEF p, c
      <4> QED BY SMTT(60), <3>2, <4>1
    <3>4. sock[c] \in SockOf(T)
      BY <1>1, <2>6 DEF Shaped
    <3>5. s \in SockOf(T) /\ s.taken = sock[c].taken /\ s.sent = sock[c].sent \o p
      <4> HIDE DEF p, c, k, size
      <4> QED BY <3>3, <3>4 DEF SockOf, p
    <3> HIDE DEF p, c, k, size, s
    <3> QED BY SMTT(60), <1>2, <2>1, <2>2, <3>3, <3>5, ConnectionsAssumption DEF SockGood
  <2>8. CellGood(T, b) /\ CellGood(T, heap[x])
    BY <1>3, <2>6
  <2>9. Shaped(T)' /\ BuffersOK'
    <3>1. PICK h : CellGood(T, h) /\ heap' = [heap EXCEPT ![x] = h]
      BY <2>3, <2>8, Zenon
    <3> HIDE DEF c, x, b, s
    <3> QED BY <1>1, <2>4, <2>6, <2>7, <3>1, GoodUpdate DEF Base
  <2> QED BY <2>9
<1>8. CASE WriteReturns
  <2> DEFINE s == [sock[c] EXCEPT !.err = FALSE]
  <2>1. heap' = [heap EXCEPT ![x] = heap[x]] /\ sock' = [sock EXCEPT ![c] = s]
    BY <1>2, <1>4, <1>8 DEF WriteReturns, heapVars
  <2>2. SockGood(S, s)
    <3> HIDE DEF c
    <3>1. s \in SockOf(S) /\ s.sent = sock[c].sent /\ s.taken = sock[c].taken
      BY <1>2 DEF SockOf
    <3> QED BY <1>2, <3>1 DEF SockGood
  <2> HIDE DEF c, x, s
  <2> QED BY <1>1, <1>2, <2>1, <2>2, GoodUpdate DEF Base
<1>9. CASE WriteKills
  BY <1>9 DEF WriteKills, kernelVars, heapVars, Shaped, BuffersOK, Base
<1> QED BY <1>6, <1>7, <1>8, <1>9

\* The end of the server keeps it.
LEMMA StopShape ==
    ASSUME NEW S, Shaped(S), BuffersOK, ServerStops
    PROVE  Shaped(S)' /\ BuffersOK'
<1>1. heap' = heap
  BY DEF ServerStops
<1>2. sock \in [Conns -> SockOf(S)] /\ \A c \in Conns : SockGood(S, sock[c])
  BY GoodParts
<1>3. SockGood(S, ClosedSocket) /\ ClosedSocket \in SockOf(S)
  BY NewShapes, ConnectionsAssumption DEF SockGood
<1>4. sock' \in [Conns -> SockOf(S)] /\ \A c \in Conns : SockGood(S, sock'[c])
  <2>1. CASE server_free
    <3>1. PICK closed :
              sock' = [c \in Conns |-> IF \E fd \in closed : file[fd] = c
                                       THEN ClosedSocket ELSE sock[c]]
      BY <2>1 DEF server_free
    <3>2. \A c \in Conns : sock'[c] = ClosedSocket \/ sock'[c] = sock[c]
      BY <3>1
    <3>3. sock' \in [Conns -> SockOf(S)]
      BY <1>2, <1>3, <3>1
    <3> QED BY <1>2, <1>3, <3>2, <3>3
  <2>2. CASE ServerFreeBreaks
    BY <1>2, <2>2 DEF ServerFreeBreaks
  <2> QED BY <2>1, <2>2 DEF ServerStops
<1> QED BY <1>1, <1>4 DEF Shaped, BuffersOK, SockGood

\* Every step keeps sockets and structs in shape.
LEMMA SocketsAndCells ==
    ASSUME Base, [Next]_vars
    PROVE  (\E T : Shaped(T)') /\ BuffersOK' /\ st' \in ServerState
<1>1. PICK S : Shaped(S)
  BY DEF Base, ShapeOK
<1>2. BuffersOK /\ st \in ServerState
  BY DEF Base, ShapeOK
<1> DEFINE Goal == (\E T : Shaped(T)') /\ BuffersOK' /\ st' \in ServerState
<1> SUFFICES Goal
  OBVIOUS
<1>3. ASSUME UNCHANGED <<sock, heap, st>> PROVE Goal
  BY <1>1, <1>2, <1>3 DEF Shaped, BuffersOK
<1>4. CASE ev_api_poll
  BY <1>3, <1>4 DEF ev_api_poll, kernelVars, heapVars
<1>5. ASSUME NEW e \in fired, SkipsReadFn(e) \/ AcceptFails(e) PROVE Goal
  BY <1>3, <1>5 DEF SkipsReadFn, AcceptFails, kernelVars, heapVars
<1>6. ASSUME NEW e \in fired, NEW c \in Conns, NEW fd \in Fds, AcceptCreateFails(e, c, fd)
      PROVE  Goal
  <2>1. PICK x : x \in Cells
    BY ConnectionsAssumption
  <2> QED BY <1>1, <1>2, <1>6, <2>1, AcceptShape DEF AcceptCreateFails
<1>7. ASSUME NEW e \in fired, NEW c \in Conns, NEW fd \in Fds, NEW x \in Cells,
             \/ AcceptOk(e, c, fd, x)
             \/ AcceptRegisterFails(e, c, fd, x)
             \/ AcceptPushFails(e, c, fd, x)
      PROVE  Goal
  <2>1. st' = st
    BY <1>7 DEF AcceptOk, AcceptRegisterFails, AcceptPushFails
  <2> QED BY <1>1, <1>2, <1>7, <2>1, AcceptShape
<1>8. ASSUME NEW e \in fired, ReadsClient(e), ReadGrowFails(e) \/ ReadEof(e) PROVE Goal
  <2>1. CloseClient(e.fd, e.mask) /\ st' = st
    BY SMTT(60), <1>8 DEF ReadGrowFails, ReadEof
  <2> QED BY <1>1, <1>2, <1>8, <2>1, CloseShape
<1>9. ASSUME NEW e \in fired, ReadsClient(e), ReadError(e) PROVE Goal
  BY <1>1, <1>2, <1>9, ReadErrorShape DEF ReadError
<1>10. ASSUME NEW e \in fired, ReadsClient(e), ReadExecutes(e) PROVE Goal
  BY <1>1, <1>10, ExecuteShape
<1>11. ASSUME WritesClient, WriteNothing \/ WriteSome \/ WriteReturns \/ WriteKills
       PROVE  Goal
  <2>1. st' = st
    BY <1>11 DEF WriteNothing, WriteSome, WriteReturns, WriteKills
  <2> QED BY <1>1, <1>2, <1>11, <2>1, WriteShape
<1>12. CASE PeerStep
  <2>1. st' = st
    BY ZenonT(60), <1>12
    DEF PeerStep, PeerConnect, PeerSend, PeerSendTail, PeerRecv, PeerShutdown, PeerReset
  <2> QED BY SMTT(60), <1>1, <1>2, <1>12, <2>1, PeerShape
<1>13. CASE ServerStops
  BY <1>1, <1>2, <1>13, StopShape DEF ServerStops
<1>14. CASE UNCHANGED vars
  BY <1>3, <1>14 DEF vars, kernelVars, heapVars
<1> HIDE DEF Goal
<1>15. Goal
  <2>1. ASSUME NEW e \in fired, Accepted(e) PROVE Goal
    BY <1>5, <1>6, <1>7, <2>1, Zenon DEF Accepted
  <2>2. ASSUME NEW e \in fired, ReadDone(e) PROVE Goal
    BY <1>8, <1>9, <1>10, <2>2, Zenon DEF ReadDone
  <2>3. CASE WriteDone
    BY <1>11, <2>3, Zenon DEF WriteDone
  <2> QED BY <1>4, <1>5, <1>12, <1>13, <1>14, <2>1, <2>2, <2>3, Steps, Zenon
<1> QED BY <1>15

\* vec_push appends, growing the array when it is full.
LEMMA PushEffect ==
    ASSUME VectorOK, NEW x \in Cells, vec_push(x)
    PROVE  /\ clients' \in Seq(Cells) /\ clients' = Append(clients, x)
           /\ clients_cap' \in Nat \ {0} /\ Len(clients') <= clients_cap'
           /\ moved \in BOOLEAN => moved' \in BOOLEAN
<1>1. clients \in Seq(Cells) /\ clients' = Append(clients, x) /\ Len(clients) \in Nat
  BY DEF VectorOK, vec_push
<1>2. clients' \in Seq(Cells) /\ Len(clients') = Len(clients) + 1
  BY <1>1
<1>3. /\ clients_cap' = (IF Len(clients) = clients_cap THEN 2 * clients_cap ELSE clients_cap)
      /\ moved' \in {moved, TRUE}
  BY DEF vec_push
<1>4. clients_cap' \in Nat \ {0} /\ Len(clients') <= clients_cap'
  <2>1. clients_cap \in Nat /\ clients_cap # 0 /\ Len(clients) <= clients_cap
    BY DEF VectorOK
  <2> QED BY <1>1, <1>2, <1>3, <2>1
<1> QED BY <1>1, <1>2, <1>3, <1>4

\* The vector of clients stays within its capacity.
LEMMA VectorNext ==
    ASSUME Base, [Next]_vars
    PROVE  VectorOK' /\ moved' \in BOOLEAN
<1> DEFINE Goal == VectorOK' /\ moved' \in BOOLEAN
<1> SUFFICES Goal
  OBVIOUS
<1>1. VectorOK /\ moved \in BOOLEAN
  BY DEF Base, ShapeOK
<1>2. ASSUME UNCHANGED <<clients, clients_cap, moved>>, live' \subseteq Cells PROVE Goal
  BY <1>1, <1>2 DEF VectorOK
<1>3. ASSUME NEW x \in Cells, vec_push(x), live' \subseteq Cells PROVE Goal
  BY <1>1, <1>3, PushEffect DEF VectorOK
<1>4. CASE ev_api_poll
  BY <1>1, <1>2, <1>4 DEF ev_api_poll, heapVars, VectorOK
<1>5. ASSUME NEW e \in fired, SkipsReadFn(e) \/ AcceptFails(e) PROVE Goal
  BY <1>1, <1>2, <1>5 DEF SkipsReadFn, AcceptFails, heapVars, VectorOK
<1>6. ASSUME NEW e \in fired, NEW c \in Conns, NEW fd \in Fds, AcceptCreateFails(e, c, fd)
      PROVE  Goal
  BY <1>1, <1>2, <1>6 DEF AcceptCreateFails, heapVars, VectorOK
<1>7. ASSUME NEW e \in fired, NEW c \in Conns, NEW fd \in Fds, NEW x \in Cells,
             \/ AcceptOk(e, c, fd, x)
             \/ AcceptRegisterFails(e, c, fd, x)
             \/ AcceptPushFails(e, c, fd, x)
      PROVE  Goal
  <2>1. live' \subseteq Cells
    BY <1>1, <1>7 DEF AcceptOk, AcceptRegisterFails, AcceptPushFails, VectorOK
  <2>2. vec_push(x) \/ UNCHANGED <<clients, clients_cap, moved>>
    BY <1>7 DEF AcceptOk, AcceptRegisterFails, AcceptPushFails
  <2> QED BY <1>2, <1>3, <2>1, <2>2
<1>8. ASSUME NEW e \in fired, ReadsClient(e), ReadGrowFails(e) \/ ReadEof(e) PROVE Goal
  <2>1. CloseClient(e.fd, e.mask) /\ UNCHANGED <<clients_cap, moved>>
    BY <1>8 DEF ReadGrowFails, ReadEof
  <2>2. clients' = RemoveAt(clients, vec_find(e.fd)) /\ live' \subseteq live
    BY <2>1 DEF CloseClient
  <2>3. vec_find(e.fd) \in DOMAIN clients
    BY <1>8, ReadContext
  <2>4. clients' \in Seq(Cells) /\ Len(clients') = Len(clients) - 1
    BY SMTT(60), <1>1, <2>2, <2>3, RemovedAt DEF VectorOK
  <2> QED BY <1>1, <2>1, <2>2, <2>4 DEF VectorOK
<1>9. ASSUME NEW e \in fired, ReadError(e) \/ ReadExecutes(e) PROVE Goal
  BY ZenonT(60), <1>1, <1>2, <1>9 DEF ReadError, ReadExecutes, VectorOK
<1>10. ASSUME WriteNothing \/ WriteSome \/ WriteReturns \/ WriteKills PROVE Goal
  BY ZenonT(60), <1>1, <1>2, <1>10
  DEF WriteNothing, WriteSome, WriteReturns, WriteKills, heapVars, VectorOK
<1>11. CASE PeerStep
  BY ZenonT(60), <1>1, <1>2, <1>11
  DEF PeerStep, PeerConnect, PeerSend, PeerSendTail, PeerRecv, PeerShutdown, PeerReset,
      heapVars, VectorOK
<1>12. CASE ServerStops
  <2>1. live' \subseteq live
    BY <1>12 DEF ServerStops, server_free, ServerFreeBreaks
  <2> QED BY <1>1, <1>2, <1>12, <2>1 DEF ServerStops, VectorOK
<1>13. CASE UNCHANGED vars
  BY <1>1, <1>2, <1>13 DEF vars, heapVars, VectorOK
<1> HIDE DEF Goal
<1>14. Goal
  <2>1. ASSUME NEW e \in fired, Accepted(e) PROVE Goal
    BY <1>5, <1>6, <1>7, <2>1, Zenon DEF Accepted
  <2>2. ASSUME NEW e \in fired, ReadDone(e) PROVE Goal
    BY <1>8, <1>9, <2>2, Zenon DEF ReadDone
  <2>3. CASE WriteDone
    BY <1>10, <2>3, Zenon DEF WriteDone
  <2> QED BY <1>4, <1>5, <1>11, <1>12, <1>13, <2>1, <2>2, <2>3, Steps, Zenon
<1> QED BY <1>14

-----------------------------------------------------------------------------
(* The kinds of steps, as far as descriptors and clients go *)

\* Neither a descriptor nor a client comes or goes.
Quiet ==
    /\ UNCHANGED <<file, clients, live, regfail>>
    /\ alive' => alive
    /\ interest'[sfd] = interest[sfd]
    /\ \A fd \in Fds : /\ interest'[fd] = {} <=> interest[fd] = {}
                       /\ EV_READ \in interest[fd] => EV_READ \in interest'[fd]
    /\ \A y \in Cells : heap'[y].fd = heap[y].fd

\* A read that keeps its connection changes neither files nor vector.
LEMMA ReadQuiet ==
    ASSUME Base, NEW e \in fired, ReadsClient(e), ReadError(e) \/ ReadExecutes(e)
    PROVE  Quiet
<1> DEFINE x == ClientAt(e.fd)
<1>1. PICK S : Shaped(S)
  BY DEF Base, ShapeOK
<1>2. /\ e.fd \in Fds \ {sfd} /\ EV_READ \in interest[e.fd] /\ x \in Cells
      /\ heap \in [Cells -> ClientOf(S)] /\ interest \in [Fds -> SUBSET Bits]
  BY <1>1, ReadContext DEF Shaped, Base, EvTypeOK
<1>3. UNCHANGED <<file, clients, live, regfail, alive>>
  BY ZenonT(60) DEF ReadError, ReadExecutes, auxVars
<1>4. interest' = interest \/ interest' = [interest EXCEPT ![e.fd] = @ \cup {EV_WRITE}]
  BY ReadExecutesEffect DEF ReadError, evVars
<1>5. \A y \in Cells : heap'[y].fd = heap[y].fd
  <2>1. CASE ReadError(e)
    <3>1. \E b, g : heap' = [heap EXCEPT ![x].read_buf = b, ![x].read_cap = g]
      BY <2>1 DEF ReadError
    <3> HIDE DEF x
    <3> QED BY <1>2, <3>1 DEF ClientOf
  <2>2. CASE ReadExecutes(e)
    <3> DEFINE n == IF Received(e.fd) = <<>> THEN 0 ELSE Head(Received(e.fd)).n
               nil == <<>>
    <3>1. PICK o \in execute_cmd(st, heap[x].view, parse(Received(e.fd)), Len(clients)) :
              LET out == heap[x].builder \o ReplyTokens(file[e.fd], n, o.reply)
              IN  heap' = [heap EXCEPT ![x] = [heap[x] EXCEPT
                           !.view = o.client, !.builder = out, !.write_size = Len(out),
                           !.read_cap = GrownCap(e.fd), !.read_buf = nil]]
      BY <2>2, ReadExecutesEffect
    <3> HIDE DEF x, n, nil
    <3> QED BY <1>2, <3>1 DEF ClientOf
  <2> QED BY <2>1, <2>2
<1>6. sfd \in Fds
  BY EvAssumption DEF Fds
<1>7. /\ interest'[sfd] = interest[sfd]
      /\ \A fd \in Fds : /\ interest'[fd] = {} <=> interest[fd] = {}
                         /\ EV_READ \in interest[fd] => EV_READ \in interest'[fd]
  BY <1>2, <1>4, <1>6
<1> QED BY <1>3, <1>5, <1>7 DEF Quiet

\* Nor does a write.
LEMMA WriteQuiet ==
    ASSUME Base, WriteDone
    PROVE  /\ Quiet /\ fired' = fired
           /\ cur' = Idle \/ (cur'.fd = cur.fd /\ interest' = interest)
<1> DEFINE x == ClientAt(cur.fd)
<1>1. PICK S : Shaped(S)
  BY DEF Base, ShapeOK
<1>2. /\ cur.fd \in Fds \ {sfd} /\ EV_READ \in interest[cur.fd] /\ x \in Cells
      /\ heap \in [Cells -> ClientOf(S)] /\ interest \in [Fds -> SUBSET Bits]
  BY <1>1, WriteContext DEF Shaped, Base, EvTypeOK, WriteDone
<1>3. UNCHANGED <<file, clients, live, regfail, fired>> /\ (alive' => alive)
  <2>1. CASE WriteNothing
    BY SMTT(60), <2>1 DEF WriteNothing, kernelVars, auxVars
  <2>2. CASE WriteSome
    BY <2>2 DEF WriteSome, auxVars
  <2>3. CASE WriteReturns
    BY <2>3 DEF WriteReturns, heapVars, auxVars
  <2>4. CASE WriteKills
    BY <2>4 DEF WriteKills, kernelVars, heapVars, loopVars
  <2> QED BY <2>1, <2>2, <2>3, <2>4 DEF WriteDone
<1>4. \/ FinishesWrite(x)
      \/ UNCHANGED <<interest, heap>> /\ cur' \in {cur, Idle, [cur EXCEPT !.bytes_sent = cur'.bytes_sent]}
  <2>1. CASE WriteSome
    <3>1. PICK k : IF cur.bytes_sent + k >= heap[x].write_size
                   THEN FinishesWrite(x)
                   ELSE cur' = [cur EXCEPT !.bytes_sent = @ + k] /\ UNCHANGED <<evVars, heap>>
      BY <2>1 DEF WriteSome
    <3>2. CASE FinishesWrite(x)
      BY <3>2
    <3>3. CASE cur' = [cur EXCEPT !.bytes_sent = @ + k] /\ UNCHANGED <<evVars, heap>>
      <4>1. cur = [fd |-> cur.fd, mask |-> cur.mask, bytes_sent |-> cur.bytes_sent]
        BY DEF Base, DispatchOK
      <4>2. cur' = [cur EXCEPT !.bytes_sent = cur'.bytes_sent]
        BY <3>3, <4>1
      <4> QED BY <3>3, <4>2 DEF evVars
    <3> QED BY SMTT(60), <3>1, <3>2, <3>3
  <2>2. CASE WriteNothing
    BY <2>2 DEF WriteNothing
  <2>3. CASE WriteReturns \/ WriteKills
    BY <2>3 DEF WriteReturns, WriteKills, evVars, heapVars, loopVars
  <2> QED BY <2>1, <2>2, <2>3 DEF WriteDone
<1>5. FinishesWrite(x) => /\ interest' = [interest EXCEPT ![cur.fd] = @ \ {EV_WRITE}]
                          /\ heap' = [heap EXCEPT ![x].builder = <<>>]
                          /\ cur' = Idle
  <2>1. FinishesWrite(x) => ev_delete_event(cur.fd, {EV_WRITE})
    BY DEF FinishesWrite
  <2>2. FinishesWrite(x) => interest' = [interest EXCEPT ![cur.fd] = @ \ {EV_WRITE}]
    BY <1>2, <2>1, FinishEffect DEF Base
  <2> QED BY <2>2 DEF FinishesWrite
<1> HIDE DEF x
<1>6. \A y \in Cells : heap'[y].fd = heap[y].fd
  <2>1. CASE FinishesWrite(x)
    <3> DEFINE nil == <<>>
    <3>1. heap' = [heap EXCEPT ![x].builder = nil]
      BY <1>5, <2>1
    <3> HIDE DEF nil
    <3> QED BY <1>2, <3>1 DEF ClientOf
  <2>2. CASE heap' = heap
    BY <2>2
  <2> QED BY <1>4, <2>1, <2>2
<1>7. sfd \in Fds /\ EV_READ # EV_WRITE
  BY EvAssumption DEF Fds, EV_READ, EV_WRITE
<1>8. /\ interest'[sfd] = interest[sfd]
      /\ \A fd \in Fds : /\ interest'[fd] = {} <=> interest[fd] = {}
                         /\ EV_READ \in interest[fd] => EV_READ \in interest'[fd]
  <2>1. interest' = interest \/ interest' = [interest EXCEPT ![cur.fd] = @ \ {EV_WRITE}]
    BY <1>4, <1>5
  <2> QED BY <1>2, <1>7, <2>1
<1>9. cur' = Idle \/ (cur'.fd = cur.fd /\ interest' = interest)
  <2>1. cur = [fd |-> cur.fd, mask |-> cur.mask, bytes_sent |-> cur.bytes_sent]
    BY DEF Base, DispatchOK
  <2> QED BY <1>4, <1>5, <2>1
<1> QED BY <1>3, <1>6, <1>8, <1>9 DEF Quiet

\* Nor do the poll, a skipped event, a failed accept and the peers.
LEMMA OtherQuiet ==
    ASSUME \/ ev_api_poll
           \/ \E e \in fired : SkipsReadFn(e) \/ AcceptFails(e)
           \/ PeerStep
           \/ UNCHANGED vars
    PROVE  Quiet /\ UNCHANGED interest
<1>1. UNCHANGED <<file, clients, live, regfail, alive, interest, heap>>
  BY ZenonT(60) DEF ev_api_poll, SkipsReadFn, AcceptFails, PeerStep, PeerConnect, PeerSend,
         PeerSendTail, PeerRecv, PeerShutdown, PeerReset, vars, evVars, kernelVars, heapVars,
         auxVars
<1> QED BY SMTT(60), <1>1 DEF Quiet

\* A client is closed.
Closes(fd) ==
    LET x == ClientAt(fd)
    IN  /\ file' = [file EXCEPT ![fd] = Free]
        /\ interest' = [interest EXCEPT ![fd] = {}]
        /\ clients' = RemoveAt(clients, vec_find(fd))
        /\ sock' = [sock EXCEPT ![file[fd]] = ClosedSocket]
        /\ live' = live \ {x}
        /\ \A y \in Cells : y # x => heap'[y] = heap[y]
        /\ alive' = (x \in live)
        /\ UNCHANGED <<backlog, regfail>>

\* A failed growth and an end of stream close the connection.
LEMMA CloseKind ==
    ASSUME Base, NEW e \in fired, ReadsClient(e), ReadGrowFails(e) \/ ReadEof(e)
    PROVE  Closes(e.fd) /\ (e.fd \in EvFds => mask'[e.fd] \cap e.mask = {})
<1>1. CloseClient(e.fd, e.mask) /\ UNCHANGED <<backlog, regfail>>
  BY DEF ReadGrowFails, ReadEof
<1>2. e.fd \in Fds /\ e.mask \in SUBSET Bits
  BY ReadContext
<1>3. /\ interest' = [interest EXCEPT ![e.fd] = {}]
      /\ e.fd \in EvFds => mask'[e.fd] \cap e.mask = {}
  BY <1>1, <1>2, CloseEffect DEF CloseClient, Base
<1>4. \E h : heap' = [heap EXCEPT ![ClientAt(e.fd)] = h]
  BY <1>1, CloseCell
<1>5. \E S : heap \in [Cells -> ClientOf(S)]
  BY DEF Base, ShapeOK, Shaped
<1>6. \A y \in Cells : y # ClientAt(e.fd) => heap'[y] = heap[y]
  BY <1>4, <1>5
<1> QED BY <1>1, <1>3, <1>6 DEF Closes, CloseClient

\* A connection is accepted and gets a client.
Adds(c, fd, x) ==
    /\ x \in Cells \ live
    /\ file' = [file EXCEPT ![fd] = c]
    /\ interest' = [interest EXCEPT ![fd] = {EV_READ}]
    /\ clients' = Append(clients, x)
    /\ heap' = [heap EXCEPT ![x] = NewClient(fd)]
    /\ live' = live \cup {x}
    /\ sock' = [sock EXCEPT ![c].state = "accepted"]
    /\ UNCHANGED <<alive, regfail>>

\* A successful accept adds a client.
LEMMA AddKind ==
    ASSUME Base, NEW e \in fired, NEW c \in Conns, NEW fd \in Fds, NEW x \in Cells,
           AcceptOk(e, c, fd, x)
    PROVE  Adds(c, fd, x)
<1>1. fd \in Fds /\ interest[fd] = {}
  BY AcceptContext DEF AcceptOk
<1>2. interest' = [interest EXCEPT ![fd] = @ \cup {EV_READ}]
  BY <1>1, AddEffect DEF AcceptOk, Base, Bits
<1>3. interest' = [interest EXCEPT ![fd] = {EV_READ}]
  BY <1>1, <1>2 DEF Base, EvTypeOK
<1> QED BY <1>3 DEF AcceptOk, Adds, vec_push, auxVars

\* A connection is accepted and lost: nobody watches it.
Loses(c, fd) ==
    /\ file' = [file EXCEPT ![fd] = c]
    /\ sock' = [sock EXCEPT ![c].state = "accepted"]
    /\ live \subseteq live'
    /\ \A y \in live : heap'[y] = heap[y]
    /\ ooms' = ooms + 1
    /\ UNCHANGED <<interest, clients, alive, regfail>>

\* A connection is accepted and closed again: the vector keeps the freed struct.
Drops(c, x) ==
    /\ x \in Cells \ live
    /\ clients' = Append(clients, x)
    /\ sock' = [sock EXCEPT ![c] = ClosedSocket]
    /\ \A y \in Cells : y # x => heap'[y] = heap[y]
    /\ regfail'
    /\ UNCHANGED <<file, interest, live, alive>>

\* An accept without memory closes what it accepted.
LEMMA LoseKind ==
    ASSUME VectorOK, NEW e, NEW c, NEW fd, NEW x \in Cells,
           AcceptCreateFails(e, c, fd) \/ AcceptPushFails(e, c, fd, x)
    PROVE  Loses(c, fd)
<1>1. CASE AcceptCreateFails(e, c, fd)
  BY <1>1 DEF AcceptCreateFails, Loses, evVars, heapVars
<1>2. CASE AcceptPushFails(e, c, fd, x)
  <2>1. heap' = [heap EXCEPT ![x] = NewClient(fd)] /\ x \notin live
    BY <1>2 DEF AcceptPushFails
  <2>2. \A y \in live : heap'[y] = heap[y]
    BY <2>1
  <2> QED BY <1>2, <2>2 DEF AcceptPushFails, Loses, evVars
<1> QED BY <1>1, <1>2

\* An accept that cannot register frees its client and leaves it in the vector.
LEMMA DropKind ==
    ASSUME NEW e, NEW c, NEW fd, NEW x \in Cells, AcceptRegisterFails(e, c, fd, x)
    PROVE  Drops(c, x)
<1>1. \A y \in Cells : y # x => heap'[y] = heap[y]
  BY DEF AcceptRegisterFails
<1> QED BY <1>1 DEF AcceptRegisterFails, Drops, vec_push, evVars

AcceptsAt(c, fd) ==
    /\ ~Stopped /\ fd # sfd /\ file[fd] = Free /\ interest[fd] = {}
    /\ backlog # <<>> /\ c = backlog[1] /\ backlog' = Tail(backlog)

ClosesAt(fd) ==
    /\ ~Stopped /\ fd # sfd /\ file[fd] \in Conns /\ EV_READ \in interest[fd]
    /\ vec_find(fd) \in DOMAIN clients
    /\ ClientAt(fd) \in Cells /\ heap[ClientAt(fd)].fd = fd

\* Every step is one of these kinds.
LEMMA Kinds ==
    ASSUME Base, [Next]_vars
    PROVE  \/ Quiet
           \/ \E fd \in Fds : ClosesAt(fd) /\ Closes(fd)
           \/ \E c \in Conns, fd \in Fds, x \in Cells : AcceptsAt(c, fd) /\ Adds(c, fd, x)
           \/ \E c \in Conns, fd \in Fds : AcceptsAt(c, fd) /\ Loses(c, fd)
           \/ \E c \in Conns, fd \in Fds, x \in Cells : AcceptsAt(c, fd) /\ Drops(c, x)
           \/ ServerStops
<1> DEFINE Goal ==
           \/ Quiet
           \/ \E fd \in Fds : ClosesAt(fd) /\ Closes(fd)
           \/ \E c \in Conns, fd \in Fds, x \in Cells : AcceptsAt(c, fd) /\ Adds(c, fd, x)
           \/ \E c \in Conns, fd \in Fds : AcceptsAt(c, fd) /\ Loses(c, fd)
           \/ \E c \in Conns, fd \in Fds, x \in Cells : AcceptsAt(c, fd) /\ Drops(c, x)
           \/ ServerStops
<1> SUFFICES Goal
  OBVIOUS
<1>1. VectorOK
  BY DEF Base
<1>2. ASSUME NEW e \in fired, NEW c \in Conns, NEW fd \in Fds, Accepts(e, c, fd)
      PROVE  AcceptsAt(c, fd)
  BY <1>2, AcceptContext DEF AcceptsAt
<1>3. ASSUME NEW e \in fired, ReadsClient(e) PROVE ClosesAt(e.fd) /\ e.fd \in Fds
  BY <1>3, ReadContext DEF ClosesAt
<1>4. ASSUME NEW e \in fired, Accepted(e) PROVE Goal
  <2>1. CASE AcceptFails(e)
    BY <2>1, OtherQuiet
  <2>2. ASSUME NEW c \in Conns, NEW fd \in Fds, AcceptCreateFails(e, c, fd)
        PROVE  Goal
    <3>1. PICK x : x \in Cells
      BY ConnectionsAssumption
    <3>2. Loses(c, fd)
      BY <1>1, <2>2, <3>1, LoseKind
    <3> QED BY <1>2, <2>2, <3>2 DEF AcceptCreateFails
  <2>3. ASSUME NEW c \in Conns, NEW fd \in Fds, NEW x \in Cells, AcceptOk(e, c, fd, x)
        PROVE  Goal
    BY <1>2, <2>3, AddKind DEF AcceptOk
  <2>4. ASSUME NEW c \in Conns, NEW fd \in Fds, NEW x \in Cells,
               AcceptRegisterFails(e, c, fd, x)
        PROVE  Goal
    BY <1>2, <2>4, DropKind DEF AcceptRegisterFails
  <2>5. ASSUME NEW c \in Conns, NEW fd \in Fds, NEW x \in Cells,
               AcceptPushFails(e, c, fd, x)
        PROVE  Goal
    BY <1>1, <1>2, <2>5, LoseKind DEF AcceptPushFails
  <2> HIDE DEF Goal
  <2> QED BY <1>4, <2>1, <2>2, <2>3, <2>4, <2>5, Zenon DEF Accepted
<1>5. ASSUME NEW e \in fired, ReadDone(e) PROVE Goal
  <2>1. ReadsClient(e)
    BY <1>5 DEF ReadDone
  <2>2. CASE ReadGrowFails(e) \/ ReadEof(e)
    BY <1>3, <2>1, <2>2, CloseKind
  <2>3. CASE ReadError(e) \/ ReadExecutes(e)
    BY <2>1, <2>3, ReadQuiet
  <2> QED BY <1>5, <2>2, <2>3 DEF ReadDone
<1>6. CASE WriteDone
  BY <1>6, WriteQuiet
<1>7. CASE \/ ev_api_poll
           \/ \E e \in fired : SkipsReadFn(e)
           \/ PeerStep
           \/ UNCHANGED vars
  BY <1>7, OtherQuiet
<1>8. CASE ServerStops
  BY <1>8
<1> HIDE DEF Goal
<1> QED BY <1>4, <1>5, <1>6, <1>7, <1>8, Steps, Zenon

\* What server_free leaves open.
LEMMA StopKind ==
    ASSUME ServerStops
    PROVE  /\ ~alive' /\ fired = {} /\ cur = Idle
           /\ UNCHANGED <<interest, backlog, clients, heap, fired, cur, regfail, moved, ooms>>
           /\ \/ /\ Freeable
                 /\ file' = [fd \in Fds |->
                        IF fd = sfd \/ \E i \in DOMAIN clients : heap[clients[i]].fd = fd
                        THEN Free ELSE file[fd]]
                 /\ sock' = [c \in Conns |->
                        IF \E fd : /\ file[fd] = c
                                   /\ fd = sfd \/ \E i \in DOMAIN clients : heap[clients[i]].fd = fd
                        THEN ClosedSocket ELSE sock[c]]
                 /\ live' = live \ Range(clients)
              \/ ~Freeable /\ UNCHANGED <<file, sock, live>>
<1>1. /\ ~alive' /\ fired = {} /\ cur = Idle
      /\ UNCHANGED <<interest, backlog, clients, heap, fired, cur, regfail, moved, ooms>>
  BY DEF ServerStops, Interrupted, evVars, loopVars
<1>2. ASSUME server_free
      PROVE  /\ file' = [fd \in Fds |->
                     IF fd = sfd \/ \E i \in DOMAIN clients : heap[clients[i]].fd = fd
                     THEN Free ELSE file[fd]]
             /\ sock' = [c \in Conns |->
                     IF \E fd : /\ file[fd] = c
                                /\ fd = sfd \/ \E i \in DOMAIN clients : heap[clients[i]].fd = fd
                     THEN ClosedSocket ELSE sock[c]]
             /\ live' = live \ Range(clients) /\ Freeable
  <2> DEFINE closed == {sfd} \cup {heap[x].fd : x \in Range(clients)}
  <2>1. /\ file' = [fd \in Fds |-> IF fd \in closed THEN Free ELSE file[fd]]
        /\ sock' = [c \in Conns |-> IF \E fd \in closed : file[fd] = c
                                    THEN ClosedSocket ELSE sock[c]]
    BY <1>2 DEF server_free
  <2>2. \A fd : fd \in closed <=> fd = sfd \/ \E i \in DOMAIN clients : heap[clients[i]].fd = fd
    BY DEF Range
  <2> HIDE DEF closed
  <2> QED BY <1>2, <2>1, <2>2 DEF server_free
<1> QED BY <1>1, <1>2 DEF ServerStops, ServerFreeBreaks

\* Every step keeps FilesOK: what epoll watches is the listener or a connection.
LEMMA FilesNext ==
    ASSUME Base, [Next]_vars
    PROVE  file' \in [Fds -> Conns \cup {Free, Listener, "other"}] /\ FilesOK'
<1> DEFINE Goal == file' \in [Fds -> Conns \cup {Free, Listener, "other"}] /\ FilesOK'
<1> SUFFICES Goal
  OBVIOUS
<1>1. /\ file \in [Fds -> Conns \cup {Free, Listener, "other"}] /\ FilesOK
      /\ interest \in [Fds -> SUBSET Bits] /\ sfd \in Fds
  BY EvAssumption DEF Base, ShapeOK, EvTypeOK, Fds
<1>2. Free # Listener /\ Free \notin Conns /\ Listener \notin Conns
  BY ConnectionsAssumption DEF Free, Listener
<1>3. CASE Quiet
  BY <1>1, <1>3 DEF Quiet, FilesOK, Stopped
<1>4. ASSUME NEW fd \in Fds, ClosesAt(fd), Closes(fd)
      PROVE  Goal
  BY <1>1, <1>2, <1>4 DEF ClosesAt, Closes, FilesOK, Stopped
<1>5. ASSUME NEW c \in Conns, NEW fd \in Fds, NEW x \in Cells, AcceptsAt(c, fd),
             Adds(c, fd, x) \/ Drops(c, x)
      PROVE  Goal
  BY ZenonT(60), <1>1, <1>2, <1>5 DEF AcceptsAt, Adds, Drops, FilesOK, Stopped
<1>6. ASSUME NEW c \in Conns, NEW fd \in Fds, AcceptsAt(c, fd), Loses(c, fd)
      PROVE  Goal
  BY <1>1, <1>2, <1>6 DEF AcceptsAt, Loses, FilesOK, Stopped
<1>7. CASE ServerStops
  <2>1. CASE file' = file
    BY <1>1, <1>7, <2>1, StopKind DEF FilesOK, Stopped
  <2>2. CASE file' = [fd \in Fds |->
                        IF fd = sfd \/ \E i \in DOMAIN clients : heap[clients[i]].fd = fd
                        THEN Free ELSE file[fd]]
    BY <1>1, <1>2, <1>7, <2>2, StopKind DEF FilesOK, Stopped
  <2> QED BY <1>7, <2>1, <2>2, StopKind
<1> HIDE DEF Goal
<1> QED BY <1>3, <1>4, <1>5, <1>6, <1>7, Kinds, Zenon

\* Every watched connection has its client in the vector.
LEMMA ServedNext ==
    ASSUME Base, [Next]_vars
    PROVE  Served'
<1>1. /\ file \in [Fds -> Conns \cup {Free, Listener, "other"}] /\ Served
      /\ interest \in [Fds -> SUBSET Bits] /\ sfd \in Fds /\ clients \in Seq(Cells)
      /\ live \subseteq Cells
  BY EvAssumption DEF Base, ShapeOK, EvTypeOK, Fds, VectorOK
<1>2. \E S : heap \in [Cells -> ClientOf(S)]
  BY DEF Base, ShapeOK, Shaped
<1>3. CASE Quiet
  BY <1>1, <1>3 DEF Quiet, Served, Stopped
<1>4. ASSUME NEW fd \in Fds, ClosesAt(fd), Closes(fd) PROVE Served'
  <2> DEFINE k == vec_find(fd)
  <2>1. k \in DOMAIN clients /\ heap[clients[k]].fd = fd
    BY <1>4 DEF ClosesAt, ClientAt
  <2>2. \A j \in DOMAIN clients : j # k =>
            \E i \in DOMAIN clients' : clients'[i] = clients[j]
    BY <1>1, <1>4, <2>1, RemovedAt DEF Closes
  <2> SUFFICES ASSUME NEW gd \in Fds \ {sfd}, interest'[gd] # {}
               PROVE  \E i \in DOMAIN clients' : clients'[i] \in live' /\ heap'[clients'[i]].fd = gd
    BY DEF Served
  <2>3. gd # fd /\ interest[gd] # {} /\ ~Stopped
    BY <1>1, <1>4 DEF Closes, ClosesAt
  <2>4. PICK j \in DOMAIN clients : clients[j] \in live /\ heap[clients[j]].fd = gd
    BY <1>1, <2>3 DEF Served
  <2>5. clients[j] # clients[k] /\ j # k
    BY <2>1, <2>3, <2>4
  <2>6. clients[j] \in live' /\ heap'[clients[j]] = heap[clients[j]]
    BY <1>1, <1>4, <2>4, <2>5 DEF Closes, ClientAt
  <2> QED BY <2>2, <2>4, <2>5, <2>6
<1>5. ASSUME NEW c \in Conns, NEW fd \in Fds, NEW x \in Cells, AcceptsAt(c, fd),
             Adds(c, fd, x) \/ Drops(c, x)
      PROVE  Served'
  <2>1. /\ clients' = Append(clients, x) /\ x \notin live
        /\ \A y \in Cells : y # x => heap'[y] = heap[y]
        /\ live \subseteq live'
    BY <1>2, <1>5 DEF Adds, Drops
  <2>2. /\ \A i \in DOMAIN clients : i \in DOMAIN clients' /\ clients'[i] = clients[i]
        /\ Len(clients) + 1 \in DOMAIN clients' /\ clients'[Len(clients) + 1] = x
    BY <1>1, <2>1
  <2> SUFFICES ASSUME NEW gd \in Fds \ {sfd}, interest'[gd] # {}
               PROVE  \E i \in DOMAIN clients' : clients'[i] \in live' /\ heap'[clients'[i]].fd = gd
    BY DEF Served
  <2>3. CASE interest[gd] # {}
    <3>1. PICK i \in DOMAIN clients : clients[i] \in live /\ heap[clients[i]].fd = gd
      BY <1>1, <1>5, <2>3 DEF Served, AcceptsAt
    <3>2. clients[i] # x /\ clients[i] \in Cells
      BY <1>1, <2>1, <3>1
    <3>3. i \in DOMAIN clients' /\ clients'[i] \in live' /\ heap'[clients'[i]].fd = gd
      BY <2>1, <2>2, <3>1, <3>2
    <3> QED BY <3>3
  <2>4. CASE interest[gd] = {}
    <3>1. gd = fd /\ Adds(c, fd, x)
      BY <1>1, <1>5, <2>4 DEF Adds, Drops
    <3>2. x \in live' /\ heap'[x] = NewClient(fd)
      BY <1>2, <3>1 DEF Adds
    <3>3. heap'[x].fd = gd
      BY <3>1, <3>2 DEF NewClient
    <3> QED BY <2>2, <3>2, <3>3
  <2> QED BY <2>3, <2>4
<1>6. ASSUME NEW c \in Conns, NEW fd \in Fds, AcceptsAt(c, fd), Loses(c, fd) PROVE Served'
  BY <1>1, <1>6 DEF AcceptsAt, Loses, Served
<1>7. CASE ServerStops
  BY <1>1, <1>7, StopKind DEF Served, Stopped
<1> QED BY <1>3, <1>4, <1>5, <1>6, <1>7, Kinds, Zenon

\* A handler of e returns: what is left of the round is still watched, provided
\* the handler left the other fired descriptors alone.
LEMMA ReturnRound ==
    ASSUME Base, NEW e \in fired, ThenWrite(e), WatchedAsRegistered', ~Stopped', cur = Idle,
           \A f \in fired : f.fd # e.fd =>
               file'[f.fd] = file[f.fd] /\ interest'[f.fd] = interest[f.fd],
           cur' # Idle => e.fd # sfd /\ EV_WRITE \in interest'[e.fd]
    PROVE  RoundOK'
<1>1. fired' = fired \ {e}
  BY DEF ThenWrite
<1>2. \A f \in fired' : f \in fired /\ f.fd # e.fd
  BY <1>1 DEF Base, RoundOK
<1>3. cur' # Idle => cur'.fd = e.fd
  BY DEF ThenWrite
<1> QED BY <1>2, <1>3 DEF Base, RoundOK

\* Events still to be handled belong to the file that fired them.
LEMMA RoundNext ==
    ASSUME Base, [Next]_vars, WatchedAsRegistered', FilesOK'
    PROVE  RoundOK'
<1>1. /\ interest \in [Fds -> SUBSET Bits] /\ \A f \in fired : f.fd \in Fds
      /\ file \in [Fds -> Conns \cup {Free, Listener, "other"}] /\ sfd \in Fds
      /\ RoundOK /\ FilesOK
  BY EvAssumption DEF Base, EvTypeOK, DispatchOK, ShapeOK, Fds
<1>2. ASSUME NEW e \in fired, ThenWrite(e), interest'[e.fd] # {}, cur' # Idle
      PROVE  EV_WRITE \in interest'[e.fd]
  BY <1>1, <1>2 DEF WatchedAsRegistered, ThenWrite
<1>3. sfd \in EvFds /\ EV_READ # EV_WRITE
  BY EvAssumption DEF EvFds, EV_READ, EV_WRITE
<1>4. CASE ev_api_poll
  <2>1. UNCHANGED <<file, interest, cur>> /\ cur = Idle /\ alive
    BY <1>4 DEF ev_api_poll, evVars, kernelVars
  <2>2. \A f \in fired' : /\ f.fd \in Fds /\ Events(f.fd) # {}
                          /\ f = [fd |-> f.fd, mask |-> Events(f.fd), file |-> file[f.fd]]
    BY <1>4 DEF ev_api_poll
  <2>3. \A f \in fired' : interest[f.fd] # {}
    BY <2>2 DEF Events
  <2>4. \A f \in fired' : file[f.fd] = f.file
    BY <2>2
  <2>5. \A f, g \in fired' : f.fd = g.fd => f = g
    BY <2>2
  <2> QED BY <1>1, <2>1, <2>3, <2>4, <2>5 DEF RoundOK, FilesOK, Stopped
<1>5. ASSUME NEW e \in fired, SkipsReadFn(e) PROVE RoundOK'
  <2>1. UNCHANGED <<file, interest>> /\ cur = Idle /\ alive /\ ThenWrite(e)
    BY <1>5 DEF SkipsReadFn, Dispatches, evVars, kernelVars
  <2>2. interest'[e.fd] # {} /\ ~Stopped'
    BY <1>1, <2>1 DEF RoundOK, FilesOK, Stopped
  <2>3. cur' # Idle => EV_WRITE \in interest'[e.fd]
    BY <1>2, <2>1, <2>2
  <2>4. cur' # Idle => e.fd # sfd
    BY <1>1, <1>3, <2>1, <2>2, <2>3 DEF FilesOK, Stopped
  <2> QED BY <2>1, <2>2, <2>3, <2>4, ReturnRound
<1>6. ASSUME NEW e \in fired, Accepted(e) PROVE RoundOK'
  <2>1. CallsReadFn(e) /\ e.fd = sfd /\ ThenWrite(e) /\ cur = Idle /\ alive
    BY <1>6
    DEF Accepted, AcceptFails, AcceptOk, AcceptCreateFails, AcceptPushFails,
        AcceptRegisterFails, Accepts, CallsReadFn, Dispatches
  <2> DEFINE Same == /\ ~Stopped'
                     /\ \A f \in fired : file'[f.fd] = file[f.fd] /\ interest'[f.fd] = interest[f.fd]
  <2>2. ASSUME AcceptFails(e) PROVE Same
    BY <1>1, <2>1, <2>2
    DEF AcceptFails, evVars, kernelVars, FilesOK, Stopped
  <2>3. ASSUME NEW c \in Conns, NEW fd \in Fds, AcceptsAt(c, fd), 
               file' = file \/ file' = [file EXCEPT ![fd] = c],
               interest' = interest \/ interest' = [interest EXCEPT ![fd] = {EV_READ}]
        PROVE  Same
    <3>1. \A f \in fired : f.fd # fd
      BY <1>1, <2>3 DEF AcceptsAt, RoundOK
    <3> QED BY <1>1, <2>3, <3>1 DEF AcceptsAt, Stopped
  <2>4. ASSUME NEW c \in Conns, NEW fd \in Fds, AcceptCreateFails(e, c, fd) PROVE Same
    <3>1. AcceptsAt(c, fd)
      BY <2>4, AcceptContext DEF AcceptsAt, AcceptCreateFails
    <3> QED BY <2>3, <2>4, <3>1 DEF AcceptCreateFails, evVars
  <2>5. ASSUME NEW c \in Conns, NEW fd \in Fds, NEW x \in Cells,
               \/ AcceptOk(e, c, fd, x)
               \/ AcceptRegisterFails(e, c, fd, x)
               \/ AcceptPushFails(e, c, fd, x)
        PROVE  Same
    <3>1. AcceptsAt(c, fd)
      BY <2>5, AcceptContext DEF AcceptsAt, AcceptOk, AcceptRegisterFails, AcceptPushFails
    <3>2. interest' = interest \/ interest' = [interest EXCEPT ![fd] = {EV_READ}]
      BY <2>5, AddKind DEF Adds, AcceptRegisterFails, AcceptPushFails, evVars
    <3>3. file' = file \/ file' = [file EXCEPT ![fd] = c]
      BY <2>5 DEF AcceptOk, AcceptRegisterFails, AcceptPushFails
    <3> QED BY <2>3, <3>1, <3>2, <3>3
  <2>6. Same
    BY <1>6, <2>2, <2>4, <2>5, Zenon DEF Accepted
  <2>7. interest'[sfd] = {EV_READ} /\ mask'[sfd] = {EV_READ}
    BY <1>1, <1>3, <2>6 DEF FilesOK, WatchedAsRegistered
  <2>8. cur' = Idle
    BY <1>3, <2>1, <2>7 DEF ThenWrite
  <2> QED BY <2>1, <2>6, <2>8, ReturnRound
<1>7. ASSUME NEW e \in fired, ReadDone(e) PROVE RoundOK'
  <2>1. ReadsClient(e) /\ ThenWrite(e)
    BY <1>7 DEF ReadDone
  <2>2. ~Stopped /\ cur = Idle /\ e.fd \in Fds \ {sfd} /\ EV_READ \in interest[e.fd]
    BY <2>1, ReadContext
  <2>3. CASE ReadGrowFails(e) \/ ReadEof(e)
    <3>1. Closes(e.fd) /\ (e.fd \in EvFds => mask'[e.fd] \cap e.mask = {})
      BY <2>1, <2>3, CloseKind
    <3>2. e.fd \in EvFds
      BY <2>2 DEF Base, WatchedAsRegistered
    <3>3. cur' = Idle
      BY <2>1, <3>1, <3>2 DEF ThenWrite
    <3>4. ~Stopped' /\ \A f \in fired : f.fd # e.fd =>
              file'[f.fd] = file[f.fd] /\ interest'[f.fd] = interest[f.fd]
      BY <1>1, <2>2, <3>1 DEF Closes, Stopped
    <3> QED BY <2>1, <2>2, <3>3, <3>4, ReturnRound
  <2>4. CASE ReadError(e) \/ ReadExecutes(e)
    <3>1. Quiet
      BY SMTT(60), <2>1, <2>4, ReadQuiet
    <3>2. interest' = interest \/ interest' = [interest EXCEPT ![e.fd] = @ \cup {EV_WRITE}]
      BY <2>1, <2>4, ReadExecutesEffect DEF ReadError, evVars
    <3>3. interest'[e.fd] # {} /\ ~Stopped' /\ file' = file
      BY <2>2, <3>1 DEF Quiet, Stopped
    <3>4. cur' # Idle => EV_WRITE \in interest'[e.fd]
      BY <1>2, <2>1, <3>3
    <3>5. \A f \in fired : f.fd # e.fd => interest'[f.fd] = interest[f.fd]
      BY <1>1, <2>2, <3>2
    <3> QED BY <2>1, <2>2, <3>3, <3>4, <3>5, ReturnRound
  <2> QED BY <1>7, <2>3, <2>4 DEF ReadDone
<1>8. CASE WriteDone
  <2>1. /\ Quiet /\ fired' = fired
        /\ cur' = Idle \/ (cur'.fd = cur.fd /\ interest' = interest)
    BY <1>8, WriteQuiet
  <2>2. ~Stopped /\ cur # Idle
    BY <1>8, WriteContext DEF WriteDone, WritesClient
  <2> QED BY <1>1, <2>1, <2>2 DEF Quiet, RoundOK, Stopped
<1>9. CASE PeerStep \/ UNCHANGED vars
  <2>1. UNCHANGED <<file, interest, fired, cur>>
    BY ZenonT(60), <1>9
    DEF PeerStep, PeerConnect, PeerSend, PeerSendTail, PeerRecv, PeerShutdown, PeerReset,
        vars, evVars, kernelVars, loopVars
  <2> QED BY SMTT(60), <1>1, <2>1 DEF RoundOK, Stopped
<1>10. CASE ServerStops
  BY <1>10, StopKind DEF RoundOK
<1> QED BY <1>4, <1>5, <1>6, <1>7, <1>8, <1>9, <1>10, Steps, Zenon

\* The other variables keep their types.
LEMMA RestOfShape ==
    ASSUME Base, [Next]_vars
    PROVE  /\ backlog' \in Seq(Conns) /\ cur'.bytes_sent \in Nat
           /\ alive' \in BOOLEAN /\ regfail' \in BOOLEAN /\ ooms' \in 0 .. MaxOom
<1>1. /\ backlog \in Seq(Conns) /\ alive \in BOOLEAN /\ regfail \in BOOLEAN
      /\ ooms \in 0 .. MaxOom /\ cur.bytes_sent \in Nat
  BY DEF Base, ShapeOK
<1> DEFINE Queue == backlog' \in Seq(Conns)
           Flags == alive' \in BOOLEAN /\ regfail' \in BOOLEAN
           Oom   == ooms' \in 0 .. MaxOom
<1>2. Queue
  <2>1. ASSUME NEW e, NEW c, NEW fd, Accepts(e, c, fd) PROVE Queue
    BY <1>1, <2>1 DEF Accepts
  <2>2. ASSUME NEW c \in Conns, PeerConnect(c) PROVE Queue
    BY <1>1, <2>2 DEF PeerConnect
  <2>3. CASE backlog' = backlog
    BY <1>1, <2>3
  <2>4. ASSUME NEW e \in fired, Accepted(e) PROVE Queue
    <3>1. AcceptFails(e) \/ \E c \in Conns, fd \in Fds : Accepts(e, c, fd)
      BY <2>4 DEF Accepted, AcceptCreateFails, AcceptOk, AcceptRegisterFails, AcceptPushFails
    <3> QED BY <2>1, <2>3, <3>1 DEF AcceptFails, kernelVars
  <2>5. CASE PeerStep
    <3>1. backlog' = backlog \/ \E c \in Conns : PeerConnect(c)
      BY ZenonT(60), <2>5
      DEF PeerStep, PeerSend, PeerSendTail, PeerRecv, PeerShutdown, PeerReset
    <3> QED BY <2>2, <2>3, <3>1
  <2>6. CASE \/ ev_api_poll
             \/ \E e \in fired : SkipsReadFn(e) \/ ReadDone(e)
             \/ WriteDone
             \/ ServerStops
             \/ UNCHANGED vars
    <3>1. backlog' = backlog
      BY ZenonT(60), <2>6
      DEF ev_api_poll, SkipsReadFn, ReadDone, ReadGrowFails, ReadEof, ReadError, ReadExecutes,
          WriteDone, WriteNothing, WriteSome, WriteReturns, WriteKills, ServerStops, vars,
          kernelVars
    <3> QED BY <2>3, <3>1
  <2> HIDE DEF Queue
  <2> QED BY <2>4, <2>5, <2>6, Steps, Zenon
<1>3. cur'.bytes_sent \in Nat
  <2>1. ASSUME NEW e, ThenWrite(e) PROVE cur'.bytes_sent \in Nat
    BY <2>1 DEF ThenWrite, Idle
  <2>2. CASE WriteDone
    <3>1. CASE WriteSome
      <4> DEFINE k == IF Space(file[cur.fd]) < heap[ClientAt(cur.fd)].write_size
                      THEN Space(file[cur.fd]) ELSE heap[ClientAt(cur.fd)].write_size
      <4>1. cur' = Idle \/ cur' = [cur EXCEPT !.bytes_sent = @ + k]
        BY <3>1 DEF WriteSome, FinishesWrite
      <4>2. k \in Nat
        <5>1. PICK S : Shaped(S)
          BY DEF Base, ShapeOK
        <5>2. file[cur.fd] \in Conns /\ ClientAt(cur.fd) \in Cells
          BY <2>2, WriteContext DEF WriteDone
        <5>3. heap[ClientAt(cur.fd)].write_size \in Nat
          BY <5>1, <5>2 DEF Shaped, ClientOf
        <5>4. Space(file[cur.fd]) \in Int /\ Space(file[cur.fd]) > 0
          <6>1. sock[file[cur.fd]] \in SockOf(S)
            BY <5>1, <5>2 DEF Shaped
          <6>2. sock[file[cur.fd]].taken \in Nat /\ Len(sock[file[cur.fd]].sent) \in Nat
            BY SMTT(60), <6>1 DEF SockOf
          <6>3. Space(file[cur.fd]) > 0
            BY <3>1 DEF WriteSome
          <6>4. Space(file[cur.fd]) \in Int
            BY <6>2, ConnectionsAssumption DEF Space
          <6> QED BY <6>3, <6>4
        <5> QED BY <5>3, <5>4
      <4>3. cur = [fd |-> cur.fd, mask |-> cur.mask, bytes_sent |-> cur.bytes_sent]
        BY DEF Base, DispatchOK
      <4> HIDE DEF k
      <4> QED BY <1>1, <4>1, <4>2, <4>3 DEF Idle
    <3>2. CASE WriteNothing \/ WriteReturns \/ WriteKills
      BY <1>1, <3>2 DEF WriteNothing, WriteReturns, WriteKills, FinishesWrite, loopVars, Idle
    <3> QED BY <2>2, <3>1, <3>2 DEF WriteDone
  <2>3. CASE ev_api_poll \/ PeerStep \/ ServerStops \/ UNCHANGED vars
    <3>1. cur' = cur
      BY ZenonT(60), <2>3
      DEF ev_api_poll, PeerStep, PeerConnect, PeerSend, PeerSendTail, PeerRecv, PeerShutdown,
          PeerReset, ServerStops, vars, loopVars
    <3> QED BY SMTT(60), <1>1, <3>1
  <2>4. ASSUME NEW e \in fired, SkipsReadFn(e) \/ Accepted(e) \/ ReadDone(e)
        PROVE  ThenWrite(e)
    BY <2>4 DEF SkipsReadFn, Accepted, ReadDone
  <2> QED BY <2>1, <2>2, <2>3, <2>4, Steps, Zenon
<1>4. Flags /\ Oom
  <2>1. CASE UNCHANGED <<alive, ooms, regfail>>
    BY <1>1, <2>1
  <2>2. ASSUME NEW e \in fired, Accepted(e) PROVE Flags /\ Oom
    <3>1. alive' = alive /\ regfail' \in {regfail, TRUE}
      BY ZenonT(60), <2>2
      DEF Accepted, AcceptFails, AcceptCreateFails, AcceptOk, AcceptRegisterFails,
          AcceptPushFails, auxVars
    <3>2. ooms' = ooms \/ (ooms < MaxOom /\ ooms' = ooms + 1)
      BY <2>2
      DEF Accepted, AcceptFails, AcceptCreateFails, AcceptOk, AcceptRegisterFails,
          AcceptPushFails, CanFail, auxVars
    <3>3. Flags
      BY <1>1, <3>1
    <3>4. Oom
      BY <1>1, <3>2, ConnectionsAssumption
    <3> QED BY <3>3, <3>4
  <2>3. ASSUME NEW e \in fired, ReadDone(e) PROVE Flags /\ Oom
    <3>1. alive' \in BOOLEAN /\ regfail' = regfail
      <4>1. (alive' = alive \/ alive' = (ClientAt(e.fd) \in live)) /\ regfail' = regfail
        BY <2>3, Zenon
        DEF ReadDone, ReadGrowFails, ReadEof, ReadError, ReadExecutes, CloseClient, auxVars
      <4>2. (ClientAt(e.fd) \in live) \in BOOLEAN
        OBVIOUS
      <4> QED BY <1>1, <4>1, <4>2
    <3>2. ooms' = ooms \/ (ooms < MaxOom /\ ooms' = ooms + 1)
      BY <2>3
      DEF ReadDone, ReadGrowFails, ReadEof, ReadError, ReadExecutes, CanFail, auxVars
    <3>3. Flags
      BY <1>1, <3>1
    <3>4. Oom
      BY <1>1, <3>2, ConnectionsAssumption
    <3> QED BY <3>3, <3>4
  <2>4. CASE WriteDone \/ ServerStops
    <3>1. alive' \in {alive, FALSE} /\ UNCHANGED <<regfail, ooms>>
      BY <2>4
      DEF WriteDone, WriteNothing, WriteSome, WriteReturns, WriteKills, ServerStops, auxVars
    <3> QED BY <1>1, <3>1
  <2>5. CASE ev_api_poll \/ (\E e \in fired : SkipsReadFn(e)) \/ PeerStep \/ UNCHANGED vars
    <3>1. UNCHANGED <<alive, ooms, regfail>>
      BY ZenonT(60), <2>5
      DEF ev_api_poll, SkipsReadFn, PeerStep, PeerConnect, PeerSend, PeerSendTail, PeerRecv,
          PeerShutdown, PeerReset, vars, auxVars
    <3> QED BY SMTT(60), <2>1, <3>1
  <2> HIDE DEF Flags, Oom
  <2> QED BY <2>2, <2>3, <2>4, <2>5, Steps, Zenon
<1> QED BY <1>2, <1>3, <1>4

-----------------------------------------------------------------------------
(* The invariant of the server, and what follows from it *)

\* The initial state satisfies the inductive invariant.
LEMMA BaseInit == Init => Base
<1> SUFFICES ASSUME Init PROVE Base
  OBVIOUS
<1>1. EvTypeOK /\ WatchedAsRegistered /\ DispatchOK
  BY InitIsEvInit, EvInitTypeOK, EvInitWatched, DispatchInit
<1>2. (\E S : Shaped(S)) /\ BuffersOK
  <2>1. PICK S : S = {}
    OBVIOUS
  <2>2. SockGood(S, NewSocket) /\ CellGood(S, Forgotten)
    BY NewShapes, ConnectionsAssumption DEF SockGood, CellGood, Forgotten
  <2>3. sock = [c \in Conns |-> NewSocket] /\ heap = [x \in Cells |-> Forgotten]
    BY DEF Init
  <2> QED BY <2>2, <2>3 DEF Shaped, BuffersOK, SockGood, CellGood
<1>3. VectorOK
  BY CommandsAssumption DEF Init, VectorOK, VEC_INITIAL_CAP
<1>4. sfd \in Fds /\ Free # Listener /\ Listener # "other" /\ "other" \notin Conns
  BY EvAssumption, ConnectionsAssumption DEF Fds, Free, Listener
<1>5. PICK others \in Inherited :
          file = [fd \in Fds |-> IF fd = sfd THEN Listener
                                 ELSE IF fd < sfd \/ fd \in others THEN "other" ELSE Free]
  BY DEF Init
<1>6. /\ file \in [Fds -> Conns \cup {Free, Listener, "other"}]
      /\ file[sfd] = Listener
      /\ \A fd \in Fds \ {sfd} : file[fd] # Listener
  BY <1>4, <1>5
<1>7. ShapeOK
  <2>1. backlog \in Seq(Conns) /\ cur.bytes_sent \in Nat /\ ooms \in 0 .. MaxOom
    BY ConnectionsAssumption DEF Init, Idle
  <2>2. alive \in BOOLEAN /\ regfail \in BOOLEAN /\ moved \in BOOLEAN /\ st \in ServerState
    BY InitialTypes DEF Init
  <2> QED BY <1>2, <1>6, <2>1, <2>2 DEF ShapeOK
<1>8. interest = [fd \in Fds |-> IF fd = sfd THEN {EV_READ} ELSE {}]
  BY DEF Init, EvInit
<1>9. FilesOK /\ Served
  BY <1>4, <1>6, <1>8 DEF FilesOK, Served, Stopped
<1>10. RoundOK
  BY <1>4, <1>6 DEF Init, RoundOK, Stopped
<1> QED BY <1>1, <1>2, <1>3, <1>7, <1>9, <1>10 DEF Base

\* Every step keeps it.
LEMMA BaseNext == Base /\ [Next]_vars => Base'
<1> SUFFICES ASSUME Base, [Next]_vars PROVE Base'
  OBVIOUS
<1>1. EvTypeOK /\ WatchedAsRegistered /\ DispatchOK
  BY DEF Base
<1>2. EvTypeOK' /\ WatchedAsRegistered' /\ DispatchOK'
  BY <1>1, StepIsEvStep, EvNextTypeOK, EvNextWatched, DispatchNext
<1>3. (\E T : Shaped(T)') /\ BuffersOK' /\ st' \in ServerState
  BY SocketsAndCells
<1>4. VectorOK' /\ moved' \in BOOLEAN
  BY VectorNext
<1>5. file' \in [Fds -> Conns \cup {Free, Listener, "other"}] /\ FilesOK'
  BY FilesNext
<1>6. Served'
  BY ServedNext
<1>7. RoundOK'
  BY <1>2, <1>5, RoundNext
<1>8. ShapeOK'
  BY <1>3, <1>4, <1>5, RestOfShape DEF ShapeOK
<1> QED BY <1>2, <1>3, <1>4, <1>5, <1>6, <1>7, <1>8 DEF Base

\* It holds in every behaviour of the server.
LEMMA BaseInvariant == Spec => []Base
BY BaseInit, BaseNext, PTL DEF Spec

\* It implies the type invariant.
LEMMA BaseTypeOK == Base => TypeOK
<1> SUFFICES ASSUME Base PROVE TypeOK
  OBVIOUS
<1>1. PICK S : sock \in [Conns -> SockOf(S)] /\ heap \in [Cells -> ClientOf(S)]
  BY DEF Base, ShapeOK, Shaped
<1>2. ASSUME NEW c \in Conns
      PROVE  /\ sock[c].state \in {"new", "backlog", "accepted", "closed"}
             /\ sock[c].in \in Seq(Token)
             /\ sock[c].taken \in 0 .. Len(sock[c].sent)
             /\ Space(c) \in 0 .. snd_cap
  <2>1. sock[c] \in SockOf(S)
    BY <1>1
  <2>2. /\ sock[c].state \in {"new", "backlog", "accepted", "closed"}
        /\ sock[c].in \in Seq(Token)
        /\ sock[c].taken \in Nat /\ Len(sock[c].sent) \in Nat
    BY <2>1 DEF SockOf
  <2>3. sock[c].taken <= Len(sock[c].sent) /\ Len(sock[c].sent) - sock[c].taken <= snd_cap
    BY DEF Base, BuffersOK
  <2> QED BY <2>2, <2>3, ConnectionsAssumption DEF Space
<1>3. ASSUME NEW x \in Cells
      PROVE  /\ heap[x].fd \in Fds \cup {Garbage}
             /\ heap[x].view \in ClientView
             /\ heap[x].write_size \in Nat
             /\ Len(heap[x].read_buf) < heap[x].read_cap
  BY <1>1 DEF ClientOf, Base, BuffersOK
<1>4. ASSUME NEW fd \in Fds, interest[fd] # {} PROVE fd \in EvFds
  BY <1>4 DEF Base, WatchedAsRegistered
<1>5. /\ \A e \in fired : e.fd \in EvFds /\ e.mask \in SUBSET Bits
      /\ cur = Idle \/ cur.fd \in EvFds
  BY <1>4 DEF Base, DispatchOK, RoundOK
<1> QED BY <1>1, <1>2, <1>3, <1>5 DEF TypeOK, Base, ShapeOK, VectorOK

\* Type correctness: every variable keeps its shape for any number of peers,
\* descriptors and segments; the send buffer is never over-full, the read buffer
\* always has room for the next read() (server.c:523) and every descriptor that is
\* dispatched indexes ev->events.
THEOREM TypeCorrect == Spec => []TypeOK
BY BaseInvariant, BaseTypeOK, PTL

\* An event that fired is handled for the connection it fired for, although
\* handlers of the same round close descriptors and accept hands them out again.
THEOREM RoundsReachTheirConnection == Spec => []EventsReachTheirConnection
<1>1. Base => EventsReachTheirConnection
  BY DEF Base, RoundOK, EventsReachTheirConnection
<1> QED BY <1>1, BaseInvariant, PTL
=============================================================================
