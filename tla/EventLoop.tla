------------------------------ MODULE EventLoop ------------------------------
(***************************************************************************)
(* The descriptor table of the event loop (ev.c) over its epoll backend    *)
(* (ev_epoll.c): which events the program registered for each descriptor   *)
(* (ev->events[fd].mask), the highest registered descriptor (ev->max_fd),  *)
(* and what the kernel's epoll instance watches.                           *)
(*                                                                         *)
(* A mask is the set of its bits.  EV_BOTH is left out: no caller registers *)
(* it, so it is never in events[fd].mask, and the `mask |= EV_BOTH' of     *)
(* ev_delete_event and the `invert' branches of ev_process_events have no  *)
(* effect.  interest[fd] = {} says that epoll does not know fd; an entry   *)
(* with no events cannot arise, since ev_api_del_event removes the         *)
(* descriptor instead.                                                     *)
(***************************************************************************)
EXTENDS Integers, FiniteSets

CONSTANTS
    num_fds,    \* size of ev->events, the argument of ev_new
    last_fd,    \* largest descriptor the kernel can hand out
    sfd         \* the listening socket

ASSUME EvAssumption ==
    /\ num_fds \in Nat /\ last_fd \in Nat /\ sfd \in Nat
    /\ sfd < num_fds /\ num_fds <= last_fd + 1

EV_READ  == "EV_READ"
EV_WRITE == "EV_WRITE"
Bits     == {EV_READ, EV_WRITE}

Fds   == 0 .. last_fd
EvFds == 0 .. (num_fds - 1)

VARIABLES
    mask,       \* ev->events[fd].mask, for fd < num_fds
    max_fd,     \* ev->max_fd
    interest    \* the kernel's epoll set: the events watched per descriptor

evVars == <<mask, max_fd, interest>>

EvTypeOK ==
    /\ mask \in [EvFds -> SUBSET Bits]
    /\ max_fd \in -1 .. (num_fds - 1)
    /\ interest \in [Fds -> SUBSET Bits]

\* ev_new, and the registration of the listening socket that ends server_new.
EvInit ==
    /\ mask = [fd \in EvFds |-> IF fd = sfd THEN {EV_READ} ELSE {}]
    /\ max_fd = sfd
    /\ interest = [fd \in Fds |-> IF fd = sfd THEN {EV_READ} ELSE {}]

-----------------------------------------------------------------------------
(* Registering *)

\* ev_api_add_event asks epoll to ADD a descriptor whose own mask is empty and
\* to MODify any other; epoll refuses to ADD what it watches (EEXIST) and to
\* MODify what it does not (ENOENT).
ev_api_add_event_ok(fd) ==
    IF mask[fd] = {} THEN interest[fd] = {} ELSE interest[fd] # {}

ev_add_event_ok(fd) == fd < num_fds /\ ev_api_add_event_ok(fd)

\* Mutant: max_fd set by the first registration only.
ev_add_event_first(fd, m) ==
    /\ ev_add_event_ok(fd)
    /\ mask' = [mask EXCEPT ![fd] = @ \cup m]
    /\ interest' = [interest EXCEPT ![fd] = mask[fd] \cup m]
    /\ max_fd' = IF max_fd = -1 THEN fd ELSE max_fd

\* ev_add_event when it returns 0; when it returns -1 nothing has changed.
ev_add_event(fd, m) ==
    /\ ev_add_event_ok(fd)
    /\ mask' = [mask EXCEPT ![fd] = @ \cup m]
    /\ interest' = [interest EXCEPT ![fd] = mask[fd] \cup m]
    /\ max_fd' = IF fd > max_fd THEN fd ELSE max_fd

-----------------------------------------------------------------------------
(* Deleting *)

\* The two early returns of ev_delete_event.
DeleteIgnored(fd) == fd >= num_fds \/ mask[fd] = {}

\* The downward scan for the next registered descriptor; -1 when it runs out.
\* The result is stated as the largest element, which is what the scan stops at.
ScanBelow(fd) ==
    LET used == {i \in EvFds : i < fd /\ mask[i] # {}}
    IN  IF used = {} THEN -1 ELSE CHOOSE i \in used : \A j \in used : j <= i

MaskAfterDelete(fd, m) ==
    IF DeleteIgnored(fd) THEN mask ELSE [mask EXCEPT ![fd] = @ \ m]

MaxFdAfterDelete(fd, m) ==
    IF ~DeleteIgnored(fd) /\ fd = max_fd /\ mask[fd] \subseteq m
    THEN ScanBelow(fd) ELSE max_fd

\* Mutant: epoll is told only when no event is left.
InterestWithoutMod(fd, m) ==
    IF DeleteIgnored(fd) \/ ~(mask[fd] \subseteq m)
    THEN interest ELSE [interest EXCEPT ![fd] = {}]

\* Both calls of ev_api_del_event: MOD or DEL, which fail on a descriptor that
\* epoll does not watch.  The second call repeats the first.
InterestAfterDelete(fd, m) ==
    IF DeleteIgnored(fd) \/ interest[fd] = {}
    THEN interest ELSE [interest EXCEPT ![fd] = mask[fd] \ m]

ev_delete_event(fd, m) ==
    /\ mask' = MaskAfterDelete(fd, m)
    /\ max_fd' = MaxFdAfterDelete(fd, m)
    /\ interest' = InterestAfterDelete(fd, m)

\* close(fd): the kernel drops a closed descriptor from the epoll set, and
\* nothing tells ev about it.
close_fd(fd) ==
    /\ interest' = [interest EXCEPT ![fd] = {}]
    /\ UNCHANGED <<mask, max_fd>>

\* ev_delete_event followed by close, as the handlers of server.c call them.
delete_and_close(fd, m) ==
    /\ mask' = MaskAfterDelete(fd, m)
    /\ max_fd' = MaxFdAfterDelete(fd, m)
    /\ interest' = [InterestAfterDelete(fd, m) EXCEPT ![fd] = {}]

-----------------------------------------------------------------------------
(* A caller that registers, deletes and closes in any order. *)

EvAdd(fd, m)            == ev_add_event(fd, m)
EvDelete(fd, m)         == ev_delete_event(fd, m)
EvClose(fd)             == close_fd(fd)
EvDeleteAndClose(fd, m) == delete_and_close(fd, m)

EvNext ==
    \E fd \in Fds :
        \/ EvClose(fd)
        \/ \E m \in SUBSET Bits :
               \/ m # {} /\ EvAdd(fd, m)
               \/ EvDelete(fd, m)
               \/ EvDeleteAndClose(fd, m)

EvSpec == EvInit /\ [][EvNext]_evVars

-----------------------------------------------------------------------------

\* ev->max_fd is the highest descriptor with a handler, and -1 when there is
\* none: ev_process_events takes -1 as "nothing to wait for" and ends the
\* server (ev.c:154), so a value too low or too high is a server that stops
\* early or never.
MaxFdExact ==
    /\ \A fd \in EvFds : mask[fd] # {} => fd <= max_fd
    /\ max_fd # -1 => mask[max_fd] # {}

\* A descriptor that the kernel watches is watched for just the events ev has a
\* handler for (ev.c:95-99 and 133-134 keep the two in step): no event can fire
\* that ev_process_events would not dispatch, in any order of registering,
\* deleting and closing.  The converse is not claimed: a descriptor that was
\* closed, and is watched no more, may keep a mask.
WatchedAsRegistered ==
    \A fd \in Fds : interest[fd] # {} => fd \in EvFds /\ interest[fd] = mask[fd]
=============================================================================
