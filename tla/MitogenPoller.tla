---------------------------- MODULE MitogenPoller ----------------------------
(***************************************************************************)
(* Readiness: Poller of mitogen/core.py and its implementations in         *)
(* mitogen/parent.py, after EpollPoller, as the broker's loop uses them.   *)
(* The callback of one event may disconnect other streams and start new    *)
(* ones, which get the lowest file descriptor that is free: events that    *)
(* the same call to poll() has returned may be for a stream that is gone.  *)
(***************************************************************************)
EXTENDS Naturals, FiniteSets, Functions, FiniteSetsExt

CONSTANTS Streams, Fds

VARIABLES
    file,       \* file[d]: the stream that has the descriptor, or NoStream
    opened,     \* streams that were started
    rfds, wfds, \* _rfds and _wfds: [of, old], old when registered before the poll that runs
    known,      \* _registered_fds
    kernel,     \* what epoll waits for on the descriptor
    events,     \* what poll() has still to yield: [fd, on, was]
    told        \* the last stream that was called: [stream, was], was the one that was ready

pollerVars == <<file, opened, rfds, wfds, known, kernel, events, told>>

NoStream == "none"
Kinds == {"read", "write"}
Nobody == [stream |-> NoStream, was |-> NoStream]

PollerTypeOK ==
    /\ file \in [Fds -> Streams \cup {NoStream}] /\ opened \subseteq Streams
    /\ DOMAIN rfds \cup DOMAIN wfds \subseteq Fds /\ known \subseteq Fds
    /\ kernel \in [Fds -> SUBSET Kinds]

PollerInit ==
    /\ file = [d \in Fds |-> NoStream] /\ opened = {} /\ rfds = <<>> /\ wfds = <<>>
    /\ known = {} /\ kernel = [d \in Fds |-> {}] /\ events = {} /\ told = Nobody

Put(fds, d, s) == [e \in DOMAIN fds \cup {d} |-> IF e = d THEN [of |-> s, old |-> FALSE] ELSE fds[e]]
Without(fds, d) == Restrict(fds, DOMAIN fds \ {d})
Fd(s) == CHOOSE d \in Fds : file[d] = s
IsOpen(s) == \E d \in Fds : file[d] = s

\* EpollPoller._control(): what epoll is told after _rfds or _wfds have changed.  To modify
\* or to unregister a descriptor that the kernel does not know raises.
Mask(d) == {k \in Kinds : d \in DOMAIN (IF k = "read" THEN rfds' ELSE wfds')}
Control(d) ==
    /\ kernel' = [kernel EXCEPT ![d] = Mask(d)]
    /\ known' = IF Mask(d) # {} THEN known \cup {d} ELSE known \ {d}

----------------------------------------------------------------------------

\* Stream.accept() and Broker.start_receive().
StartReceive(s) ==
    /\ s \notin opened /\ \E d \in Fds : file[d] = NoStream
    /\ LET d == Min({e \in Fds : file[e] = NoStream}) IN
       /\ file' = [file EXCEPT ![d] = s] /\ opened' = opened \cup {s}
       /\ rfds' = Put(rfds, d, s) /\ UNCHANGED wfds
       /\ Control(d)
    /\ UNCHANGED <<events, told>>

StartTransmit(s) ==
    /\ IsOpen(s)
    /\ wfds' = Put(wfds, Fd(s), s) /\ UNCHANGED rfds
    /\ Control(Fd(s))
    /\ UNCHANGED <<file, opened, events, told>>
StopTransmit(s) ==
    /\ IsOpen(s) /\ Fd(s) \in DOMAIN wfds
    /\ wfds' = Without(wfds, Fd(s)) /\ UNCHANGED rfds
    /\ Control(Fd(s))
    /\ UNCHANGED <<file, opened, events, told>>

\* Protocol.on_disconnect(): both sides leave the poller, then they are closed.
Disconnect(s) ==
    /\ IsOpen(s)
    /\ rfds' = Without(rfds, Fd(s)) /\ wfds' = Without(wfds, Fd(s))
    /\ Control(Fd(s))
    /\ file' = [file EXCEPT ![Fd(s)] = NoStream]
    /\ UNCHANGED <<opened, events, told>>

Aged(fds) == [d \in DOMAIN fds |-> [fds[d] EXCEPT !.old = TRUE]]
\* poll(): what is registered now is of an earlier generation.  Any of what the kernel waits
\* for may be ready.
Ready == {e \in [fd : Fds, on : Kinds, was : Streams] : e.on \in kernel[e.fd] /\ file[e.fd] = e.was}
Poll ==
    /\ events = {}
    /\ events' \in SUBSET Ready
    /\ rfds' = Aged(rfds) /\ wfds' = Aged(wfds)
    /\ told' = Nobody
    /\ UNCHANGED <<file, opened, known, kernel>>

Registered(e) == IF e.on = "read" THEN rfds ELSE wfds
\* Slip: whatever stream is registered when the event's turn comes is called.
YieldsAny(e) == e.fd \in DOMAIN Registered(e)
\* _poll(): what has left the poller since is passed over, and what has joined it is.
Yields(e) == e.fd \in DOMAIN Registered(e) /\ Registered(e)[e.fd].old
\* Broker._loop_once().
Yield(e) ==
    /\ e \in events
    /\ events' = events \ {e}
    /\ told' = IF Yields(e) THEN [stream |-> Registered(e)[e.fd].of, was |-> e.was] ELSE Nobody
    /\ UNCHANGED <<file, opened, rfds, wfds, known, kernel>>

PollerNext ==
    \/ \E s \in Streams : StartReceive(s) \/ StartTransmit(s) \/ StopTransmit(s) \/ Disconnect(s)
    \/ Poll
    \/ \E e \in events : Yield(e)
PollerSpec == PollerInit /\ [][PollerNext]_pollerVars

----------------------------------------------------------------------------

\* Who is called is the stream that was ready, and not one that has got its descriptor
\* since; and whoever waits is waited for: the poller's tables, its idea of what epoll
\* knows, what epoll knows and the descriptors that are open agree.
ReadinessIsItsOwn ==
    /\ told.stream = told.was
    /\ \A d \in Fds :
          /\ kernel[d] = {k \in Kinds : d \in DOMAIN (IF k = "read" THEN rfds ELSE wfds)}
          /\ d \in known <=> kernel[d] # {}
          /\ d \in DOMAIN rfds => file[d] = rfds[d].of
          /\ d \in DOMAIN wfds => file[d] = wfds[d].of
=============================================================================
