------------------------ MODULE MitogenThreads_proofs ------------------------
(***************************************************************************)
(* Proofs about the threads of a process: the broker (MitogenBroker), its  *)
(* poller (MitogenPoller) and the pool of services (MitogenPool), for any  *)
(* number of threads, streams, descriptors, workers and requests, and any  *)
(* size of the Waker's pipe; about the streams that the broker serves      *)
(* (MitogenStream), for messages of any sizes, any pipe and any chunks;    *)
(* about the terminals it logs in at (MitogenLogin), for any number of     *)
(* tries and any number of steps; and about a context that comes up        *)
(* (MitogenBootstrap), for any number of messages that it logs.            *)
(***************************************************************************)
EXTENDS MitogenBroker, MitogenPoller, MitogenPool, MitogenStream, MitogenLogin, MitogenBootstrap,
    FiniteSetTheorems, SequenceTheorems, WellFoundedInduction, TLAPS

----------------------------------------------------------------------------
\* Some numbers have a least one.
LEMMA LeastOfNat ==
    ASSUME NEW T, T \subseteq Nat, T # {}
    PROVE  \E x \in T : \A y \in T : x <= y
  <1> DEFINE R == {ss \in Nat \X Nat : ss[1] < ss[2]}
  <1>1. IsWellFoundedOn(R, Nat)
    BY NatLessThanWellFounded, Zenon DEF OpToRel
  <1>2. PICK x \in T : \A y \in T : ~(<<y, x>> \in R)
    <2> HIDE DEF R
    <2> QED
      BY <1>1, WFMin, Zenon
  <1>3. \A y \in T : <<y, x>> \in R <=> y < x
    OBVIOUS
  <1>4. \A y \in T : ~(y < x)
    <2> HIDE DEF R
    <2> QED
      BY <1>2, <1>3
  <1> QED
    BY <1>4

----------------------------------------------------------------------------
(* The broker.                                                             *)

\* The broker leaves its loop when it has fallen, and a deque that it is not draining holds
\* nothing then that was put there before.
ShutdownInv ==
    /\ phase \in {"grace", "ended"} => ~alive
    /\ ~alive /\ phase # "drain" => \A i \in DOMAIN deferred : deferred[i] \in late

BrokerInv == BrokerTypeOK /\ NoLostWakeup /\ ShutdownInv

----------------------------------------------------------------------------
LEMMA BrokerStarts == ASSUME PipeSize \in Nat PROVE BrokerInit => BrokerInv
  <1> SUFFICES ASSUME PipeSize \in Nat, BrokerInit PROVE BrokerInv
    OBVIOUS
  <1>1. BrokerTypeOK
    <2>1. at \in [Threads -> Steps]
      BY DEF BrokerInit, Steps
    <2>2. deferred \in Seq(Threads) /\ pipe \in 0..PipeSize
      BY DEF BrokerInit
    <2> QED
      BY <2>1, <2>2 DEF BrokerInit, BrokerTypeOK
  <1>2. NoLostWakeup /\ ShutdownInv
    BY DEF BrokerInit, NoLostWakeup, ShutdownInv
  <1> QED
    BY <1>1, <1>2 DEF BrokerInv

LEMMA BrokerInvImplies == BrokerInv => DeferredIsRun
  BY DEF BrokerInv, ShutdownInv, DeferredIsRun, OnlyLateOnesAreLost

LEMMA TypeInductive ==
    ASSUME PipeSize \in Nat, BrokerTypeOK, [BrokerNext]_brokerVars
    PROVE  BrokerTypeOK'
  <1> USE DEF BrokerTypeOK
  <1>1. CASE UNCHANGED brokerVars
    BY <1>1 DEF brokerVars
  <1>2. ASSUME NEW t \in Threads, ThreadSteps(t)
        PROVE  BrokerTypeOK'
    <2>1. CASE Check(t)
      <3>1. at' \in [Threads -> Steps]
        BY <2>1 DEF Check, Goes, Steps
      <3> QED
        BY <2>1, <3>1 DEF Check
    <2>2. CASE Enqueue(t)
      <3>1. deferred' \in Seq(Threads)
        BY <2>2 DEF Enqueue
      <3>2. at' \in [Threads -> Steps] /\ late' \subseteq Threads
        BY <2>2 DEF Enqueue, Goes, Steps
      <3> QED
        BY <2>2, <3>1, <3>2 DEF Enqueue
    <2>3. CASE Wake(t)
      <3>1. at' \in [Threads -> Steps]
        BY <2>3 DEF Wake, Handed, Goes, Steps
      <3>2. pipe' \in 0..PipeSize
        BY <2>3 DEF Wake
      <3> QED
        BY <2>3, <3>1, <3>2 DEF Wake
    <2>4. CASE Return(t)
      BY <2>4 DEF Return, Goes, Steps
    <2> QED
      BY <1>2, <2>1, <2>2, <2>3, <2>4 DEF ThreadSteps
  <1>3. CASE LoopOnce
    BY <1>3 DEF LoopOnce
  <1>4. CASE Drain
    <2>1. CASE deferred # <<>>
      <3>1. Head(deferred) \in Threads /\ Tail(deferred) \in Seq(Threads)
        BY <2>1
      <3> QED
        BY <1>4, <2>1, <3>1 DEF Drain, Run
    <2>2. CASE deferred = <<>>
      BY <1>4, <2>2 DEF Drain
    <2> QED
      BY <2>1, <2>2
  <1>5. CASE BrokerExit \/ \E stay \in SUBSET ChildStreams : BeginShutdown(stay)
    BY <1>5 DEF BrokerExit, BeginShutdown
  <1>6. CASE \E s \in ChildStreams : HangsUp(s)
    BY <1>6 DEF HangsUp
  <1> QED
    BY <1>1, <1>2, <1>3, <1>4, <1>5, <1>6 DEF BrokerNext, BrokerSteps

\* Between its append and its write a thread is the one that will wake the broker; its write
\* leaves a byte in the pipe, whether it fitted or the pipe was full.
LEMMA WakeupInductive ==
    ASSUME PipeSize \in Nat \ {0}, BrokerTypeOK, NoLostWakeup, [BrokerNext]_brokerVars
    PROVE  NoLostWakeup'
  <1> USE DEF BrokerTypeOK, NoLostWakeup
  <1>1. CASE UNCHANGED brokerVars
    BY <1>1 DEF brokerVars
  <1>2. ASSUME NEW t \in Threads, ThreadSteps(t)
        PROVE  NoLostWakeup'
    <2>1. CASE Check(t) \/ Return(t)
      <3>1. at[t] # "appended" /\ UNCHANGED <<deferred, pipe, phase, reading>>
        BY <2>1 DEF Check, Return
      <3>2. \A u \in Threads : at[u] = "appended" => at'[u] = "appended"
        BY <2>1, <3>1 DEF Check, Return, Goes
      <3> QED
        BY <3>1, <3>2
    <2>2. CASE Enqueue(t)
      <3>1. at'[t] = "appended"
        BY <2>2 DEF Enqueue, Goes
      <3> QED
        BY <3>1
    <2>3. CASE Wake(t)
      <3>1. Waker \in reading => pipe' > 0
        BY <2>3 DEF Wake
      <3> QED
        BY <2>3, <3>1 DEF Wake
    <2> QED
      BY <1>2, <2>1, <2>2, <2>3 DEF ThreadSteps
  <1>3. CASE LoopOnce \/ BrokerExit \/ \E stay \in SUBSET ChildStreams : BeginShutdown(stay)
    BY <1>3 DEF LoopOnce, BrokerExit, BeginShutdown
  <1>4. CASE Drain
    BY <1>4 DEF Drain
  <1>5. CASE \E s \in ChildStreams : HangsUp(s)
    BY <1>5 DEF HangsUp
  <1> QED
    BY <1>1, <1>2, <1>3, <1>4, <1>5 DEF BrokerNext, BrokerSteps

\* A drain goes on until the deque is empty, even when the function it runs ends the broker.
LEMMA ShutdownInductive ==
    ASSUME BrokerTypeOK, ShutdownInv, [BrokerNext]_brokerVars
    PROVE  ShutdownInv'
  <1> USE DEF BrokerTypeOK, ShutdownInv
  <1>1. CASE UNCHANGED brokerVars
    BY <1>1 DEF brokerVars
  <1>2. ASSUME NEW t \in Threads, ThreadSteps(t)
        PROVE  ShutdownInv'
    <2>1. CASE Check(t) \/ Return(t) \/ Wake(t)
      BY <2>1 DEF Check, Return, Wake
    <2>2. CASE Enqueue(t)
      <3>1. \A i \in DOMAIN deferred' : deferred'[i] = t \/ (i \in DOMAIN deferred /\ deferred'[i] = deferred[i])
        BY <2>2 DEF Enqueue
      <3>2. late' = (IF alive THEN late ELSE late \cup {t}) /\ UNCHANGED <<phase, alive>>
        BY <2>2 DEF Enqueue
      <3> QED
        BY <3>1, <3>2
    <2> QED
      BY <1>2, <2>1, <2>2 DEF ThreadSteps
  <1>3. CASE LoopOnce
    BY <1>3 DEF LoopOnce
  <1>4. CASE Drain
    BY <1>4 DEF Drain, Run
  <1>5. CASE BrokerExit \/ \E stay \in SUBSET ChildStreams : BeginShutdown(stay)
    BY <1>5 DEF BrokerExit, BeginShutdown
  <1>6. CASE \E s \in ChildStreams : HangsUp(s)
    BY <1>6 DEF HangsUp
  <1> QED
    BY <1>1, <1>2, <1>3, <1>4, <1>5, <1>6 DEF BrokerNext, BrokerSteps

\* A function that was deferred before the broker's end began is run: the broker never sleeps
\* on it, and the shutdown does not leave it in the deque.
THEOREM EveryDeferredRuns ==
    ASSUME PipeSize \in Nat \ {0}
    PROVE  BrokerSpec => []DeferredIsRun
  <1>1. BrokerInit => BrokerInv
    BY BrokerStarts
  <1>2. BrokerInv /\ [BrokerNext]_brokerVars => BrokerInv'
    BY TypeInductive, WakeupInductive, ShutdownInductive DEF BrokerInv
  <1>3. BrokerInv => DeferredIsRun
    BY BrokerInvImplies
  <1> QED
    BY <1>1, <1>2, <1>3, PTL DEF BrokerSpec

----------------------------------------------------------------------------
(* The poller.                                                             *)

\* A table of the poller: who is registered on a descriptor, and since when.
Entry == [of : Streams, old : BOOLEAN]
IsTable(t) == DOMAIN t \subseteq Fds /\ \A d \in DOMAIN t : t[d] \in Entry
\* The tables name the streams that have the descriptors.
OfOwner(t) == \A d \in DOMAIN t : file[d] = t[d].of

TablesInv ==
    /\ file \in [Fds -> Streams \cup {NoStream}]
    /\ IsTable(rfds) /\ IsTable(wfds) /\ OfOwner(rfds) /\ OfOwner(wfds)

\* What epoll waits for on d, by the poller's tables.
Waits(d) == {k \in Kinds : d \in DOMAIN (IF k = "read" THEN rfds ELSE wfds)}
KernelInv ==
    /\ kernel \in [Fds -> SUBSET Kinds] /\ known \subseteq Fds
    /\ \A d \in Fds : kernel[d] = Waits(d) /\ (d \in known <=> kernel[d] # {})

\* An event that is still to be yielded finds a stream that registered since, which is
\* passed over, or the one that was ready.
EventsInv ==
    /\ events \subseteq [fd : Fds, on : Kinds, was : Streams]
    /\ \A e \in events :
          e.fd \in DOMAIN Registered(e) /\ Registered(e)[e.fd].old => Registered(e)[e.fd].of = e.was
    /\ told.stream = told.was

PollerInv == TablesInv /\ KernelInv /\ EventsInv

----------------------------------------------------------------------------
(* The helpers.                                                            *)

\* The lowest of some descriptors is one of them.
LEMMA MinOfNat ==
    ASSUME NEW T, T \subseteq Nat, T # {}
    PROVE  Min(T) \in T
  BY LeastOfNat DEF Min

LEMMA FdOfOpen ==
    ASSUME NEW s, IsOpen(s)
    PROVE  Fd(s) \in Fds /\ file[Fd(s)] = s
  BY DEF IsOpen, Fd

\* Who is registered anew is not old.
LEMMA PutTable ==
    ASSUME NEW t, IsTable(t), NEW d \in Fds, NEW s \in Streams
    PROVE  /\ IsTable(Put(t, d, s))
           /\ DOMAIN Put(t, d, s) = DOMAIN t \cup {d}
           /\ Put(t, d, s)[d] = [of |-> s, old |-> FALSE]
           /\ \A e \in DOMAIN t \ {d} : Put(t, d, s)[e] = t[e]
  BY DEF Put, IsTable, Entry

LEMMA WithoutTable ==
    ASSUME NEW t, IsTable(t), NEW d \in Fds
    PROVE  /\ IsTable(Without(t, d))
           /\ DOMAIN Without(t, d) = DOMAIN t \ {d}
           /\ \A e \in DOMAIN t \ {d} : Without(t, d)[e] = t[e]
  BY DEF Without, Restrict, IsTable

LEMMA AgedTable ==
    ASSUME NEW t, IsTable(t)
    PROVE  /\ IsTable(Aged(t))
           /\ DOMAIN Aged(t) = DOMAIN t
           /\ \A d \in DOMAIN t : Aged(t)[d].of = t[d].of
  BY DEF Aged, IsTable, Entry

\* What follows of a table that has changed at d only: the kernel is told of d.
LEMMA ControlKeeps ==
    ASSUME KernelInv, NEW d \in Fds, Control(d),
           DOMAIN rfds' \ {d} = DOMAIN rfds \ {d}, DOMAIN wfds' \ {d} = DOMAIN wfds \ {d}
    PROVE  KernelInv'
  <1>1. Mask(d) = Waits(d)' /\ Mask(d) \subseteq Kinds
    BY DEF Mask, Waits
  <1>2. kernel' = [kernel EXCEPT ![d] = Waits(d)']
    BY <1>1 DEF Control
  <1>3. known' = IF Waits(d)' # {} THEN known \cup {d} ELSE known \ {d}
    BY <1>1 DEF Control
  <1>4. \A e \in Fds \ {d} : Waits(e)' = Waits(e)
    BY DEF Waits
  <1>5. kernel' \in [Fds -> SUBSET Kinds] /\ known' \subseteq Fds
    BY <1>1, <1>2, <1>3 DEF KernelInv
  <1>6. ASSUME NEW e \in Fds
        PROVE  kernel'[e] = Waits(e)' /\ (e \in known' <=> kernel'[e] # {})
    <2>1. CASE e = d
      BY <2>1, <1>2, <1>3 DEF KernelInv
    <2>2. CASE e # d
      BY <2>2, <1>2, <1>3, <1>4 DEF KernelInv
    <2> QED
      BY <2>1, <2>2
  <1> QED
    BY <1>5, <1>6 DEF KernelInv

----------------------------------------------------------------------------
LEMMA PollerStarts == PollerInit => PollerInv
  <1> SUFFICES ASSUME PollerInit PROVE PollerInv
    OBVIOUS
  <1>1. DOMAIN rfds = {} /\ DOMAIN wfds = {}
    BY DEF PollerInit
  <1>2. TablesInv
    BY <1>1 DEF PollerInit, TablesInv, IsTable, OfOwner
  <1>3. KernelInv
    BY <1>1 DEF PollerInit, KernelInv, Waits
  <1>4. EventsInv
    BY DEF PollerInit, EventsInv, Nobody
  <1> QED
    BY <1>2, <1>3, <1>4 DEF PollerInv

LEMMA StartKeeps ==
    ASSUME Fds \subseteq Nat, NoStream \notin Streams, PollerInv, NEW s \in Streams, StartReceive(s)
    PROVE  PollerInv'
  <1> DEFINE d == Min({e \in Fds : file[e] = NoStream})
  <1>1. d \in Fds /\ file[d] = NoStream
    <2>1. {e \in Fds : file[e] = NoStream} # {} /\ {e \in Fds : file[e] = NoStream} \subseteq Nat
      BY DEF StartReceive
    <2> HIDE DEF d
    <2> QED
      BY <2>1, MinOfNat DEF d
  <1>2. /\ file' = [file EXCEPT ![d] = s] /\ rfds' = Put(rfds, d, s) /\ wfds' = wfds
        /\ Control(d) /\ events' = events /\ told' = told
    BY DEF StartReceive
  <1> HIDE DEF d
  <1>3. d \notin DOMAIN rfds /\ d \notin DOMAIN wfds
    BY <1>1 DEF PollerInv, TablesInv, IsTable, OfOwner, Entry
  <1>4. /\ IsTable(rfds') /\ DOMAIN rfds' = DOMAIN rfds \cup {d}
        /\ rfds'[d] = [of |-> s, old |-> FALSE]
        /\ \A e \in DOMAIN rfds \ {d} : rfds'[e] = rfds[e]
    <2>1. IsTable(rfds)
      BY DEF PollerInv, TablesInv
    <2>2. /\ IsTable(Put(rfds, d, s)) /\ DOMAIN Put(rfds, d, s) = DOMAIN rfds \cup {d}
          /\ Put(rfds, d, s)[d] = [of |-> s, old |-> FALSE]
          /\ \A e \in DOMAIN rfds \ {d} : Put(rfds, d, s)[e] = rfds[e]
      BY <1>1, <2>1, PutTable
    <2> QED
      BY <1>2, <2>2
  <1>5. TablesInv'
    BY <1>1, <1>2, <1>3, <1>4 DEF PollerInv, TablesInv, IsTable, OfOwner
  <1>6. KernelInv'
    BY <1>1, <1>2, <1>4, ControlKeeps DEF PollerInv
  <1>7. EventsInv'
    BY <1>2, <1>3, <1>4 DEF PollerInv, EventsInv, Registered
  <1> QED
    BY <1>5, <1>6, <1>7 DEF PollerInv

LEMMA TransmitKeeps ==
    ASSUME PollerInv, NEW s \in Streams, StartTransmit(s) \/ StopTransmit(s)
    PROVE  PollerInv'
  <1> DEFINE d == Fd(s)
  <1>1. d \in Fds /\ file[d] = s
    BY FdOfOpen DEF StartTransmit, StopTransmit
  <1>2. file' = file /\ rfds' = rfds /\ Control(d) /\ events' = events /\ told' = told
    BY DEF StartTransmit, StopTransmit
  <1>3. \/ wfds' = Put(wfds, d, s)
        \/ wfds' = Without(wfds, d)
    BY DEF StartTransmit, StopTransmit
  <1> HIDE DEF d
  <1>4. /\ IsTable(wfds') /\ DOMAIN wfds' \ {d} = DOMAIN wfds \ {d}
        /\ d \in DOMAIN wfds' => wfds'[d] = [of |-> s, old |-> FALSE]
        /\ \A e \in DOMAIN wfds' \ {d} : wfds'[e] = wfds[e]
    <2>1. IsTable(wfds)
      BY DEF PollerInv, TablesInv
    <2>2. CASE wfds' = Put(wfds, d, s)
      <3>1. /\ IsTable(Put(wfds, d, s)) /\ DOMAIN Put(wfds, d, s) = DOMAIN wfds \cup {d}
            /\ Put(wfds, d, s)[d] = [of |-> s, old |-> FALSE]
            /\ \A e \in DOMAIN wfds \ {d} : Put(wfds, d, s)[e] = wfds[e]
        BY <1>1, <2>1, PutTable
      <3> QED
        BY <2>2, <3>1
    <2>3. CASE wfds' = Without(wfds, d)
      BY <1>1, <2>1, <2>3, WithoutTable
    <2> QED
      BY <1>3, <2>2, <2>3
  <1>5. TablesInv'
    BY <1>1, <1>2, <1>4 DEF PollerInv, TablesInv, OfOwner
  <1>6. KernelInv'
    BY <1>1, <1>2, <1>4, ControlKeeps DEF PollerInv
  <1>7. EventsInv'
    BY <1>2, <1>4 DEF PollerInv, EventsInv, Registered
  <1> QED
    BY <1>5, <1>6, <1>7 DEF PollerInv

LEMMA DisconnectKeeps ==
    ASSUME PollerInv, NEW s \in Streams, Disconnect(s)
    PROVE  PollerInv'
  <1> DEFINE d == Fd(s)
  <1>1. d \in Fds
    BY FdOfOpen DEF Disconnect
  <1>2. /\ file' = [file EXCEPT ![d] = NoStream]
        /\ rfds' = Without(rfds, d) /\ wfds' = Without(wfds, d)
        /\ Control(d) /\ events' = events /\ told' = told
    BY DEF Disconnect
  <1> HIDE DEF d
  <1>3. /\ IsTable(rfds') /\ DOMAIN rfds' = DOMAIN rfds \ {d}
        /\ \A e \in DOMAIN rfds' : rfds'[e] = rfds[e]
    BY <1>1, <1>2, WithoutTable DEF PollerInv, TablesInv
  <1>4. /\ IsTable(wfds') /\ DOMAIN wfds' = DOMAIN wfds \ {d}
        /\ \A e \in DOMAIN wfds' : wfds'[e] = wfds[e]
    BY <1>1, <1>2, WithoutTable DEF PollerInv, TablesInv
  <1>5. TablesInv'
    BY <1>1, <1>2, <1>3, <1>4 DEF PollerInv, TablesInv, IsTable, OfOwner
  <1>6. KernelInv'
    BY <1>1, <1>2, <1>3, <1>4, ControlKeeps DEF PollerInv
  <1>7. EventsInv'
    BY <1>2, <1>3, <1>4 DEF PollerInv, EventsInv, Registered
  <1> QED
    BY <1>5, <1>6, <1>7 DEF PollerInv

\* What is ready is ready for the stream that is registered.
LEMMA PollKeeps ==
    ASSUME PollerInv, Poll
    PROVE  PollerInv'
  <1>1. /\ rfds' = Aged(rfds) /\ wfds' = Aged(wfds) /\ events' \subseteq Ready
        /\ told' = Nobody /\ file' = file /\ known' = known /\ kernel' = kernel
    BY DEF Poll
  <1>2. /\ IsTable(rfds') /\ DOMAIN rfds' = DOMAIN rfds
        /\ \A d \in DOMAIN rfds : rfds'[d].of = rfds[d].of
    BY <1>1, AgedTable DEF PollerInv, TablesInv
  <1>3. /\ IsTable(wfds') /\ DOMAIN wfds' = DOMAIN wfds
        /\ \A d \in DOMAIN wfds : wfds'[d].of = wfds[d].of
    BY <1>1, AgedTable DEF PollerInv, TablesInv
  <1>4. TablesInv'
    BY <1>1, <1>2, <1>3 DEF PollerInv, TablesInv, OfOwner
  <1>5. KernelInv'
    BY <1>1, <1>2, <1>3 DEF PollerInv, KernelInv, Waits
  <1>6. \A e \in Ready : e \in [fd : Fds, on : Kinds, was : Streams] /\ file[e.fd] = e.was
    BY DEF Ready
  <1>7. EventsInv'
    BY <1>1, <1>2, <1>3, <1>6 DEF PollerInv, TablesInv, OfOwner, EventsInv, Registered, Nobody
  <1> QED
    BY <1>4, <1>5, <1>7 DEF PollerInv

LEMMA YieldKeeps ==
    ASSUME PollerInv, NEW e \in events, Yield(e)
    PROVE  PollerInv'
  <1>1. UNCHANGED <<file, rfds, wfds, known, kernel>> /\ events' \subseteq events
    BY DEF Yield
  <1>2. told'.stream = told'.was
    BY DEF Yield, Yields, PollerInv, EventsInv, Nobody
  <1>3. TablesInv' /\ KernelInv'
    BY <1>1 DEF PollerInv, TablesInv, KernelInv, OfOwner, Waits
  <1>4. EventsInv'
    BY <1>1, <1>2 DEF PollerInv, EventsInv, Registered
  <1> QED
    BY <1>3, <1>4 DEF PollerInv

\* The callback of one event may disconnect the stream of another and start one on its
\* descriptor: the event is not taken for the new stream's, whatever the order, and no
\* stream waits that the kernel does not wait for.
THEOREM ReadinessOwned ==
    ASSUME Fds \subseteq Nat, NoStream \notin Streams
    PROVE  PollerSpec => []ReadinessIsItsOwn
  <1>1. PollerInit => PollerInv
    BY PollerStarts
  <1>2. PollerInv /\ [PollerNext]_pollerVars => PollerInv'
    <2>1. ASSUME PollerInv, UNCHANGED pollerVars
          PROVE  PollerInv'
      BY <2>1 DEF pollerVars, PollerInv, TablesInv, KernelInv, EventsInv, OfOwner, Waits, Registered
    <2>2. ASSUME PollerInv, PollerNext
          PROVE  PollerInv'
      BY <2>2, StartKeeps, TransmitKeeps, DisconnectKeeps, PollKeeps, YieldKeeps DEF PollerNext
    <2> QED
      BY <2>1, <2>2
  <1>3. PollerInv => ReadinessIsItsOwn
    BY DEF PollerInv, TablesInv, KernelInv, EventsInv, OfOwner, Waits, ReadinessIsItsOwn
  <1> QED
    BY <1>1, <1>2, <1>3, PTL DEF PollerSpec

----------------------------------------------------------------------------
(* The pool of services.                                                   *)

Messages == Requests \cup {Nothing}
Places == {"unborn", "get", "take", "lookup", "acquire", "activate", "publish", "invoke", "pop",
           "run"}
Doing == [at : Places, recv : Receivers \cup {Nothing}, msg : Messages,
          inv : Invokers \cup {Nothing}]

Delivering == [at : {"idle", "put", "notify", "joined"}, recv : Receivers \cup {Nothing},
               msg : Messages]

\* The delivery hands what the workers take to receivers that there are.
DeliveryInv ==
    /\ handler \in Receivers
    /\ broker.at \in {"put", "notify"} => broker.recv \in Receivers
    /\ broker \in Delivering
    /\ box \in [Receivers -> Seq(Messages)] /\ entries \in Seq(Receivers)

\* Workers begin when the pool is made, and have an invoker from get_invoker() on.
WorkerInv ==
    /\ doing \in [Workers -> Doing] /\ published \in Invokers \cup {Nothing}
    /\ main # "made" => \A w \in Workers : doing[w] = NoWorker
    /\ \A w \in Workers : doing[w].at = "take" => doing[w].recv \in Receivers
    /\ \A w \in Workers : doing[w].at \in {"invoke", "pop", "run"} => doing[w].inv \in Invokers

\* An invoker is running exactly when one worker runs it, and has calls only then.
InvokerInv ==
    /\ queue \in [Invokers -> Seq(Messages)] /\ running \in [Invokers -> BOOLEAN]
    /\ \A i \in Invokers :
          /\ running[i] <=> RunBy(i) # {}
          /\ queue[i] # <<>> => running[i]
          /\ \A v, w \in RunBy(i) : v = w

PoolInv == DeliveryInv /\ WorkerInv /\ InvokerInv

----------------------------------------------------------------------------
LEMMA PoolStarts == PoolInit => PoolInv
  <1> SUFFICES ASSUME PoolInit PROVE PoolInv
    OBVIOUS
  <1> USE DEF PoolInit, Receivers, Invokers
  <1>1. DeliveryInv
    BY DEF DeliveryInv, Delivering, Idle, Messages
  <1>2. WorkerInv
    BY DEF WorkerInv, Doing, NoWorker, Places, Messages
  <1>3. \A i \in Invokers : RunBy(i) = {}
    BY DEF RunBy, NoWorker
  <1>4. InvokerInv
    BY <1>3 DEF InvokerInv
  <1> QED
    BY <1>1, <1>2, <1>4 DEF PoolInv

\* One worker at most is a set of one element at most.
LEMMA PoolInvImplies == PoolInv => OneAtATime
  <1> SUFFICES ASSUME PoolInv, NEW i \in Invokers
               PROVE  /\ Cardinality(RunBy(i)) <= 1
                      /\ queue[i] # <<>> => Cardinality(RunBy(i)) = 1
    BY DEF OneAtATime
  <1>1. CASE RunBy(i) = {}
    BY <1>1, FS_EmptySet DEF PoolInv, InvokerInv
  <1>2. CASE RunBy(i) # {}
    <2>1. PICK w : w \in RunBy(i)
      BY <1>2
    <2>2. \A v \in RunBy(i) : v = w
      BY <2>1 DEF PoolInv, InvokerInv
    <2>3. RunBy(i) = {w}
      BY <2>1, <2>2
    <2>4. Cardinality({w}) = 1
      BY FS_Singleton
    <2> QED
      BY <2>3, <2>4
  <1> QED
    BY <1>1, <1>2

----------------------------------------------------------------------------
(* Steps.                                                                  *)

\* Who is in an invoker depends on the workers alone.
LEMMA InvokersKeep ==
    ASSUME InvokerInv, UNCHANGED <<queue, running>>, \A i \in Invokers : RunBy(i)' = RunBy(i)
    PROVE  InvokerInv'
  BY DEF InvokerInv

\* What does not touch the workers and their invokers.
LEMMA WorkersKeep ==
    ASSUME PoolInv, UNCHANGED <<doing, published, queue, running>>, main = "made" => main' = "made"
    PROVE  WorkerInv' /\ InvokerInv'
  <1>1. WorkerInv'
    BY DEF PoolInv, WorkerInv
  <1>2. \A i \in Invokers : RunBy(i)' = RunBy(i)
    BY DEF RunBy
  <1> QED
    BY <1>1, <1>2, InvokersKeep DEF PoolInv

\* The broker's and the main thread's steps.
LEMMA DeliverySteps ==
    ASSUME PoolInv,
           \/ \E m \in Requests : Arrive(m)
           \/ PutMessage \/ Notify \/ (MainStep /\ ~StartWorkers) \/ Stop
    PROVE  PoolInv'
  <1> USE DEF invokerVars
  <1>1. UNCHANGED <<doing, published, queue, running>> /\ (main = "made" => main' = "made")
    <2>1. CASE MainStep /\ ~StartWorkers
      BY <2>1 DEF MainStep, TakeStub, TakeHandle, AddOwn, StealStub, AddStub, PutEntry, MainGoes
    <2> QED
      BY <2>1 DEF Arrive, PutMessage, Notify, Stop
  <1>2. DeliveryInv'
    <2> USE DEF PoolInv, DeliveryInv
    <2>1. CASE \E m \in Requests : Arrive(m)
      BY <2>1 DEF Arrive, Delivering, Messages
    <2>2. CASE PutMessage
      <3>1. /\ broker.recv \in Receivers /\ broker.msg \in Messages
            /\ box[broker.recv] \in Seq(Messages)
        BY <2>2 DEF PutMessage, Delivering
      <3>2. Append(box[broker.recv], broker.msg) \in Seq(Messages)
        BY <3>1
      <3>3. box' \in [Receivers -> Seq(Messages)]
        BY <2>2, <3>2 DEF PutMessage
      <3>4. /\ broker' \in Delivering
            /\ broker'.recv \in Receivers /\ UNCHANGED <<handler, entries>>
        BY <2>2, <3>1 DEF PutMessage, Delivering
      <3> QED
        BY <3>3, <3>4
    <2>3. CASE Notify
      <3>1. /\ broker' = [at |-> "idle", recv |-> Nothing, msg |-> Nothing]
            /\ UNCHANGED <<handler, box>>
        BY <2>3 DEF Notify, Idle
      <3>2. broker.recv \in Receivers
        BY <2>3 DEF Notify
      <3>3. entries' \in Seq(Receivers)
        BY <2>3, <3>2 DEF Notify
      <3> QED
        BY <3>1, <3>3 DEF Delivering, Messages
    <2>4. CASE MainStep /\ ~StartWorkers
      <3>1. UNCHANGED <<box, broker>> /\ handler' \in {handler, "own"}
        BY <2>4 DEF MainStep, TakeStub, TakeHandle, AddOwn, StealStub, AddStub, PutEntry, MainGoes
      <3>2. \/ entries' = entries
            \/ entries' = Append(entries, "own") \/ entries' = Append(entries, "stub")
        BY <2>4 DEF MainStep, TakeStub, TakeHandle, AddOwn, StealStub, AddStub, PutEntry, MainGoes
      <3>3. Append(entries, "own") \in Seq(Receivers) /\ Append(entries, "stub") \in Seq(Receivers)
        BY DEF Receivers
      <3>4. entries' \in Seq(Receivers)
        BY <3>2, <3>3
      <3>5. handler' \in Receivers
        BY <3>1 DEF Receivers
      <3> QED
        BY <3>1, <3>4, <3>5
    <2>5. CASE Stop
      BY <2>5 DEF Stop, Idle, Delivering, Messages
    <2> QED
      BY <2>1, <2>2, <2>3, <2>4, <2>5
  <1> QED
    BY <1>1, <1>2, WorkersKeep DEF PoolInv

LEMMA StartStep == ASSUME PoolInv, StartWorkers PROVE PoolInv'
  <1> USE DEF PoolInv, invokerVars
  <1>1. \A w \in Workers : doing[w] = NoWorker
    BY DEF StartWorkers, MainGoes, WorkerInv
  <1>2. doing' = [w \in Workers |-> Waiting]
    BY DEF StartWorkers
  <1>3. WorkerInv'
    BY <1>2 DEF StartWorkers, MainGoes, WorkerInv, Doing, Places, Waiting, NoWorker, Messages
  <1>4. \A i \in Invokers : RunBy(i)' = RunBy(i)
    BY <1>1, <1>2 DEF RunBy, Waiting, NoWorker
  <1>5. UNCHANGED <<handler, broker, box, entries, queue, running>>
    BY DEF StartWorkers
  <1>6. DeliveryInv'
    BY <1>5 DEF DeliveryInv
  <1> QED
    BY <1>3, <1>4, <1>5, <1>6, InvokersKeep

\* A worker that is in no invoker before its step and in none after.
Outside(w) == doing[w].at \notin {"pop", "run"}

\* A worker takes an entry, or has published the invoker that it returns.
Taking(x, r) == [x EXCEPT !.at = "take", !.recv = r]
Publishing(x) == [x EXCEPT !.at = "invoke", !.inv = "returned"]
LEMMA TakingType ==
    ASSUME NEW x \in Doing, NEW r \in Receivers
    PROVE  Taking(x, r) \in Doing /\ Taking(x, r).at = "take" /\ Taking(x, r).recv = r
  BY DEF Doing, Places, Taking
LEMMA PublishingType ==
    ASSUME NEW x \in Doing
    PROVE  Publishing(x) \in Doing /\ Publishing(x).at = "invoke" /\ Publishing(x).inv = "returned"
  BY DEF Doing, Places, Publishing, Invokers

LEMMA OutsideSteps ==
    ASSUME PoolInv, NEW w \in Workers,
           \/ TakeEntry(w) \/ TakeMessage(w) \/ LookUp(w) \/ Acquire(w) \/ Activate(w)
           \/ ActivateFails(w) \/ Publish(w) \/ Leaves(w)
    PROVE  PoolInv'
  <1> USE DEF PoolInv, invokerVars, deliveryVars
  <1>1. /\ doing' \in [Workers -> Doing] /\ \A v \in Workers \ {w} : doing'[v] = doing[v]
        /\ Outside(w) /\ Outside(w)' /\ published' \in Invokers \cup {Nothing}
        /\ doing'[w].at = "take" => doing'[w].recv \in Receivers
        /\ doing'[w].at = "invoke" => doing'[w].inv \in Invokers
    <2> USE DEF WorkerInv, Outside, At, Goto
    <2>1. CASE TakeEntry(w)
      <3>1. Head(entries) \in Receivers
        BY <2>1 DEF TakeEntry, DeliveryInv
      <3> QED
        <4>1. /\ doing' = [doing EXCEPT ![w].at = "take", ![w].recv = Head(entries)]
              /\ published' = published /\ doing[w].at = "get"
          BY <2>1 DEF TakeEntry
        <4>2. doing'[w] = Taking(doing[w], Head(entries)) /\ doing[w] \in Doing
          BY <4>1 DEF Taking
        <4>3. doing'[w] \in Doing /\ doing'[w].at = "take" /\ doing'[w].recv = Head(entries)
          BY <3>1, <4>2, TakingType
        <4> QED
          BY <3>1, <4>1, <4>3
    <2>2. CASE TakeMessage(w)
      <3>1. box[doing[w].recv] # <<>> => Head(box[doing[w].recv]) \in Messages
        BY <2>2 DEF TakeMessage, DeliveryInv
      <3> QED
        BY <2>2, <3>1 DEF TakeMessage, Doing, Places, Waiting, NoWorker, Messages
    <2>3. CASE LookUp(w)
      BY <2>3 DEF LookUp, Found, Doing, Places
    <2>4. CASE Acquire(w)
      BY <2>4 DEF Acquire, Found, Doing, Places
    <2>5. CASE Activate(w)
      BY <2>5 DEF Activate, Doing, Places, Invokers
    <2>6. CASE Publish(w)
      <3>1. /\ doing' = [doing EXCEPT ![w].at = "invoke", ![w].inv = "returned"]
            /\ published' = "returned" /\ doing[w].at = "publish"
        BY <2>6 DEF Publish
      <3>2. doing'[w] = Publishing(doing[w]) /\ doing[w] \in Doing
        BY <3>1 DEF Publishing
      <3>3. doing'[w] \in Doing /\ doing'[w].at = "invoke" /\ doing'[w].inv = "returned"
        BY <3>2, PublishingType
      <3> QED
        BY <3>1, <3>3 DEF Invokers
    <2>7. CASE Leaves(w)
      <3>1. doing' = [doing EXCEPT ![w] = NoWorker] /\ published' = published /\ doing[w].at = "get"
        BY <2>7 DEF Leaves
      <3>2. NoWorker \in Doing /\ NoWorker.at \notin {"pop", "run", "take", "invoke"}
        BY DEF Doing, Places, NoWorker, Messages
      <3>3. doing'[w] = NoWorker
        BY <3>1
      <3> QED
        BY <3>1, <3>2, <3>3
    <2>8. CASE ActivateFails(w)
      BY <2>8 DEF ActivateFails, Doing, Places, Waiting, NoWorker, Messages
    <2> QED
      BY <2>1, <2>2, <2>3, <2>4, <2>5, <2>6, <2>7, <2>8
  <1>2. UNCHANGED <<handler, broker, main, queue, running>>
    BY DEF TakeEntry, TakeMessage, LookUp, Acquire, Activate, ActivateFails, Publish, Leaves
  <1>3. box' \in [Receivers -> Seq(Messages)] /\ entries' \in Seq(Receivers)
    <2> USE DEF DeliveryInv
    <2>1. CASE TakeEntry(w)
      BY <2>1 DEF TakeEntry
    <2>2. CASE TakeMessage(w)
      <3>1. doing[w].recv \in Receivers
        BY <2>2 DEF TakeMessage, At, WorkerInv
      <3>2. box[doing[w].recv] # <<>> => Tail(box[doing[w].recv]) \in Seq(Messages)
        BY <3>1
      <3> QED
        BY <2>2, <3>1, <3>2 DEF TakeMessage
    <2> QED
      BY <2>1, <2>2 DEF LookUp, Acquire, Activate, ActivateFails, Publish, Leaves
  <1>4. main = "made"
    BY DEF TakeEntry, TakeMessage, LookUp, Acquire, Activate, ActivateFails, Publish, Leaves,
           WorkerInv, At, NoWorker
  <1>5. DeliveryInv' /\ WorkerInv'
    BY <1>1, <1>2, <1>3, <1>4 DEF DeliveryInv, WorkerInv, Outside
  <1>6. \A i \in Invokers : RunBy(i)' = RunBy(i)
    BY <1>1 DEF RunBy, Outside
  <1> QED
    BY <1>2, <1>5, <1>6, InvokersKeep

LEMMA InvokerSteps ==
    ASSUME PoolInv, NEW w \in Workers, Invoke(w) \/ Pop(w) \/ Serve(w)
    PROVE  PoolInv'
  <1> USE DEF PoolInv, deliveryVars
  <1>0. PICK i \in Invokers : i = doing[w].inv
    BY DEF Invoke, Pop, Serve, WorkerInv, At
  <1>1. i = doing[w].inv /\ doing[w] \in Doing /\ main = "made"
    BY <1>0 DEF Invoke, Pop, Serve, WorkerInv, At, NoWorker
  <1>2. UNCHANGED <<handler, broker, box, entries, main, published>>
    BY DEF Invoke, Pop, Serve
  <1>3. DeliveryInv'
    BY <1>2 DEF DeliveryInv
  <1>4. CASE Invoke(w)
    <2>1. /\ queue' = [queue EXCEPT ![i] = Append(@, doing[w].msg)]
          /\ running' = [running EXCEPT ![i] = TRUE] /\ ~(doing[w].at \in {"pop", "run"})
      BY <1>1, <1>4 DEF Invoke, At
    <2>2. /\ queue' \in [Invokers -> Seq(Messages)]
          /\ running' \in [Invokers -> BOOLEAN] /\ running'[i]
      BY <1>1, <2>1 DEF InvokerInv, Doing
    <2>3. doing'[w] = (IF running[i] THEN Waiting ELSE [Waiting EXCEPT !.at = "pop", !.inv = i])
      BY <1>1, <1>4 DEF Invoke, WorkerInv
    <2>4. doing' \in [Workers -> Doing] /\ \A v \in Workers \ {w} : doing'[v] = doing[v]
      BY <1>1, <1>4, <2>3 DEF Invoke, WorkerInv, Doing, Places, Waiting, NoWorker, Messages
    <2>5. IF running[i] THEN doing'[w].at = "get" ELSE doing'[w].at = "pop" /\ doing'[w].inv = i
      BY <2>3 DEF Waiting, NoWorker
    <2>6. WorkerInv'
      BY <1>1, <1>2, <2>4, <2>5 DEF WorkerInv
    <2>7. \A j \in Invokers \ {i} : RunBy(j)' = RunBy(j)
      BY <1>1, <2>1, <2>4, <2>5 DEF RunBy
    <2>8. \A j \in Invokers \ {i} : queue'[j] = queue[j] /\ running'[j] = running[j]
      BY <1>1, <2>1 DEF InvokerInv
    <2>9. RunBy(i)' # {} /\ \A v, x \in RunBy(i)' : v = x
      <3>1. CASE running[i]
        <4>1. RunBy(i)' = RunBy(i)
          BY <1>1, <2>1, <2>4, <2>5, <3>1 DEF RunBy
        <4> QED
          BY <3>1, <4>1 DEF InvokerInv
      <3>2. CASE ~running[i]
        <4>1. RunBy(i) = {}
          BY <3>2 DEF InvokerInv
        <4>2. RunBy(i)' = {w}
          BY <1>1, <2>4, <2>5, <3>2, <4>1 DEF RunBy
        <4> QED
          BY <4>2
      <3> QED
        BY <3>1, <3>2
    <2>10. InvokerInv'
      BY <1>1, <2>2, <2>7, <2>8, <2>9 DEF InvokerInv
    <2> QED
      BY <1>3, <2>6, <2>10
  <1>5. CASE Pop(w) /\ queue[i] = <<>>
    <2>1. /\ UNCHANGED queue /\ running' = [running EXCEPT ![i] = FALSE]
          /\ doing' = [doing EXCEPT ![w] = Waiting] /\ doing[w].at = "pop"
      BY <1>1, <1>5 DEF Pop, At
    <2>2. doing' \in [Workers -> Doing] /\ \A v \in Workers \ {w} : doing'[v] = doing[v]
      BY <2>1 DEF WorkerInv, Doing, Places, Waiting, NoWorker, Messages
    <2>3. doing'[w].at = "get"
      BY <2>1 DEF WorkerInv, Waiting, NoWorker
    <2>4. w \in RunBy(i)
      BY <1>1, <2>1 DEF RunBy
    <2>5. WorkerInv'
      BY <1>1, <1>2, <2>2, <2>3 DEF WorkerInv
    <2>6. \A j \in Invokers : RunBy(j)' = RunBy(j) \ {w}
      BY <2>2, <2>3 DEF RunBy
    <2>7. RunBy(i)' = {}
      BY <1>1, <2>4, <2>6 DEF InvokerInv
    <2>8. \A j \in Invokers \ {i} : w \notin RunBy(j)
      BY <1>1 DEF RunBy
    <2>9. \A j \in Invokers \ {i} : RunBy(j)' = RunBy(j)
      BY <2>6, <2>8
    <2>10. \A j \in Invokers \ {i} : running'[j] = running[j] /\ queue'[j] = queue[j]
      BY <2>1 DEF InvokerInv
    <2>11. running' \in [Invokers -> BOOLEAN] /\ ~running'[i]
      BY <1>1, <2>1 DEF InvokerInv
    <2>12. InvokerInv'
      <3>1. queue' \in [Invokers -> Seq(Messages)]
        BY <2>1 DEF InvokerInv
      <3>2. ASSUME NEW j \in Invokers
            PROVE  /\ running'[j] <=> RunBy(j)' # {}
                   /\ queue'[j] # <<>> => running'[j]
                   /\ \A v, x \in RunBy(j)' : v = x
        <4>1. CASE j = i
          BY <1>5, <2>1, <2>7, <2>11, <4>1
        <4>2. CASE j # i
          BY <2>9, <2>10, <4>2 DEF InvokerInv
        <4> QED
          BY <4>1, <4>2
      <3> QED
        BY <2>11, <3>1, <3>2 DEF InvokerInv
    <2> QED
      BY <1>3, <2>5, <2>12
  <1>6. CASE (Pop(w) /\ queue[i] # <<>>) \/ Serve(w)
    <2>1. /\ doing'[w].at \in {"pop", "run"} /\ doing[w].at \in {"pop", "run"} /\ doing'[w].inv = i
          /\ doing' \in [Workers -> Doing] /\ \A v \in Workers \ {w} : doing'[v] = doing[v]
      <3>1. CASE Pop(w) /\ queue[i] # <<>>
        <4>1. Head(queue[i]) \in Messages
          BY <1>1, <3>1 DEF InvokerInv
        <4> QED
          BY <1>1, <3>1, <4>1 DEF Pop, At, WorkerInv, Doing, Places
      <3>2. CASE Serve(w)
        BY <1>1, <3>2 DEF Serve, At, Goto, WorkerInv, Doing, Places
      <3> QED
        BY <1>6, <3>1, <3>2
    <2>2. WorkerInv'
      BY <1>1, <1>2, <2>1 DEF WorkerInv
    <2>3. \A j \in Invokers : RunBy(j)' = RunBy(j)
      BY <1>1, <2>1 DEF RunBy
    <2>4. w \in RunBy(i)
      BY <1>1, <2>1 DEF RunBy
    <2>5. /\ running' = running /\ queue' \in [Invokers -> Seq(Messages)]
          /\ \A j \in Invokers \ {i} : queue'[j] = queue[j]
      <3>1. CASE Pop(w) /\ queue[i] # <<>>
        <4>1. Tail(queue[i]) \in Seq(Messages)
          BY <1>1, <3>1 DEF InvokerInv
        <4>2. running' = running /\ queue' = [queue EXCEPT ![i] = Tail(@)]
          BY <1>1, <3>1 DEF Pop
        <4> QED
          BY <1>1, <4>1, <4>2 DEF InvokerInv
      <3>2. CASE Serve(w)
        BY <3>2 DEF Serve, InvokerInv
      <3> QED
        BY <1>6, <3>1, <3>2
    <2>6. InvokerInv'
      BY <2>3, <2>4, <2>5 DEF InvokerInv
    <2> QED
      BY <1>3, <2>2, <2>6
  <1> QED
    BY <1>4, <1>5, <1>6

LEMMA PoolSteps == PoolInv /\ [PoolNext]_poolVars => PoolInv'
  <1>1. CASE UNCHANGED poolVars
    BY <1>1 DEF poolVars, PoolInv, DeliveryInv, WorkerInv, InvokerInv, RunBy
  <1>2. ASSUME PoolInv, NEW w \in Workers, WorkerStep(w)
        PROVE  PoolInv'
    BY <1>2, OutsideSteps, InvokerSteps DEF WorkerStep
  <1> QED
    BY <1>1, <1>2, DeliverySteps, StartStep DEF PoolNext, PoolProgress

\* Each invoker of the pool runs one call at a time, and a call that is queued has a
\* worker that runs the queue, however many workers find, make and run invokers.
THEOREM OneCallAtATime == PoolSpec => []OneAtATime
  <1>1. PoolSpec => []PoolInv
    BY PoolStarts, PoolSteps, PTL DEF PoolSpec
  <1> QED
    BY <1>1, PoolInvImplies, PTL

----------------------------------------------------------------------------
(* What FlattenSeq() makes of a sequence of sequences.                     *)

\* What flatten[i] is to be, for i up to n.
Flattens(g, s, n) == g = [i \in 1..n |-> IF i = 1 THEN s[i] ELSE g[i - 1] \o s[i]]

LEMMA FlattenIs == ASSUME NEW s, Len(s) # 0 PROVE FlattenSeq(s) = (CHOOSE g : Flattens(g, s, Len(s)))[Len(s)]
  BY Zenon DEF FlattenSeq, Flattens

LEMMA FlattensExists ==
    ASSUME NEW S, NEW s \in Seq(Seq(S)), NEW m \in 0..Len(s)
    PROVE  \E g : Flattens(g, s, m) /\ \A i \in 1..m : g[i] \in Seq(S)
  <1> DEFINE P(n) == \E g : Flattens(g, s, n) /\ \A i \in 1..n : g[i] \in Seq(S)
             T == {n \in 0..Len(s) : ~P(n)}
  <1>1. SUFFICES ASSUME T # {} PROVE FALSE
    OBVIOUS
  <1>2. PICK x \in T : \A y \in T : x <= y
    <2>1. T \subseteq Nat
      OBVIOUS
    <2> HIDE DEF T
    <2> QED
      BY <1>1, <2>1, LeastOfNat
  <1>3. CASE x = 0
    <2>1. Flattens([i \in 1..0 |-> <<>>], s, 0)
      BY DEF Flattens
    <2> QED
      BY <1>2, <1>3, <2>1
  <1>4. CASE x # 0
    <2>1. x - 1 \in 0..Len(s) /\ P(x - 1)
      <3>1. x - 1 \in 0..Len(s) /\ ~(x <= x - 1)
        BY <1>4
      <3>2. x - 1 \notin T
        <4> HIDE DEF T
        <4> QED
          BY <1>2, <3>1
      <3> HIDE DEF P
      <3> QED
        BY <3>1, <3>2
    <2> HIDE DEF T
    <2>2. PICK g : Flattens(g, s, x - 1) /\ \A i \in 1..(x - 1) : g[i] \in Seq(S)
      BY <2>1
    <2> DEFINE h == [i \in 1..x |-> IF i < x THEN g[i] ELSE IF x = 1 THEN s[x] ELSE g[x - 1] \o s[x]]
    <2>3. x \in 1..Len(s)
      BY <1>2, <1>4 DEF T
    <2>4. s[x] \in Seq(S) /\ (x # 1 => g[x - 1] \in Seq(S))
      BY <2>2, <2>3
    <2> HIDE DEF T
    <2>11. x \in 1..x /\ ~(x < x)
      BY <2>3
    <2>12. h[x] = IF x = 1 THEN s[x] ELSE g[x - 1] \o s[x]
      BY <2>11
    <2>5. h[x] \in Seq(S)
      <3> HIDE DEF h
      <3>1. x # 1 => g[x - 1] \o s[x] \in Seq(S)
        BY <2>4
      <3> QED
        BY <2>4, <2>12, <3>1
    <2>6. \A i \in 1..x : h[i] \in Seq(S)
      <3>1. \A i \in 1..x : i # x => i \in 1..(x - 1) /\ h[i] = g[i]
        BY <2>3
      <3> QED
        BY <2>2, <2>5, <3>1
    <2>7. \A i \in 1..(x - 1) : g[i] = IF i = 1 THEN s[i] ELSE g[i - 1] \o s[i]
      BY <2>2 DEF Flattens
    <2>8. \A i \in 1..x : h[i] = IF i = 1 THEN s[i] ELSE h[i - 1] \o s[i]
      <3> SUFFICES ASSUME NEW i \in 1..x PROVE h[i] = IF i = 1 THEN s[i] ELSE h[i - 1] \o s[i]
        OBVIOUS
      <3>1. CASE i = x /\ i # 1
        <4>1. x - 1 \in 1..x /\ x - 1 < x
          BY <2>3, <3>1
        <4>2. h[x - 1] = g[x - 1]
          BY <4>1
        <4>3. h[x] = g[x - 1] \o s[x]
          BY <2>12, <3>1
        <4> HIDE DEF h
        <4> QED
          BY <3>1, <4>2, <4>3
      <3>2. CASE i = x /\ i = 1
        BY <3>2
      <3>3. CASE i # x
        <4>1. i \in 1..(x - 1) /\ h[i] = g[i]
          BY <2>3, <3>3
        <4>2. i # 1 => i - 1 \in 1..x /\ i - 1 < x /\ h[i - 1] = g[i - 1]
          BY <2>3, <3>3
        <4> QED
          BY <2>7, <4>1, <4>2
      <3> QED
        BY <3>1, <3>2, <3>3
    <2>9. h = [i \in 1..x |-> h[i]]
      OBVIOUS
    <2> HIDE DEF h
    <2>10. Flattens(h, s, x)
      BY <2>8, <2>9 DEF Flattens
    <2> QED
      BY <1>2, <2>6, <2>10 DEF T
  <1> QED
    BY <1>3, <1>4

LEMMA FlattensOnce ==
    ASSUME NEW s, NEW t, NEW n \in Nat, NEW m \in Nat, n <= m,
           NEW g, NEW h, Flattens(g, s, n), Flattens(h, t, m), \A i \in 1..n : s[i] = t[i]
    PROVE  \A i \in 1..n : g[i] = h[i]
  <1> DEFINE T == {i \in 1..n : g[i] # h[i]}
  <1>1. SUFFICES ASSUME T # {} PROVE FALSE
    OBVIOUS
  <1>2. PICK x \in T : \A y \in T : x <= y
    <2>1. T \subseteq Nat
      OBVIOUS
    <2> HIDE DEF T
    <2> QED
      BY <1>1, <2>1, LeastOfNat
  <1>3. x \in 1..n /\ x \in 1..m
    OBVIOUS
  <1>4. g[x] = IF x = 1 THEN s[x] ELSE g[x - 1] \o s[x]
    BY <1>3 DEF Flattens
  <1>5. h[x] = IF x = 1 THEN t[x] ELSE h[x - 1] \o t[x]
    BY <1>3 DEF Flattens
  <1>6. x # 1 => g[x - 1] = h[x - 1]
    BY <1>2, <1>3
  <1> QED
    BY <1>3, <1>4, <1>5, <1>6

LEMMA FlattenEmpty == FlattenSeq(<<>>) = <<>>
  BY DEF FlattenSeq

LEMMA FlattenLast ==
    ASSUME NEW S, NEW s \in Seq(Seq(S)), Len(s) # 0, NEW g, Flattens(g, s, Len(s))
    PROVE  FlattenSeq(s) = g[Len(s)]
  <1> DEFINE h == CHOOSE f : Flattens(f, s, Len(s))
  <1>1. Flattens(h, s, Len(s))
    OBVIOUS
  <1>2. FlattenSeq(s) = h[Len(s)]
    BY FlattenIs
  <1> HIDE DEF h
  <1>3. Len(s) \in Nat /\ Len(s) \in 1..Len(s)
    OBVIOUS
  <1>4. \A i \in 1..Len(s) : g[i] = h[i]
    BY <1>1, <1>3, FlattensOnce
  <1> QED
    BY <1>2, <1>3, <1>4

LEMMA FlattenAppend ==
    ASSUME NEW S, NEW s \in Seq(Seq(S)), NEW x \in Seq(S)
    PROVE  FlattenSeq(s) \in Seq(S) /\ FlattenSeq(Append(s, x)) = FlattenSeq(s) \o x
  <1> DEFINE t == Append(s, x)
             n == Len(s)
  <1>1. /\ t \in Seq(Seq(S)) /\ Len(t) = n + 1 /\ n \in Nat
        /\ \A i \in 1..n : s[i] = t[i]
        /\ t[n + 1] = x
    OBVIOUS
  <1> HIDE DEF t
  <1>2. PICK h : Flattens(h, t, n + 1) /\ \A i \in 1..(n + 1) : h[i] \in Seq(S)
    <2>1. n + 1 \in 0..Len(t)
      BY <1>1
    <2> QED
      BY <1>1, <2>1, FlattensExists
  <1>3. \A i \in 1..(n + 1) : h[i] = IF i = 1 THEN t[i] ELSE h[i - 1] \o t[i]
    <2>1. h = [i \in 1..(n + 1) |-> IF i = 1 THEN t[i] ELSE h[i - 1] \o t[i]]
      BY <1>2 DEF Flattens
    <2> QED
      BY <2>1
  <1>4. FlattenSeq(t) = h[n + 1]
    <2>1. Flattens(h, t, Len(t)) /\ Len(t) # 0
      BY <1>1, <1>2
    <2> QED
      BY <1>1, <2>1, FlattenLast
  <1>5. CASE n = 0
    <2>1. s = <<>>
      BY <1>5
    <2>2. FlattenSeq(s) = <<>>
      BY <2>1, FlattenEmpty
    <2>3. h[n + 1] = x
      BY <1>1, <1>3, <1>5
    <2> QED
      BY <1>4, <2>2, <2>3 DEF t
  <1>6. CASE n # 0
    <2> DEFINE g == [i \in 1..n |-> h[i]]
    <2>1. \A i \in 1..n : g[i] = IF i = 1 THEN s[i] ELSE g[i - 1] \o s[i]
      <3> SUFFICES ASSUME NEW i \in 1..n PROVE g[i] = IF i = 1 THEN s[i] ELSE g[i - 1] \o s[i]
        OBVIOUS
      <3>1. i \in 1..(n + 1) /\ (i # 1 => i - 1 \in 1..n)
        BY <1>1
      <3> QED
        BY <1>1, <1>3, <3>1
    <2>2. g = [i \in 1..n |-> g[i]]
      OBVIOUS
    <2>3. g[n] = h[n]
      BY <1>1, <1>6
    <2> HIDE DEF g
    <2>4. Flattens(g, s, n)
      BY <2>1, <2>2 DEF Flattens
    <2>5. FlattenSeq(s) = h[n]
      BY <1>6, <2>3, <2>4, FlattenLast
    <2>6. h[n + 1] = h[n] \o x
      <3>1. n + 1 \in 1..(n + 1) /\ n + 1 # 1 /\ n + 1 - 1 = n
        BY <1>1, <1>6
      <3> DEFINE m == n + 1
      <3>2. h[m] = IF m = 1 THEN t[m] ELSE h[m - 1] \o t[m]
        BY <1>3, <3>1
      <3> QED
        BY <1>1, <3>1, <3>2
    <2>7. h[n] \in Seq(S)
      BY <1>1, <1>2, <1>6
    <2> QED
      BY <1>4, <2>5, <2>6, <2>7 DEF t
  <1> QED
    BY <1>5, <1>6

LEMMA FlattenType == ASSUME NEW S, NEW s \in Seq(Seq(S)) PROVE FlattenSeq(s) \in Seq(S)
  BY FlattenAppend, EmptySeq

LEMMA FlattenOne == ASSUME NEW S, NEW x \in Seq(S) PROVE FlattenSeq(<<x>>) = x
  <1>1. <<>> \in Seq(Seq(S)) /\ Append(<<>>, x) = <<x>>
    OBVIOUS
  <1>2. FlattenSeq(Append(<<>>, x)) = <<>> \o x
    BY <1>1, FlattenAppend, FlattenEmpty
  <1> QED
    BY <1>1, <1>2

LEMMA ConcatLast ==
    ASSUME NEW S, NEW s \in Seq(S), NEW t \in Seq(S), NEW x \in S
    PROVE  s \o Append(t, x) = Append(s \o t, x)
  OBVIOUS

LEMMA ConcatAssoc ==
    ASSUME NEW S, NEW s \in Seq(S), NEW t \in Seq(S), NEW u \in Seq(S)
    PROVE  s \o t \o u = s \o (t \o u)
  OBVIOUS

\* A sequence is flattened piece by piece.
LEMMA FlattenConcat ==
    ASSUME NEW S, NEW s \in Seq(Seq(S)), NEW t \in Seq(Seq(S))
    PROVE  FlattenSeq(s \o t) = FlattenSeq(s) \o FlattenSeq(t)
  <1> DEFINE P(n) == \A u \in Seq(Seq(S)) : Len(u) = n => FlattenSeq(s \o u) = FlattenSeq(s) \o FlattenSeq(u)
             T == {n \in Nat : ~P(n)}
  <1>1. SUFFICES ASSUME T # {} PROVE FALSE
    <2>1. Len(t) \in Nat
      OBVIOUS
    <2> QED
      BY <2>1
  <1>2. PICK x \in T : \A y \in T : x <= y
    <2>1. T \subseteq Nat
      OBVIOUS
    <2> HIDE DEF T
    <2> QED
      BY <1>1, <2>1, LeastOfNat
  <1>3. PICK u \in Seq(Seq(S)) : Len(u) = x /\ FlattenSeq(s \o u) # FlattenSeq(s) \o FlattenSeq(u)
    BY <1>2
  <1>4. CASE x = 0
    <2>1. u = <<>>
      BY <1>3, <1>4
    <2>2. s \o <<>> = s
      OBVIOUS
    <2>3. FlattenSeq(s) \o <<>> = FlattenSeq(s)
      BY FlattenType
    <2> QED
      BY <1>3, <2>1, <2>2, <2>3, FlattenEmpty
  <1>5. CASE x # 0
    <2>1. x \in Nat /\ x - 1 \in Nat /\ x - 1 \notin T
      BY <1>2, <1>5
    <2>2. P(x - 1)
      BY <2>1
    <2> HIDE DEF T
    <2> DEFINE v == SubSeq(u, 1, x - 1)
               e == u[x]
    <2>3. v \in Seq(Seq(S)) /\ Len(v) = x - 1 /\ e \in Seq(S) /\ u = Append(v, e)
      BY <1>3, <1>5, <2>1
    <2>4. FlattenSeq(s \o v) = FlattenSeq(s) \o FlattenSeq(v)
      BY <2>2, <2>3
    <2> HIDE DEF v, e, P
    <2>5. s \o u = Append(s \o v, e) /\ s \o v \in Seq(Seq(S))
      BY <2>3, ConcatLast
    <2>6. FlattenSeq(s \o u) = FlattenSeq(s \o v) \o e
      BY <2>3, <2>5, FlattenAppend
    <2>7. FlattenSeq(u) = FlattenSeq(v) \o e
      BY <2>3, FlattenAppend
    <2>8. FlattenSeq(s) \in Seq(S) /\ FlattenSeq(v) \in Seq(S)
      BY <2>3, FlattenType
    <2>9. FlattenSeq(s) \o FlattenSeq(v) \o e = FlattenSeq(s) \o (FlattenSeq(v) \o e)
      <3> DEFINE a == FlattenSeq(s)
                 b == FlattenSeq(v)
      <3>1. a \in Seq(S) /\ b \in Seq(S) /\ e \in Seq(S)
        BY <2>3, <2>8
      <3> HIDE DEF a, b
      <3>2. a \o b \o e = a \o (b \o e)
        BY SMTT(30), <3>1
      <3> QED
        BY <3>2 DEF a, b
    <2> QED
      BY <1>3, <2>4, <2>6, <2>7, <2>9
  <1> QED
    BY <1>4, <1>5

----------------------------------------------------------------------------
(* Streams.                                                                *)

Byte == Nat \X Nat

\* The frames of n messages, after the first a.
Frames(a, n) == [i \in 1..n |-> Bytes(a + i)]

\* The bytes that are to come after those of the messages that have arrived, and those of
\* them that the receiver has or could read.
Ahead == FlattenSeq(Frames(Len(arrived), written - Len(arrived)))
Here == FlattenSeq(inputBuf) \o channel

StreamTypes ==
    /\ sizes \in Seq(Nat) /\ written \in 0..Len(sizes)
    /\ buf \in Seq(Seq(Byte)) /\ inputBuf \in Seq(Seq(Byte)) /\ channel \in Seq(Byte)
    /\ arrived \in Seq(Seq(Byte)) /\ Len(arrived) <= written
    /\ held = Sum(inputBuf) /\ receiver # "crashed"

\* No byte is lost while both ends are open, and only the last ones are otherwise.
BytesInv ==
    \E lost \in Seq(Byte) : /\ Here \o lost = Ahead
                            /\ sender = "open" /\ receiver = "open" => lost = FlattenSeq(buf)

WriterInv == sender = "open" => len = Sum(buf) /\ (buf # <<>> => writing)

\* Between two reads less than a message is there, and its header is in the first chunk.
ChunksInv ==
    receiver = "open" =>
        /\ ~parsing /\ held > 0 => held < Header + sizes[Len(arrived) + 1]
        /\ Len(inputBuf) >= 2 =>
               /\ Len(Head(inputBuf)) >= Joined
               /\ Sum(SubSeq(inputBuf, 1, Len(inputBuf) - 1)) < Header + sizes[Len(arrived) + 1]

ArrivedWhole == \A m \in DOMAIN arrived : arrived[m] = Data(m)

StreamInv == StreamTypes /\ BytesInv /\ WriterInv /\ ChunksInv /\ ArrivedWhole

----------------------------------------------------------------------------
LEMMA BytesType ==
    ASSUME sizes \in Seq(Nat), NEW m \in 1..Len(sizes)
    PROVE  /\ Bytes(m) \in Seq(Byte) /\ Len(Bytes(m)) = Header + sizes[m] /\ sizes[m] \in Nat
           /\ Bytes(m)[1] = <<m, 1>> /\ Len(Bytes(m)) >= 1
  <1>1. sizes[m] \in Nat /\ Header \in Nat \ {0} /\ m \in Nat
    BY StreamAssumption
  <1>2. Header + sizes[m] \in Nat /\ Header + sizes[m] >= 1
    BY <1>1
  <1>3. \A k \in 1..(Header + sizes[m]) : <<m, k>> \in Byte
    BY <1>1 DEF Byte
  <1> DEFINE n == Header + sizes[m]
  <1> HIDE DEF n
  <1>4. [k \in 1..n |-> <<m, k>>] \in Seq(Byte) /\ Len([k \in 1..n |-> <<m, k>>]) = n
    BY <1>2, <1>3 DEF n
  <1>5. [k \in 1..n |-> <<m, k>>][1] = <<m, 1>>
    BY <1>2 DEF n
  <1> QED
    BY <1>1, <1>2, <1>4, <1>5 DEF Bytes, n

LEMMA FramesType ==
    ASSUME sizes \in Seq(Nat), NEW a \in Nat, NEW n \in Nat, a + n <= Len(sizes)
    PROVE  /\ Frames(a, n) \in Seq(Seq(Byte)) /\ Len(Frames(a, n)) = n
           /\ \A i \in 1..n : Frames(a, n)[i] = Bytes(a + i)
  <1>1. \A i \in 1..n : a + i \in 1..Len(sizes)
    OBVIOUS
  <1>2. \A i \in 1..n : Bytes(a + i) \in Seq(Byte)
    BY <1>1, BytesType
  <1> QED
    BY <1>2 DEF Frames

LEMMA SameSeq ==
    ASSUME NEW S, NEW s \in Seq(S), NEW t \in Seq(S), Len(s) = Len(t),
           \A i \in 1..Len(s) : s[i] = t[i]
    PROVE  s = t
  BY SeqEqual

LEMMA ConcatAt ==
    ASSUME NEW S, NEW s \in Seq(S), NEW t \in Seq(S)
    PROVE  /\ s \o t \in Seq(S) /\ Len(s \o t) = Len(s) + Len(t) /\ Len(s) \in Nat /\ Len(t) \in Nat
           /\ \A i \in 1..Len(s) : (s \o t)[i] = s[i]
           /\ \A i \in 1..Len(t) : (s \o t)[Len(s) + i] = t[i]
  OBVIOUS

LEMMA FramesAppend ==
    ASSUME sizes \in Seq(Nat), NEW a \in Nat, NEW n \in Nat, a + n + 1 <= Len(sizes)
    PROVE  FlattenSeq(Frames(a, n + 1)) = FlattenSeq(Frames(a, n)) \o Bytes(a + n + 1)
  <1> DEFINE s == Frames(a, n)
             t == Frames(a, n + 1)
             b == Bytes(a + n + 1)
  <1>1. a + n <= Len(sizes) /\ a + (n + 1) <= Len(sizes) /\ n + 1 \in Nat /\ a + (n + 1) = a + n + 1
    OBVIOUS
  <1>2. s \in Seq(Seq(Byte)) /\ Len(s) = n /\ \A i \in 1..n : s[i] = Bytes(a + i)
    BY <1>1, FramesType
  <1>3. t \in Seq(Seq(Byte)) /\ Len(t) = n + 1 /\ \A i \in 1..(n + 1) : t[i] = Bytes(a + i)
    BY <1>1, FramesType
  <1>4. b \in Seq(Byte)
    <2>1. a + n + 1 \in 1..Len(sizes)
      BY <1>1
    <2> QED
      BY <2>1, BytesType
  <1>6. t[n + 1] = b
    BY <1>1, <1>3
  <1> HIDE DEF s, t
  <1>5. \A i \in 1..n : t[i] = s[i]
    <2> HIDE DEF b
    <2> SUFFICES ASSUME NEW i \in 1..n PROVE t[i] = s[i]
      OBVIOUS
    <2>1. i \in 1..(n + 1)
      OBVIOUS
    <2> QED
      BY <1>2, <1>3, <2>1, Zenon
  <1> HIDE DEF b
  <1>7. t = Append(s, b)
    BY SMTT(30), <1>2, <1>3, <1>4, <1>5, <1>6
  <1>8. FlattenSeq(t) = FlattenSeq(s) \o b
    BY <1>2, <1>4, <1>7, FlattenAppend
  <1> QED
    BY <1>8 DEF s, t, b

LEMMA FramesSplit ==
    ASSUME sizes \in Seq(Nat), NEW a \in Nat, NEW n \in Nat, NEW m \in Nat, a + n + m <= Len(sizes)
    PROVE  FlattenSeq(Frames(a, n + m)) = FlattenSeq(Frames(a, n)) \o FlattenSeq(Frames(a + n, m))
  <1> DEFINE s == Frames(a, n)
             t == Frames(a + n, m)
             u == Frames(a, n + m)
  <1>1. a + n <= Len(sizes) /\ a + (n + m) <= Len(sizes) /\ n + m \in Nat /\ a + n \in Nat
    OBVIOUS
  <1>2. s \in Seq(Seq(Byte)) /\ Len(s) = n /\ \A i \in 1..n : s[i] = Bytes(a + i)
    BY <1>1, FramesType
  <1>3. t \in Seq(Seq(Byte)) /\ Len(t) = m /\ \A i \in 1..m : t[i] = Bytes(a + n + i)
    BY <1>1, FramesType
  <1>4. u \in Seq(Seq(Byte)) /\ Len(u) = n + m /\ \A i \in 1..(n + m) : u[i] = Bytes(a + i)
    BY <1>1, FramesType
  <1> HIDE DEF s, t, u
  <1>8. /\ s \o t \in Seq(Seq(Byte)) /\ Len(s \o t) = Len(s) + Len(t)
        /\ \A i \in 1..Len(s) : (s \o t)[i] = s[i]
        /\ \A i \in 1..Len(t) : (s \o t)[Len(s) + i] = t[i]
    <2> DEFINE S == Seq(Byte)
    <2>1. s \in Seq(S) /\ t \in Seq(S)
      BY <1>2, <1>3
    <2> HIDE DEF S
    <2>2. /\ s \o t \in Seq(S) /\ Len(s \o t) = Len(s) + Len(t)
          /\ \A i \in 1..Len(s) : (s \o t)[i] = s[i]
          /\ \A i \in 1..Len(t) : (s \o t)[Len(s) + i] = t[i]
      BY <2>1, ConcatAt
    <2> QED
      BY <2>2 DEF S
  <1>5. \A i \in 1..n : u[i] = (s \o t)[i]
    BY <1>2, <1>4, <1>8
  <1>6. \A i \in 1..(n + m) : i > n => u[i] = (s \o t)[i]
    <2> SUFFICES ASSUME NEW i \in 1..(n + m), i > n PROVE u[i] = (s \o t)[i]
      OBVIOUS
    <2> DEFINE j == i - n
    <2>1. j \in 1..m /\ a + n + j = a + i /\ n + j = i
      OBVIOUS
    <2> HIDE DEF j
    <2>2. (s \o t)[n + j] = t[j]
      BY <1>2, <1>3, <1>8, <2>1
    <2> QED
      BY <1>3, <1>4, <2>1, <2>2
  <1>7. u = s \o t
    <2>1. s \o t \in Seq(Seq(Byte)) /\ Len(s \o t) = n + m
      BY <1>2, <1>3, <1>8
    <2>2. \A i \in 1..(n + m) : i \in 1..n \/ i > n
      OBVIOUS
    <2>3. \A i \in 1..(n + m) : u[i] = (s \o t)[i]
      <3> SUFFICES ASSUME NEW i \in 1..(n + m) PROVE u[i] = (s \o t)[i]
        OBVIOUS
      <3> QED
        BY <1>5, <1>6, <2>2, Zenon
    <2> QED
      BY <1>4, <2>1, <2>3, SameSeq
  <1> QED
    BY <1>2, <1>3, <1>7, FlattenConcat DEF s, t, u

\* The first bytes of two equal concatenations are equal, and so is what follows them.
LEMMA SplitEqual ==
    ASSUME NEW S, NEW u \in Seq(S), NEW v \in Seq(S), NEW a \in Seq(S), NEW b \in Seq(S),
           u \o v = a \o b, Len(a) <= Len(u)
    PROVE  a = SubSeq(u, 1, Len(a)) /\ b = From(u, Len(a)) \o v
  <1>1. \A i \in 1..Len(a) : a[i] = u[i]
    <2> SUFFICES ASSUME NEW i \in 1..Len(a) PROVE a[i] = u[i]
      OBVIOUS
    <2>1. (a \o b)[i] = a[i] /\ (u \o v)[i] = u[i]
      OBVIOUS
    <2> QED
      BY <2>1
  <1>2. a = SubSeq(u, 1, Len(a))
    BY <1>1
  <1>3. Len(a) + Len(b) = Len(u) + Len(v)
    <2>1. Len(a \o b) = Len(a) + Len(b) /\ Len(u \o v) = Len(u) + Len(v)
      OBVIOUS
    <2> QED
      BY <2>1
  <1> DEFINE w == SubSeq(u, Len(a) + 1, Len(u))
  <1>4. w \in Seq(S) /\ Len(w) = Len(u) - Len(a) /\ \A i \in 1..Len(w) : w[i] = u[Len(a) + i]
    OBVIOUS
  <1> HIDE DEF w
  <1>5. Len(w \o v) = Len(b) /\ w \o v \in Seq(S)
    BY <1>3, <1>4
  <1>6. \A i \in 1..Len(b) : b[i] = (w \o v)[i]
    <2> SUFFICES ASSUME NEW i \in 1..Len(b) PROVE b[i] = (w \o v)[i]
      OBVIOUS
    <2>1. (a \o b)[Len(a) + i] = b[i]
      OBVIOUS
    <2>2. (u \o v)[Len(a) + i] = IF i <= Len(w) THEN u[Len(a) + i] ELSE v[Len(a) + i - Len(u)]
      <3>1. CASE i <= Len(w)
        <4>1. Len(a) + i \in 1..Len(u)
          BY <1>4, <3>1
        <4> QED
          BY <3>1, <4>1, ConcatAt
      <3>2. CASE i > Len(w)
        <4> DEFINE j == Len(a) + i - Len(u)
        <4>1. j \in 1..Len(v) /\ Len(u) + j = Len(a) + i
          BY <1>3, <1>4, <3>2
        <4>2. (u \o v)[Len(u) + j] = v[j]
          BY <4>1, ConcatAt
        <4> QED
          BY <1>4, <3>2, <4>1, <4>2
      <3> QED
        BY <1>4, <3>1, <3>2
    <2>3. (w \o v)[i] = IF i <= Len(w) THEN w[i] ELSE v[i - Len(w)]
      BY <1>3, <1>4
    <2>4. i > Len(w) => i - Len(w) = Len(a) + i - Len(u)
      BY <1>4
    <2> QED
      BY <1>4, <2>1, <2>2, <2>3, <2>4
  <1>7. b = w \o v
    BY <1>5, <1>6, SameSeq
  <1> QED
    BY <1>2, <1>7 DEF From, w

LEMMA CutAndJoin ==
    ASSUME NEW S, NEW s \in Seq(S), NEW n \in 0..Len(s)
    PROVE  /\ SubSeq(s, 1, n) \in Seq(S) /\ From(s, n) \in Seq(S)
           /\ Len(SubSeq(s, 1, n)) = n /\ Len(From(s, n)) = Len(s) - n
           /\ SubSeq(s, 1, n) \o From(s, n) = s
  <1> DEFINE a == SubSeq(s, 1, n)
             b == SubSeq(s, n + 1, Len(s))
  <1>1. a \in Seq(S) /\ Len(a) = n /\ \A i \in 1..n : a[i] = s[i]
    OBVIOUS
  <1>2. b \in Seq(S) /\ Len(b) = Len(s) - n /\ \A i \in 1..Len(b) : b[i] = s[n + i]
    OBVIOUS
  <1> HIDE DEF a, b
  <1>3. a \o b \in Seq(S) /\ Len(a \o b) = Len(s)
    <2>1. a \o b \in Seq(S) /\ Len(a \o b) = Len(a) + Len(b)
      BY <1>1, <1>2, ConcatAt
    <2>2. Len(s) \in Nat
      OBVIOUS
    <2> QED
      BY <1>1, <1>2, <2>1, <2>2
  <1>4. \A i \in 1..Len(s) : (a \o b)[i] = s[i]
    <2> SUFFICES ASSUME NEW i \in 1..Len(s) PROVE (a \o b)[i] = s[i]
      OBVIOUS
    <2>1. CASE i <= n
      <3>1. i \in 1..n
        BY <2>1
      <3> QED
        BY <1>1, <1>2, <3>1, ConcatAt
    <2>2. CASE i > n
      <3> DEFINE j == i - n
      <3>1. j \in 1..Len(b) /\ n + j = i
        BY <1>2, <2>2
      <3> HIDE DEF j
      <3>2. (a \o b)[n + j] = b[j]
        BY <1>1, <1>2, <3>1, ConcatAt
      <3> QED
        BY <1>2, <3>1, <3>2
    <2>3. i <= n \/ i > n
      OBVIOUS
    <2> QED
      BY <2>1, <2>2, <2>3
  <1>5. a \o b = s
    BY <1>3, <1>4, SameSeq
  <1> QED
    BY <1>1, <1>2, <1>5 DEF From, a, b

\* A sequence of sequences is its first and the rest of it.
LEMMA FlattenHead ==
    ASSUME NEW S, NEW s \in Seq(Seq(S)), s # <<>>
    PROVE  /\ Head(s) \in Seq(S) /\ Tail(s) \in Seq(Seq(S))
           /\ FlattenSeq(s) = Head(s) \o FlattenSeq(Tail(s))
  <1> DEFINE Q == Seq(S)
             h == Head(s)
             t == Tail(s)
  <1>1. h \in Q /\ t \in Seq(Q) /\ <<h>> \in Seq(Q) /\ s = <<h>> \o t
    <2>1. s \in Seq(Q)
      OBVIOUS
    <2> HIDE DEF Q
    <2> QED
      BY <2>1
  <1> HIDE DEF h, t
  <1>2. FlattenSeq(<<h>> \o t) = FlattenSeq(<<h>>) \o FlattenSeq(t)
    BY <1>1, FlattenConcat
  <1>3. FlattenSeq(<<h>>) = h
    BY <1>1, FlattenOne
  <1> QED
    BY <1>1, <1>2, <1>3 DEF h, t

\* Another first sequence before the same rest.
LEMMA FlattenCons ==
    ASSUME NEW S, NEW x \in Seq(S), NEW t \in Seq(Seq(S))
    PROVE  /\ <<x>> \o t \in Seq(Seq(S)) /\ FlattenSeq(<<x>> \o t) = x \o FlattenSeq(t)
           /\ Len(<<x>> \o t) = 1 + Len(t) /\ Head(<<x>> \o t) = x
  <1> DEFINE Q == Seq(S)
  <1>1. x \in Q /\ t \in Seq(Q)
    OBVIOUS
  <1>2. FlattenSeq(<<x>>) = x
    BY FlattenOne
  <1>3. <<x>> \in Seq(Q) /\ <<x>> \o t \in Seq(Q) /\ Len(<<x>> \o t) = 1 + Len(t) /\ Head(<<x>> \o t) = x
    <2> HIDE DEF Q
    <2> QED
      BY <1>1
  <1>4. FlattenSeq(<<x>> \o t) = FlattenSeq(<<x>>) \o FlattenSeq(t)
    BY <1>3, FlattenConcat
  <1> QED
    BY <1>2, <1>3, <1>4

\* Fewer of the sequences are no longer than more of them.
LEMMA FlattenShorter ==
    ASSUME NEW S, NEW s \in Seq(Seq(S)), NEW n \in 0..Len(s)
    PROVE  /\ SubSeq(s, 1, n) \in Seq(Seq(S)) /\ Len(FlattenSeq(SubSeq(s, 1, n))) \in Nat
           /\ Len(FlattenSeq(SubSeq(s, 1, n))) <= Len(FlattenSeq(s))
  <1> DEFINE Q == Seq(S)
             a == SubSeq(s, 1, n)
             b == From(s, n)
  <1>1. a \in Seq(Q) /\ b \in Seq(Q) /\ a \o b = s
    <2>1. s \in Seq(Q)
      OBVIOUS
    <2> HIDE DEF Q
    <2> QED
      BY <2>1, CutAndJoin
  <1> HIDE DEF a, b
  <1>2. FlattenSeq(a \o b) = FlattenSeq(a) \o FlattenSeq(b)
    BY <1>1, FlattenConcat
  <1>3. FlattenSeq(a) \in Seq(S) /\ FlattenSeq(b) \in Seq(S)
    BY <1>1, FlattenType
  <1>4. Len(FlattenSeq(s)) = Len(FlattenSeq(a)) + Len(FlattenSeq(b))
    <2> DEFINE fa == FlattenSeq(a)
               fb == FlattenSeq(b)
    <2>1. fa \in Seq(S) /\ fb \in Seq(S) /\ FlattenSeq(s) = fa \o fb
      BY <1>1, <1>2, <1>3
    <2> HIDE DEF fa, fb
    <2>2. Len(FlattenSeq(s)) = Len(fa) + Len(fb)
      BY <2>1
    <2> QED
      BY <2>2 DEF fa, fb
  <1> QED
    BY <1>1, <1>3, <1>4 DEF a

LEMMA MinOfTwo == ASSUME NEW a \in Int, NEW b \in Int PROVE Min({a, b}) \in Int /\ Min({a, b}) <= a /\ Min({a, b}) <= b
  <1> DEFINE m == IF a <= b THEN a ELSE b
  <1>1. m \in {a, b} /\ \A y \in {a, b} : m <= y
    OBVIOUS
  <1> HIDE DEF m
  <1>2. Min({a, b}) \in {a, b} /\ \A y \in {a, b} : Min({a, b}) <= y
    BY <1>1, Zenon DEF Min
  <1> QED
    BY <1>2

LEMMA TakesSome ==
    ASSUME NEW s \in Seq(Byte), channel \in Seq(Byte), NEW n \in Takes(s)
    PROVE  n \in 0..Len(s) /\ (receiver # "open" => n = 0)
  <1>1. Len(s) \in Int /\ Room - Len(channel) \in Int
    BY StreamAssumption
  <1>2. Min({Len(s), Room - Len(channel)}) <= Len(s) /\ Min({Len(s), Room - Len(channel)}) \in Int
    BY <1>1, MinOfTwo
  <1> DEFINE m == Min({Len(s), Room - Len(channel)})
  <1> HIDE DEF m
  <1>3. n \in IF receiver # "open" \/ Len(channel) = Room THEN {0} ELSE 1..m
    BY DEF Takes, m
  <1> QED
    BY <1>2, <1>3 DEF m

\* An equation to be cited as one.
Regroups(x, c, a, b, f) == x \o (c \o a) \o (b \o f) = x \o c \o (a \o b \o f)

LEMMA Regroup ==
    ASSUME NEW S, NEW x \in Seq(S), NEW c \in Seq(S), NEW a \in Seq(S), NEW b \in Seq(S), NEW f \in Seq(S)
    PROVE  Regroups(x, c, a, b, f)
  <1> DEFINE y == x \o c
             w == b \o f
  <1>1. w \in Seq(S)
    OBVIOUS
  <1>2. y \in Seq(S)
    OBVIOUS
  <1>3. x \o (c \o a) = x \o c \o a
    OBVIOUS
  <1>4. a \o b \o f = a \o (b \o f)
    OBVIOUS
  <1>5. y \o a \o w = y \o (a \o w)
    <2> HIDE DEF y, w
    <2> QED
      BY <1>1, <1>2
  <1> QED
    BY <1>3, <1>4, <1>5 DEF Regroups

\* What is cut from a message on its way to the pipe is kept for later, behind nothing; and
\* what is moved from one buffer to the next stays in its place.
WriteKeeps(x, c, f, s, n) == x \o (c \o SubSeq(s, 1, n)) \o (f \o From(s, n)) = x \o c \o f \o s
MoveKeeps(x, c, h, f, n) == x \o (c \o SubSeq(h, 1, n)) \o (From(h, n) \o f) = x \o c \o (h \o f)

LEMMA WritesKeep ==
    ASSUME NEW S, NEW x \in Seq(S), NEW c \in Seq(S), NEW f \in Seq(S), NEW s \in Seq(S),
           NEW n \in 0..Len(s), n = 0 \/ f = <<>>
    PROVE  WriteKeeps(x, c, f, s, n)
  <1> DEFINE a == SubSeq(s, 1, n)
             b == From(s, n)
  <1>1. a \in Seq(S) /\ b \in Seq(S) /\ a \o b = s /\ Len(a) = n
    BY CutAndJoin
  <1>2. a \in Seq(S)
    BY <1>1
  <1>3. b \in Seq(S)
    BY <1>1
  <1>4. CASE n = 0
    <2>1. a = <<>>
      BY <1>1, <1>4
    <2>2. c \o <<>> = c /\ <<>> \o b = b
      BY <1>1
    <2>3. x \o c \o (f \o b) = x \o c \o f \o b
      <3> DEFINE y == x \o c
      <3>1. y \in Seq(S)
        OBVIOUS
      <3> HIDE DEF a, b, y
      <3>2. y \o (f \o b) = y \o f \o b
        BY SMTT(30), <1>3, <3>1
      <3> QED
        BY <3>2 DEF y
    <2> HIDE DEF a, b
    <2> QED
      BY <1>1, <1>4, <2>1, <2>2, <2>3 DEF WriteKeeps, a, b
  <1>5. CASE f = <<>>
    <2> HIDE DEF a, b
    <2>1. x \o (c \o a) \o (b \o f) = x \o c \o (a \o b \o f)
      <3>1. f \in Seq(S) /\ Regroups(x, c, a, b, f)
        BY <1>2, <1>3, Regroup, Zenon
      <3> QED
        BY <3>1, Zenon DEF Regroups
    <2>2. <<>> \o b = b /\ b \o <<>> = b /\ a \o b \o <<>> = a \o b
      BY <1>2, <1>3
    <2>3. x \o c \o <<>> = x \o c
      OBVIOUS
    <2> QED
      BY <1>1, <1>5, <2>1, <2>2, <2>3, Zenon DEF WriteKeeps, a, b
  <1> QED
    BY <1>4, <1>5, Zenon DEF WriteKeeps

LEMMA MovesKeep ==
    ASSUME NEW S, NEW x \in Seq(S), NEW c \in Seq(S), NEW h \in Seq(S), NEW f \in Seq(S), NEW n \in 0..Len(h)
    PROVE  MoveKeeps(x, c, h, f, n)
  <1> DEFINE a == SubSeq(h, 1, n)
             b == From(h, n)
  <1>1. a \in Seq(S) /\ b \in Seq(S) /\ a \o b = h
    BY CutAndJoin
  <1> HIDE DEF a, b
  <1>2. x \o (c \o a) \o (b \o f) = x \o c \o (a \o b \o f)
    <2>1. a \in Seq(S)
      BY <1>1
    <2>2. b \in Seq(S)
      BY <1>1
    <2>3. Regroups(x, c, a, b, f)
      BY <2>1, <2>2, Regroup, Zenon
    <2> QED
      BY <2>3, Zenon DEF Regroups
  <1> QED
    BY <1>1, <1>2, Zenon DEF MoveKeeps, a, b

----------------------------------------------------------------------------
\* A message that is not in the way of a step stays as it is.
LEMMA StaysHere ==
    ASSUME StreamInv, UNCHANGED <<sizes, written, channel, inputBuf, arrived>>,
           sender' = "open" /\ receiver' = "open" => sender = "open" /\ receiver = "open" /\ buf' = buf
    PROVE  BytesInv' /\ ArrivedWhole'
  <1>1. PICK lost \in Seq(Byte) :
            /\ Here \o lost = Ahead
            /\ sender = "open" /\ receiver = "open" => lost = FlattenSeq(buf)
    BY DEF StreamInv, BytesInv
  <1>2. Here' = Here /\ Ahead' = Ahead
    BY DEF Here, Ahead, Frames, Bytes
  <1>3. sender' = "open" /\ receiver' = "open" => lost = FlattenSeq(buf')
    BY <1>1
  <1>4. BytesInv'
    BY <1>1, <1>2, <1>3, Zenon DEF BytesInv
  <1>5. ArrivedWhole'
    BY DEF StreamInv, ArrivedWhole, Data, Bytes
  <1> QED
    BY <1>4, <1>5

LEMMA StreamStart == StreamInit => StreamInv
  <1> SUFFICES ASSUME StreamInit PROVE StreamInv
    OBVIOUS
  <1>1. /\ sizes \in Seq(Nat) /\ written = 0 /\ buf = <<>> /\ len = 0 /\ writing = FALSE /\ channel = <<>>
        /\ inputBuf = <<>> /\ held = 0 /\ parsing = FALSE /\ arrived = <<>> /\ receiver = "open"
    BY StreamAssumption DEF StreamInit
  <1>2. Sum(<<>>) = 0
    BY FlattenEmpty DEF Sum
  <1>3. <<>> \in Seq(Byte) /\ <<>> \in Seq(Seq(Byte)) /\ <<>> \o <<>> = <<>>
    OBVIOUS
  <1>4. StreamTypes
    BY <1>1, <1>2, <1>3 DEF StreamTypes
  <1>5. BytesInv
    <2>1. Here = <<>>
      BY <1>1, <1>3, FlattenEmpty DEF Here
    <2>2. Ahead = <<>>
      <3>1. Frames(0, 0) = <<>>
        BY DEF Frames
      <3> QED
        BY <1>1, <3>1, FlattenEmpty DEF Ahead
    <2>3. Here \o <<>> = Ahead /\ <<>> = FlattenSeq(buf)
      BY <1>1, <1>3, <2>1, <2>2, FlattenEmpty
    <2> QED
      BY <1>3, <2>3 DEF BytesInv
  <1>6. WriterInv /\ ChunksInv /\ ArrivedWhole
    BY <1>1, <1>2 DEF WriterInv, ChunksInv, ArrivedWhole
  <1> QED
    BY <1>4, <1>5, <1>6 DEF StreamInv

LEMMA StreamWrite == StreamInv /\ WriteMessage => StreamInv'
  <1> SUFFICES ASSUME StreamInv, WriteMessage PROVE StreamInv'
    OBVIOUS
  <1> DEFINE s == Bytes(written + 1)
             A == Len(arrived)
  <1>1. /\ sizes \in Seq(Nat) /\ written \in Nat /\ written + 1 \in 1..Len(sizes)
        /\ written' = written + 1 /\ A \in Nat /\ A <= written
        /\ buf \in Seq(Seq(Byte)) /\ inputBuf \in Seq(Seq(Byte)) /\ channel \in Seq(Byte)
        /\ arrived \in Seq(Seq(Byte)) /\ held = Sum(inputBuf) /\ receiver # "crashed" /\ sender = "open"
        /\ len = Sum(buf) /\ (buf # <<>> => writing)
        /\ UNCHANGED <<sizes, inputBuf, held, parsing, arrived, receiver, sender>>
    BY DEF StreamInv, StreamTypes, WriterInv, WriteMessage, Sender
  <1>2. s \in Seq(Byte) /\ Len(s) >= 1
    BY <1>1, BytesType
  <1> HIDE DEF A
  <1>3. PICK n \in IF len = 0 THEN Takes(s) ELSE {0} :
            /\ channel' = channel \o SubSeq(s, 1, n)
            /\ IF n = Len(s) THEN UNCHANGED <<buf, len, writing>>
               ELSE buf' = Append(buf, From(s, n)) /\ len' = len + Len(s) - n /\ writing' = TRUE
    BY DEF WriteMessage, Into
  <1> HIDE DEF s
  <1>4. n \in 0..Len(s) /\ (receiver # "open" => n = 0) /\ (len # 0 => n = 0)
    BY SMTT(30), <1>1, <1>2, <1>3, TakesSome
  <1>5. /\ SubSeq(s, 1, n) \in Seq(Byte) /\ From(s, n) \in Seq(Byte)
        /\ Len(From(s, n)) = Len(s) - n
    BY <1>2, <1>4, CutAndJoin
  <1>6. FlattenSeq(buf) \in Seq(Byte) /\ FlattenSeq(inputBuf) \in Seq(Byte)
    BY <1>1, FlattenType
  <1>7. n = 0 \/ FlattenSeq(buf) = <<>>
    BY <1>1, <1>4, <1>6 DEF Sum
  <1>8. buf' \in Seq(Seq(Byte)) /\ FlattenSeq(buf') = FlattenSeq(buf) \o From(s, n)
    <2>1. CASE n = Len(s)
      <3>1. From(s, n) = <<>>
        BY <1>5, <2>1
      <3>2. FlattenSeq(buf) \o <<>> = FlattenSeq(buf)
        BY <1>6
      <3> QED
        BY <1>1, <1>3, <2>1, <3>1, <3>2
    <2>2. CASE n # Len(s)
      <3>1. buf' = Append(buf, From(s, n))
        BY <1>3, <2>2
      <3>2. Append(buf, From(s, n)) \in Seq(Seq(Byte))
        <4> DEFINE Q == Seq(Byte)
        <4>1. buf \in Seq(Q) /\ From(s, n) \in Q
          BY <1>1, <1>5
        <4> HIDE DEF Q
        <4>2. Append(buf, From(s, n)) \in Seq(Q)
          BY <4>1
        <4> QED
          BY <4>2 DEF Q
      <3> QED
        BY <1>1, <1>5, <3>1, <3>2, FlattenAppend
    <2> QED
      BY <2>1, <2>2
  <1>9. WriterInv'
    <2>1. Sum(buf') = Sum(buf) + (Len(s) - n)
      <3> DEFINE f == FlattenSeq(buf)
                 r == From(s, n)
      <3>1. f \in Seq(Byte)
        BY <1>6
      <3>2. r \in Seq(Byte)
        BY <1>5
      <3>3. Sum(buf') = Len(f \o r) /\ Len(r) = Len(s) - n /\ Sum(buf) = Len(f)
        BY <1>5, <1>8 DEF Sum
      <3> HIDE DEF f, r
      <3>4. Len(f \o r) = Len(f) + Len(r)
        BY <3>1, <3>2
      <3> QED
        BY <3>3, <3>4
    <2>2. Sum(buf) \in Nat
      BY <1>6 DEF Sum
    <2> QED
      BY <1>1, <1>2, <1>3, <1>4, <2>1, <2>2 DEF WriterInv
  <1>10. Ahead' = Ahead \o s /\ Ahead \in Seq(Byte)
    <2> DEFINE m == written - A
    <2>1. m \in Nat /\ A + m + 1 <= Len(sizes) /\ A + m + 1 = written + 1 /\ A + m <= Len(sizes)
      BY <1>1
    <2>2. Ahead = FlattenSeq(Frames(A, m))
      BY DEF Ahead, A
    <2>3. Ahead' = FlattenSeq(Frames(A, m + 1))
      <3>1. written + 1 - A = m + 1
        BY <1>1
      <3>2. Ahead' = FlattenSeq(Frames(A, written + 1 - A))
        BY <1>1 DEF Ahead, A, Frames, Bytes
      <3> QED
        BY <3>1, <3>2
    <2> HIDE DEF m
    <2>4. FlattenSeq(Frames(A, m + 1)) = FlattenSeq(Frames(A, m)) \o Bytes(A + m + 1)
      BY <1>1, <2>1, FramesAppend
    <2>5. Frames(A, m) \in Seq(Seq(Byte))
      BY <1>1, <2>1, FramesType
    <2>6. FlattenSeq(Frames(A, m)) \in Seq(Byte)
      BY <2>5, FlattenType
    <2> QED
      BY <2>1, <2>2, <2>3, <2>4, <2>6 DEF s
  <1>11. BytesInv'
    <2>1. PICK lost \in Seq(Byte) :
              /\ Here \o lost = Ahead
              /\ sender = "open" /\ receiver = "open" => lost = FlattenSeq(buf)
      BY DEF StreamInv, BytesInv
    <2> DEFINE x == FlattenSeq(inputBuf)
               f == FlattenSeq(buf)
    <2>2. x \in Seq(Byte)
      BY <1>6
    <2>3. f \in Seq(Byte)
      BY <1>6
    <2>4. Here = x \o channel /\ Here' = x \o (channel \o SubSeq(s, 1, n))
      BY <1>1, <1>3 DEF Here
    <2>5. CASE receiver = "open"
      <3>1. lost = f
        BY <1>1, <2>1, <2>5
      <3>2. FlattenSeq(buf') = f \o From(s, n) /\ (n = 0 \/ f = <<>>)
        BY <1>7, <1>8
      <3> HIDE DEF x, f
      <3>3. x \o (channel \o SubSeq(s, 1, n)) \o (f \o From(s, n)) = x \o channel \o f \o s
        <4>1. WriteKeeps(x, channel, f, s, n)
          BY <1>1, <1>2, <1>4, <2>2, <2>3, <3>2, WritesKeep
        <4> QED
          BY <4>1, Zenon DEF WriteKeeps
      <3>4. Here' \o FlattenSeq(buf') = Ahead'
        BY <1>10, <2>1, <2>4, <3>1, <3>2, <3>3
      <3>5. FlattenSeq(buf') \in Seq(Byte)
        BY <1>8, FlattenType
      <3> QED
        BY <3>4, <3>5 DEF BytesInv
    <2>6. CASE receiver # "open"
      <3>1. n = 0
        BY <1>4, <2>6
      <3>2. SubSeq(s, 1, 0) = <<>>
        BY <1>2
      <3>3. channel \o <<>> = channel
        BY <1>1
      <3>4. Here' = Here /\ Here \in Seq(Byte)
        <4>1. Here' = Here
          BY <2>4, <3>1, <3>2, <3>3, Zenon
        <4>2. x \o channel \in Seq(Byte)
          BY <1>1, <2>2
        <4> QED
          BY <2>4, <4>1, <4>2, Zenon
      <3> DEFINE h == Here
      <3>5. h \in Seq(Byte) /\ h \o lost = Ahead
        BY <2>1, <3>4
      <3> HIDE DEF h
      <3>6. h \o (lost \o s) = h \o lost \o s /\ lost \o s \in Seq(Byte)
        <4>1. h \in Seq(Byte)
          BY <3>5
        <4> QED
          BY <1>2, <4>1
      <3>7. Here' \o (lost \o s) = Ahead'
        BY <1>10, <3>4, <3>5, <3>6, Zenon DEF h
      <3>8. receiver' # "open"
        BY <1>1, <2>6
      <3> QED
        BY <3>6, <3>7, <3>8, Zenon DEF BytesInv
    <2> QED
      BY <2>5, <2>6
  <1>12. ChunksInv' /\ ArrivedWhole'
    BY <1>1 DEF StreamInv, ChunksInv, ArrivedWhole, Sum, Data, Bytes
  <1>13. StreamTypes'
    <2>1. channel' \in Seq(Byte)
      BY <1>1, <1>3, <1>5
    <2> QED
      BY <1>1, <1>8, <2>1 DEF StreamTypes, A, Sum
  <1> QED
    BY <1>9, <1>11, <1>12, <1>13 DEF StreamInv

LEMMA StreamTransmit == StreamInv /\ Transmit => StreamInv'
  <1> SUFFICES ASSUME StreamInv, Transmit PROVE StreamInv'
    OBVIOUS
  <1> DEFINE h == Head(buf)
             f == FlattenSeq(Tail(buf))
             x == FlattenSeq(inputBuf)
  <1>1. /\ sizes \in Seq(Nat) /\ written \in 0..Len(sizes) /\ Len(arrived) <= written
        /\ buf \in Seq(Seq(Byte)) /\ inputBuf \in Seq(Seq(Byte)) /\ channel \in Seq(Byte)
        /\ arrived \in Seq(Seq(Byte)) /\ held = Sum(inputBuf)
        /\ sender = "open" /\ receiver = "open" /\ buf # <<>> /\ len = Sum(buf)
        /\ UNCHANGED <<sizes, written, inputBuf, held, parsing, arrived, receiver, sender>>
    BY DEF StreamInv, StreamTypes, WriterInv, Transmit, Sender
  <1>2. h \in Seq(Byte) /\ Tail(buf) \in Seq(Seq(Byte)) /\ FlattenSeq(buf) = h \o f
    BY <1>1, FlattenHead
  <1>3. f \in Seq(Byte) /\ x \in Seq(Byte)
    BY <1>1, <1>2, FlattenType
  <1>4. PICK n \in Takes(h) :
            /\ channel' = channel \o SubSeq(h, 1, n)
            /\ buf' = Rest(n) /\ len' = len - n /\ writing' = (Rest(n) # <<>>)
    BY DEF Transmit, Into
  <1>5. Rest(n) = IF n = Len(h) THEN Tail(buf) ELSE <<From(h, n)>> \o Tail(buf)
    BY DEF Rest
  <1> HIDE DEF h
  <1>6. n \in 0..Len(h)
    BY <1>1, <1>2, <1>4, TakesSome
  <1>7. SubSeq(h, 1, n) \in Seq(Byte) /\ From(h, n) \in Seq(Byte) /\ Len(From(h, n)) = Len(h) - n
    BY <1>2, <1>6, CutAndJoin
  <1>8. buf' \in Seq(Seq(Byte)) /\ FlattenSeq(buf') = From(h, n) \o f
    <2>1. CASE n = Len(h)
      <3>1. From(h, n) = <<>>
        BY <1>7, <2>1
      <3>2. <<>> \o f = f
        BY <1>3
      <3> QED
        BY <1>2, <1>4, <1>5, <2>1, <3>1, <3>2, Zenon
    <2>2. CASE n # Len(h)
      <3>1. buf' = <<From(h, n)>> \o Tail(buf)
        BY <1>4, <1>5, <2>2
      <3> QED
        BY <1>2, <1>7, <3>1, FlattenCons
    <2> QED
      BY <2>1, <2>2
  <1>9. WriterInv'
    <2> DEFINE r == From(h, n)
    <2>1. f \in Seq(Byte)
      BY <1>3
    <2>2. r \in Seq(Byte)
      BY <1>7
    <2>3. h \in Seq(Byte)
      BY <1>2
    <2>4. Sum(buf') = Len(r \o f) /\ Sum(buf) = Len(h \o f) /\ Len(r) = Len(h) - n
      BY <1>2, <1>7, <1>8 DEF Sum
    <2> HIDE DEF f, r
    <2>5. Len(r \o f) = Len(r) + Len(f) /\ Len(h \o f) = Len(h) + Len(f)
      BY <2>1, <2>2, <2>3
    <2>6. Len(h) \in Nat /\ Len(f) \in Nat
      BY <2>1, <2>3
    <2>7. len' = Sum(buf')
      BY <1>1, <1>4, <1>6, <2>4, <2>5, <2>6
    <2>8. buf' # <<>> => writing'
      BY <1>4
    <2> QED
      BY <2>7, <2>8 DEF WriterInv
  <1>10. BytesInv'
    <2>1. PICK lost \in Seq(Byte) :
              /\ Here \o lost = Ahead
              /\ sender = "open" /\ receiver = "open" => lost = FlattenSeq(buf)
      BY DEF StreamInv, BytesInv
    <2>2. Here = x \o channel /\ Here' = x \o (channel \o SubSeq(h, 1, n)) /\ Ahead' = Ahead
      BY <1>1, <1>4 DEF Here, Ahead, Frames, Bytes
    <2> HIDE DEF x, f
    <2>3. MoveKeeps(x, channel, h, f, n)
      BY <1>1, <1>2, <1>3, <1>6, MovesKeep, Zenon
    <2>4. lost = h \o f
      BY <1>1, <1>2, <2>1
    <2>5. Here' \o FlattenSeq(buf') = Ahead'
      BY <1>8, <2>1, <2>2, <2>3, <2>4, Zenon DEF MoveKeeps
    <2>6. FlattenSeq(buf') \in Seq(Byte)
      BY <1>8, FlattenType
    <2> QED
      BY <2>5, <2>6, Zenon DEF BytesInv
  <1>11. ChunksInv' /\ ArrivedWhole'
    BY <1>1 DEF StreamInv, ChunksInv, ArrivedWhole, Sum, Data, Bytes
  <1>12. StreamTypes'
    <2>1. channel' \in Seq(Byte)
      BY <1>1, <1>4, <1>7
    <2> QED
      BY <1>1, <1>8, <2>1 DEF StreamTypes, Sum
  <1> QED
    BY <1>9, <1>10, <1>11, <1>12 DEF StreamInv

LEMMA StreamCloses == StreamInv /\ (TransmitFails \/ Hangup \/ ReceiveEnd) => StreamInv'
  <1> SUFFICES ASSUME StreamInv, TransmitFails \/ Hangup \/ ReceiveEnd PROVE StreamInv'
    OBVIOUS
  <1>1. /\ UNCHANGED <<sizes, written, channel, inputBuf, arrived, held, parsing>>
        /\ sender' = sender \/ sender' = "closed"
        /\ \/ sender' = "closed" /\ receiver' = receiver
           \/ receiver' = "closed" /\ UNCHANGED <<buf, len, writing, sender>>
        /\ buf' = buf \/ (buf # <<>> /\ buf' = Tail(buf))
    BY DEF TransmitFails, Hangup, ReceiveEnd, Sender, Receiver
  <1>2. BytesInv' /\ ArrivedWhole'
    BY <1>1, StaysHere
  <1>3. buf' \in Seq(Seq(Byte))
    <2> DEFINE Q == Seq(Byte)
    <2>1. buf \in Seq(Q)
      BY DEF StreamInv, StreamTypes
    <2> HIDE DEF Q
    <2>2. buf' \in Seq(Q)
      BY <1>1, <2>1
    <2> QED
      BY <2>2 DEF Q
  <1>4. StreamTypes'
    BY <1>1, <1>3 DEF StreamInv, StreamTypes, Sum
  <1>5. WriterInv' /\ ChunksInv'
    BY <1>1 DEF StreamInv, WriterInv, ChunksInv, Sum
  <1> QED
    BY <1>2, <1>4, <1>5 DEF StreamInv

\* What the receiver has is the beginning of the next message, and its header can be read.
LEMMA NextFrame ==
    ASSUME StreamInv, receiver = "open", held > 0
    PROVE  /\ Len(arrived) + 1 \in 1..Len(sizes) /\ Len(arrived) + 1 <= written
           /\ inputBuf # <<>> /\ held \in Nat
           /\ Ahead = Bytes(Len(arrived) + 1)
                          \o FlattenSeq(Frames(Len(arrived) + 1, written - (Len(arrived) + 1)))
           /\ FlattenSeq(Frames(Len(arrived) + 1, written - (Len(arrived) + 1))) \in Seq(Byte)
           /\ First[1] = <<Len(arrived) + 1, 1>>
           /\ held >= Header => Len(First) >= Header
  <1> DEFINE A == Len(arrived)
             m == written - (A + 1)
             b == Bytes(A + 1)
             r == FlattenSeq(Frames(A + 1, m))
             x == FlattenSeq(inputBuf)
             h == Head(inputBuf)
             f == FlattenSeq(Tail(inputBuf))
  <1>1. /\ sizes \in Seq(Nat) /\ written \in 0..Len(sizes) /\ A <= written /\ A \in Nat /\ written \in Nat
        /\ inputBuf \in Seq(Seq(Byte)) /\ channel \in Seq(Byte) /\ held = Len(x)
    BY DEF StreamInv, StreamTypes, Sum
  <1>2. PICK lost \in Seq(Byte) : x \o channel \o lost = Ahead
    BY DEF StreamInv, BytesInv, Here
  <1>3. x \in Seq(Byte)
    BY <1>1, FlattenType
  <1>4. inputBuf # <<>>
    BY <1>1, FlattenEmpty
  <1>5. h \in Seq(Byte) /\ Tail(inputBuf) \in Seq(Seq(Byte)) /\ x = h \o f
    BY <1>1, <1>4, FlattenHead
  <1>6. f \in Seq(Byte)
    BY <1>5, FlattenType
  <1>7. Len(h) = held \/ Len(h) >= Joined
    <2>1. Len(inputBuf) >= 2 => Len(h) >= Joined
      BY DEF StreamInv, ChunksInv
    <2>2. Len(inputBuf) < 2 => Tail(inputBuf) = <<>>
      <3> DEFINE Q == Seq(Byte)
      <3>1. inputBuf \in Seq(Q)
        BY <1>1
      <3> HIDE DEF Q
      <3> QED
        BY <1>4, <3>1
    <2>3. Len(inputBuf) < 2 => f = <<>>
      BY <2>2, FlattenEmpty
    <2>4. h \o <<>> = h
      BY <1>5
    <2>5. Len(inputBuf) \in Nat
      BY <1>1
    <2> QED
      BY <1>1, <1>5, <2>1, <2>3, <2>4, <2>5
  <1>8. Len(h) \in Nat /\ Len(h) >= 1 /\ (held >= Header => Len(h) >= Header)
    <2>1. Header \in Nat \ {0} /\ Joined \in Nat /\ Header <= Joined
      BY StreamAssumption
    <2>2. Len(h) \in Nat /\ held \in Nat
      BY <1>3, <1>1, <1>5
    <2> QED
      BY <1>7, <2>1, <2>2
  <1>9. A < written
    <2> SUFFICES ASSUME A = written PROVE FALSE
      BY <1>1
    <2>1. Frames(A, 0) = <<>>
      BY DEF Frames
    <2>2. written - A = 0
      BY <1>1
    <2>3. Ahead = <<>>
      BY <2>1, <2>2, FlattenEmpty DEF Ahead
    <2> HIDE DEF x
    <2> DEFINE y == x \o channel
    <2>4. y \in Seq(Byte) /\ Len(y) = Len(x) + Len(channel) /\ Len(x) \in Nat /\ Len(channel) \in Nat
      BY <1>1, <1>3
    <2>5. y \o lost = <<>>
      BY <1>2, <2>3
    <2> HIDE DEF y
    <2>6. Len(y \o lost) = Len(y) + Len(lost) /\ Len(lost) \in Nat
      BY <2>4
    <2>7. Len(<<>>) = 0
      OBVIOUS
    <2> QED
      BY <1>1, <2>4, <2>5, <2>6, <2>7
  <1>10. A + 1 \in 1..Len(sizes) /\ A + 1 <= written /\ m \in Nat
    BY <1>1, <1>9
  <1>11. b \in Seq(Byte) /\ b[1] = <<A + 1, 1>> /\ Len(b) >= 1
    BY <1>1, <1>10, BytesType
  <1>12. r \in Seq(Byte)
    <2>1. A + 1 + m <= Len(sizes) /\ A + 1 \in Nat
      BY <1>1, <1>10
    <2>2. Frames(A + 1, m) \in Seq(Seq(Byte))
      BY <1>1, <1>10, <2>1, FramesType
    <2> QED
      BY <2>2, FlattenType
  <1>13. Ahead = b \o r
    <2>1. A + 1 + m <= Len(sizes) /\ 1 \in Nat /\ A + 1 <= Len(sizes) /\ 1 + m = written - A
      BY <1>1, <1>10
    <2> DEFINE s == Frames(A, 1)
    <2>2. FlattenSeq(Frames(A, 1 + m)) = FlattenSeq(s) \o r
      <3> HIDE DEF A, m
      <3> QED
        BY <1>1, <1>10, <2>1, FramesSplit
    <2>3. s = <<b>>
      BY DEF Frames
    <2>4. FlattenSeq(<<b>>) = b
      BY <1>11, FlattenOne
    <2> QED
      BY <2>1, <2>2, <2>3, <2>4 DEF Ahead
  <1>14. First[1] = <<A + 1, 1>>
    <2>1. Ahead[1] = b[1]
      <3> HIDE DEF b, r
      <3> QED
        BY <1>11, <1>12, <1>13
    <2> DEFINE y == x \o channel
    <2>2. x[1] = h[1] /\ Len(x) >= 1
      <3> HIDE DEF h, f, x
      <3> QED
        BY <1>5, <1>6, <1>8
    <2>3. y[1] = x[1] /\ y \in Seq(Byte) /\ Len(y) >= 1
      <3> HIDE DEF x
      <3> QED
        BY <1>1, <1>3, <2>2
    <2>4. Ahead = y \o lost
      BY <1>2
    <2> HIDE DEF y
    <2>5. (y \o lost)[1] = y[1]
      BY <2>3
    <2> QED
      BY <1>11, <2>1, <2>2, <2>3, <2>4, <2>5 DEF First
  <1> QED
    BY SMTT(30), <1>3, <1>1, <1>4, <1>8, <1>10, <1>12, <1>13, <1>14 DEF First

LEMMA StreamReceive == StreamInv /\ Receive => StreamInv'
  <1> SUFFICES ASSUME StreamInv, Receive PROVE StreamInv'
    OBVIOUS
  <1> DEFINE A == Len(arrived)
             x == FlattenSeq(inputBuf)
             h == Head(inputBuf)
             t == Tail(inputBuf)
  <1>1. /\ sizes \in Seq(Nat) /\ written \in 0..Len(sizes) /\ A <= written
        /\ buf \in Seq(Seq(Byte)) /\ inputBuf \in Seq(Seq(Byte)) /\ channel \in Seq(Byte)
        /\ arrived \in Seq(Seq(Byte)) /\ held = Len(x) /\ receiver = "open" /\ ~parsing
        /\ UNCHANGED <<sizes, written, buf, len, writing, arrived, receiver, sender>> /\ parsing' = TRUE
    BY DEF StreamInv, StreamTypes, Sum, Receive, Receiver
  <1>2. PICK n \in 1..Len(channel) :
            /\ inputBuf' = Buffered(SubSeq(channel, 1, n)) /\ held' = held + n
            /\ channel' = From(channel, n)
    BY DEF Receive
  <1> DEFINE s == SubSeq(channel, 1, n)
  <1>3. /\ n \in 0..Len(channel) /\ n \in Nat /\ s \in Seq(Byte) /\ Len(s) = n
        /\ From(channel, n) \in Seq(Byte) /\ s \o From(channel, n) = channel
    <2>1. n \in 0..Len(channel) /\ n \in Nat
      BY <1>1, <1>2
    <2> QED
      BY <1>1, <2>1, CutAndJoin
  <1>4. x \in Seq(Byte) /\ held \in Nat
    BY <1>1, FlattenType
  <1>5. Joined \in Nat /\ Header \in Nat \ {0} /\ Joined >= 1
    BY StreamAssumption
  <1> HIDE DEF s
  <1>6. /\ inputBuf' \in Seq(Seq(Byte)) /\ FlattenSeq(inputBuf') = x \o s
        /\ \/ Len(inputBuf') = 1
           \/ inputBuf # <<>> /\ held >= Joined /\ inputBuf' = Append(inputBuf, s)
    <2>1. CASE inputBuf # <<>> /\ held < Joined
      <3>1. h \in Seq(Byte) /\ t \in Seq(Seq(Byte)) /\ x = h \o FlattenSeq(t)
        BY <1>1, <2>1, FlattenHead
      <3>2. t = <<>>
        <4>1. Len(inputBuf) < 2
          <5> SUFFICES ASSUME Len(inputBuf) >= 2 PROVE FALSE
            BY <1>1
          <5>1. Len(h) >= Joined
            BY <1>1 DEF StreamInv, ChunksInv
          <5>2. FlattenSeq(t) \in Seq(Byte)
            BY <3>1, FlattenType
          <5> DEFINE f == FlattenSeq(t)
          <5>3. x = h \o f /\ f \in Seq(Byte) /\ h \in Seq(Byte)
            BY <3>1, <5>2
          <5>4. held < Joined /\ held = Len(x)
            BY <1>1, <2>1
          <5> HIDE DEF f, h, x
          <5>5. Len(h \o f) = Len(h) + Len(f) /\ Len(h) \in Nat /\ Len(f) \in Nat
            BY <5>3
          <5> QED
            BY <1>5, <5>1, <5>3, <5>4, <5>5
        <4> DEFINE Q == Seq(Byte)
        <4>2. inputBuf \in Seq(Q)
          BY <1>1
        <4> HIDE DEF Q
        <4> QED
          BY <2>1, <4>1, <4>2
      <3>3. inputBuf' = <<h \o s>> \o t
        BY <1>2, <2>1 DEF Buffered, s
      <3>4. h \o s \in Seq(Byte)
        BY <1>3, <3>1
      <3> DEFINE u == h \o s
      <3>5. /\ <<u>> \o t \in Seq(Seq(Byte)) /\ FlattenSeq(<<u>> \o t) = u \o FlattenSeq(t)
            /\ Len(<<u>> \o t) = 1 + Len(t)
        <4>1. u \in Seq(Byte)
          BY <3>4
        <4> HIDE DEF u, t
        <4> QED
          BY <3>1, <4>1, FlattenCons
      <3>6. FlattenSeq(t) = <<>> /\ Len(t) = 0
        BY <3>2, FlattenEmpty
      <3>7. x = h /\ u \o <<>> = u
        <4>1. h \o <<>> = h /\ u \o <<>> = u
          BY <3>1, <3>4
        <4> QED
          BY <3>1, <3>6, <4>1
      <3> QED
        <4>1. u = x \o s
          BY <3>7, Zenon
        <4> HIDE DEF x, u, t
        <4>2. FlattenSeq(inputBuf') = x \o s
          BY <3>3, <3>5, <3>6, <3>7, <4>1, Zenon DEF u
        <4>3. inputBuf' \in Seq(Seq(Byte))
          BY <3>3, <3>5, Zenon DEF u
        <4>4. Len(inputBuf') = 1
          BY <3>3, <3>5, <3>6 DEF u
        <4> QED
          BY <4>2, <4>3, <4>4
    <2>2. CASE ~(inputBuf # <<>> /\ held < Joined)
      <3>1. inputBuf' = Append(inputBuf, s)
        BY <1>2, <2>2 DEF Buffered, s
      <3>2. Append(inputBuf, s) \in Seq(Seq(Byte)) /\ (inputBuf = <<>> => Len(Append(inputBuf, s)) = 1)
        <4> DEFINE Q == Seq(Byte)
        <4>1. inputBuf \in Seq(Q) /\ s \in Q
          BY <1>1, <1>3
        <4> HIDE DEF Q
        <4>2. Append(inputBuf, s) \in Seq(Q) /\ (inputBuf = <<>> => Len(Append(inputBuf, s)) = 1)
          BY <4>1
        <4> QED
          BY <4>2 DEF Q
      <3>3. FlattenSeq(Append(inputBuf, s)) = x \o s
        BY <1>1, <1>3, FlattenAppend
      <3>4. inputBuf # <<>> => held >= Joined
        BY <1>4, <1>5, <2>2
      <3> QED
        BY <3>1, <3>2, <3>3, <3>4
    <2> QED
      BY <2>1, <2>2
  <1>7. held' = Sum(inputBuf') /\ held' \in Nat
    <2>1. Sum(inputBuf') = Len(x \o s) /\ Len(s) = n
      BY <1>3, <1>6 DEF Sum
    <2>2. held = Len(x) /\ x \in Seq(Byte)
      BY <1>1, <1>4
    <2> HIDE DEF x
    <2>3. Len(x \o s) = Len(x) + Len(s)
      <3>1. s \in Seq(Byte)
        BY <1>3
      <3>2. x \in Seq(Byte)
        BY <2>2
      <3> QED
        BY <3>1, <3>2
    <2> QED
      BY <1>2, <1>3, <1>4, <2>1, <2>2, <2>3
  <1>8. BytesInv'
    <2>1. PICK lost \in Seq(Byte) :
              /\ Here \o lost = Ahead
              /\ sender = "open" /\ receiver = "open" => lost = FlattenSeq(buf)
      BY DEF StreamInv, BytesInv
    <2> DEFINE y == From(channel, n)
    <2>2. Here' = x \o s \o y /\ Ahead' = Ahead
      BY <1>1, <1>2, <1>6 DEF Here, Ahead, Frames, Bytes
    <2>3. x \o s \o y = x \o (s \o y)
      <3>1. y \in Seq(Byte)
        BY <1>3
      <3>2. x \in Seq(Byte)
        BY <1>4
      <3>3. s \in Seq(Byte)
        BY <1>3
      <3> HIDE DEF x, y
      <3> QED
        BY <3>1, <3>2, <3>3
    <2>4. Here' = Here
      BY <1>3, <2>2, <2>3, Zenon DEF Here
    <2> QED
      BY <1>1, <2>1, <2>2, <2>4 DEF BytesInv
  <1>9. ChunksInv'
    <2>1. CASE Len(inputBuf') = 1
      BY <1>1, <2>1 DEF ChunksInv
    <2>2. CASE inputBuf # <<>> /\ held >= Joined /\ inputBuf' = Append(inputBuf, s)
      <3>1. held < Header + sizes[A + 1]
        BY <1>1, <1>4, <1>5, <2>2 DEF StreamInv, ChunksInv
      <3>2. /\ Head(inputBuf') = h /\ SubSeq(inputBuf', 1, Len(inputBuf') - 1) = inputBuf
            /\ Len(inputBuf) \in Nat /\ (Len(inputBuf) < 2 => t = <<>>)
        <4> DEFINE Q == Seq(Byte)
        <4>1. inputBuf \in Seq(Q) /\ s \in Q
          BY <1>1, <1>3
        <4> HIDE DEF Q
        <4> QED
          BY <2>2, <4>1
      <3>3. Len(h) >= Joined
        <4>1. CASE Len(inputBuf) >= 2
          BY <1>1, <4>1 DEF StreamInv, ChunksInv
        <4>2. CASE Len(inputBuf) < 2
          <5>1. h \in Seq(Byte) /\ x = h \o FlattenSeq(t)
            BY <1>1, <2>2, FlattenHead
          <5>2. h \o <<>> = h
            BY <5>1
          <5>3. x = h
            BY <3>2, <4>2, <5>1, <5>2, FlattenEmpty
          <5> QED
            BY <1>1, <2>2, <5>3
        <4> QED
          BY <3>2, <4>1, <4>2
      <3> QED
        BY <1>1, <3>1, <3>2, <3>3 DEF ChunksInv, Sum
    <2> QED
      BY <1>6, <2>1, <2>2
  <1>10. WriterInv' /\ ArrivedWhole'
    BY <1>1 DEF StreamInv, WriterInv, ArrivedWhole, Sum, Data, Bytes
  <1>11. StreamTypes'
    BY <1>1, <1>2, <1>3, <1>6, <1>7 DEF StreamTypes
  <1> QED
    BY <1>8, <1>9, <1>10, <1>11 DEF StreamInv

LEMMA StreamWaitsOrRefuses == StreamInv /\ (ReceivesMore \/ Refuse) => StreamInv'
  <1> SUFFICES ASSUME StreamInv, ReceivesMore \/ Refuse PROVE StreamInv'
    OBVIOUS
  <1> DEFINE A == Len(arrived)
  <1>1. /\ UNCHANGED <<sizes, written, buf, len, writing, sender, channel, inputBuf, held, arrived>>
        /\ receiver = "open" /\ parsing' = FALSE /\ held = Sum(inputBuf) /\ sizes \in Seq(Nat)
    BY DEF StreamInv, StreamTypes, ReceivesMore, Refuse, Receiver
  <1>2. /\ held \in Nat
        /\ held > 0 => /\ A + 1 \in 1..Len(sizes) /\ First[1] = <<A + 1, 1>>
                       /\ held >= Header => Len(First) >= Header
    <2>1. FlattenSeq(inputBuf) \in Seq(Byte)
      BY FlattenType DEF StreamInv, StreamTypes
    <2> QED
      BY <1>1, <2>1, NextFrame DEF Sum
  <1>3. Header \in Nat \ {0} /\ (held > 0 => sizes[A + 1] \in Nat /\ Sound /\ Size = sizes[A + 1])
    BY <1>1, <1>2, StreamAssumption DEF Sound, Size
  <1>4. receiver' # "crashed" /\ (receiver' = "open" => ReceivesMore)
    BY <1>1, <1>2, <1>3 DEF ReceivesMore, Refuse, Readable
  <1>5. BytesInv' /\ ArrivedWhole'
    BY <1>1, StaysHere
  <1>6. ChunksInv'
    <2> SUFFICES ASSUME receiver' = "open" PROVE ChunksInv'
      BY DEF ChunksInv
    <2>1. held > 0 => held < Header + sizes[A + 1]
      BY <1>2, <1>3, <1>4 DEF ReceivesMore
    <2> QED
      BY <1>1, <2>1 DEF StreamInv, ChunksInv, Sum
  <1>7. StreamTypes' /\ WriterInv'
    BY <1>1, <1>4 DEF StreamInv, StreamTypes, WriterInv, Sum
  <1> QED
    BY <1>5, <1>6, <1>7 DEF StreamInv

\* A message that is there is in all the chunks, the last one included.
LEMMA SpannedIsAll ==
    ASSUME inputBuf \in Seq(Seq(Byte)), inputBuf # <<>>, NEW total \in Nat \ {0},
           Sum(inputBuf) >= total,
           Len(inputBuf) >= 2 => Sum(SubSeq(inputBuf, 1, Len(inputBuf) - 1)) < total
    PROVE  Spanned(total) = Len(inputBuf) /\ Taken(total) = FlattenSeq(inputBuf)
  <1> DEFINE L == Len(inputBuf)
             Sums(n) == Len(FlattenSeq(SubSeq(inputBuf, 1, n)))
             front == SubSeq(inputBuf, 1, L - 1)
  <1>1. L \in Nat /\ L >= 1 /\ SubSeq(inputBuf, 1, L) = inputBuf /\ SubSeq(inputBuf, 1, 0) = <<>>
    <2> DEFINE Q == Seq(Byte)
    <2>1. inputBuf \in Seq(Q)
      OBVIOUS
    <2> HIDE DEF Q
    <2> QED
      BY <2>1
  <1>2. \A n \in 0..L : Sums(n) \in Nat
    BY FlattenShorter
  <1>3. Sums(L) >= total
    BY <1>1 DEF Sum
  <1>4. Sums(L - 1) < total
    <2>1. CASE L >= 2
      BY <2>1 DEF Sum
    <2>2. CASE L = 1
      <3>1. Sums(0) = 0
        <4>1. Sums(0) = Len(FlattenSeq(<<>>))
          BY <1>1, Zenon
        <4>2. Len(FlattenSeq(<<>>)) = 0
          BY FlattenEmpty
        <4> QED
          BY <4>1, <4>2, Zenon
      <3> QED
        BY <2>2, <3>1
    <2> QED
      BY <1>1, <2>1, <2>2
  <1>5. \A n \in 1..L : n # L => Sums(n) < total
    <2> SUFFICES ASSUME NEW n \in 1..L, n # L PROVE Sums(n) < total
      OBVIOUS
    <2>1. n \in 0..(L - 1) /\ L - 1 \in 0..L /\ L - 1 \in Nat
      <3>1. L \in Nat /\ L >= 1 /\ n \in 1..L /\ n # L
        BY <1>1
      <3> HIDE DEF L
      <3> QED
        BY <3>1
    <2>2. front \in Seq(Seq(Byte)) /\ Len(front) = L - 1 /\ SubSeq(front, 1, n) = SubSeq(inputBuf, 1, n)
      <3> DEFINE Q == Seq(Byte)
      <3>1. inputBuf \in Seq(Q)
        OBVIOUS
      <3> HIDE DEF Q
      <3>2. front \in Seq(Q) /\ Len(front) = L - 1 /\ SubSeq(front, 1, n) = SubSeq(inputBuf, 1, n)
        BY <2>1, <3>1
      <3> QED
        BY <3>2 DEF Q
    <2> HIDE DEF front
    <2>3. Len(FlattenSeq(SubSeq(front, 1, n))) <= Len(FlattenSeq(front))
      BY <2>1, <2>2, FlattenShorter
    <2>4. Sums(n) <= Sums(L - 1)
      BY <2>2, <2>3 DEF front
    <2>5. Sums(n) \in Nat /\ Sums(L - 1) \in Nat
      BY <1>2, <2>1
    <2> QED
      BY <1>4, <2>4, <2>5
  <1>6. Spanned(total) = CHOOSE n \in 1..L : Sums(n) >= total /\ Sums(n - 1) < total
    BY DEF Spanned
  <1>7. \A n \in 1..L : Sums(n) >= total /\ Sums(n - 1) < total <=> n = L
    <2> SUFFICES ASSUME NEW n \in 1..L PROVE Sums(n) >= total /\ Sums(n - 1) < total <=> n = L
      OBVIOUS
    <2>1. n # L => ~(Sums(n) >= total)
      BY <1>2, <1>5
    <2> QED
      BY <1>3, <1>4, <2>1
  <1>8. Spanned(total) = L
    <2> HIDE DEF Sums, L
    <2>1. L \in 1..L
      BY <1>1
    <2> QED
      BY <1>6, <1>7, <2>1
  <1> QED
    BY <1>1, <1>8 DEF Taken

LEMMA StreamReceiveOne == StreamInv /\ ReceiveOne => StreamInv'
  <1> SUFFICES ASSUME StreamInv, ReceiveOne PROVE StreamInv'
    OBVIOUS
  <1> DEFINE A == Len(arrived)
             total == Header + sizes[A + 1]
             b == Bytes(A + 1)
             r == FlattenSeq(Frames(A + 1, written - (A + 1)))
             x == FlattenSeq(inputBuf)
             rest == From(x, total)
             d == SubSeq(x, Header + 1, total)
  <1>1. /\ sizes \in Seq(Nat) /\ written \in 0..Len(sizes) /\ A <= written /\ A \in Nat /\ written \in Nat
        /\ buf \in Seq(Seq(Byte)) /\ inputBuf \in Seq(Seq(Byte)) /\ channel \in Seq(Byte)
        /\ arrived \in Seq(Seq(Byte)) /\ held = Len(x) /\ receiver = "open" /\ receiver' = "open"
        /\ UNCHANGED <<sizes, written, buf, len, writing, sender, channel, parsing>>
        /\ held >= Header /\ parsing
    BY DEF StreamInv, StreamTypes, Sum, ReceiveOne, Receiver
  <1>2. Header \in Nat \ {0}
    BY StreamAssumption
  <1>3. x \in Seq(Byte) /\ held \in Nat /\ held > 0
    BY <1>1, <1>2, FlattenType
  <1>4. /\ A + 1 \in 1..Len(sizes) /\ A + 1 <= written /\ inputBuf # <<>>
        /\ Ahead = b \o r /\ r \in Seq(Byte) /\ First[1] = <<A + 1, 1>>
    BY <1>1, <1>3, NextFrame
  <1>5. b \in Seq(Byte) /\ Len(b) = total /\ sizes[A + 1] \in Nat /\ total \in Nat \ {0} /\ total >= Header
    <2> DEFINE k == A + 1
    <2>1. k \in 1..Len(sizes)
      BY <1>4
    <2> HIDE DEF k
    <2>2. Bytes(k) \in Seq(Byte) /\ Len(Bytes(k)) = Header + sizes[k] /\ sizes[k] \in Nat
      BY <1>1, <2>1, BytesType
    <2> QED
      BY <1>2, <2>2 DEF k
  <1>6. Header + Size = total /\ held >= total
    BY <1>4 DEF ReceiveOne, Size
  <1>7. Spanned(total) = Len(inputBuf) /\ Taken(total) = x
    <2>1. Len(inputBuf) >= 2 => Sum(SubSeq(inputBuf, 1, Len(inputBuf) - 1)) < total
      BY <1>1 DEF StreamInv, ChunksInv
    <2>2. Sum(inputBuf) >= total
      BY <1>1, <1>6 DEF Sum
    <2> QED
      BY <1>1, <1>4, <1>5, <2>1, <2>2, SpannedIsAll
  <1>8. /\ arrived' = Append(arrived, d) /\ held' = held - total
        /\ inputBuf' = <<rest>> \o From(inputBuf, Len(inputBuf))
    BY <1>6, <1>7 DEF ReceiveOne
  <1>9. rest \in Seq(Byte) /\ Len(rest) = held - total /\ total \in 0..Len(x)
    <2>1. total \in 0..Len(x)
      BY <1>1, <1>3, <1>5, <1>6
    <2> HIDE DEF x, total
    <2> QED
      BY <1>1, <1>3, <2>1, CutAndJoin
  <1>10. inputBuf' = <<rest>> /\ inputBuf' \in Seq(Seq(Byte)) /\ Len(inputBuf') = 1
    <2> DEFINE Q == Seq(Byte)
    <2>1. inputBuf \in Seq(Q) /\ rest \in Q
      BY <1>1, <1>9
    <2> HIDE DEF Q, rest
    <2>2. From(inputBuf, Len(inputBuf)) = <<>>
      BY <2>1 DEF From
    <2>3. <<rest>> \o <<>> = <<rest>> /\ <<rest>> \in Seq(Q) /\ Len(<<rest>>) = 1
      BY <2>1
    <2> QED
      BY <1>8, <2>2, <2>3 DEF Q
  <1>11. FlattenSeq(inputBuf') = rest
    BY <1>9, <1>10, FlattenOne
  <1>12. PICK lost \in Seq(Byte) :
              /\ Here \o lost = Ahead
              /\ sender = "open" /\ receiver = "open" => lost = FlattenSeq(buf)
    BY DEF StreamInv, BytesInv
  <1> DEFINE v == channel \o lost
  <1>13. x \o v = b \o r /\ v \in Seq(Byte)
    <2>1. x \o channel \o lost = b \o r
      BY <1>4, <1>12 DEF Here
    <2>2. x \o channel \o lost = x \o (channel \o lost) /\ channel \o lost \in Seq(Byte)
      <3>1. x \in Seq(Byte)
        BY <1>3
      <3>2. channel \in Seq(Byte)
        BY <1>1
      <3> HIDE DEF x
      <3> QED
        BY <3>1, <3>2
    <2> QED
      BY <2>1, <2>2, Zenon
  <1>14. b = SubSeq(x, 1, total) /\ r = rest \o v
    <2> HIDE DEF x, v, b, r, total
    <2>1. Len(b) <= Len(x)
      BY <1>1, <1>5, <1>6
    <2> QED
      BY <1>3, <1>4, <1>5, <1>13, <2>1, SplitEqual
  <1>15. d = Data(A + 1) /\ d \in Seq(Byte)
    <2> HIDE DEF x
    <2>1. SubSeq(SubSeq(x, 1, total), Header + 1, total) = d /\ d \in Seq(Byte)
      <3> DEFINE n == total
      <3>1. n \in 0..Len(x) /\ Header \in Nat /\ Header <= n /\ x \in Seq(Byte)
        BY <1>2, <1>3, <1>5, <1>9
      <3> HIDE DEF n
      <3>2. SubSeq(SubSeq(x, 1, n), Header + 1, n) = SubSeq(x, Header + 1, n) /\ SubSeq(x, Header + 1, n) \in Seq(Byte)
        BY <3>1
      <3> QED
        BY <3>2 DEF n
    <2> QED
      BY <1>14, <2>1 DEF Data
  <1>16. /\ arrived' \in Seq(Seq(Byte)) /\ Len(arrived') = A + 1
         /\ \A m \in 1..A : arrived'[m] = arrived[m]
         /\ arrived'[A + 1] = d
    <2> DEFINE Q == Seq(Byte)
    <2>1. arrived \in Seq(Q) /\ d \in Q
      BY <1>1, <1>15
    <2> HIDE DEF Q, d
    <2>2. /\ arrived' \in Seq(Q) /\ Len(arrived') = A + 1
          /\ \A m \in 1..A : arrived'[m] = arrived[m]
          /\ arrived'[A + 1] = d
      BY <1>8, <2>1
    <2> QED
      BY <2>2 DEF Q
  <1>17. ArrivedWhole'
    <2>1. DOMAIN arrived' = 1..(A + 1) /\ DOMAIN arrived = 1..A
      BY <1>1, <1>16
    <2>2. \A m : Data(m)' = Data(m)
      BY <1>1 DEF Data, Bytes
    <2>3. \A m \in 1..(A + 1) : arrived'[m] = Data(m)
      <3> SUFFICES ASSUME NEW m \in 1..(A + 1) PROVE arrived'[m] = Data(m)
        OBVIOUS
      <3>1. m \in 1..A => arrived[m] = Data(m)
        BY <2>1 DEF StreamInv, ArrivedWhole
      <3>2. m \in 1..A \/ m = A + 1
        <4> HIDE DEF A
        <4> QED
          BY <1>1
      <3> QED
        BY <1>15, <1>16, <3>1, <3>2
    <2> QED
      BY <2>1, <2>2, <2>3 DEF ArrivedWhole
  <1>18. BytesInv'
    <2>1. Here' = rest \o channel
      BY <1>1, <1>11 DEF Here
    <2>2. Ahead' = r
      BY <1>1, <1>16 DEF Ahead, Frames, Bytes
    <2>3. rest \o channel \o lost = rest \o v
      <3>1. rest \in Seq(Byte)
        BY <1>9
      <3>2. channel \in Seq(Byte)
        BY <1>1
      <3> HIDE DEF rest
      <3> QED
        BY <3>1, <3>2
    <2>4. Here' \o lost = Ahead'
      BY <1>14, <2>1, <2>2, <2>3, Zenon
    <2>5. sender' = "open" /\ receiver' = "open" => lost = FlattenSeq(buf')
      BY <1>1, <1>12
    <2> QED
      BY <2>4, <2>5, Zenon DEF BytesInv
  <1>19. WriterInv' /\ ChunksInv'
    BY <1>1, <1>10 DEF StreamInv, WriterInv, ChunksInv, Sum
  <1>20. StreamTypes'
    BY <1>1, <1>4, <1>8, <1>9, <1>10, <1>11, <1>16 DEF StreamTypes, Sum
  <1> QED
    BY <1>17, <1>18, <1>19, <1>20 DEF StreamInv

LEMMA StreamInvKeeps == StreamInv => StreamKeepsMessages
  <1> SUFFICES ASSUME StreamInv PROVE StreamKeepsMessages
    OBVIOUS
  <1> DEFINE A == Len(arrived)
             m == written - A
  <1>1. /\ sizes \in Seq(Nat) /\ written \in 0..Len(sizes) /\ A <= written /\ A \in Nat
        /\ buf \in Seq(Seq(Byte)) /\ inputBuf \in Seq(Seq(Byte)) /\ channel \in Seq(Byte)
        /\ DOMAIN arrived = 1..A /\ receiver # "crashed"
    BY DEF StreamInv, StreamTypes
  <1>2. m \in Nat /\ 0 + A + m <= Len(sizes) /\ A + m = written /\ 0 + A = A
    BY <1>1
  <1>3. sender = "open" /\ receiver = "open" =>
           FlattenSeq([i \in 1..written |-> Bytes(i)]) =
               FlattenSeq([i \in DOMAIN arrived |-> Bytes(i)])
                   \o FlattenSeq(inputBuf) \o channel \o FlattenSeq(buf)
    <2> SUFFICES ASSUME sender = "open", receiver = "open"
                 PROVE  FlattenSeq([i \in 1..written |-> Bytes(i)]) =
                            FlattenSeq([i \in 1..A |-> Bytes(i)])
                                \o FlattenSeq(inputBuf) \o channel \o FlattenSeq(buf)
      BY <1>1
    <2> DEFINE u == FlattenSeq(Frames(0, A))
               x == FlattenSeq(inputBuf)
               f == FlattenSeq(buf)
               y == x \o channel
    <2>1. [i \in 1..written |-> Bytes(i)] = Frames(0, A + m) /\ [i \in 1..A |-> Bytes(i)] = Frames(0, A)
      BY <1>2 DEF Frames
    <2>2. FlattenSeq(Frames(0, A + m)) = u \o Ahead
      <3>1. FlattenSeq(Frames(0, A + m)) = FlattenSeq(Frames(0, A)) \o FlattenSeq(Frames(0 + A, m))
        <4> HIDE DEF A, m
        <4> QED
          BY <1>1, <1>2, FramesSplit
      <3>2. Ahead = FlattenSeq(Frames(0 + A, m))
        BY <1>2 DEF Ahead
      <3> QED
        BY <3>1, <3>2, Zenon
    <2>3. Ahead = y \o f
      BY DEF StreamInv, BytesInv, Here
    <2>4. u \in Seq(Byte)
      <3>1. Frames(0, A) \in Seq(Seq(Byte))
        BY <1>1, <1>2, FramesType
      <3> QED
        BY <3>1, FlattenType
    <2>5. x \in Seq(Byte)
      BY <1>1, FlattenType
    <2>6. f \in Seq(Byte)
      BY <1>1, FlattenType
    <2> HIDE DEF u, x, f
    <2>7. u \o y = u \o x \o channel
      <3>1. channel \in Seq(Byte)
        BY <1>1
      <3> QED
        BY <2>4, <2>5, <3>1
    <2>8. y \in Seq(Byte)
      BY <1>1, <2>5
    <2> HIDE DEF y
    <2>9. u \o (y \o f) = u \o y \o f
      BY SMTT(30), <2>4, <2>6, <2>8
    <2> QED
      BY <2>1, <2>2, <2>3, <2>7, <2>9, Zenon DEF u, x, f
  <1> QED
    BY <1>1, <1>3 DEF StreamInv, WriterInv, ArrivedWhole, StreamKeepsMessages

\* However the bytes are cut up on their way, messages arrive whole, once and in the order
\* they were sent, and no byte is lost while both ends are open: for every room of the pipe,
\* every sequence of sizes and every way to read and write.
THEOREM MessagesAreKept == StreamSpec => []StreamKeepsMessages
  <1>1. StreamInv /\ [StreamNext]_streamVars => StreamInv'
    <2> SUFFICES ASSUME StreamInv, [StreamNext]_streamVars PROVE StreamInv'
      OBVIOUS
    <2>1. CASE UNCHANGED streamVars
      <3>1. BytesInv' /\ ArrivedWhole'
        BY <2>1, StaysHere DEF streamVars
      <3> QED
        BY <2>1, <3>1 DEF streamVars, StreamInv, StreamTypes, WriterInv, ChunksInv, Sum
    <2>2. CASE StreamNext
      BY <2>2, StreamWrite, StreamTransmit, StreamCloses, StreamReceive, StreamReceiveOne,
         StreamWaitsOrRefuses DEF StreamNext
    <2> QED
      BY <2>1, <2>2
  <1> QED
    BY <1>1, StreamStart, StreamInvKeeps, PTL DEF StreamSpec

----------------------------------------------------------------------------
(* Logins.                                                                 *)

Token == {"question", "tail", "nokey", "nl", "prompt", "denied", "refused", "other", "incorrect"}
Unread(x) == Contains(line, x) \/ Contains(tty, x)

LoginTypes ==
    /\ login \in {"ssh", "su", "sudo", "doas"} /\ given \in {"right", "wrong", "none"}
    /\ login # "ssh" => ~unknown /\ ~accept
    /\ tries \in Nat /\ (program # "out" => tries >= 1)
    /\ program \in {"keys", "confirm", "start", "asked", "in", "out"}
    /\ tty \in Seq(Token) /\ line \in Seq(Token) /\ input \in Seq({given, "yes"})
    /\ passwordSent \in BOOLEAN /\ twice \in BOOLEAN
    /\ needs \in BOOLEAN /\ denies \in BOOLEAN /\ unknown \in BOOLEAN /\ accept \in BOOLEAN

\* What was printed, and what was written, tell how it came to it.
TerminalInv ==
    /\ ~Contains(line, "nl")
    /\ Contains(input, given) => passwordSent
    /\ Contains(input, "yes") => unknown /\ accept
    /\ passwordSent => given # "none"
    /\ Unread("prompt") \/ program = "asked" => needs /\ Interactive
    /\ program = "keys" => line = <<>> /\ tty = <<>> /\ input = <<>>
    /\ Unread("prompt") \/ Unread("denied") => program \notin {"keys", "confirm"}
    /\ Unread("denied") => login = "ssh" /\ needs
    /\ Unread("refused") => login = "ssh" /\ (needs \/ denies)
    /\ Unread("incorrect") => login \in {"su", "doas"} /\ (passwordSent \/ denies)
    /\ Unread("nokey") => login = "ssh" /\ unknown /\ ~accept
    /\ Unread("question") \/ program \in {"keys", "confirm"} => unknown
    /\ program = "in" => ~denies /\ (needs => given = "right")

\* ssh takes a "yes" for the password only after it was told so twice.
YesInv ==
    login = "ssh" =>
        /\ ~twice /\ program = "confirm" =>
               \/ input = <<>> /\ line = <<>> /\ tty = <<"question", "tail">>
               \/ ~Contains(tty, "question") /\ Len(input) <= 1
        /\ ~twice /\ program \notin {"keys", "confirm"} =>
               ~Contains(input, "yes") /\ ~Contains(tty, "question")
        /\ (Unread("denied") \/ Unread("refused")) /\ given # "none" /\ ~passwordSent =>
               denies \/ (unknown /\ accept /\ twice)
        /\ Unread("refused") /\ given = "none" => denies \/ needs

\* A right password is refused only after a prompt was answered twice, or to who is turned away.
RightInv ==
    given = "right" /\ ~twice /\ ~denies =>
        /\ ~Unread("denied") /\ ~Unread("refused") /\ ~Unread("incorrect")
        /\ login # "ssh" =>
              /\ program \in {"start", "asked", "in"}
              /\ passwordSent => program \in {"asked", "in"} /\ ~Contains(tty, "prompt")
              /\ ~passwordSent => line = <<>> /\ tty \in {<<>>, <<"prompt", "tail">>}
              /\ program = "start" => tty = <<>>

\* A program that is gone said why in its last line, but for sudo, and but for ssh's others
\* when they turn a user away.
Fatal == IF login = "ssh" THEN {"nokey", "denied", "refused"} ELSE {"incorrect"}
Ends(s) == Len(s) >= 2 /\ s[Len(s)] = "nl" /\ s[Len(s) - 1] \in Fatal
GoneInv ==
    program = "out" /\ outcome = "waiting" =>
        IF login = "sudo" THEN denies \/ (given = "wrong" /\ tries = 0)
        ELSE (login # "ssh" /\ denies) \/ (tty # <<>> /\ Ends(line \o tty))

LoginInv == LoginTypes /\ TerminalInv /\ YesInv /\ RightInv /\ GoneInv /\ LoginIsExplained

----------------------------------------------------------------------------
LEMMA GreatestOfNat ==
    ASSUME NEW N \in Nat, NEW T, T \subseteq 0..N, T # {}
    PROVE  Max(T) \in T /\ \A y \in T : y <= Max(T)
  <1> DEFINE R == {i \in 0..N : N - i \in T}
  <1>1. PICK t \in T : TRUE
    OBVIOUS
  <1>2. R \subseteq Nat /\ N - t \in R
    <2>1. t \in 0..N /\ N - t \in 0..N /\ N - (N - t) = t
      OBVIOUS
    <2> QED
      BY <2>1
  <1>3. PICK x \in R : \A y \in R : x <= y
    <2> HIDE DEF R
    <2> QED
      BY <1>2, LeastOfNat
  <1>4. N - x \in T /\ \A y \in T : N - x >= y
    <2>1. x \in 0..N /\ N - x \in T
      BY <1>3
    <2>2. ASSUME NEW y \in T PROVE N - x >= y
      <3>1. y \in 0..N /\ N - y \in 0..N /\ N - (N - y) = y
        OBVIOUS
      <3>2. N - y \in R
        BY <3>1
      <3>3. x <= N - y
        BY <1>3, <3>2
      <3> QED
        BY <2>1, <3>1, <3>3
    <2> QED
      BY <2>1, <2>2
  <1> HIDE DEF R
  <1>5. Max(T) \in T /\ \A y \in T : Max(T) >= y
    BY <1>4, Zenon DEF Max
  <1>6. \A y \in T : y \in Int
    OBVIOUS
  <1> QED
    BY <1>5, <1>6

LEMMA LeastIsMin ==
    ASSUME NEW T, T \subseteq Nat, T # {}
    PROVE  Min(T) \in T
  <1>1. PICK x \in T : \A y \in T : x <= y
    BY LeastOfNat
  <1> QED
    BY <1>1, Zenon DEF Min

\* A sequence has what its parts have.
LEMMA ContainsConcat ==
    ASSUME NEW S, NEW s \in Seq(S), NEW t \in Seq(S), NEW x
    PROVE  Contains(s \o t, x) <=> Contains(s, x) \/ Contains(t, x)
  <1>1. ASSUME Contains(s \o t, x) PROVE Contains(s, x) \/ Contains(t, x)
    <2>1. PICK i \in 1..Len(s \o t) : (s \o t)[i] = x
      BY <1>1 DEF Contains
    <2>2. CASE i <= Len(s)
      <3>1. i \in 1..Len(s) /\ s[i] = x
        BY <2>1, <2>2
      <3> QED
        BY <3>1 DEF Contains
    <2>3. CASE i > Len(s)
      <3>1. i - Len(s) \in 1..Len(t) /\ t[i - Len(s)] = x
        BY <2>1, <2>3
      <3> QED
        BY <3>1 DEF Contains
    <2> QED
      BY <2>1, <2>2, <2>3
  <1>2. ASSUME NEW i \in 1..Len(s), s[i] = x PROVE Contains(s \o t, x)
    <2>1. i \in 1..Len(s \o t) /\ (s \o t)[i] = x
      BY <1>2
    <2> QED
      BY <2>1 DEF Contains
  <1>3. ASSUME NEW i \in 1..Len(t), t[i] = x PROVE Contains(s \o t, x)
    <2> DEFINE j == Len(s) + i
    <2>1. j \in 1..Len(s \o t) /\ (s \o t)[j] = x
      BY <1>3
    <2> HIDE DEF j
    <2> QED
      BY <2>1 DEF Contains
  <1> QED
    BY <1>1, <1>2, <1>3, Zenon DEF Contains

\* A read of n pieces: what is there with them, its last end of a line, what follows it, and
\* what the terminal still has.
ReadsTo(n, whole, last, rest, more) ==
    /\ whole = line \o SubSeq(tty, 1, n) /\ more = From(tty, n)
    /\ last = Max({0} \cup {k \in DOMAIN whole : whole[k] = "nl"})
    /\ rest = SubSeq(whole, last + 1, Len(whole))

\* What is read of the terminal is in the line or stays, and a line that is not complete has
\* no end.
LEMMA ReadsUnread ==
    ASSUME line \in Seq(Token), tty \in Seq(Token), NEW n \in 1..Len(tty),
           NEW whole, NEW last, NEW rest, NEW more, ReadsTo(n, whole, last, rest, more)
    PROVE  /\ whole \in Seq(Token) /\ rest \in Seq(Token) /\ more \in Seq(Token)
           /\ last \in 0..Len(whole) /\ (last # 0 => whole[last] = "nl")
           /\ ~Contains(rest, "nl")
           /\ line \o tty = whole \o more
           /\ \A k \in 1..Len(whole) : Unread(whole[k])
           /\ \A x : Contains(rest, x) => Contains(line, x) \/ Contains(tty, x)
           /\ \A x : Contains(more, x) => Contains(tty, x)
  <1> DEFINE a == SubSeq(tty, 1, n)
             T == {0} \cup {k \in DOMAIN whole : whole[k] = "nl"}
  <1>1. a \in Seq(Token) /\ more \in Seq(Token) /\ a \o more = tty
    <2>1. n \in 0..Len(tty)
      OBVIOUS
    <2> QED
      BY <2>1, CutAndJoin DEF ReadsTo
  <1>2. whole = line \o a
    BY DEF ReadsTo
  <1> HIDE DEF a
  <1>3. whole \in Seq(Token) /\ Len(whole) \in Nat
    BY <1>1, <1>2
  <1>4. last \in T /\ \A y \in T : y <= last
    <2>1. T \subseteq 0..Len(whole) /\ T # {}
      BY <1>3
    <2>2. last = Max(T)
      BY DEF ReadsTo
    <2> HIDE DEF T
    <2> QED
      BY <1>3, <2>1, <2>2, GreatestOfNat
  <1>5. last \in 0..Len(whole) /\ (last # 0 => whole[last] = "nl")
    BY <1>3, <1>4
  <1>6. rest \in Seq(Token) /\ Len(rest) = Len(whole) - last /\ \A i \in 1..Len(rest) : rest[i] = whole[last + i]
    <2>1. rest = SubSeq(whole, last + 1, Len(whole))
      BY DEF ReadsTo
    <2> QED
      BY <1>3, <1>5, <2>1
  <1>7. ~Contains(rest, "nl")
    <2> SUFFICES ASSUME NEW i \in 1..Len(rest), rest[i] = "nl" PROVE FALSE
      BY DEF Contains
    <2>1. last + i \in DOMAIN whole /\ whole[last + i] = "nl"
      BY <1>3, <1>5, <1>6
    <2>2. last + i <= last
      BY <1>4, <2>1
    <2> QED
      BY <1>5, <2>2
  <1>8. line \o tty = whole \o more
    <2>1. line \o a \o more = line \o (a \o more)
      <3>1. a \in Seq(Token)
        BY <1>1
      <3>2. more \in Seq(Token)
        BY <1>1
      <3> QED
        BY SMTT(30), <3>1, <3>2
    <2> QED
      BY <1>1, <1>2, <2>1
  <1>9. \A x : Contains(more, x) => Contains(tty, x)
    BY <1>1, ContainsConcat
  <1>10. \A x : Contains(whole, x) => Contains(line, x) \/ Contains(tty, x)
    <2> SUFFICES ASSUME NEW x, Contains(whole, x) PROVE Contains(line, x) \/ Contains(tty, x)
      OBVIOUS
    <2>1. Contains(line, x) \/ Contains(a, x)
      BY <1>1, <1>2, ContainsConcat
    <2>2. Contains(a, x) => Contains(tty, x)
      BY <1>1, ContainsConcat
    <2> QED
      BY <2>1, <2>2
  <1>11. \A k \in 1..Len(whole) : Unread(whole[k])
    BY <1>10 DEF Unread, Contains
  <1>12. \A x : Contains(rest, x) => Contains(whole, x)
    <2> SUFFICES ASSUME NEW x, NEW i \in 1..Len(rest), rest[i] = x PROVE Contains(whole, x)
      BY DEF Contains
    <2> DEFINE j == last + i
    <2>1. j \in 1..Len(whole) /\ whole[j] = x
      BY <1>3, <1>5, <1>6
    <2> HIDE DEF j
    <2> QED
      BY <2>1 DEF Contains
  <1> QED
    BY <1>1, <1>3, <1>5, <1>6, <1>7, <1>8, <1>9, <1>10, <1>11, <1>12

LEMMA ContainsSome ==
    ASSUME NEW a, NEW b, NEW c
    PROVE  /\ \A x : ~Contains(<<>>, x) /\ (Contains(<<a>>, x) <=> x = a)
           /\ \A x : Contains(<<a, b>>, x) <=> x = a \/ x = b
           /\ \A x : Contains(<<a, b, c>>, x) <=> x = a \/ x = b \/ x = c
  BY DEF Contains

LEMMA ContainsHead ==
    ASSUME NEW S, NEW s \in Seq(S), s # <<>>
    PROVE  /\ Tail(s) \in Seq(S) /\ Len(Tail(s)) = Len(s) - 1 /\ Head(s) \in S /\ Contains(s, Head(s))
           /\ Len(s) <= 1 => Tail(s) = <<>>
           /\ \A x : Contains(Tail(s), x) => Contains(s, x)
  <1>1. Tail(s) \in Seq(S) /\ Len(Tail(s)) = Len(s) - 1 /\ Head(s) \in S /\ 1 \in 1..Len(s) /\ s[1] = Head(s)
    OBVIOUS
  <1>2. Contains(s, Head(s))
    BY <1>1, Zenon DEF Contains
  <1>3. \A x : Contains(Tail(s), x) => Contains(s, x)
    <2> SUFFICES ASSUME NEW x, NEW i \in 1..Len(Tail(s)), Tail(s)[i] = x PROVE Contains(s, x)
      BY DEF Contains
    <2> DEFINE j == i + 1
    <2>1. j \in 1..Len(s) /\ s[j] = x
      BY <1>1
    <2> HIDE DEF j
    <2> QED
      BY <2>1 DEF Contains
  <1>4. Len(s) <= 1 => Tail(s) = <<>>
    BY <1>1
  <1> QED
    BY <1>1, <1>2, <1>3, <1>4

\* What is printed last comes last.
LEMMA PrintedLast ==
    ASSUME line \in Seq(Token), tty \in Seq(Token), NEW s \in Seq(Token), Ends(s)
    PROVE  Ends(line \o (tty \o s)) /\ tty \o s # <<>>
  <1> DEFINE t == line \o tty
  <1>1. line \o (tty \o s) = t \o s /\ t \in Seq(Token)
    OBVIOUS
  <1> HIDE DEF t
  <1>2. Ends(t \o s)
    BY <1>1 DEF Ends
  <1>3. Len(tty \o s) = Len(tty) + Len(s) /\ Len(s) >= 2 /\ Len(tty) \in Nat
    BY DEF Ends
  <1>4. Len(<<>>) = 0
    OBVIOUS
  <1> QED
    BY <1>1, <1>2, <1>3, <1>4

LEMMA LoginStart == LoginInit => LoginInv
  <1> SUFFICES ASSUME LoginInit PROVE LoginInv
    OBVIOUS
  <1>1. LoginTypes
    <2>1. tries \in Nat /\ tries >= 1
      BY LoginAssumption DEF LoginInit
    <2>2. <<>> \in Seq(Token) /\ <<>> \in Seq({given, "yes"})
      OBVIOUS
    <2> QED
      BY <2>1, <2>2 DEF LoginInit, LoginTypes
  <1>2. \A x : ~Contains(<<>>, x)
    BY ContainsSome
  <1>3. TerminalInv /\ YesInv /\ RightInv /\ GoneInv
    BY <1>2 DEF LoginInit, TerminalInv, YesInv, RightInv, GoneInv, Unread
  <1>4. LoginIsExplained
    BY DEF LoginInit, LoginIsExplained
  <1> QED
    BY <1>1, <1>3, <1>4 DEF LoginInv

LEMMA LoginKeys == LoginInv /\ Keys => LoginInv'
  <1> SUFFICES ASSUME LoginInv, Keys PROVE LoginInv'
    OBVIOUS
  <1>1. /\ UNCHANGED <<login, given, needs, denies, unknown, accept, line, passwordSent, twice, outcome, tries, input>>
        /\ program = "keys" /\ outcome = "waiting"
    BY DEF Keys, Program, chosen
  <1>2. unknown /\ login = "ssh" /\ line = <<>> /\ tty = <<>> /\ input = <<>>
    BY <1>1 DEF LoginInv, LoginTypes, TerminalInv
  <1>3. \A s \in Seq(Token) : <<>> \o s = s
    OBVIOUS
  <1>4. \A x : ~Contains(<<>>, x)
    BY ContainsSome
  <1>5. LoginTypes /\ TerminalInv
    BY DEF LoginInv
  <1>6. \/ Interactive /\ tty' = <<"question", "tail">> /\ program' = "confirm"
        \/ ~accept /\ tty' = <<"nokey", "nl">> /\ program' = "out"
    <2>1. <<"question", "tail">> \in Seq(Token) /\ <<"nokey", "nl">> \in Seq(Token)
      BY DEF Token
    <2>2. <<>> \o <<"question", "tail">> = <<"question", "tail">> /\ <<>> \o <<"nokey", "nl">> = <<"nokey", "nl">>
      BY <1>3, <2>1
    <2> QED
      BY <1>2, <2>2 DEF Keys, Prints
  <1>7. tty' \in Seq(Token)
    <2>1. <<"question", "tail">> \in Seq(Token) /\ <<"nokey", "nl">> \in Seq(Token)
      BY DEF Token
    <2> QED
      BY <1>6, <2>1, Zenon
  <1>8. LoginTypes'
    BY <1>1, <1>5, <1>6, <1>7 DEF LoginTypes
  <1>9. LoginIsExplained'
    BY <1>1 DEF LoginInv, LoginIsExplained
  <1>10. CASE program' = "confirm"
    <2>1. tty' = <<"question", "tail">>
      BY <1>6, <1>10
    <2>2. \A x : Contains(tty', x) <=> x = "question" \/ x = "tail"
      <3>1. \A x : Contains(<<"question", "tail">>, x) <=> x = "question" \/ x = "tail"
        BY DEF Contains
      <3> QED
        BY <2>1, <3>1, Zenon
    <2>3. TerminalInv'
      BY <1>1, <1>2, <1>4, <1>5, <1>10, <2>2 DEF TerminalInv, LoginTypes, Unread, Interactive
    <2>4. YesInv' /\ RightInv' /\ GoneInv'
      BY <1>1, <1>2, <1>4, <1>5, <1>10, <2>1, <2>2 DEF LoginTypes, YesInv, RightInv, GoneInv, Unread
    <2> QED
      BY <1>8, <1>9, <2>3, <2>4 DEF LoginInv
  <1>11. CASE program' = "out"
    <2>1. tty' = <<"nokey", "nl">> /\ ~accept
      BY <1>6, <1>11
    <2>2. \A x : Contains(tty', x) <=> x = "nokey" \/ x = "nl"
      <3>1. \A x : Contains(<<"nokey", "nl">>, x) <=> x = "nokey" \/ x = "nl"
        BY DEF Contains
      <3> QED
        BY <2>1, <3>1, Zenon
    <2>3. TerminalInv'
      BY <1>1, <1>2, <1>4, <1>5, <1>11, <2>1, <2>2 DEF TerminalInv, LoginTypes, Unread, Interactive
    <2>4. YesInv' /\ RightInv'
      BY <1>1, <1>2, <1>4, <1>5, <1>11, <2>2 DEF LoginTypes, YesInv, RightInv, Unread
    <2>5. GoneInv'
      <3>1. line' \o tty' = <<"nokey", "nl">>
        <4>1. <<"nokey", "nl">> \in Seq(Token)
          BY DEF Token
        <4> QED
          BY <1>1, <1>2, <1>3, <2>1, <4>1
      <3>2. Ends(line \o tty)'
        <4>1. Len(<<"nokey", "nl">>) = 2 /\ <<"nokey", "nl">>[2] = "nl" /\ <<"nokey", "nl">>[2 - 1] = "nokey"
          OBVIOUS
        <4>2. login' = "ssh"
          BY <1>1, <1>2
        <4>3. Ends(<<"nokey", "nl">>)'
          BY <4>1, <4>2 DEF Ends, Fatal
        <4> QED
          BY <3>1, <4>3, Zenon DEF Ends
      <3> QED
        BY <1>1, <1>2, <2>1, <3>2 DEF GoneInv
    <2> QED
      BY <1>8, <1>9, <2>3, <2>4, <2>5 DEF LoginInv
  <1> QED
    BY <1>6, <1>10, <1>11

LEMMA Printed ==
    ASSUME tty \in Seq(Token), NEW s \in Seq(Token), tty' = tty \o s
    PROVE  tty' \in Seq(Token) /\ \A x : Contains(tty', x) <=> Contains(tty, x) \/ Contains(s, x)
  <1>1. tty \o s \in Seq(Token)
    OBVIOUS
  <1>2. \A x : Contains(tty \o s, x) <=> Contains(tty, x) \/ Contains(s, x)
    BY ContainsConcat
  <1> QED
    BY <1>1, <1>2

LEMMA LoginConfirm == LoginInv /\ Confirm => LoginInv'
  <1> SUFFICES ASSUME LoginInv, Confirm PROVE LoginInv'
    OBVIOUS
  <1>1. /\ UNCHANGED <<login, given, needs, denies, unknown, accept, line, passwordSent, twice, outcome, tries>>
        /\ program = "confirm" /\ program' = "start" /\ input # <<>> /\ input' = Tail(input)
        /\ tty' = tty \o <<"nl">>
    BY DEF Confirm, Program, Prints, chosen
  <1>2. LoginTypes /\ TerminalInv /\ YesInv /\ RightInv
    BY DEF LoginInv
  <1>3. login = "ssh" /\ unknown
    BY <1>1, <1>2 DEF LoginTypes, TerminalInv
  <1>4. /\ tty' \in Seq(Token)
        /\ \A x : Contains(tty', x) <=> Contains(tty, x) \/ x = "nl"
    <2>1. <<"nl">> \in Seq(Token) /\ \A x : Contains(<<"nl">>, x) <=> x = "nl"
      BY DEF Token, Contains
    <2>2. tty \in Seq(Token)
      BY <1>2 DEF LoginTypes
    <2> QED
      BY <1>1, <2>1, <2>2, Printed
  <1>5. /\ input' \in Seq({given, "yes"}) /\ (Len(input) <= 1 => input' = <<>>)
        /\ \A x : Contains(input', x) => Contains(input, x)
    BY <1>1, <1>2, ContainsHead DEF LoginTypes
  <1>6. \A x : ~Contains(<<>>, x)
    BY ContainsSome
  <1>7. LoginTypes'
    BY <1>1, <1>2, <1>4, <1>5 DEF LoginTypes
  <1>8. TerminalInv'
    BY <1>1, <1>2, <1>3, <1>4, <1>5 DEF LoginTypes, TerminalInv, Unread, Interactive
  <1>9. YesInv'
    BY <1>1, <1>2, <1>3, <1>4, <1>5, <1>6 DEF LoginTypes, YesInv, Unread
  <1>10. RightInv' /\ GoneInv'
    BY <1>1, <1>2, <1>3, <1>4 DEF LoginTypes, RightInv, GoneInv, Unread
  <1>11. LoginIsExplained'
    BY <1>1 DEF LoginInv, LoginIsExplained
  <1> QED
    BY <1>7, <1>8, <1>9, <1>10, <1>11 DEF LoginInv

LEMMA LoginLetIn == LoginInv /\ LetIn => LoginInv'
  <1> SUFFICES ASSUME LoginInv, LetIn PROVE LoginInv'
    OBVIOUS
  <1>1. /\ UNCHANGED <<login, given, needs, denies, unknown, accept, tty, line, input, passwordSent, twice, outcome, tries>>
        /\ program = "start" /\ program' = "in" /\ outcome = "waiting" /\ ~needs /\ ~denies
    BY DEF LetIn, Program, chosen
  <1>2. LoginTypes /\ TerminalInv /\ YesInv /\ RightInv
    BY DEF LoginInv
  <1>3. LoginIsExplained'
    BY <1>1 DEF LoginInv, LoginIsExplained
  <1>4. LoginTypes' /\ TerminalInv'
    BY <1>1, <1>2 DEF LoginTypes, TerminalInv, Unread, Interactive
  <1>5. YesInv' /\ RightInv' /\ GoneInv'
    BY <1>1, <1>2 DEF LoginTypes, YesInv, RightInv, GoneInv, Unread
  <1> QED
    BY <1>3, <1>4, <1>5 DEF LoginInv

LEMMA LoginAsk == LoginInv /\ AskPassword => LoginInv'
  <1> SUFFICES ASSUME LoginInv, AskPassword PROVE LoginInv'
    OBVIOUS
  <1>1. /\ UNCHANGED <<login, given, needs, denies, unknown, accept, line, passwordSent, twice, outcome, tries>>
        /\ program = "start" /\ outcome = "waiting"
        /\ needs /\ Interactive /\ tty' = tty \o <<"prompt", "tail">> /\ program' = "asked" /\ input' = <<>>
    BY DEF AskPassword, Program, Prints, chosen
  <1>2. LoginTypes /\ TerminalInv /\ YesInv /\ RightInv
    BY DEF LoginInv
  <1>3. LoginIsExplained'
    BY <1>1 DEF LoginInv, LoginIsExplained
  <1>4. tty \in Seq(Token)
    BY <1>2 DEF LoginTypes
  <1>5. /\ <<"prompt", "tail">> \in Seq(Token)
        /\ \A x : Contains(<<"prompt", "tail">>, x) <=> x = "prompt" \/ x = "tail"
    BY DEF Token, Contains
  <1>6. tty' \in Seq(Token) /\ \A x : Contains(tty', x) <=> Contains(tty, x) \/ x = "prompt" \/ x = "tail"
    BY <1>1, <1>4, <1>5, Printed
  <1>7. \A x : ~Contains(<<>>, x)
    BY ContainsSome
  <1>8. LoginTypes'
    BY <1>1, <1>2, <1>6 DEF LoginTypes
  <1>9. TerminalInv'
    BY <1>1, <1>2, <1>6, <1>7 DEF LoginTypes, TerminalInv, Unread, Interactive
  <1>10. YesInv' /\ GoneInv'
    BY <1>1, <1>2, <1>6, <1>7 DEF LoginTypes, YesInv, GoneInv, Unread
  <1>11. RightInv'
    <2>1. <<>> \o <<"prompt", "tail">> = <<"prompt", "tail">>
      BY <1>5
    <2> QED
      BY <1>1, <1>2, <1>6, <2>1 DEF LoginTypes, RightInv, Unread
  <1> QED
    BY <1>3, <1>8, <1>9, <1>10, <1>11 DEF LoginInv

\* What a program prints when it refuses.
LEMMA RefusalTokens ==
    ASSUME LoginTypes, NEW x \in Refusals
    PROVE  /\ x \in Token /\ x \in {"denied", "refused", "other", "incorrect"}
           /\ x = "denied" => login = "ssh" /\ needs
           /\ x = "refused" => login = "ssh"
           /\ x = "incorrect" => login \in {"su", "doas"}
           /\ login = "ssh" => x \in {"denied", "refused"}
  BY DEF Refusals, Token, LoginTypes

LEMMA LoginTurnAway == LoginInv /\ TurnAway => LoginInv'
  <1> SUFFICES ASSUME LoginInv, TurnAway PROVE LoginInv'
    OBVIOUS
  <1>1. /\ UNCHANGED <<login, given, needs, denies, unknown, accept, line, passwordSent, twice, outcome, tries, input>>
        /\ program = "start" /\ program' = "out" /\ outcome = "waiting"
        /\ denies \/ (needs /\ ~Interactive)
    BY DEF TurnAway, Program, chosen
  <1>2. PICK w \in Refusals : tty' = tty \o <<w, "nl">>
    BY DEF TurnAway, Prints
  <1>3. LoginTypes /\ TerminalInv /\ YesInv /\ RightInv
    BY DEF LoginInv
  <1>4. LoginIsExplained'
    BY <1>1 DEF LoginInv, LoginIsExplained
  <1>5. tty \in Seq(Token) /\ line \in Seq(Token)
    BY <1>3 DEF LoginTypes
  <1>6. /\ w \in Token /\ w \in {"denied", "refused", "other", "incorrect"}
        /\ w = "denied" => login = "ssh" /\ needs
        /\ w = "refused" => login = "ssh"
        /\ w = "incorrect" => login \in {"su", "doas"}
        /\ login = "ssh" => w \in {"denied", "refused"}
    BY <1>3, RefusalTokens
  <1> DEFINE s == <<w, "nl">>
  <1>7. s \in Seq(Token) /\ \A x : Contains(s, x) <=> x = w \/ x = "nl"
    BY <1>6 DEF Token, Contains
  <1>8. tty' \in Seq(Token) /\ \A x : Contains(tty', x) <=> Contains(tty, x) \/ x = w \/ x = "nl"
    BY <1>2, <1>5, <1>7, Printed
  <1>9. ~denies => login = "ssh" /\ needs /\ given = "none" /\ ~accept
    BY <1>1, <1>3 DEF LoginTypes, Interactive
  <1>10. LoginTypes'
    BY <1>1, <1>3, <1>8 DEF LoginTypes
  <1>11. TerminalInv'
    BY <1>1, <1>3, <1>6, <1>8, <1>9 DEF LoginTypes, TerminalInv, Unread, Interactive
  <1>12. YesInv' /\ RightInv'
    BY <1>1, <1>3, <1>6, <1>8, <1>9 DEF LoginTypes, YesInv, RightInv, Unread
  <1>13. GoneInv'
    <2>1. CASE login = "ssh"
      <3>1. Ends(s)
        BY <1>6, <2>1 DEF Ends, Fatal
      <3> HIDE DEF s
      <3>2. Ends(line \o (tty \o s)) /\ tty \o s # <<>>
        BY <1>5, <1>7, <3>1, PrintedLast
      <3>3. tty' = tty \o s
        BY <1>2 DEF s
      <3>4. Ends(line \o tty)' /\ tty' # <<>>
        BY <1>1, <3>2, <3>3 DEF Ends, Fatal
      <3> QED
        BY <1>1, <2>1, <3>4 DEF GoneInv
    <2>2. CASE login # "ssh"
      BY <1>1, <1>9, <2>2 DEF GoneInv
    <2> QED
      BY <2>1, <2>2
  <1> QED
    BY <1>4, <1>10, <1>11, <1>12, <1>13 DEF LoginInv

LEMMA LoginEnter == LoginInv /\ Enter => LoginInv'
  <1> SUFFICES ASSUME LoginInv, Enter PROVE LoginInv'
    OBVIOUS
  <1>1. /\ UNCHANGED <<login, given, needs, denies, unknown, accept, line, passwordSent, twice, outcome, tries>>
        /\ program = "asked" /\ program' = "in" /\ input # <<>> /\ Head(input) = "right" /\ ~denies
        /\ tty' = tty \o <<"nl">> /\ input' = Tail(input)
    BY DEF Enter, Program, Prints, chosen
  <1>2. LoginTypes /\ TerminalInv /\ YesInv /\ RightInv
    BY DEF LoginInv
  <1>3. /\ tty' \in Seq(Token)
        /\ \A x : Contains(tty', x) <=> Contains(tty, x) \/ x = "nl"
    <2>1. <<"nl">> \in Seq(Token) /\ \A x : Contains(<<"nl">>, x) <=> x = "nl"
      BY DEF Token, Contains
    <2>2. tty \in Seq(Token)
      BY <1>2 DEF LoginTypes
    <2> QED
      BY <1>1, <2>1, <2>2, Printed
  <1>4. /\ input' \in Seq({given, "yes"}) /\ Head(input) \in {given, "yes"} /\ Contains(input, Head(input))
        /\ \A x : Contains(input', x) => Contains(input, x)
    BY <1>1, <1>2, ContainsHead DEF LoginTypes
  <1>5. given = "right" /\ passwordSent
    BY <1>1, <1>2, <1>4 DEF TerminalInv
  <1>6. LoginTypes'
    BY <1>1, <1>2, <1>3, <1>4 DEF LoginTypes
  <1>7. TerminalInv'
    BY <1>1, <1>2, <1>3, <1>4, <1>5 DEF LoginTypes, TerminalInv, Unread, Interactive
  <1>8. YesInv' /\ RightInv' /\ GoneInv'
    BY <1>1, <1>2, <1>3, <1>4, <1>5 DEF LoginTypes, YesInv, RightInv, GoneInv, Unread
  <1>9. LoginIsExplained'
    BY <1>1 DEF LoginInv, LoginIsExplained
  <1> QED
    BY <1>6, <1>7, <1>8, <1>9 DEF LoginInv

LEMMA LoginReject == LoginInv /\ Reject => LoginInv'
  <1> SUFFICES ASSUME LoginInv, Reject PROVE LoginInv'
    OBVIOUS
  <1>0. PICK why \in Refusals :
            /\ login \in {"su", "doas"} /\ ~denies => why = "incorrect"
            /\ tty' = tty \o <<"nl", why, "nl">>
    BY DEF Reject, Prints
  <1> DEFINE s == <<"nl", why, "nl">>
  <1>1. /\ UNCHANGED <<login, given, needs, denies, unknown, accept, line, passwordSent, twice, outcome>>
        /\ program = "asked" /\ input # <<>> /\ (Head(input) # "right" \/ denies) /\ outcome = "waiting"
        /\ input' = Tail(input) /\ tries' = tries - 1
        /\ program' = IF AsksAgain THEN "start" ELSE "out"
    BY DEF Reject, Program, chosen
  <1>2. LoginTypes /\ TerminalInv /\ YesInv /\ RightInv
    BY DEF LoginInv
  <1>3. tty' = tty \o s
    BY <1>0
  <1>4. why \in Token /\ s \in Seq(Token)
    <2>1. why \in Token
      BY <1>2, RefusalTokens
    <2> QED
      BY <2>1 DEF Token
  <1>5. /\ why \in {"denied", "refused", "other", "incorrect"}
        /\ why = "denied" => login = "ssh" /\ needs
        /\ why = "refused" => login = "ssh"
        /\ why = "incorrect" => login \in {"su", "doas"}
        /\ login = "ssh" => why \in {"denied", "refused"}
        /\ login \in {"su", "doas"} /\ ~denies => why = "incorrect"
    BY <1>0, <1>2, RefusalTokens
  <1>6. tty' \in Seq(Token) /\ \A x : Contains(tty', x) <=> Contains(tty, x) \/ x = "nl" \/ x = why
    <2>1. \A x : Contains(s, x) <=> x = "nl" \/ x = why
      BY DEF Contains
    <2>2. tty \in Seq(Token)
      BY <1>2 DEF LoginTypes
    <2> HIDE DEF s
    <2> QED
      BY <1>3, <1>4, <2>1, <2>2, Printed
  <1>7. /\ input' \in Seq({given, "yes"}) /\ Head(input) \in {given, "yes"} /\ Contains(input, Head(input))
        /\ \A x : Contains(input', x) => Contains(input, x)
    BY <1>1, <1>2, ContainsHead DEF LoginTypes
  <1> HIDE DEF s
  <1>8. /\ needs
        /\ given # "right" \/ (login = "ssh" /\ twice) \/ denies
        /\ login # "ssh" => passwordSent /\ given # "none" /\ (denies \/ given = "wrong")
        /\ ~passwordSent => login = "ssh" /\ unknown /\ accept /\ twice
    BY <1>1, <1>2, <1>7 DEF LoginTypes, TerminalInv, YesInv
  <1>9. tries \in Nat /\ tries >= 1
    BY <1>1, <1>2 DEF LoginTypes
  <1>10. LoginTypes'
    BY <1>1, <1>2, <1>6, <1>7, <1>9 DEF LoginTypes, AsksAgain
  <1>11. TerminalInv'
    BY <1>1, <1>2, <1>5, <1>6, <1>7, <1>8 DEF LoginTypes, TerminalInv, Unread, Interactive
  <1>12. YesInv'
    BY <1>1, <1>2, <1>5, <1>6, <1>7, <1>8 DEF LoginTypes, YesInv, Unread
  <1>13. RightInv'
    BY <1>1, <1>2, <1>8 DEF LoginTypes, RightInv
  <1>14. GoneInv'
    <2>1. CASE login = "sudo"
      <3>1. ~denies => (AsksAgain <=> tries > 1)
        BY <1>1, <2>1 DEF AsksAgain
      <3> QED
        BY <1>1, <1>8, <1>9, <2>1, <3>1 DEF GoneInv
    <2>2. CASE login # "sudo" /\ (login # "ssh" => ~denies)
      <3>1. why \in Fatal
        BY <1>2, <1>5, <2>2 DEF Fatal, LoginTypes
      <3>2. Ends(s)
        BY <3>1 DEF Ends, s
      <3>3. line \in Seq(Token) /\ tty \in Seq(Token)
        BY <1>2 DEF LoginTypes
      <3>4. Ends(line \o (tty \o s)) /\ tty \o s # <<>>
        BY <1>4, <3>2, <3>3, PrintedLast
      <3>5. Ends(line \o tty)' /\ tty' # <<>>
        BY <1>1, <1>3, <3>4 DEF Ends, Fatal
      <3> QED
        BY <1>1, <2>2, <3>5 DEF GoneInv
    <2>3. CASE login \notin {"sudo", "ssh"} /\ denies
      BY <1>1, <2>3 DEF GoneInv
    <2> QED
      BY <2>1, <2>2, <2>3
  <1>15. LoginIsExplained'
    BY <1>1 DEF LoginInv, LoginIsExplained
  <1> QED
    BY <1>10, <1>11, <1>12, <1>13, <1>14, <1>15 DEF LoginInv

\* What a read leaves, when what it makes of the connection is left aside.
LEMMA ReadsLess ==
    ASSUME LoginInv, NEW n \in 1..Len(tty),
           NEW whole, NEW last, NEW rest, NEW more, ReadsTo(n, whole, last, rest, more),
           line' = rest, tty' = more,
           UNCHANGED <<login, given, needs, denies, unknown, accept, tries, program>>
    PROVE  /\ line' \in Seq(Token) /\ tty' \in Seq(Token) /\ ~Contains(line', "nl")
           /\ \A x : Unread(x)' => Unread(x)
           /\ \A x : Contains(tty', x) => Contains(tty, x)
           /\ program # "keys"
  <1>1. line \in Seq(Token) /\ tty \in Seq(Token) /\ (program = "keys" => tty = <<>>)
    BY DEF LoginInv, LoginTypes, TerminalInv
  <1>2. /\ rest \in Seq(Token) /\ more \in Seq(Token) /\ ~Contains(rest, "nl")
        /\ \A x : Contains(rest, x) => Contains(line, x) \/ Contains(tty, x)
        /\ \A x : Contains(more, x) => Contains(tty, x)
    BY <1>1, ReadsUnread
  <1>3. tty # <<>>
    BY <1>1
  <1> QED
    BY <1>1, <1>2, <1>3 DEF Unread, LoginInv, TerminalInv

\* A whole line that says why the program is gone is not read over.
LEMMA LastLineIsKept ==
    ASSUME line \in Seq(Token), tty \in Seq(Token), ~Contains(line, "nl"), Ends(line \o tty),
           NEW n \in 1..Len(tty),
           NEW whole, NEW last, NEW rest, NEW more, ReadsTo(n, whole, last, rest, more),
           \A k \in 1..last : whole[k] \notin Fatal
    PROVE  more # <<>> /\ Ends(rest \o more)
  <1> DEFINE p == line \o tty
             L == Len(p)
  <1>1. /\ whole \in Seq(Token) /\ rest \in Seq(Token) /\ more \in Seq(Token)
        /\ last \in 0..Len(whole) /\ (last # 0 => whole[last] = "nl")
        /\ ~Contains(rest, "nl") /\ p = whole \o more
    BY ReadsUnread
  <1>2. rest = SubSeq(whole, last + 1, Len(whole))
    BY DEF ReadsTo
  <1>3. L >= 2 /\ p[L] = "nl" /\ p[L - 1] \in Fatal /\ L \in Nat
    BY DEF Ends
  <1> DEFINE W == Len(whole)
             M == Len(more)
  <1>4. L = W + M /\ W \in Nat /\ M \in Nat
    <2> HIDE DEF p
    <2> QED
      BY <1>1
  <1>5. \A k \in 1..W : p[k] = whole[k]
    <2> HIDE DEF p
    <2> QED
      BY <1>1
  <1>6. \A k \in 1..M : p[W + k] = more[k]
    <2> HIDE DEF p
    <2>1. \A k \in 1..Len(more) : (whole \o more)[Len(whole) + k] = more[k]
      BY <1>1, ConcatAt
    <2> QED
      BY <1>1, <2>1
  <1>7. /\ Len(rest) = W - last
        /\ \A i \in 1..Len(rest) : rest[i] = whole[last + i]
    <2> HIDE DEF p
    <2> QED
      BY <1>1, <1>2
  <1> HIDE DEF p, L, W, M
  <1>8. M # 0
    <2> SUFFICES ASSUME M = 0 PROVE FALSE
      OBVIOUS
    <2>1. L = W /\ whole[L] = "nl" /\ whole[L - 1] \in Fatal
      BY <1>3, <1>4, <1>5
    <2>2. last = L
      <3> SUFFICES ASSUME last # L PROVE FALSE
        OBVIOUS
      <3> DEFINE i == L - last
      <3>1. i \in 1..Len(rest) /\ last + i = L
        BY <1>1, <1>3, <1>4, <1>7, <2>1 DEF W
      <3> HIDE DEF i
      <3>2. rest[i] = "nl"
        BY <1>7, <2>1, <3>1
      <3> QED
        BY <1>1, <3>1, <3>2 DEF Contains
    <2>3. L - 1 \in 1..last
      BY <1>3, <2>2
    <2> QED
      BY <2>1, <2>3
  <1>9. last <= L - 2
    <2>1. last <= W /\ last \in Nat
      BY <1>1 DEF W
    <2>2. last # L - 1
      <3> SUFFICES ASSUME last = L - 1 PROVE FALSE
        OBVIOUS
      <3>1. last \in 1..W /\ last \in 1..last
        BY <1>3, <2>1
      <3>2. whole[last] = p[L - 1]
        BY <1>5, <3>1
      <3> QED
        BY <1>3, <3>1, <3>2
    <2> QED
      BY <1>3, <1>4, <1>8, <2>1, <2>2
  <1> DEFINE q == rest \o more
  <1>10. Len(q) = L - last /\ q \in Seq(Token)
    <2>1. Len(q) = Len(rest) + M /\ q \in Seq(Token)
      BY <1>1 DEF M
    <2> HIDE DEF q
    <2> QED
      BY <1>1, <1>3, <1>4, <1>7, <2>1 DEF W
  <1>11. \A i \in 1..(L - last) : q[i] = p[last + i]
    <2> SUFFICES ASSUME NEW i \in 1..(L - last) PROVE q[i] = p[last + i]
      OBVIOUS
    <2>1. Len(rest) \in Nat /\ last \in Nat /\ i \in Nat /\ i >= 1
      BY <1>1, <1>3
    <2>2. CASE i <= Len(rest)
      <3>1. i \in 1..Len(rest) /\ last + i \in 1..W
        BY <1>7, <1>4, <2>1, <2>2
      <3>2. q[i] = rest[i]
        BY <1>1, <3>1
      <3> QED
        BY <1>5, <1>7, <3>1, <3>2
    <2>3. CASE i > Len(rest)
      <3> DEFINE j == i - Len(rest)
      <3>1. j \in 1..M /\ W + j = last + i /\ Len(rest) + j = i
        BY <1>3, <1>4, <1>7, <2>1, <2>3
      <3> HIDE DEF j
      <3>2. q[Len(rest) + j] = more[j]
        BY <1>1, <3>1, ConcatAt DEF M
      <3>3. p[W + j] = more[j]
        BY <1>6, <3>1
      <3> QED
        BY <3>1, <3>2, <3>3
    <2>4. i <= Len(rest) \/ i > Len(rest)
      BY <2>1
    <2> QED
      BY <2>2, <2>3, <2>4, Zenon
  <1>12. /\ L - last \in 1..(L - last) /\ L - last - 1 \in 1..(L - last) /\ L - last >= 2
         /\ last + (L - last) = L /\ last + (L - last - 1) = L - 1
    BY <1>1, <1>3, <1>9
  <1> HIDE DEF q
  <1>13. q[L - last] = "nl" /\ q[L - last - 1] \in Fatal
    BY <1>3, <1>11, <1>12
  <1>14. more # <<>>
    BY <1>8 DEF M
  <1> QED
    BY <1>10, <1>12, <1>13, <1>14 DEF Ends, q

\* The first pieces of a question: it is looked at before its line has ended.
LEMMA FirstPiece ==
    ASSUME line = <<>>, NEW a \in Token \ {"nl", "tail"}, tty = <<a, "tail">>, NEW n \in 1..Len(tty),
           NEW whole, NEW last, NEW rest, NEW more, ReadsTo(n, whole, last, rest, more)
    PROVE  last = 0 /\ Contains(rest, a) /\ ~Contains(more, a)
  <1>1. n \in {1, 2} /\ line \in Seq(Token) /\ tty \in Seq(Token) /\ \A s \in Seq(Token) : <<>> \o s = s
    BY DEF Token
  <1>2. /\ whole \in Seq(Token) /\ Len(whole) = n /\ \A i \in 1..n : whole[i] = tty[i]
        /\ Len(more) = 2 - n /\ \A i \in 1..Len(more) : more[i] = tty[n + i]
    <2>1. Len(tty) = 2 /\ n \in 0..Len(tty)
      BY <1>1
    <2> DEFINE u == SubSeq(tty, 1, n)
               v == SubSeq(tty, n + 1, Len(tty))
    <2>2. u \in Seq(Token) /\ Len(u) = n /\ \A i \in 1..n : u[i] = tty[i]
      BY <1>1, <2>1
    <2>3. Len(v) = 2 - n /\ \A i \in 1..Len(v) : v[i] = tty[n + i]
      BY <1>1, <2>1
    <2>4. whole = line \o u /\ more = v
      BY DEF ReadsTo, From
    <2> HIDE DEF u, v
    <2>5. whole = u
      BY <1>1, <2>2, <2>4
    <2> QED
      BY <2>2, <2>3, <2>4, <2>5
  <1>3. tty[1] = a /\ tty[2] = "tail" /\ a # "nl" /\ a # "tail"
    OBVIOUS
  <1>4. Contains(whole, a) /\ ~Contains(whole, "nl") /\ ~Contains(more, a)
    <2>1. 1 \in 1..Len(whole) /\ whole[1] = a
      BY <1>1, <1>2, <1>3
    <2>2. \A i \in 1..Len(whole) : whole[i] # "nl"
      BY <1>1, <1>2, <1>3
    <2>3. \A i \in 1..Len(more) : more[i] # a
      BY <1>1, <1>2, <1>3
    <2> QED
      BY <2>1, <2>2, <2>3 DEF Contains
  <1>5. /\ last \in 0..Len(whole) /\ (last # 0 => whole[last] = "nl") /\ whole \in Seq(Token)
    BY <1>1, ReadsUnread
  <1>6. last = 0
    BY <1>4, <1>5 DEF Contains
  <1>7. rest = whole
    <2>1. rest = SubSeq(whole, last + 1, Len(whole))
      BY DEF ReadsTo
    <2> QED
      BY <1>5, <1>6, <2>1
  <1> QED
    BY <1>4, <1>6, <1>7

LEMMA LoginRead == ASSUME LoginInv, NEW n \in 1..Len(tty), ReadTerminal(n) PROVE LoginInv'
  <1> DEFINE whole == line \o SubSeq(tty, 1, n)
             last == Max({0} \cup {k \in DOMAIN whole : whole[k] = "nl"})
             bad == {k \in 1..last : Verdict(whole[k]) # "none"}
             rest == SubSeq(whole, last + 1, Len(whole))
             more == From(tty, n)
  <1>1. /\ UNCHANGED <<login, given, needs, denies, unknown, accept, tries, program>>
        /\ outcome = "waiting" \/ (outcome = "connected" /\ login # "su")
        /\ line' = rest /\ tty' = more
    BY DEF ReadTerminal, chosen, From
  <1>2. \/ bad # {} /\ outcome' = Verdict(whole[Min(bad)]) /\ UNCHANGED <<input, passwordSent, twice>>
        \/ bad = {} /\ OnPartialLine(rest)
    BY DEF ReadTerminal
  <1>3. ReadsTo(n, whole, last, rest, more)
    BY DEF ReadsTo
  <1>4. LoginTypes /\ TerminalInv /\ YesInv /\ RightInv /\ GoneInv /\ LoginIsExplained
    BY DEF LoginInv
  <1>5. line \in Seq(Token) /\ tty \in Seq(Token) /\ tty # <<>>
    BY <1>4 DEF LoginTypes
  <1> HIDE DEF whole, last, rest, more
  <1>6. /\ whole \in Seq(Token) /\ last \in 0..Len(whole) /\ (last # 0 => whole[last] = "nl")
        /\ \A k \in 1..Len(whole) : Unread(whole[k])
        /\ \A x : Contains(rest, x) => Contains(line, x) \/ Contains(tty, x)
    BY <1>3, <1>5, ReadsUnread
  <1>7. /\ line' \in Seq(Token) /\ tty' \in Seq(Token) /\ ~Contains(line', "nl")
        /\ \A x : Unread(x)' => Unread(x)
        /\ \A x : Contains(tty', x) => Contains(tty, x)
        /\ program # "keys"
    BY <1>1, <1>3, ReadsLess
  \* A question that has not been looked at.
  <1>8. ASSUME line = <<>>, NEW a \in {"question", "prompt"}, tty = <<a, "tail">>
        PROVE  bad = {} /\ Contains(rest, a) /\ ~Contains(tty', a)
    <2>1. a \in Token \ {"nl", "tail"}
      BY DEF Token
    <2>2. last = 0 /\ Contains(rest, a) /\ ~Contains(more, a)
      BY <1>3, <1>8, <2>1, FirstPiece
    <2> QED
      BY <1>1, <2>2
  <1>9. given = "right" /\ ~twice /\ ~denies /\ login # "ssh" =>
            /\ program \in {"asked", "in"}
            /\ ~passwordSent => bad = {} /\ Contains(rest, "prompt") /\ ~Contains(tty', "prompt")
    BY <1>4, <1>5, <1>8 DEF RightInv
  <1>10. login = "ssh" /\ ~twice /\ program = "confirm" /\ Contains(tty, "question") =>
             bad = {} /\ Contains(rest, "question") /\ ~Contains(tty', "question") /\ input = <<>>
    BY <1>4, <1>8 DEF YesInv
  <1>11. bad = {} /\ login # "sudo" /\ (login = "ssh" \/ ~denies) => \A k \in 1..last : whole[k] \notin Fatal
    <2> SUFFICES ASSUME bad = {}, login # "sudo", login = "ssh" \/ ~denies, NEW k \in 1..last, whole[k] \in Fatal PROVE FALSE
      OBVIOUS
    <2>1. k \in 1..Len(whole)
      BY <1>6
    <2>2. Unread(whole[k])
      BY <1>6, <2>1
    <2>3. Verdict(whole[k]) = "none"
      OBVIOUS
    <2> DEFINE x == whole[k]
    <2>4. Unread(x) /\ x \in Fatal /\ Verdict(x) = "none"
      BY <2>2, <2>3
    <2> HIDE DEF x
    <2>5. CASE login = "ssh"
      BY <2>4, <2>5 DEF Fatal, Verdict
    <2>6. CASE login \in {"su", "doas"}
      BY <1>4, <2>4, <2>6 DEF TerminalInv, Fatal, Verdict
    <2> QED
      BY <1>4, <2>5, <2>6 DEF LoginTypes
  <1>12. ASSUME bad = {}, outcome' = outcome PROVE GoneInv'
    <2>1. CASE program = "out" /\ outcome = "waiting" /\ login # "sudo" /\ (login = "ssh" \/ ~denies)
      <3>1. ~Contains(line, "nl") /\ Ends(line \o tty)
        BY <1>4, <2>1 DEF TerminalInv, GoneInv
      <3>2. \A k \in 1..last : whole[k] \notin Fatal
        BY <1>11, <1>12, <2>1
      <3>3. more # <<>> /\ Ends(rest \o more)
        BY <1>3, <1>5, <3>1, <3>2, LastLineIsKept
      <3>4. tty' # <<>> /\ Ends(line \o tty)'
        BY <1>1, <3>3 DEF Ends, Fatal
      <3> QED
        BY <1>1, <2>1, <3>4 DEF GoneInv
    <2>2. CASE ~(program = "out" /\ outcome = "waiting" /\ login # "sudo" /\ (login = "ssh" \/ ~denies))
      BY <1>1, <1>4, <1>12, <2>2 DEF GoneInv
    <2> QED
      BY <2>1, <2>2
  <1> HIDE DEF bad
  <1>13. CASE bad # {}
    <2>1. UNCHANGED <<input, passwordSent, twice>>
      BY <1>2, <1>13
    <2>2. PICK x : Unread(x) /\ outcome' = Verdict(x) /\ Verdict(x) # "none"
      <3>1. bad \subseteq Nat /\ \A k \in bad : k \in 1..Len(whole) /\ Verdict(whole[k]) # "none"
        BY <1>6 DEF bad
      <3>2. Min(bad) \in bad
        BY <1>13, <3>1, LeastIsMin
      <3> QED
        BY <1>2, <1>6, <1>13, <3>1, <3>2
    <2>3. outcome' \in {"hostkey", "incorrect", "required", "denied"}
      BY <2>2 DEF Verdict
    <2>4. LoginTypes' /\ TerminalInv'
      BY <1>1, <1>4, <1>7, <2>1 DEF LoginTypes, TerminalInv, Interactive
    <2>5. YesInv'
      BY <1>1, <1>4, <1>7, <1>10, <1>13, <2>1 DEF LoginTypes, YesInv
    <2>6. RightInv'
      BY <1>1, <1>4, <1>7, <1>9, <1>13, <2>1 DEF LoginTypes, RightInv
    <2>7. GoneInv'
      BY <2>3 DEF GoneInv
    <2>8. LoginIsExplained'
      BY <1>1, <1>4, <2>1, <2>2, <2>3
         DEF LoginTypes, TerminalInv, YesInv, RightInv, Verdict, LoginIsExplained
    <2> QED
      BY <2>4, <2>5, <2>6, <2>7, <2>8 DEF LoginInv
  <1>14. CASE bad = {} /\ Prompted(rest) /\ PasswordPrompt
    <2>1. needs /\ program \notin {"keys", "confirm"} /\ (login # "ssh" => Contains(rest, "prompt"))
      BY <1>4, <1>6, <1>14 DEF TerminalInv, Unread, Prompted
    <2>2. twice' = (twice \/ Contains(line, "prompt"))
      BY <1>14 DEF PasswordPrompt
    <2>3. login # "ssh" /\ ~Contains(tty, "prompt") => twice'
      BY <1>6, <1>14, <2>1, <2>2
    <2>4. CASE UNCHANGED <<input, passwordSent>> /\ outcome' \in {"lost", "required", "incorrect"}
      <3>1. LoginTypes' /\ TerminalInv'
        BY <1>1, <1>4, <1>7, <2>2, <2>4 DEF LoginTypes, TerminalInv, Interactive
      <3>2. YesInv'
        BY <1>1, <1>4, <1>7, <2>1, <2>2, <2>4 DEF LoginTypes, YesInv
      <3>3. given = "right" => login # "ssh" /\ passwordSent /\ outcome' = "incorrect"
        BY <1>1, <1>14, <2>4 DEF PasswordPrompt
      <3>4. given = "right" => twice' \/ denies
        BY <1>4, <2>2, <2>3, <3>3 DEF LoginTypes, RightInv
      <3>5. RightInv' /\ GoneInv'
        BY <1>1, <2>4, <3>4 DEF RightInv, GoneInv
      <3>6. LoginIsExplained'
        BY <1>1, <1>4, <1>14, <2>1, <2>4, <3>4 DEF LoginTypes, TerminalInv, PasswordPrompt, LoginIsExplained
      <3> QED
        BY <3>1, <3>2, <3>5, <3>6 DEF LoginInv
    <2>5. CASE given # "none" /\ Send /\ outcome' = outcome
      <3>1. input' = Append(input, given) /\ passwordSent' = TRUE
        BY <2>5 DEF Send
      <3>2. input' \in Seq({given, "yes"}) /\ \A x : Contains(input', x) <=> Contains(input, x) \/ x = given
        <4>1. input \in Seq({given, "yes"}) /\ <<given>> \in Seq({given, "yes"})
          BY <1>4 DEF LoginTypes
        <4>2. Append(input, given) = input \o <<given>> /\ input \o <<given>> \in Seq({given, "yes"})
          BY <4>1
        <4>3. \A x : Contains(<<given>>, x) <=> x = given
          BY DEF Contains
        <4>4. \A x : Contains(input \o <<given>>, x) <=> Contains(input, x) \/ Contains(<<given>>, x)
          BY <4>1, ContainsConcat
        <4> QED
          BY <3>1, <4>2, <4>3, <4>4
      <3>3. LoginTypes' /\ TerminalInv'
        BY <1>1, <1>4, <1>7, <2>1, <2>2, <2>5, <3>1, <3>2 DEF LoginTypes, TerminalInv, Interactive
      <3>4. YesInv'
        BY <1>1, <1>4, <1>7, <2>1, <2>2, <2>5, <3>1, <3>2 DEF LoginTypes, YesInv
      <3>5. RightInv'
        BY <1>1, <1>4, <1>7, <1>9, <2>2, <3>1 DEF LoginTypes, RightInv
      <3>6. GoneInv'
        BY <1>12, <1>14, <2>5
      <3>7. LoginIsExplained'
        BY <1>1, <1>4, <2>5 DEF LoginIsExplained
      <3> QED
        BY <3>3, <3>4, <3>5, <3>6, <3>7 DEF LoginInv
    <2> QED
      BY <1>14, <2>4, <2>5 DEF PasswordPrompt
  <1>15. CASE bad = {} /\ ~Prompted(rest) /\ Contains(rest, "question") /\ HostKeyRequest
    <2>1. Unread("question") /\ unknown /\ login = "ssh"
      BY <1>4, <1>6, <1>15 DEF LoginTypes, TerminalInv, Unread
    <2>2. passwordSent' = passwordSent /\ twice' = (twice \/ Contains(line, "question"))
      BY <1>15 DEF HostKeyRequest
    <2>3. ~Contains(tty, "question") => twice'
      BY <1>6, <1>15, <2>2
    <2>4. \/ accept /\ input' = Append(input, "yes") /\ outcome' = outcome
          \/ ~accept /\ input' = input /\ outcome' = "hostkey"
      BY <1>15 DEF HostKeyRequest
    <2>5. /\ input' \in Seq({given, "yes"}) /\ (input = <<>> => Len(input') <= 1)
          /\ \A x : Contains(input', x) => Contains(input, x) \/ (x = "yes" /\ accept)
      <3>1. input \in Seq({given, "yes"}) /\ <<"yes">> \in Seq({given, "yes"})
        BY <1>4 DEF LoginTypes
      <3>2. Append(input, "yes") = input \o <<"yes">> /\ input \o <<"yes">> \in Seq({given, "yes"})
        BY <3>1
      <3>3. \A x : Contains(<<"yes">>, x) <=> x = "yes"
        BY DEF Contains
      <3>4. \A x : Contains(input \o <<"yes">>, x) <=> Contains(input, x) \/ Contains(<<"yes">>, x)
        BY <3>1, ContainsConcat
      <3>5. input = <<>> => Len(Append(input, "yes")) <= 1 /\ Len(input) <= 1
        BY <3>1
      <3> QED
        BY <2>4, <3>1, <3>2, <3>3, <3>4, <3>5
    <2>6. LoginTypes' /\ TerminalInv'
      BY <1>1, <1>4, <1>7, <2>1, <2>2, <2>5 DEF LoginTypes, TerminalInv, Interactive
    <2>7. YesInv'
      BY <1>1, <1>4, <1>7, <1>10, <2>1, <2>2, <2>3, <2>5 DEF LoginTypes, YesInv
    <2>8. RightInv'
      BY <1>1, <1>4, <1>7, <2>1, <2>2 DEF LoginTypes, RightInv
    <2>9. GoneInv'
      BY <1>12, <1>15, <2>4 DEF GoneInv
    <2>10. LoginIsExplained'
      BY <1>1, <1>4, <2>1, <2>2, <2>4 DEF LoginIsExplained
    <2> QED
      BY <2>6, <2>7, <2>8, <2>9, <2>10 DEF LoginInv
  <1>16. CASE /\ bad = {} /\ ~Prompted(rest) /\ ~Contains(rest, "question")
              /\ UNCHANGED <<input, passwordSent, twice, outcome>>
    <2>1. LoginTypes' /\ TerminalInv'
      BY <1>1, <1>4, <1>7, <1>16 DEF LoginTypes, TerminalInv, Interactive
    <2>2. YesInv'
      BY <1>1, <1>4, <1>7, <1>10, <1>16 DEF LoginTypes, YesInv
    <2>3. RightInv'
      BY <1>1, <1>4, <1>7, <1>9, <1>16 DEF LoginTypes, RightInv, Prompted
    <2>4. GoneInv'
      BY <1>12, <1>16
    <2>5. LoginIsExplained'
      BY <1>1, <1>4, <1>16 DEF LoginIsExplained
    <2> QED
      BY <2>1, <2>2, <2>3, <2>4, <2>5 DEF LoginInv
  <1> QED
    BY <1>2, <1>13, <1>14, <1>15, <1>16 DEF OnPartialLine

\* Whatever the terminal's output is cut into, what the user is told of the password is true:
\* for every number of times that a login program asks.
THEOREM LoginsAreExplained == LoginSpec => []LoginIsExplained
  <1>1. LoginInv /\ [LoginNext]_loginVars => LoginInv'
    <2> SUFFICES ASSUME LoginInv, [LoginNext]_loginVars PROVE LoginInv'
      OBVIOUS
    <2>1. CASE UNCHANGED loginVars
      BY <2>1 DEF loginVars, LoginInv, LoginTypes, TerminalInv, YesInv, RightInv, GoneInv,
                  LoginIsExplained, Unread, Interactive, Ends, Fatal
    <2>2. CASE LoggedIn \/ Eof
      <3>1. /\ UNCHANGED <<login, given, needs, denies, unknown, accept, tries, program, tty, line, input,
                           passwordSent, twice>>
            /\ outcome' # "waiting"
        BY <2>2 DEF LoggedIn, Eof, chosen
      <3>2. LoginTypes' /\ TerminalInv' /\ YesInv' /\ RightInv' /\ GoneInv'
        BY <3>1 DEF LoginInv, LoginTypes, TerminalInv, YesInv, RightInv, GoneInv, Unread, Interactive
      <3>3. outcome' = "lost" => (login = "sudo" /\ given = "wrong" /\ tries = 0) \/ (login # "ssh" /\ denies)
        BY <2>2 DEF LoggedIn, Eof, LoginInv, GoneInv
      <3>4. outcome' = "connected" => ~denies /\ (needs => given = "right")
        BY <2>2 DEF LoggedIn, Eof, LoginInv, TerminalInv
      <3>5. outcome' \in {"lost", "connected"}
        BY <2>2 DEF LoggedIn, Eof
      <3>6. LoginIsExplained'
        BY <3>1, <3>3, <3>4, <3>5 DEF LoginIsExplained
      <3> QED
        BY <3>2, <3>6 DEF LoginInv
    <2>3. CASE Keys \/ Confirm \/ LetIn \/ AskPassword \/ TurnAway \/ Enter \/ Reject
      BY <2>3, LoginKeys, LoginConfirm, LoginLetIn, LoginAsk, LoginTurnAway, LoginEnter, LoginReject
    <2>4. CASE \E n \in 1..Len(tty) : ReadTerminal(n)
      BY <2>4, LoginRead
    <2> QED
      BY <2>1, <2>2, <2>3, <2>4 DEF LoginNext
  <1>2. LoginInv => LoginIsExplained
    BY DEF LoginInv
  <1> QED
    BY <1>1, <1>2, LoginStart, PTL DEF LoginSpec

----------------------------------------------------------------------------
(* A context comes up.                                                     *)

Item == [kind : {"log"}, of : Nat] \cup [kind : {"line"}, of : {"EC0", "EC1", "EC2"}]
Announced == \E k \in DOMAIN output : output[k] = Line("EC2")

BootTypes ==
    /\ seen \in Seq(Item) /\ output \in Seq(Item) /\ buffer \in Seq(Nat)
    /\ logged \in Nat /\ earlyLogs \in Nat /\ earlyLogs <= logged /\ Len(buffer) <= earlyLogs
    /\ method \in {"exec", "fork"} /\ corked \in BOOLEAN
    /\ peer \in {"waiting", "sent", "connected", "failed"}

\* The first stage has ended when the interpreter sets up its own output, and the last
\* marker is written before the log is uncorked.
PlaceInv ==
    /\ method = "fork" => feeder = "none" /\ interp \in {"stdio", "uncork", "flush", "run", "dead"}
    /\ interp \in {"stdio", "announce", "uncork", "flush", "run"} => feeder \in {"gone", "none"}
    /\ interp \in {"flush", "run"} => ~corked
    /\ ~corked => interp \in {"flush", "run", "dead"}
    /\ corked => earlyLogs = logged /\ Len(buffer) = logged
    /\ peer = "failed" => interp = "dead"
    /\ /\ peer \in {"waiting", "sent"}
       /\ interp \in {"uncork", "flush", "run"} \/ (method = "fork" /\ interp = "stdio")
       => Announced
    /\ Announced \/ peer = "connected" =>
           /\ feeder \in {"gone", "none"}
           /\ interp \in {"uncork", "flush", "run", "dead"} \/ (method = "fork" /\ interp = "stdio")

\* The last marker is the last line, and what is logged comes after it.
OutputInv ==
    /\ peer \in {"waiting", "sent"} =>
        /\ seen = <<>>
        /\ \A i \in Logs(output) : \E j \in 1..(i - 1) : output[j] = Line("EC2")
        /\ \A i, j \in DOMAIN output : output[j] = Line("EC2") /\ IsLine(output[i]) => i <= j
    /\ peer = "connected" => \A i \in DOMAIN output : ~IsLine(output[i])

BootInv == BootTypes /\ PlaceInv /\ OutputInv /\ LogsArrive

\* What is kept back, what comes and in which order, of s, are as they should be.
Arrives(s) ==
    LET flushed == earlyLogs - Len(buffer) IN
    /\ Numbers(s) = 1..flushed \cup (earlyLogs + 1)..logged /\ InOrder(s, earlyLogs)
    /\ \A k \in DOMAIN buffer : buffer[k] = flushed + k

LEMMA LogsArriveIs ==
    LogsArrive <=> ~junk /\ (peer # "failed" => Arrives(seen \o output))
  BY Zenon DEF LogsArrive, Arrives

LEMMA ItemAppended ==
    ASSUME NEW s \in Seq(Item), NEW x \in Item
    PROVE  LET t == Append(s, x) IN
           /\ t \in Seq(Item) /\ Len(t) = Len(s) + 1 /\ Len(s) \in Nat
           /\ DOMAIN s = 1..Len(s) /\ DOMAIN t = 1..(Len(s) + 1)
           /\ t[Len(s) + 1] = x /\ \A i \in 1..Len(s) : t[i] = s[i]
  OBVIOUS

\* A line changes nothing of the log.
LEMMA LineAppended ==
    ASSUME NEW s \in Seq(Item), NEW x \in Item, IsLine(x), NEW e
    PROVE  /\ Logs(Append(s, x)) = Logs(s) /\ Numbers(Append(s, x)) = Numbers(s)
           /\ InOrder(s, e) => InOrder(Append(s, x), e)
  <1> DEFINE t == Append(s, x)
             n == Len(s)
  <1>1. /\ n \in Nat /\ DOMAIN s = 1..n /\ DOMAIN t = 1..(n + 1)
        /\ t[n + 1] = x /\ \A i \in 1..n : t[i] = s[i]
    BY ItemAppended
  <1> HIDE DEF t, n
  <1>2. Logs(t) = Logs(s)
    <2>1. x.kind # "log"
      BY DEF IsLine
    <2>2. \A i : i \in Logs(t) => i \in Logs(s)
      BY <1>1, <2>1 DEF Logs
    <2>3. \A i : i \in Logs(s) => i \in Logs(t)
      BY <1>1 DEF Logs
    <2> QED
      BY <2>2, <2>3
  <1>3. \A i \in Logs(s) : t[i] = s[i]
    BY <1>1 DEF Logs
  <1>4. Numbers(t) = Numbers(s)
    BY <1>2, <1>3 DEF Numbers
  <1>5. InOrder(s, e) => InOrder(t, e)
    BY <1>2, <1>3 DEF InOrder
  <1> QED
    BY <1>2, <1>4, <1>5 DEF t

\* A number that is higher than those that it is to follow.
LEMMA LogAppended ==
    ASSUME NEW s \in Seq(Item), NEW n \in Nat, NEW e \in Nat, InOrder(s, e),
           \A m \in Numbers(s) : (m <= e <=> n <= e) => m < n
    PROVE  /\ Append(s, Log(n)) \in Seq(Item) /\ Numbers(Append(s, Log(n))) = Numbers(s) \cup {n}
           /\ InOrder(Append(s, Log(n)), e)
  <1> DEFINE x == Log(n)
             t == Append(s, x)
             l == Len(s)
  <1>1. x \in Item /\ x.kind = "log" /\ x.of = n
    BY DEF Log, Item
  <1> HIDE DEF x
  <1>2. /\ l \in Nat /\ DOMAIN s = 1..l /\ DOMAIN t = 1..(l + 1) /\ t \in Seq(Item)
        /\ t[l + 1] = x /\ \A i \in 1..l : t[i] = s[i]
    BY <1>1, ItemAppended
  <1> HIDE DEF t, l
  <1>3. Logs(t) = Logs(s) \cup {l + 1}
    <2>1. \A i : i \in Logs(t) => i \in Logs(s) \cup {l + 1}
      BY <1>2 DEF Logs
    <2>2. \A i : i \in Logs(s) => i \in Logs(t)
      BY <1>2 DEF Logs
    <2>3. l + 1 \in Logs(t)
      BY <1>1, <1>2 DEF Logs
    <2> QED
      BY <2>1, <2>2, <2>3
  <1>4. \A i \in Logs(s) : t[i] = s[i] /\ i \in 1..l
    BY <1>2 DEF Logs
  <1>5. Numbers(t) = Numbers(s) \cup {n}
    <2>1. t[l + 1].of = n
      BY <1>1, <1>2
    <2> QED
      BY <1>3, <1>4, <2>1 DEF Numbers
  <1>6. InOrder(t, e)
    <2> SUFFICES ASSUME NEW i \in Logs(t), NEW j \in Logs(t), i < j, t[i].of <= e <=> t[j].of <= e
                 PROVE  t[i].of < t[j].of
      BY DEF InOrder
    <2>1. CASE j \in Logs(s)
      <3>1. i \in Logs(s)
        BY <1>2, <1>3, <1>4, <2>1
      <3> QED
        BY <1>4, <2>1, <3>1 DEF InOrder
    <2>2. CASE j = l + 1
      <3>1. i \in Logs(s) /\ t[j].of = n
        BY <1>1, <1>2, <1>3, <2>2
      <3>2. s[i].of \in Numbers(s)
        BY <3>1 DEF Numbers
      <3> QED
        BY <1>4, <3>1, <3>2
    <2> QED
      BY <1>3, <2>1, <2>2
  <1> QED
    BY <1>2, <1>5, <1>6 DEF t, x

\* What follows a beginning that holds no log.
LEMMA LogsAfter ==
    ASSUME NEW s \in Seq(Item), NEW k \in 0..Len(s), \A i \in Logs(s) : i > k, NEW e
    PROVE  LET t == SubSeq(s, k + 1, Len(s)) IN
           /\ t \in Seq(Item) /\ Numbers(t) = Numbers(s) /\ (InOrder(s, e) => InOrder(t, e))
           /\ DOMAIN t = 1..(Len(s) - k) /\ \A i \in 1..(Len(s) - k) : t[i] = s[k + i]
  <1> DEFINE t == SubSeq(s, k + 1, Len(s))
             l == Len(s)
  <1>1. l \in Nat /\ DOMAIN s = 1..l /\ t \in Seq(Item) /\ k \in 0..l
    OBVIOUS
  <1>2. DOMAIN t = 1..(l - k) /\ \A i \in 1..(l - k) : t[i] = s[k + i]
    <2>1. Len(t) = l - k /\ \A i \in 1..(l - k) : t[i] = s[k + i]
      OBVIOUS
    <2> HIDE DEF t
    <2>2. DOMAIN t = 1..Len(t)
      BY <1>1
    <2> QED
      BY <2>1, <2>2
  <1> HIDE DEF t, l
  <1>3. \A i \in Logs(t) : t[i] = s[k + i] /\ k + i \in Logs(s) /\ i \in Nat
    BY <1>1, <1>2 DEF Logs
  <1>4. \A j \in Logs(s) : j - k \in Logs(t) /\ t[j - k] = s[j]
    <2> SUFFICES ASSUME NEW j \in Logs(s) PROVE j - k \in Logs(t) /\ t[j - k] = s[j]
      OBVIOUS
    <2>1. j \in 1..l /\ j > k /\ s[j].kind = "log"
      BY <1>1 DEF Logs
    <2>2. j - k \in 1..(l - k) /\ k + (j - k) = j
      BY <1>1, <2>1
    <2> QED
      BY <1>2, <2>1, <2>2 DEF Logs
  <1>5. Numbers(t) = Numbers(s)
    BY <1>3, <1>4 DEF Numbers
  <1>6. InOrder(s, e) => InOrder(t, e)
    BY <1>1, <1>3 DEF InOrder
  <1> QED
    BY <1>1, <1>2, <1>5, <1>6 DEF t, l

\* A line, or a log of a high number, at the end of what the child has written.
LEMMA OutputAppended ==
    ASSUME seen \in Seq(Item), output \in Seq(Item), NEW x \in Item
    PROVE  seen \o Append(output, x) = Append(seen \o output, x) /\ seen \o output \in Seq(Item)
  <1>1. Append(output, x) = output \o <<x>> /\ <<x>> \in Seq(Item)
    OBVIOUS
  <1>2. Append(seen \o output, x) = (seen \o output) \o <<x>> /\ seen \o output \in Seq(Item)
    OBVIOUS
  <1> DEFINE u == <<x>>
  <1>3. u \in Seq(Item)
    BY <1>1
  <1> HIDE DEF u
  <1>4. seen \o (output \o u) = (seen \o output) \o u
    BY <1>3
  <1> QED
    BY <1>1, <1>2, <1>4 DEF u

\* What is read later, and what is there later.
LEMMA NumbersNext == Numbers(seen \o output)' = Numbers(seen' \o output')
  BY DEF Numbers, Logs

LEMMA OrderNext == InOrder(seen \o output, earlyLogs)' <=> InOrder(seen' \o output', earlyLogs')
  BY DEF InOrder, Logs

LEMMA BootStart == BootInit => BootInv
  <1> SUFFICES ASSUME BootInit PROVE BootInv
    OBVIOUS
  <1>1. Line("EC2") \in Item /\ IsLine(Line("EC2"))
    BY DEF Line, Item, IsLine
  <1>2. BootTypes
    BY <1>1 DEF BootInit, BootTypes
  <1>3. output = <<>> \/ (Len(output) = 1 /\ DOMAIN output = {1} /\ output[1] = Line("EC2"))
    BY DEF BootInit
  <1>4. \A i \in DOMAIN output : i = 1 /\ output[i] = Line("EC2") /\ method = "fork"
    BY <1>3 DEF BootInit
  <1>5. Logs(output) = {}
    BY <1>4 DEF Logs, Line
  <1>6. PlaceInv
    <2>1. method = "fork" => Announced
      BY DEF BootInit, Announced
    <2>2. Announced => method = "fork"
      BY <1>4 DEF Announced
    <2> QED
      BY <2>1, <2>2 DEF BootInit, PlaceInv
  <1>7. OutputInv
    BY <1>4, <1>5 DEF BootInit, OutputInv
  <1>8. LogsArrive
    <2>1. seen \o output = output
      BY DEF BootInit
    <2>2. Numbers(output) = {} /\ InOrder(output, earlyLogs)
      BY <1>5 DEF Numbers, InOrder
    <2>3. Len(buffer) = 0 /\ earlyLogs = 0 /\ logged = 0 /\ ~junk /\ buffer = <<>>
      BY DEF BootInit
    <2>4. DOMAIN buffer = {}
      BY <2>3
    <2> QED
      BY <2>1, <2>2, <2>3, <2>4 DEF LogsArrive
  <1> QED
    BY <1>2, <1>6, <1>7, <1>8 DEF BootInv

\* A step that writes nothing, logs nothing and reads nothing of it.
LEMMA BootQuiet ==
    ASSUME BootInv, BootTypes', PlaceInv', ~junk',
           UNCHANGED <<earlyLogs, logged, buffer, output, seen, peer>>
    PROVE  BootInv'
  <1>1. OutputInv'
    BY DEF BootInv, OutputInv, Logs
  <1>2. /\ earlyLogs' = earlyLogs /\ logged' = logged /\ buffer' = buffer /\ peer' = peer
        /\ seen' \o output' = seen \o output
    OBVIOUS
  <1>3. LogsArrive'
    BY <1>2 DEF BootInv, LogsArrive, Numbers, InOrder, Logs
  <1> QED
    BY <1>1, <1>3 DEF BootInv

LEMMA BootWaits == ASSUME BootInv, ReadPreamble \/ ReadTruncated \/ WriteScript \/ WriteCore PROVE BootInv'
  <1>1. /\ UNCHANGED <<earlyLogs, logged, buffer, output, seen, peer, corked, method, length, junk>>
        /\ feeder \in {"read", "script", "core"} /\ feeder' \in {"script", "core", "ready", "gone"}
        /\ interp' = interp \/ (interp = "core" /\ interp' = "reap")
    BY DEF ReadPreamble, ReadTruncated, WriteScript, WriteCore, Feeder
  <1>2. BootTypes' /\ PlaceInv' /\ ~junk'
    BY <1>1 DEF BootInv, BootTypes, PlaceInv, Announced, LogsArrive
  <1> QED
    BY <1>1, <1>2, BootQuiet

LEMMA BootRuns ==
    ASSUME BootInv, Exec \/ RunScript \/ RunNothing \/ ReapFirstStage \/ SetupStdio \/ Uncork \/ Die
    PROVE  BootInv'
  <1>1. UNCHANGED <<earlyLogs, logged, buffer, output, seen, peer, method, length>>
    BY DEF Exec, RunScript, RunNothing, ReapFirstStage, SetupStdio, Uncork, Die, Interp
  <1>2. BootTypes' /\ ~junk'
    <2>1. corked' \in BOOLEAN
      BY DEF BootInv, BootTypes, Exec, RunScript, RunNothing, ReapFirstStage, SetupStdio, Uncork, Die
    <2>2. junk' = junk
      BY DEF Exec, RunScript, RunNothing, ReapFirstStage, SetupStdio, Uncork, Die, Interp
    <2> QED
      BY <1>1, <2>1, <2>2 DEF BootInv, BootTypes, PlaceInv, LogsArrive
  <1>3. PlaceInv'
    BY <1>1 DEF BootInv, BootTypes, PlaceInv, Announced, Exec, RunScript, RunNothing, ReapFirstStage,
                SetupStdio, Uncork, Die, Interp
  <1> QED
    BY <1>1, <1>2, <1>3, BootQuiet

LEMMA BootReconfigures == ASSUME BootInv, Reconfigure PROVE BootInv'
  <1>1. /\ UNCHANGED <<earlyLogs, logged, buffer, output, seen, peer, corked, method, feeder, interp, stdin, junk>>
        /\ length = "same" /\ stdin = "nothing"
    BY DEF Reconfigure
  <1>2. BootTypes' /\ PlaceInv' /\ ~junk'
    BY <1>1 DEF BootInv, BootTypes, PlaceInv, Announced, LogsArrive
  <1> QED
    BY <1>1, <1>2, BootQuiet

LEMMA BootFailed == ASSUME BootInv, ConnectionFails PROVE BootInv'
  <1>1. /\ UNCHANGED <<earlyLogs, logged, buffer, output, seen, corked, method, length, feeder, stdin, junk>>
        /\ peer \in {"waiting", "sent"} /\ peer' = "failed" /\ interp' = "dead"
    BY DEF ConnectionFails
  <1>2. BootTypes' /\ OutputInv' /\ LogsArrive'
    BY <1>1 DEF BootInv, BootTypes, OutputInv, LogsArrive
  <1>3. PlaceInv'
    BY <1>1 DEF BootInv, PlaceInv, Announced
  <1> QED
    BY <1>2, <1>3 DEF BootInv

\* A line of the first stage, or the last marker.
LEMMA BootWritesLine ==
    ASSUME BootInv, NEW x \in Item, IsLine(x), output' = Append(output, x),
           UNCHANGED <<earlyLogs, logged, buffer, seen, peer, length, junk>>, BootTypes', PlaceInv',
           ~Announced, peer \in {"waiting", "sent"}
    PROVE  BootInv'
  <1>1. seen \in Seq(Item) /\ output \in Seq(Item)
    BY DEF BootInv, BootTypes
  <1> DEFINE n == Len(output)
  <1>2. /\ n \in Nat /\ DOMAIN output = 1..n /\ DOMAIN output' = 1..(n + 1)
        /\ output'[n + 1] = x /\ \A i \in 1..n : output'[i] = output[i]
    BY <1>1, ItemAppended
  <1>3. Logs(output') = Logs(output)
    BY <1>1, LineAppended
  <1>4. Logs(output) = {}
    <2>1. \A i \in Logs(output) : i \in 1..n /\ \E j \in 1..(i - 1) : output[j] = Line("EC2")
      BY <1>2 DEF BootInv, OutputInv, Logs
    <2> QED
      BY <1>2, <2>1 DEF Announced
  <1>5. OutputInv'
    <2>1. \A i, j \in DOMAIN output' : output'[j] = Line("EC2") /\ IsLine(output'[i]) => i <= j
      BY <1>2 DEF Announced
    <2>2. seen' = <<>> /\ peer' \in {"waiting", "sent"}
      BY DEF BootInv, OutputInv
    <2> QED
      BY <1>3, <1>4, <2>1, <2>2 DEF OutputInv, Logs, IsLine
  <1>6. LogsArrive'
    <2> DEFINE s == seen \o output
    <2>1. seen' \o output' = Append(s, x) /\ s \in Seq(Item)
      BY <1>1, OutputAppended
    <2>2. peer # "failed" => Numbers(s) = 1..(earlyLogs - Len(buffer)) \cup (earlyLogs + 1)..logged /\ InOrder(s, earlyLogs)
      BY DEF BootInv, LogsArrive
    <2> HIDE DEF s
    <2>3. Numbers(Append(s, x)) = Numbers(s) /\ (InOrder(s, earlyLogs) => InOrder(Append(s, x), earlyLogs))
      BY <2>1, LineAppended
    <2>4. /\ Numbers(seen \o output)' = Numbers(s)
          /\ peer # "failed" => InOrder(seen \o output, earlyLogs)'
      <3>1. Numbers(seen' \o output') = Numbers(s) /\ (peer # "failed" => InOrder(seen' \o output', earlyLogs))
        BY <2>1, <2>2, <2>3
      <3> QED
        BY <3>1, NumbersNext, OrderNext
    <2> QED
      BY <2>2, <2>4 DEF BootInv, LogsArrive
  <1> QED
    BY <1>5, <1>6 DEF BootInv

LEMMA BootSays == ASSUME BootInv, Hello \/ SayReady \/ Announce PROVE BootInv'
  <1>1. PICK x \in {Line("EC0"), Line("EC1"), Line("EC2")} :
            /\ output' = Append(output, x)
            /\ x = Line("EC2") <=> Announce
    <2>1. Line("EC0") # Line("EC2") /\ Line("EC1") # Line("EC2")
      BY DEF Line
    <2>2. CASE Announce
      BY <2>2 DEF Announce
    <2>3. CASE ~Announce
      BY <2>1, <2>3 DEF Hello, SayReady
    <2> QED
      BY <2>2, <2>3
  <1>2. x \in Item /\ IsLine(x)
    BY DEF Line, Item, IsLine
  <1>3. /\ UNCHANGED <<earlyLogs, logged, buffer, seen, peer, corked, method, length, stdin, junk>>
        /\ interp # "dead"
    BY DEF Hello, SayReady, Announce, Feeder, Interp
  <1>4. ~Announced /\ peer \in {"waiting", "sent"}
    BY <1>3 DEF BootInv, BootTypes, PlaceInv, Hello, SayReady, Announce, Feeder, Interp
  <1>5. BootTypes'
    <2>1. output' \in Seq(Item)
      BY <1>1, <1>2, ItemAppended DEF BootInv, BootTypes
    <2> QED
      BY <1>3, <2>1 DEF BootInv, BootTypes
  <1>6. Announced' <=> Announce
    <2> DEFINE n == Len(output)
    <2>1. /\ n \in Nat /\ DOMAIN output = 1..n /\ DOMAIN output' = 1..(n + 1)
          /\ output'[n + 1] = x /\ \A i \in 1..n : output'[i] = output[i]
      BY <1>1, <1>2, ItemAppended DEF BootInv, BootTypes
    <2> QED
      BY <1>1, <1>4, <2>1 DEF Announced
  <1>7. PlaceInv'
    <2>1. CASE Announce
      BY <1>3, <1>4, <1>6, <2>1 DEF BootInv, PlaceInv, Announce, Interp
    <2>2. CASE Hello \/ SayReady
      BY <1>3, <1>4, <1>6, <2>2 DEF BootInv, PlaceInv, Hello, SayReady, Announce, Feeder, Interp
    <2> QED
      BY <2>1, <2>2
  <1> QED
    BY <1>1, <1>2, <1>3, <1>4, <1>5, <1>7, BootWritesLine

\* A log is written after the last marker.
LEMMA BootWritesLog ==
    ASSUME BootInv, NEW n \in Nat, output' = Append(output, Log(n)),
           UNCHANGED <<earlyLogs, seen, peer, length, junk>>, BootTypes', PlaceInv',
           interp \in {"flush", "run"},
           \A m \in Numbers(seen \o output) : (m <= earlyLogs <=> n <= earlyLogs) => m < n,
           Numbers(seen \o output) \cup {n}
               = 1..(earlyLogs - Len(buffer')) \cup (earlyLogs + 1)..logged',
           \A k \in DOMAIN buffer' : buffer'[k] = earlyLogs - Len(buffer') + k
    PROVE  BootInv'
  <1>1. seen \in Seq(Item) /\ output \in Seq(Item) /\ earlyLogs \in Nat
    BY DEF BootInv, BootTypes
  <1> DEFINE x == Log(n)
             l == Len(output)
             s == seen \o output
  <1>2. x \in Item /\ ~IsLine(x) /\ x # Line("EC2") /\ x.kind = "log"
    BY DEF Log, Item, IsLine, Line
  <1>3. /\ l \in Nat /\ DOMAIN output = 1..l /\ DOMAIN output' = 1..(l + 1)
        /\ output'[l + 1] = x /\ \A i \in 1..l : output'[i] = output[i]
    BY <1>1, <1>2, ItemAppended
  <1>4. seen' \o output' = Append(s, x) /\ s \in Seq(Item)
    BY <1>1, <1>2, OutputAppended
  <1>5. peer # "failed" /\ (Announced \/ peer = "connected")
    BY DEF BootInv, BootTypes, PlaceInv
  <1>6. OutputInv'
    <2> HIDE DEF x, l
    <2>1. CASE peer = "connected"
      <3>1. \A i \in DOMAIN output' : ~IsLine(output'[i])
        BY <1>2, <1>3, <2>1 DEF BootInv, OutputInv
      <3> QED
        BY <2>1, <3>1 DEF OutputInv, IsLine
    <2>2. CASE peer \in {"waiting", "sent"}
      <3>1. PICK k \in 1..l : output[k] = Line("EC2")
        BY <1>3, <1>5, <2>2 DEF Announced
      <3>2. /\ seen = <<>>
            /\ \A i \in Logs(output) : \E j \in 1..(i - 1) : output[j] = Line("EC2")
            /\ \A i, j \in DOMAIN output : output[j] = Line("EC2") /\ IsLine(output[i]) => i <= j
        BY <2>2 DEF BootInv, OutputInv
      <3>3. \A i \in Logs(output') : \E j \in 1..(i - 1) : output'[j] = Line("EC2")
        <4> SUFFICES ASSUME NEW i \in Logs(output') PROVE \E j \in 1..(i - 1) : output'[j] = Line("EC2")
          OBVIOUS
        <4>1. i \in 1..(l + 1)
          BY <1>3 DEF Logs
        <4>2. CASE i = l + 1
          BY <1>3, <3>1, <4>2
        <4>3. CASE i \in 1..l
          <5>1. i \in Logs(output)
            BY <1>3, <4>3 DEF Logs
          <5>2. PICK j \in 1..(i - 1) : output[j] = Line("EC2")
            BY <3>2, <5>1
          <5> QED
            BY <1>3, <4>3, <5>2
        <4> QED
          BY <1>3, <4>1, <4>2, <4>3
      <3>4. \A i, j \in DOMAIN output' : output'[j] = Line("EC2") /\ IsLine(output'[i]) => i <= j
        BY <1>2, <1>3, <3>2
      <3> QED
        BY <2>2, <3>2, <3>3, <3>4 DEF OutputInv, Logs, IsLine
    <2> QED
      BY <1>5, <2>1, <2>2 DEF BootInv, BootTypes
  <1>7. LogsArrive'
    <2>1. InOrder(s, earlyLogs)
      BY <1>5 DEF BootInv, BootTypes, PlaceInv, LogsArrive
    <2> HIDE DEF s
    <2>2. Numbers(Append(s, Log(n))) = Numbers(s) \cup {n} /\ InOrder(Append(s, Log(n)), earlyLogs)
      BY <1>1, <1>4, <2>1, LogAppended DEF s
    <2>3. /\ Numbers(seen' \o output') = 1..(earlyLogs - Len(buffer')) \cup (earlyLogs + 1)..logged'
          /\ InOrder(seen' \o output', earlyLogs)
      BY <1>4, <2>2 DEF s
    <2>4. /\ Numbers(seen \o output)' = 1..(earlyLogs - Len(buffer')) \cup (earlyLogs + 1)..logged'
          /\ InOrder(seen \o output, earlyLogs)'
      BY <2>3, NumbersNext, OrderNext
    <2> QED
      BY <2>4 DEF BootInv, LogsArrive
  <1> QED
    BY <1>6, <1>7 DEF BootInv

LEMMA BootFlushes == ASSUME BootInv, Flush PROVE BootInv'
  <1>1. /\ interp = "flush" /\ interp' \in {"flush", "run"} /\ (buffer # <<>> => interp' = "flush")
        /\ UNCHANGED <<method, length, stdin, feeder, peer, seen, junk, corked, logged, earlyLogs>>
    BY DEF Flush, Interp
  <1>2. ~corked /\ peer # "failed" /\ interp' # "dead"
    BY <1>1 DEF BootInv, PlaceInv, BootTypes
  <1>3. buffer \in Seq(Nat) /\ earlyLogs \in Nat /\ logged \in Nat /\ Len(buffer) <= earlyLogs
    BY DEF BootInv, BootTypes
  <1>4. CASE buffer = <<>>
    <2>1. UNCHANGED <<buffer, output>>
      <3>1. output \o <<>> = output
        BY DEF BootInv, BootTypes
      <3> QED
        BY <1>4, <3>1 DEF Flush
    <2>2. BootTypes' /\ PlaceInv' /\ ~junk'
      BY <1>1, <1>2, <2>1 DEF BootInv, BootTypes, PlaceInv, Announced, LogsArrive
    <2> QED
      BY <1>1, <2>1, <2>2, BootQuiet
  <1>5. CASE buffer # <<>>
    <2> DEFINE n == Head(buffer)
               l == Len(buffer)
               f == earlyLogs - l
    <2>1. /\ l \in Nat /\ l >= 1 /\ n = buffer[1] /\ n \in Nat /\ DOMAIN buffer = 1..l
          /\ Tail(buffer) \in Seq(Nat) /\ Len(Tail(buffer)) = l - 1 /\ DOMAIN Tail(buffer) = 1..(l - 1)
          /\ \A k \in 1..(l - 1) : Tail(buffer)[k] = buffer[k + 1]
      BY <1>3, <1>5
    <2>2. buffer' = Tail(buffer) /\ output' = Append(output, Log(n))
      <3>1. output \o <<Log(n)>> = Append(output, Log(n))
        <4>1. Log(n) \in Item
          BY <2>1 DEF Log, Item
        <4> HIDE DEF n
        <4> QED
          BY <4>1 DEF BootInv, BootTypes
      <3> QED
        BY <1>5, <3>1 DEF Flush
    <2>3. /\ Numbers(seen \o output) = 1..f \cup (earlyLogs + 1)..logged
          /\ \A k \in 1..l : buffer[k] = f + k
      BY <1>2, <2>1 DEF BootInv, LogsArrive
    <2>4. f \in Nat /\ n = f + 1 /\ n <= earlyLogs /\ earlyLogs - (l - 1) = f + 1
      BY <1>3, <2>1, <2>3
    <2> HIDE DEF n, l, f
    <2>5. \A m \in Numbers(seen \o output) : (m <= earlyLogs <=> n <= earlyLogs) => m < n
      BY <1>3, <2>3, <2>4
    <2>6. Numbers(seen \o output) \cup {n} = 1..(earlyLogs - Len(buffer')) \cup (earlyLogs + 1)..logged'
      <3>1. 1..f \cup {n} = 1..(earlyLogs - Len(buffer'))
        BY <2>1, <2>2, <2>4
      <3> QED
        BY <1>1, <2>3, <3>1
    <2>7. \A k \in DOMAIN buffer' : buffer'[k] = earlyLogs - Len(buffer') + k
      <3> SUFFICES ASSUME NEW k \in 1..(l - 1) PROVE Tail(buffer)[k] = earlyLogs - (l - 1) + k
        BY <2>1, <2>2
      <3>1. k + 1 \in 1..l /\ Tail(buffer)[k] = buffer[k + 1]
        BY <2>1
      <3>2. buffer[k + 1] = f + (k + 1)
        BY <2>3, <3>1
      <3> QED
        BY <2>1, <2>4, <3>1, <3>2
    <2>8. BootTypes'
      <3>1. output' \in Seq(Item) /\ Log(n) \in Item
        <4>1. Log(n) \in Item
          BY <2>1 DEF Log, Item
        <4> QED
          BY <2>2, <4>1 DEF BootInv, BootTypes
      <3> QED
        BY <1>1, <2>1, <2>2, <3>1 DEF BootInv, BootTypes
    <2>9. PlaceInv'
      <3>1. Announced => Announced'
        <4>1. Log(n) \in Item
          BY <2>1 DEF Log, Item
        <4>2. \A i \in DOMAIN output : i \in DOMAIN output' /\ output'[i] = output[i]
          BY <2>2, <4>1, ItemAppended DEF BootInv, BootTypes
        <4> QED
          BY <4>2 DEF Announced
      <3> QED
        BY <1>1, <1>2, <1>5, <3>1 DEF BootInv, BootTypes, PlaceInv
    <2> QED
      BY <1>1, <2>1, <2>2, <2>5, <2>6, <2>7, <2>8, <2>9, BootWritesLog
  <1> QED
    BY <1>4, <1>5

LEMMA BootEmits == ASSUME BootInv, Emit PROVE BootInv'
  <1> DEFINE n == logged + 1
  <1>1. /\ interp \in {"core", "reap", "stdio", "announce", "uncork", "flush", "run"} /\ logged' = n
        /\ earlyLogs' = (IF corked THEN n ELSE earlyLogs)
        /\ buffer' = (IF corked THEN Append(buffer, n) ELSE buffer)
        /\ output' = (IF corked THEN output ELSE Append(output, Log(n)))
        /\ UNCHANGED <<method, length, stdin, feeder, interp, corked, peer, seen, junk>>
    BY DEF Emit
  <1>2. /\ buffer \in Seq(Nat) /\ earlyLogs \in Nat /\ logged \in Nat /\ earlyLogs <= logged
        /\ Len(buffer) <= earlyLogs /\ seen \in Seq(Item) /\ output \in Seq(Item)
        /\ peer \in {"waiting", "sent", "connected", "failed"} /\ peer # "failed"
    BY <1>1 DEF BootInv, BootTypes, PlaceInv
  <1>3. n \in Nat /\ n > logged
    BY <1>2
  <1>4. /\ Numbers(seen \o output) = 1..(earlyLogs - Len(buffer)) \cup (earlyLogs + 1)..logged
        /\ \A k \in DOMAIN buffer : buffer[k] = earlyLogs - Len(buffer) + k
    BY <1>2 DEF BootInv, LogsArrive
  <1> HIDE DEF n
  <1>5. CASE corked
    <2>1. earlyLogs = logged /\ Len(buffer) = logged
      BY <1>5 DEF BootInv, PlaceInv
    <2>2. /\ buffer' \in Seq(Nat) /\ Len(buffer') = n /\ DOMAIN buffer' = 1..n /\ buffer'[n] = n
          /\ \A k \in 1..logged : buffer'[k] = buffer[k] /\ k \in DOMAIN buffer
      BY <1>1, <1>2, <1>3, <1>5, <2>1 DEF n
    <2>3. earlyLogs' = n /\ output' = output /\ earlyLogs' - Len(buffer') = 0 /\ earlyLogs - Len(buffer) = 0
      BY <1>1, <1>2, <1>3, <1>5, <2>1, <2>2
    <2>4. BootTypes' /\ PlaceInv' /\ OutputInv'
      BY <1>1, <1>2, <1>3, <1>5, <2>1, <2>2, <2>3
         DEF BootInv, BootTypes, PlaceInv, OutputInv, Announced, Logs
    <2>5. Numbers(seen \o output) = {}
      BY <1>2, <1>4, <2>1, <2>3
    <2>6. Logs(seen \o output) = {}
      BY <2>5 DEF Numbers
    <2>7. Numbers(seen \o output)' = {} /\ InOrder(seen \o output, earlyLogs)'
      <3>1. Logs(seen' \o output') = {}
        BY <1>1, <2>3, <2>6
      <3>2. Numbers(seen' \o output') = {} /\ InOrder(seen' \o output', earlyLogs')
        BY <3>1 DEF Numbers, InOrder
      <3> QED
        BY <3>2, NumbersNext, OrderNext
    <2>8. \A k \in DOMAIN buffer' : buffer'[k] = earlyLogs' - Len(buffer') + k
      <3> SUFFICES ASSUME NEW k \in 1..n PROVE buffer'[k] = k
        BY <2>2, <2>3
      <3>1. k \in 1..logged \/ k = n
        BY <1>2 DEF n
      <3> QED
        BY <1>4, <2>2, <2>3, <3>1
    <2>9. 1..(earlyLogs' - Len(buffer')) \cup (earlyLogs' + 1)..logged' = {}
      BY <1>1, <1>3, <2>3
    <2>10. LogsArrive'
      BY <1>1, <2>7, <2>8, <2>9 DEF BootInv, LogsArrive
    <2> QED
      BY <2>4, <2>10 DEF BootInv
  <1>6. CASE ~corked
    <2>1. /\ interp \in {"flush", "run"} /\ UNCHANGED <<earlyLogs, buffer>>
          /\ output' = Append(output, Log(n))
      BY <1>1, <1>6 DEF BootInv, PlaceInv
    <2>2. Log(n) \in Item
      BY <1>3 DEF Log, Item
    <2>3. \A m \in Numbers(seen \o output) : (m <= earlyLogs <=> n <= earlyLogs) => m < n
      BY <1>2, <1>3, <1>4
    <2>4. Numbers(seen \o output) \cup {n} = 1..(earlyLogs - Len(buffer')) \cup (earlyLogs + 1)..logged'
      <3>1. (earlyLogs + 1)..logged \cup {n} = (earlyLogs + 1)..n
        BY <1>2 DEF n
      <3> QED
        BY <1>1, <1>4, <2>1, <3>1
    <2>5. BootTypes'
      BY <1>1, <1>2, <1>3, <2>1, <2>2 DEF BootInv, BootTypes
    <2>6. PlaceInv'
      <3>1. Announced => Announced'
        <4>1. \A i \in DOMAIN output : i \in DOMAIN output' /\ output'[i] = output[i]
          BY <1>2, <2>1, <2>2, ItemAppended
        <4> QED
          BY <4>1 DEF Announced
      <3> QED
        BY <1>1, <1>2, <1>6, <2>1, <3>1 DEF BootInv, PlaceInv
    <2> QED
      BY <1>1, <1>3, <1>4, <2>1, <2>3, <2>4, <2>5, <2>6, BootWritesLog
  <1> QED
    BY <1>5, <1>6

\* The lines end with the last marker, or there is nothing but lines.
LEMMA LinesEnd ==
    ASSUME BootInv, peer \in {"waiting", "sent"}
    PROVE  \E k \in 0..Len(output) :
              /\ Trailer(output) = SubSeq(output, k + 1, Len(output))
              /\ Lines(output) = SubSeq(output, 1, k)
              /\ \A i \in 1..k : IsLine(output[i])
              /\ IF Announced THEN k >= 1 /\ output[k] = Line("EC2") ELSE k = Len(output)
  <1>1. /\ output \in Seq(Item)
        /\ \A i \in Logs(output) : \E j \in 1..(i - 1) : output[j] = Line("EC2")
        /\ \A i, j \in DOMAIN output : output[j] = Line("EC2") /\ IsLine(output[i]) => i <= j
    BY DEF BootInv, BootTypes, OutputInv
  <1> DEFINE n == Len(output)
             last == {k \in DOMAIN output : output[k] = Line("EC2")}
  <1>2. n \in Nat /\ DOMAIN output = 1..n
    BY <1>1
  <1>3. \A i \in 1..n : IsLine(output[i]) \/ i \in Logs(output)
    <2>1. \A i \in 1..n : output[i] \in Item
      BY <1>1
    <2> QED
      BY <1>2, <2>1 DEF Item, IsLine, Logs
  <1>4. CASE last = {}
    <2>1. Lines(output) = output
      BY <1>4 DEF Lines
    <2>2. output = SubSeq(output, 1, n) /\ Trailer(output) = SubSeq(output, n + 1, n)
      BY <1>1, <2>1 DEF Trailer
    <2>3. ~Announced /\ \A i \in 1..n : IsLine(output[i])
      <3>1. \A j \in 1..n : output[j] # Line("EC2")
        BY <1>2, <1>4
      <3>2. \A i \in Logs(output) : FALSE
        <4> SUFFICES ASSUME NEW i \in Logs(output) PROVE FALSE
          OBVIOUS
        <4>1. PICK j \in 1..(i - 1) : output[j] = Line("EC2")
          BY <1>1
        <4>2. i \in 1..n
          BY <1>2 DEF Logs
        <4>3. j \in 1..n
          BY <1>2, <4>1, <4>2
        <4> QED
          BY <3>1, <4>1, <4>3
      <3> QED
        BY <1>2, <1>3, <3>1, <3>2 DEF Announced
    <2>4. n \in 0..n
      BY <1>2
    <2> QED
      BY <2>1, <2>2, <2>3, <2>4
  <1>5. CASE last # {}
    <2>1. PICK k \in 1..n : output[k] = Line("EC2")
      BY <1>2, <1>5
    <2>2. \A j \in last : j = k
      BY <1>1, <1>2, <2>1 DEF IsLine, Line
    <2>3. last = {k} /\ k \in Nat
      BY <1>2, <2>1, <2>2
    <2>4. (CHOOSE i \in last : \A j \in last : i <= j) = k
      BY <2>3
    <2>5. Lines(output) = SubSeq(output, 1, k)
      BY <1>5, <2>4 DEF Lines
    <2>6. Len(SubSeq(output, 1, k)) = k
      BY <1>1, <1>2, <2>1
    <2>7. Trailer(output) = SubSeq(output, k + 1, n)
      BY <2>5, <2>6 DEF Trailer
    <2>8. Announced
      BY <1>2, <2>1 DEF Announced
    <2>9. \A i \in 1..k : IsLine(output[i])
      <3> SUFFICES ASSUME NEW i \in 1..k, i \in Logs(output) PROVE FALSE
        BY <1>2, <1>3, <2>1
      <3>1. PICK j \in 1..(i - 1) : output[j] = Line("EC2")
        BY <1>1
      <3>2. j \in last /\ j < k
        BY <1>2, <2>1, <3>1
      <3> QED
        BY <2>2, <2>3, <3>2
    <2>10. k \in 0..n /\ k >= 1
      BY <1>2, <2>1
    <2> QED
      BY <2>1, <2>5, <2>7, <2>8, <2>9, <2>10
  <1> QED
    BY <1>4, <1>5

LEMMA Beginning ==
    ASSUME NEW q \in Seq(Item), NEW k \in 0..Len(q)
    PROVE  LET s == SubSeq(q, 1, k) IN
           Len(s) = k /\ DOMAIN s = 1..k /\ \A i \in 1..k : s[i] = q[i]
  <1> DEFINE s == SubSeq(q, 1, k)
  <1>1. s \in Seq(Item) /\ Len(s) = k /\ \A i \in 1..k : s[i] = q[i]
    OBVIOUS
  <1> HIDE DEF s
  <1>2. DOMAIN s = 1..Len(s)
    BY <1>1
  <1> QED
    BY <1>1, <1>2 DEF s

\* The parent takes over all that has come: what it has read and what is to be read are the same.
LEMMA BootTakes ==
    ASSUME BootInv, output' = <<>>, seen' \in Seq(Item), ~junk',
           peer # "failed", peer' # "failed", UNCHANGED <<earlyLogs, logged, buffer>>,
           Numbers(seen') = Numbers(seen \o output),
           InOrder(seen \o output, earlyLogs) => InOrder(seen', earlyLogs)
    PROVE  LogsArrive'
  <1>1. seen' \o output' = seen'
    OBVIOUS
  <1>2. /\ Numbers(seen \o output)' = Numbers(seen \o output)
        /\ InOrder(seen \o output, earlyLogs) => InOrder(seen \o output, earlyLogs)'
    <2>1. /\ Numbers(seen' \o output') = Numbers(seen \o output)
          /\ InOrder(seen \o output, earlyLogs) => InOrder(seen' \o output', earlyLogs)
      BY <1>1
    <2> QED
      BY <2>1, NumbersNext, OrderNext
  <1> QED
    BY <1>2 DEF BootInv, LogsArrive

LEMMA BootReads == ASSUME BootInv, ReadBootstrap PROVE BootInv'
  <1>1. /\ peer \in {"waiting", "sent"} /\ peer # "failed"
        /\ UNCHANGED <<method, length, feeder, interp, wends, corked, logged, earlyLogs, buffer>>
        /\ output' = <<>> /\ seen' = Trailer(output)
        /\ junk' = (junk \/ \E x \in ToSet(Lines(output)) : ~IsLine(x))
        /\ stdin' = stdin \/ stdin' = "preamble"
        /\ peer' = IF Contains(Lines(output), Line("EC2")) THEN "connected"
                   ELSE IF Contains(Lines(output), Line("EC0")) THEN "sent" ELSE peer
    BY DEF ReadBootstrap
  <1>2. output \in Seq(Item) /\ seen = <<>>
    BY <1>1 DEF BootInv, BootTypes, OutputInv
  <1> DEFINE n == Len(output)
  <1>3. n \in Nat /\ DOMAIN output = 1..n
    BY <1>2
  <1>4. PICK k \in 0..n :
            /\ Trailer(output) = SubSeq(output, k + 1, n)
            /\ Lines(output) = SubSeq(output, 1, k)
            /\ \A i \in 1..k : IsLine(output[i])
            /\ IF Announced THEN k >= 1 /\ output[k] = Line("EC2") ELSE k = n
    BY <1>1, LinesEnd
  <1> DEFINE s == SubSeq(output, 1, k)
             t == SubSeq(output, k + 1, n)
  <1>5. Len(s) = k /\ DOMAIN s = 1..k /\ \A i \in 1..k : s[i] = output[i]
    BY <1>2, Beginning
  <1>6. \A i \in Logs(output) : i > k /\ i \in 1..n
    <2> SUFFICES ASSUME NEW i \in Logs(output) PROVE i > k /\ i \in 1..n
      OBVIOUS
    <2>1. i \in 1..n /\ output[i].kind = "log"
      BY <1>3 DEF Logs
    <2>2. i \notin 1..k
      BY <1>4, <2>1 DEF IsLine
    <2> QED
      BY <1>3, <2>1, <2>2
  <1>7. /\ t \in Seq(Item) /\ Numbers(t) = Numbers(output)
        /\ InOrder(output, earlyLogs) => InOrder(t, earlyLogs)
        /\ DOMAIN t = 1..(n - k) /\ \A i \in 1..(n - k) : t[i] = output[k + i]
    BY <1>2, <1>6, LogsAfter
  <1>8. ~junk'
    <2>1. \A x \in ToSet(s) : IsLine(x)
      BY <1>4, <1>5 DEF ToSet
    <2> QED
      BY <1>1, <1>4, <2>1 DEF BootInv, LogsArrive
  <1>9. Contains(s, Line("EC2")) <=> Announced
    <2>1. Contains(s, Line("EC2")) <=> \E i \in 1..k : output[i] = Line("EC2")
      <3> HIDE DEF s
      <3> QED
        BY <1>5 DEF Contains
    <2>2. Announced <=> \E i \in 1..n : output[i] = Line("EC2")
      BY <1>3 DEF Announced
    <2> HIDE DEF s, n
    <2>3. CASE Announced
      BY <1>4, <2>1, <2>3
    <2>4. CASE ~Announced
      BY <1>4, <2>1, <2>2, <2>4
    <2> QED
      BY <2>3, <2>4
  <1> HIDE DEF s, n
  <1>10. /\ IF Announced THEN peer' = "connected" ELSE peer' \in {"waiting", "sent"}
         /\ peer' # "failed" /\ peer' \in {"waiting", "sent", "connected", "failed"}
    BY <1>1, <1>4, <1>9 DEF s
  <1>11. ~Announced => t = <<>>
    <2>1. ~Announced => k = n
      BY <1>4
    <2>2. SubSeq(output, n + 1, n) = <<>>
      BY <1>2, <1>3 DEF n
    <2> QED
      BY <2>1, <2>2
  <1> HIDE DEF t
  <1>12. seen' = t
    BY <1>1, <1>4 DEF t
  <1>13. BootTypes'
    BY <1>1, <1>7, <1>10, <1>12 DEF BootInv, BootTypes
  <1>14. DOMAIN output' = {}
    BY <1>1
  <1>15. ~Announced' /\ Logs(output') = {}
    BY <1>14 DEF Announced, Logs
  <1>16. PlaceInv'
    BY <1>1, <1>10, <1>15 DEF BootInv, PlaceInv
  <1>17. OutputInv'
    <2>1. CASE Announced
      BY <1>10, <1>14, <2>1 DEF OutputInv
    <2>2. CASE ~Announced
      <3>1. peer' # "connected" /\ seen' = <<>>
        BY <1>10, <1>11, <1>12, <2>2
      <3> QED
        BY <1>14, <1>15, <3>1 DEF OutputInv, Logs
    <2> QED
      BY <2>1, <2>2
  <1>18. LogsArrive'
    <2>1. seen \o output = output
      BY <1>2
    <2>2. /\ Numbers(seen') = Numbers(seen \o output) /\ seen' \in Seq(Item)
          /\ InOrder(seen \o output, earlyLogs) => InOrder(seen', earlyLogs)
      BY <1>7, <1>12, <2>1
    <2> QED
      BY <1>1, <1>8, <1>10, <2>2, BootTakes
  <1> QED
    BY <1>13, <1>16, <1>17, <1>18 DEF BootInv

LEMMA BootReceives == ASSUME BootInv, ReceiveLogs PROVE BootInv'
  <1>1. /\ peer = "connected" /\ peer # "failed" /\ peer' # "failed"
        /\ UNCHANGED <<method, length, stdin, feeder, interp, wends, corked, logged, earlyLogs, buffer, peer>>
        /\ seen' = seen \o output /\ output' = <<>>
        /\ junk' = (junk \/ \E x \in ToSet(output) : IsLine(x))
    BY DEF ReceiveLogs
  <1>2. seen' \in Seq(Item)
    BY <1>1 DEF BootInv, BootTypes
  <1>3. ~junk'
    <2>1. \A x \in ToSet(output) : ~IsLine(x)
      BY <1>1 DEF BootInv, OutputInv, ToSet
    <2> QED
      BY <1>1, <2>1 DEF BootInv, LogsArrive
  <1>4. DOMAIN output' = {} /\ output' \in Seq(Item)
    BY <1>1
  <1>5. BootTypes' /\ OutputInv'
    BY <1>1, <1>2, <1>4 DEF BootInv, BootTypes, OutputInv
  <1>6. PlaceInv'
    BY <1>1, <1>4 DEF BootInv, PlaceInv, Announced
  <1>7. LogsArrive'
    BY <1>1, <1>2, <1>3, BootTakes
  <1> QED
    BY <1>5, <1>6, <1>7 DEF BootInv

\* Whatever the context logs while it comes up arrives, and once, in its order among what
\* was logged before uncork() and among what was logged after it: for any number of
\* messages, of a context that is started or forked, and wherever it is lost.
THEOREM LogsAllArrive == BootSpec => []LogsArrive
  <1>1. BootInit => BootInv
    BY BootStart
  <1>2. BootInv /\ [BootNext]_bootVars => BootInv'
    <2> SUFFICES ASSUME BootInv, [BootNext]_bootVars PROVE BootInv'
      OBVIOUS
    <2>1. CASE ReadPreamble \/ ReadTruncated \/ WriteScript \/ WriteCore
      BY <2>1, BootWaits
    <2>2. CASE Exec \/ RunScript \/ RunNothing \/ ReapFirstStage \/ SetupStdio \/ Uncork \/ Die
      BY <2>2, BootRuns
    <2>3. CASE Hello \/ SayReady \/ Announce
      BY <2>3, BootSays
    <2>4. CASE Flush
      BY <2>4, BootFlushes
    <2>5. CASE Emit
      BY <2>5, BootEmits
    <2>6. CASE Reconfigure
      BY <2>6, BootReconfigures
    <2>7. CASE ConnectionFails
      BY <2>7, BootFailed
    <2>8. CASE ReadBootstrap
      BY <2>8, BootReads
    <2>9. CASE ReceiveLogs
      BY <2>9, BootReceives
    <2>10. CASE UNCHANGED bootVars
      <3>1. BootTypes' /\ PlaceInv' /\ ~junk'
        BY <2>10 DEF BootInv, BootTypes, PlaceInv, Announced, LogsArrive, bootVars
      <3> QED
        BY <2>10, <3>1, BootQuiet DEF bootVars
    <2> QED
      BY <2>1, <2>2, <2>3, <2>4, <2>5, <2>6, <2>7, <2>8, <2>9, <2>10 DEF BootNext, BootProgress
  <1>3. BootInv => LogsArrive
    BY DEF BootInv
  <1> QED
    BY <1>1, <1>2, <1>3, PTL DEF BootSpec
=============================================================================
