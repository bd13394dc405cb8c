---------------------------- MODULE MitogenPool ----------------------------
(***************************************************************************)
(* The service pool of a child context: Receiver and Dispatcher of         *)
(* mitogen/core.py, Select of mitogen/select.py, and Pool and              *)
(* SerializedInvoker of mitogen/service.py.  Service calls come before     *)
(* there is a pool: the Dispatcher's receiver collects them and wakes the  *)
(* main thread, which makes the pool and hands the receiver to its Select  *)
(* while the broker keeps delivering.  Workers then take from the Select,  *)
(* find or make the service, and run its calls one at a time.              *)
(***************************************************************************)
EXTENDS Naturals, Sequences, FiniteSets, SequencesExt, FiniteSetsExt

CONSTANTS
    Requests,   \* CALL_SERVICE messages for one service
    Workers

VARIABLES
    coming,    \* requests that have not arrived
    handler,   \* the receiver that the handle CALL_SERVICE belongs to
    box,       \* box[r]: the messages in a receiver's latch
    notify,    \* notify[r]: Receiver.notify
    broker,    \* its place in _on_receive(), and for which receiver and message
    stubs,     \* messages STUB_CALL_SERVICE for the main thread
    main,      \* its place in _init_service_pool()
    left,      \* entries that Select.add() has still to put
    entries,   \* the Select's own latch: a receiver for each message
    doing,     \* doing[w]: worker w's place, and the receiver, message and invoker it has
    lock,      \* Pool._lock
    published, \* Pool._invoker_by_name[service]
    queue, running,    \* of each SerializedInvoker
    served,     \* requests that have been answered, with a result or an error
    closed

poolVars == <<coming, handler, box, notify, broker, stubs, main, left, entries, doing, lock,
              published, queue, running, served, closed>>
deliveryVars == <<coming, handler, box, notify, broker, stubs, main, left>>
invokerVars == <<lock, published, queue, running, served>>

Receivers == {"stub", "own"}    \* Dispatcher._service_recv and Pool._receiver
Invokers == {"added", "returned"}
Nothing == "none"
NoWorker == [at |-> "unborn", recv |-> Nothing, msg |-> Nothing, inv |-> Nothing]
Waiting == [NoWorker EXCEPT !.at = "get"]
Idle == [at |-> "idle", recv |-> Nothing, msg |-> Nothing]

PoolTypeOK ==
    /\ \A r \in Receivers : ToSet(box[r]) \subseteq Requests
    /\ \A r \in Receivers : notify[r] \in {Nothing, "wake", "select"}
    /\ broker.at \in {"idle", "put", "notify", "joined"} /\ ToSet(entries) \subseteq Receivers
    /\ main \in {"calls", "receiver", "own", "putOwn", "steal", "stub", "putStub", "start", "made"}
    /\ \A i \in Invokers : ToSet(queue[i]) \subseteq Requests
    /\ served \subseteq Requests /\ lock \in Workers \cup {Nothing}

PoolInit ==
    /\ coming = Requests /\ handler = "stub"
    /\ box = [r \in Receivers |-> <<>>]
    /\ notify = [r \in Receivers |-> IF r = "stub" THEN "wake" ELSE Nothing]
    /\ broker = Idle /\ stubs = 0 /\ main = "calls" /\ left = 0 /\ entries = <<>>
    /\ doing = [w \in Workers |-> NoWorker] /\ lock = Nothing /\ published = Nothing
    /\ queue = [i \in Invokers |-> <<>>] /\ running = [i \in Invokers |-> FALSE]
    /\ served = {} /\ closed = FALSE

----------------------------------------------------------------------------
(* The broker delivers: Router._invoke() finds the receiver, and           *)
(* Receiver._on_receive() puts the message and then notifies.              *)

Arrive(m) ==
    /\ broker = Idle /\ m \in coming /\ ~closed
    /\ coming' = coming \ {m} /\ broker' = [at |-> "put", recv |-> handler, msg |-> m]
    /\ UNCHANGED <<handler, box, notify, stubs, main, left, entries, doing, invokerVars, closed>>

PutMessage ==
    /\ broker.at = "put"
    /\ box' = [box EXCEPT ![broker.recv] = Append(@, broker.msg)]
    /\ broker' = [broker EXCEPT !.at = "notify"]
    /\ UNCHANGED <<coming, handler, notify, stubs, main, left, entries, doing, invokerVars, closed>>

Notify ==
    /\ broker.at = "notify" /\ broker' = Idle
    /\ stubs' = stubs + (IF notify[broker.recv] = "wake" THEN 1 ELSE 0)
    /\ entries' = IF notify[broker.recv] = "select" THEN Append(entries, broker.recv) ELSE entries
    /\ UNCHANGED <<coming, handler, box, notify, main, left, doing, invokerVars, closed>>

----------------------------------------------------------------------------
(* The main thread: Dispatcher._dispatch_calls(), _init_service_pool().    *)

MainGoes(from, to) == main = from /\ main' = to

\* A stub message makes a pool, when there is none.
TakeStub ==
    /\ stubs > 0 /\ stubs' = stubs - 1
    /\ main \in {"calls", "made"} /\ main' = IF main = "calls" THEN "receiver" ELSE main
    /\ UNCHANGED <<coming, handler, box, notify, broker, left, entries, doing, invokerVars, closed>>

\* Pool.__init__(): its own receiver takes over the handle.
TakeHandle ==
    /\ MainGoes("receiver", "own") /\ handler' = "own"
    /\ UNCHANGED <<coming, box, notify, broker, stubs, left, entries, doing, invokerVars, closed>>

\* Slip: what the receiver has already is left there.
AddLater(r) == notify' = [notify EXCEPT ![r] = "select"] /\ left' = 0

\* Select.add(): the receiver notifies the Select from now on; what it has is then put.
Add(r) ==
    /\ notify' = [notify EXCEPT ![r] = "select"] /\ left' = Len(box[r])

AddOwn ==
    /\ MainGoes("own", "putOwn") /\ Add("own")
    /\ UNCHANGED <<coming, handler, box, broker, stubs, entries, doing, invokerVars, closed>>

\* The entries that add() puts; then the receiver of the Dispatcher gets another notifier.
PutEntry(from, r, to) ==
    /\ main = from /\ main' = IF left = 0 THEN to ELSE from
    /\ left' = IF left = 0 THEN 0 ELSE left - 1
    /\ entries' = IF left = 0 THEN entries ELSE Append(entries, r)
    /\ UNCHANGED <<coming, handler, box, notify, broker, stubs, doing, invokerVars, closed>>

StealStub ==
    /\ MainGoes("steal", "stub") /\ notify' = [notify EXCEPT !["stub"] = Nothing]
    /\ UNCHANGED <<coming, handler, box, broker, stubs, left, entries, doing, invokerVars, closed>>

AddStub ==
    /\ MainGoes("stub", "putStub") /\ Add("stub")
    /\ UNCHANGED <<coming, handler, box, broker, stubs, entries, doing, invokerVars, closed>>

StartWorkers ==
    /\ MainGoes("start", "made") /\ doing' = [w \in Workers |-> Waiting]
    /\ UNCHANGED <<coming, handler, box, notify, broker, stubs, left, entries, invokerVars, closed>>

MainStep ==
    \/ TakeStub \/ TakeHandle \/ AddOwn \/ PutEntry("putOwn", "own", "steal") \/ StealStub
    \/ AddStub \/ PutEntry("putStub", "stub", "start") \/ StartWorkers

----------------------------------------------------------------------------
(* The workers: Pool._worker_run(), Select.get_event().                    *)

At(w, pc) == doing[w].at = pc
Goto(w, pc) == doing' = [doing EXCEPT ![w].at = pc]

TakeEntry(w) ==
    /\ At(w, "get") /\ entries # <<>> /\ ~closed
    /\ entries' = Tail(entries)
    /\ doing' = [doing EXCEPT ![w].at = "take", ![w].recv = Head(entries)]
    /\ UNCHANGED <<deliveryVars, invokerVars, closed>>

\* An entry without a message is passed over.
TakeMessage(w) ==
    LET r == doing[w].recv IN
    /\ At(w, "take")
    /\ IF box[r] = <<>> THEN doing' = [doing EXCEPT ![w] = Waiting] /\ UNCHANGED box
       ELSE /\ doing' = [doing EXCEPT ![w].at = "lookup", ![w].msg = Head(box[r])]
            /\ box' = [box EXCEPT ![r] = Tail(@)]
    /\ UNCHANGED <<coming, handler, notify, broker, stubs, main, left, entries, invokerVars,
                   closed>>

Found(w) == doing' = [doing EXCEPT ![w].at = "invoke", ![w].inv = published]

\* get_invoker(), without the lock.
LookUp(w) ==
    /\ At(w, "lookup")
    /\ IF published = Nothing THEN Goto(w, "acquire") ELSE Found(w)
    /\ UNCHANGED <<deliveryVars, entries, invokerVars, closed>>

\* With the lock: a service that another worker has made meanwhile is found.
Acquire(w) ==
    /\ At(w, "acquire") /\ lock = Nothing
    /\ IF published # Nothing THEN Found(w) /\ UNCHANGED lock ELSE Goto(w, "activate") /\ lock' = w
    /\ UNCHANGED <<deliveryVars, entries, published, queue, running, served, closed>>

\* Activator.activate(): Pool.add() publishes an invoker ...
Activate(w) ==
    /\ At(w, "activate") /\ published' = "added" /\ Goto(w, "publish")
    /\ UNCHANGED <<deliveryVars, entries, lock, queue, running, served, closed>>

\* The caller may not activate it, or it cannot be imported or made: the lock is released and
\* the call answered with the error.
ActivateFails(w) ==
    /\ At(w, "activate") /\ lock' = Nothing /\ served' = served \cup {doing[w].msg}
    /\ doing' = [doing EXCEPT ![w] = Waiting]
    /\ UNCHANGED <<deliveryVars, entries, published, queue, running, closed>>

\* ... and get_invoker() another, for the same service.
Publish(w) ==
    /\ At(w, "publish") /\ published' = "returned" /\ lock' = Nothing
    /\ doing' = [doing EXCEPT ![w].at = "invoke", ![w].inv = "returned"]
    /\ UNCHANGED <<deliveryVars, entries, queue, running, served, closed>>

\* SerializedInvoker.invoke(): the call is queued; who finds it idle runs the queue.
Invoke(w) ==
    LET i == doing[w].inv IN
    /\ At(w, "invoke")
    /\ queue' = [queue EXCEPT ![i] = Append(@, doing[w].msg)]
    /\ running' = [running EXCEPT ![i] = TRUE]
    /\ doing' = [doing EXCEPT ![w] = IF running[i] THEN Waiting
                                    ELSE [Waiting EXCEPT !.at = "pop", !.inv = i]]
    /\ UNCHANGED <<deliveryVars, entries, lock, published, served, closed>>

\* Slip: the invoker is idle as soon as its last call is taken.
PopLast(w) ==
    LET i == doing[w].inv IN
    /\ At(w, "pop")
    /\ IF queue[i] = <<>>
       THEN doing' = [doing EXCEPT ![w] = Waiting] /\ UNCHANGED <<queue, running>>
       ELSE /\ queue' = [queue EXCEPT ![i] = Tail(@)]
            /\ running' = [running EXCEPT ![i] = Len(queue[i]) > 1]
            /\ doing' = [doing EXCEPT ![w].at = "run", ![w].msg = Head(queue[i])]
    /\ UNCHANGED <<deliveryVars, entries, lock, published, served, closed>>

\* _pop(): the test for an empty queue and the end of the run are one.
Pop(w) ==
    LET i == doing[w].inv IN
    /\ At(w, "pop")
    /\ IF queue[i] = <<>>
       THEN /\ running' = [running EXCEPT ![i] = FALSE] /\ doing' = [doing EXCEPT ![w] = Waiting]
            /\ UNCHANGED queue
       ELSE /\ queue' = [queue EXCEPT ![i] = Tail(@)]
            /\ doing' = [doing EXCEPT ![w].at = "run", ![w].msg = Head(queue[i])]
            /\ UNCHANGED running
    /\ UNCHANGED <<deliveryVars, entries, lock, published, served, closed>>

\* The method runs and its reply is sent.
Serve(w) ==
    /\ At(w, "run") /\ served' = served \cup {doing[w].msg} /\ Goto(w, "pop")
    /\ UNCHANGED <<deliveryVars, entries, lock, published, queue, running, closed>>

\* Pool.stop(), by the broker, which then joins the workers: they end when they next ask
\* the closed Select.
Stop ==
    /\ main = "made" /\ broker = Idle /\ ~closed
    /\ closed' = TRUE /\ broker' = [Idle EXCEPT !.at = "joined"]
    /\ notify' = [r \in Receivers |-> Nothing]
    /\ UNCHANGED <<coming, handler, box, stubs, main, left, entries, doing, invokerVars>>

Leaves(w) ==
    /\ At(w, "get") /\ closed /\ doing' = [doing EXCEPT ![w] = NoWorker]
    /\ UNCHANGED <<deliveryVars, entries, invokerVars, closed>>

WorkerStep(w) ==
    \/ TakeEntry(w) \/ TakeMessage(w) \/ LookUp(w) \/ Acquire(w) \/ Activate(w) \/ ActivateFails(w)
    \/ Publish(w) \/ Invoke(w) \/ Pop(w) \/ Serve(w) \/ Leaves(w)

PoolProgress == PutMessage \/ Notify \/ MainStep \/ \E w \in Workers : WorkerStep(w)
PoolNext == (\E m \in Requests : Arrive(m)) \/ PoolProgress \/ Stop

\* Threads go on running; that the pool is stopped, or a request arrives, is not assured.
PoolFairness == WF_poolVars(PoolProgress)
PoolSpec == PoolInit /\ [][PoolNext]_poolVars

----------------------------------------------------------------------------
(* Properties.                                                             *)

\* An invoker runs one call at a time (service.py:283-322).  The service does so too, but
\* for a worker that found the invoker which add() published before it was replaced
\* (service.py:564-566): then each of the two runs calls of its own.
RunBy(i) == {w \in Workers : doing[w].at \in {"pop", "run"} /\ doing[w].inv = i}
OneAtATime ==
    \A i \in Invokers : Cardinality(RunBy(i)) <= 1 /\ (queue[i] # <<>> => Cardinality(RunBy(i)) = 1)

\* Whatever arrives is served, unless the pool is stopped: no message is left in a receiver
\* that the Dispatcher hands over to the Select (core.py:3905, select.py:199-205,
\* service.py:480-486).
ArrivedIsServed == []<>(Requests = coming \cup served \/ closed)
=============================================================================
