---------------------------- MODULE MitogenBroker ----------------------------
(***************************************************************************)
(* The Broker of mitogen/core.py, the thread that does all I/O, and its    *)
(* Waker: defer() hands a function to the broker thread through a deque    *)
(* and a byte in a pipe.  Each thread defers one function and then waits   *)
(* for its result, as in defer_sync(), or asks for a shutdown.             *)
(***************************************************************************)
EXTENDS Naturals, Sequences

CONSTANTS
    Threads,
    ChildStreams,    \* the broker's other streams, to children
    PipeSize     \* bytes that fit the Waker's pipe

VARIABLES
    asks,      \* asks[t]: what t's function does
    at,        \* at[t]: where t is in defer()
    deferred,  \* Waker._deferred: the threads whose function is in it
    pipe,      \* bytes in the Waker's pipe
    phase,     \* where the broker thread is
    alive,     \* Broker._alive
    exitted,   \* Broker._exitted
    reading,   \* the streams with a reader in the poller, the Waker with them
    ran,       \* the threads whose function was called
    late       \* the threads that appended their function after _alive fell

brokerVars == <<asks, at, deferred, pipe, phase, alive, exitted, reading, ran, late>>

Waker == "waker"
Asks == {"result", "crash", "shutdown"}
Steps == {"before", "checked", "appended", "waiting", "returned", "raised"}

BrokerTypeOK ==
    /\ asks \in [Threads -> Asks] /\ at \in [Threads -> Steps]
    /\ deferred \in Seq(Threads) /\ pipe \in 0..PipeSize
    /\ phase \in {"poll", "drain", "grace", "ended"}
    /\ alive \in BOOLEAN /\ exitted \in BOOLEAN
    /\ reading \subseteq ChildStreams \cup {Waker} /\ ran \subseteq Threads /\ late \subseteq Threads

BrokerInit ==
    /\ asks \in [Threads -> Asks] /\ at = [t \in Threads |-> "before"]
    /\ deferred = <<>> /\ pipe = 0 /\ phase = "poll"
    /\ alive = TRUE /\ exitted = FALSE
    /\ reading = ChildStreams \cup {Waker} /\ ran = {} /\ late = {}

Goes(t, step) == at' = [at EXCEPT ![t] = step]

\* shutdown() of a broker that no longer runs, and defer() to one that exitted.
Check(t) ==
    /\ at[t] = "before"
    /\ Goes(t, IF asks[t] = "shutdown" /\ (~alive \/ exitted) THEN "returned"
               ELSE IF exitted THEN "raised" ELSE "checked")
    /\ UNCHANGED <<asks, deferred, pipe, phase, alive, exitted, reading, ran, late>>

Enqueue(t) ==
    /\ at[t] = "checked"
    /\ deferred' = Append(deferred, t)
    /\ late' = IF alive THEN late ELSE late \cup {t}
    /\ Goes(t, "appended")
    /\ UNCHANGED <<asks, pipe, phase, alive, exitted, reading, ran>>

\* defer_sync() goes on to wait for the latch.
Handed(t) == Goes(t, IF asks[t] = "result" THEN "waiting" ELSE "returned")

\* Slip: a byte for the first function of the deque only.
WakeForFirst(t) ==
    /\ at[t] = "appended"
    /\ pipe' = IF Waker \in reading /\ pipe < PipeSize /\ Len(deferred) = 1
               THEN pipe + 1 ELSE pipe
    /\ Handed(t)
    /\ UNCHANGED <<asks, deferred, phase, alive, exitted, reading, ran, late>>

\* _wake(): a full pipe, and a closed one, are ignored.
Wake(t) ==
    /\ at[t] = "appended"
    /\ pipe' = IF Waker \in reading /\ pipe < PipeSize THEN pipe + 1 ELSE pipe
    /\ Handed(t)
    /\ UNCHANGED <<asks, deferred, phase, alive, exitted, reading, ran, late>>

\* defer_sync(): latch.get().
Return(t) ==
    /\ at[t] = "waiting" /\ t \in ran
    /\ Goes(t, "returned")
    /\ UNCHANGED <<asks, deferred, pipe, phase, alive, exitted, reading, ran, late>>

\* The poller yields the Waker's pipe; Waker.on_receive() has read a byte.
LoopOnce ==
    /\ phase = "poll" /\ alive /\ pipe > 0
    /\ pipe' = pipe - 1
    /\ phase' = "drain"
    /\ UNCHANGED <<asks, at, deferred, alive, exitted, reading, ran, late>>

\* A child hung up: the stream is disconnected.
HangsUp(s) ==
    /\ phase \in {"poll", "grace"} /\ s \in reading \ {Waker}
    /\ reading' = reading \ {s}
    /\ UNCHANGED <<asks, at, deferred, pipe, phase, alive, exitted, ran, late>>

\* defer_sync()'s wrapper puts a result or an exception in the thread's latch; a
\* function without it that crashes shuts the broker down.
Run(t) ==
    /\ ran' = ran \cup {t}
    /\ alive' = (alive /\ asks[t] = "result")

Drain ==
    /\ phase = "drain"
    /\ IF deferred # <<>>
       THEN Run(Head(deferred)) /\ deferred' = Tail(deferred) /\ UNCHANGED phase
       ELSE phase' = "poll" /\ UNCHANGED <<alive, deferred, ran>>
    /\ UNCHANGED <<asks, at, pipe, exitted, reading, late>>

\* _broker_shutdown(): the Waker's on_shutdown() disconnects it; a child is sent a
\* SHUTDOWN, or its stream is disconnected too.
BeginShutdown(stay) ==
    /\ phase = "poll" /\ ~alive
    /\ reading' = reading \cap stay
    /\ phase' = "grace"
    /\ UNCHANGED <<asks, at, deferred, pipe, alive, exitted, ran, late>>

\* Nothing keeps the broker alive, or the grace is over: the rest is disconnected.
BrokerExit ==
    /\ phase = "grace"
    /\ exitted' = TRUE /\ reading' = {} /\ phase' = "ended"
    /\ UNCHANGED <<asks, at, deferred, pipe, alive, ran, late>>

BrokerSteps == LoopOnce \/ Drain \/ BrokerExit \/ \E stay \in SUBSET ChildStreams : BeginShutdown(stay)
ThreadSteps(t) == Check(t) \/ Enqueue(t) \/ Wake(t) \/ Return(t)

BrokerNext ==
    \/ BrokerSteps
    \/ \E s \in ChildStreams : HangsUp(s)
    \/ \E t \in Threads : ThreadSteps(t)

BrokerSpec == BrokerInit /\ [][BrokerNext]_brokerVars

----------------------------------------------------------------------------
(* Correctness.                                                            *)

\* "one byte needs to be pending regardless of queue length" (Waker.on_receive):
\* the broker never sleeps on a function, whichever way defer(), with its append
\* and its write, and the drain of another function interleave.
NoLostWakeup ==
    deferred # <<>> /\ phase = "poll" /\ Waker \in reading =>
        pipe > 0 \/ \E t \in Threads : at[t] = "appended"

\* What a shutdown leaves in the deque was put there after _alive fell: a function
\* that was deferred before is run.
OnlyLateOnesAreLost ==
    phase \in {"grace", "ended"} => \A i \in DOMAIN deferred : deferred[i] \in late

\* Every function that was deferred in time runs.
DeferredIsRun == NoLostWakeup /\ OnlyLateOnesAreLost
=============================================================================
