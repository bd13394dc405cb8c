-------------------------- MODULE MitogenConnection --------------------------
(***************************************************************************)
(* Connection, Reaper and TimerList of mitogen/parent.py: the life of a    *)
(* child process, from connect() to its exit status.  Every step is one of *)
(* the broker thread's, but for Answer, of the thread that called          *)
(* connect().  The children, and what they write, are external.            *)
(***************************************************************************)
EXTENDS Naturals, Sequences, SequencesExt

CONSTANTS
    Conns,
    Silent,                    \* those whose child starts, and then does nothing at all
    TermAt, KillAt, GiveUpAt   \* Reaper's tries: 2, 6 and 20

VARIABLES
    caller,     \* the thread in connect()
    conn,       \* the Connection's own attributes
    proc,       \* the child: "none", "running", "exited"
    reaper,     \* its Reaper: none, or tries, and whether its timer is active
    listeners,  \* the broker's listeners of "shutdown", in order
    firing,     \* the position fire() is at, 0 before the shutdown
    connBroker  \* "running", "firing", "grace", "ended"

connVars == <<caller, conn, proc, reaper, listeners, firing, connBroker>>

Sides == {"none", "open", "closed"}
Errors == {"none", "start", "eof", "timeout", "cancelled"}

ConnTypeOK ==
    /\ caller \in [Conns -> {"waiting", "connected", "failed"}]
    /\ conn \in [Conns -> [stdio : Sides, stderr : Sides, timer : BOOLEAN, exception : Errors,
                           put : BOOLEAN, registered : BOOLEAN, detached : BOOLEAN]]
    /\ proc \in [Conns -> {"none", "running", "exited"}]
    /\ reaper \in [Conns -> [made : BOOLEAN, tries : 0..GiveUpAt + 1, timer : BOOLEAN]]
    /\ listeners \in Seq([conn : Conns, what : {"connection", "reaper"}])
    /\ firing \in 0..2 * Len(listeners) + 2
    /\ connBroker \in {"running", "firing", "grace", "ended"}

Fresh == [stdio |-> "none", stderr |-> "none", timer |-> FALSE, exception |-> "none",
          put |-> FALSE, registered |-> FALSE, detached |-> FALSE]

ConnInit ==
    /\ caller = [c \in Conns |-> "waiting"] /\ conn = [c \in Conns |-> Fresh]
    /\ proc = [c \in Conns |-> "none"]
    /\ reaper = [c \in Conns |-> [made |-> FALSE, tries |-> 0, timer |-> FALSE]]
    /\ listeners = <<>> /\ firing = 0 /\ connBroker = "running"

Listener(c, what) == [conn |-> c, what |-> what]
Unlisten(seq, e) == IF e \in ToSet(seq) THEN RemoveFirst(seq, e) ELSE seq
Running == connBroker \in {"running", "grace"}
ClosedSide(side) == IF side = "open" THEN "closed" ELSE side

\* Reaper.reap(), of a reaper that tried n times: the child's status, or another try,
\* with a signal when it was asked often enough.  A set-uid child gets no signal.
Reap(c, n, heeds) ==
    LET tries == n + 1
        again == proc[c] = "running" /\ tries =< GiveUpAt IN
    /\ reaper' = [reaper EXCEPT ![c] =
           [made |-> TRUE, tries |-> IF proc[c] = "running" THEN tries ELSE n, timer |-> again]]
    /\ proc' = IF again /\ heeds /\ tries \in {TermAt, KillAt}
               THEN [proc EXCEPT ![c] = "exited"] ELSE proc

\* The reaper that _on_streams_disconnected() makes, unless there is one.
MakesReaper(c) ==
    IF reaper[c].made \/ proc[c] = "none" THEN UNCHANGED <<reaper, proc>> ELSE Reap(c, 0, FALSE)

\* The reaper's first timer adds its listener.
WithReaper(c, seq) ==
    IF ~reaper[c].made /\ proc[c] = "running" THEN Append(seq, Listener(c, "reaper")) ELSE seq

\* Slip: nobody is told.
FailUntold(c, why) ==
    /\ conn' = [conn EXCEPT ![c] =
           [@ EXCEPT !.stdio = ClosedSide(@), !.stderr = ClosedSide(@), !.timer = FALSE,
                     !.exception = IF @ = "none" THEN why ELSE @]]
    /\ listeners' = WithReaper(c, Unlisten(listeners, Listener(c, "connection")))
    /\ MakesReaper(c)

\* What it makes of a connection: the first reason is kept.
Fallen(r, why) ==
    [r EXCEPT !.stdio = ClosedSide(@), !.stderr = ClosedSide(@), !.timer = FALSE, !.put = TRUE,
              !.exception = IF @ = "none" THEN why ELSE @]

\* _fail_connection(): both streams are disconnected, whose listeners make the
\* reaper; and connect() is answered.
Fail(c, why) ==
    /\ conn' = [conn EXCEPT ![c] = Fallen(conn[c], why)]
    /\ listeners' = WithReaper(c, IF conn[c].exception = "none"
                                  THEN Unlisten(listeners, Listener(c, "connection"))
                                  ELSE listeners)
    /\ MakesReaper(c)

\* _async_connect(), from the broker's deque, which nobody looks at any more in the
\* grace period; the child starts, with a separate stderr or without, or does not.
AsyncConnect(c, child) ==
    /\ caller[c] = "waiting" /\ conn[c] = Fresh /\ connBroker = "running"
    /\ IF child = "fails"
       THEN /\ conn' = [conn EXCEPT ![c].exception = "start", ![c].put = TRUE]
            /\ UNCHANGED <<proc, listeners>>
       ELSE /\ conn' = [conn EXCEPT ![c].stdio = "open", ![c].stderr = child, ![c].timer = TRUE]
            /\ proc' = [proc EXCEPT ![c] = "running"]
            /\ listeners' = Append(listeners, Listener(c, "connection"))
    /\ UNCHANGED <<caller, reaper, firing, connBroker>>

\* Slip: the listener stays.
CompleteListening(c) ==
    /\ Running /\ conn[c].stdio = "open" /\ ~conn[c].registered
    /\ conn' = [conn EXCEPT ![c].timer = FALSE, ![c].registered = TRUE, ![c].put = TRUE]
    /\ UNCHANGED <<caller, proc, reaper, listeners, firing, connBroker>>

\* The child wrote the last of the three markers: _complete_connection().
Complete(c) ==
    /\ Running /\ conn[c].stdio = "open" /\ ~conn[c].registered
    /\ conn' = [conn EXCEPT ![c].timer = FALSE, ![c].registered = TRUE, ![c].put = TRUE]
    /\ listeners' = Unlisten(listeners, Listener(c, "connection"))
    /\ UNCHANGED <<caller, proc, reaper, firing, connBroker>>

\* The child sent DETACHING.
DetachChild(c) ==
    /\ Running /\ conn[c].registered /\ conn[c].stdio = "open" /\ ~conn[c].detached
    /\ conn' = [conn EXCEPT ![c].detached = TRUE]
    /\ UNCHANGED <<caller, proc, reaper, listeners, firing, connBroker>>

\* connect() returns, or raises what the connection failed with.
Answer(c) ==
    /\ caller[c] = "waiting" /\ conn[c].put
    /\ caller' = [caller EXCEPT ![c] = IF conn[c].exception = "none" THEN "connected" ELSE "failed"]
    /\ UNCHANGED <<conn, proc, reaper, listeners, firing, connBroker>>

\* The end of both of a child's streams, while the timer runs and after.
Gone(c) ==
    IF conn[c].timer THEN Fail(c, "eof")
    ELSE /\ conn' = [conn EXCEPT ![c].stdio = ClosedSide(@), ![c].stderr = ClosedSide(@)]
         /\ listeners' = WithReaper(c, listeners)
         /\ MakesReaper(c)

\* An empty read, of one stream before the other: the last one counts.
ChildHangsUp(c, side) ==
    /\ Running /\ conn[c][side] = "open"
    /\ IF conn[c][IF side = "stdio" THEN "stderr" ELSE "stdio"] = "open"
       THEN /\ conn' = [conn EXCEPT ![c][side] = "closed"]
            /\ UNCHANGED <<proc, reaper, listeners>>
       ELSE Gone(c)
    /\ UNCHANGED <<caller, firing, connBroker>>

ConnectTimeout(c) ==
    /\ Running /\ conn[c].timer
    /\ Fail(c, "timeout")
    /\ UNCHANGED <<caller, firing, connBroker>>

\* The reaper's timer.  Its listener is removed with an active timer only, which it
\* is not while the timer's function runs: it stays.
ReapAgain(c, heeds) ==
    /\ Running /\ reaper[c].timer
    /\ Reap(c, reaper[c].tries, heeds)
    /\ UNCHANGED <<caller, conn, listeners, firing, connBroker>>

Exits(c) ==
    /\ proc[c] = "running"
    /\ proc' = [proc EXCEPT ![c] = "exited"]
    /\ UNCHANGED <<caller, conn, reaper, listeners, firing, connBroker>>

----------------------------------------------------------------------------
(* The end of the broker.                                                  *)

ConnShutdown ==
    /\ connBroker = "running"
    /\ connBroker' = "firing" /\ firing' = 1
    /\ UNCHANGED <<caller, conn, proc, reaper, listeners>>

\* fire() goes through the list by position while the connections remove
\* themselves from it: the one after each is not called.  A reaper waits on, but
\* for a child that detached.
FireNext ==
    /\ connBroker = "firing" /\ firing =< Len(listeners)
    /\ firing' = firing + 1
    /\ IF listeners[firing].what = "connection"
       THEN Fail(listeners[firing].conn, "cancelled")
       ELSE /\ reaper' = [reaper EXCEPT ![listeners[firing].conn].timer =
                             @ /\ ~conn[listeners[firing].conn].detached]
            /\ UNCHANGED <<conn, proc, listeners>>
    /\ UNCHANGED <<caller, connBroker>>

\* What is left of the streams is disconnected, and their children reaped; nobody
\* calls the listeners any more.
Disconnects(out, err) ==
    LET last == {c \in Conns : /\ conn[c].stdio = "open" \/ conn[c].stderr = "open"
                               /\ conn[c].stdio # "open" \/ c \in out
                               /\ conn[c].stderr # "open" \/ c \in err}
        reaped == {c \in last : ~reaper[c].made} IN
    /\ conn' = [c \in Conns |->
         [conn[c] EXCEPT !.stdio = IF c \in out THEN ClosedSide(@) ELSE @,
                         !.stderr = IF c \in err THEN ClosedSide(@) ELSE @,
                         !.exception = IF c \in last /\ conn[c].timer THEN "eof" ELSE @,
                         !.put = @ \/ (c \in last /\ conn[c].timer),
                         !.timer = @ /\ c \notin last]]
    /\ reaper' = [c \in Conns |->
         IF c \notin reaped THEN reaper[c]
         ELSE IF proc[c] = "running" THEN [made |-> TRUE, tries |-> 1, timer |-> TRUE]
         ELSE [reaper[c] EXCEPT !.made = TRUE]]

\* Every reader's on_shutdown(): a child that is connected is sent a SHUTDOWN, all
\* other streams are disconnected.
BeginGrace ==
    /\ connBroker = "firing" /\ firing > Len(listeners)
    /\ connBroker' = "grace"
    /\ Disconnects({c \in Conns : ~conn[c].registered}, Conns)
    /\ UNCHANGED <<caller, proc, listeners, firing>>

\* What keep_alive() waits for.
ConnPending == \E c \in Conns :
    conn[c].stdio = "open" \/ conn[c].stderr = "open" \/ conn[c].timer \/ reaper[c].timer

\* Nothing is left to wait for, or the grace period is over.
End(late) ==
    /\ connBroker = "grace" /\ (ConnPending => late)
    /\ connBroker' = "ended"
    /\ Disconnects(Conns, Conns)
    /\ UNCHANGED <<caller, proc, listeners, firing>>

ConnSteps(c) ==
    \/ \E child \in IF c \in Silent THEN {"none"} ELSE {"fails", "none", "open"} :
          AsyncConnect(c, child)
    \/ ConnectTimeout(c)
    \/ \E heeds \in IF c \in Silent THEN {FALSE} ELSE BOOLEAN : ReapAgain(c, heeds)

ConnNext ==
    \/ \E c \in Conns :
        \/ Answer(c) \/ ConnSteps(c)
        \/ /\ c \notin Silent
           /\ \/ Complete(c) \/ DetachChild(c) \/ Exits(c)
              \/ \E side \in {"stdio", "stderr"} : ChildHangsUp(c, side)
    \/ ConnShutdown \/ FireNext \/ BeginGrace \/ \E late \in BOOLEAN : End(late)

\* The broker works through its timers and through a shutdown; threads return.
ConnProgress ==
    \/ FireNext \/ BeginGrace
    \/ \E c \in Conns : Answer(c) \/ ConnectTimeout(c) \/ \E heeds \in BOOLEAN : ReapAgain(c, heeds)
ConnFairness == WF_connVars(ConnProgress)
ConnSpec == ConnInit /\ [][ConnNext]_connVars

----------------------------------------------------------------------------
(* Correctness.                                                            *)

\* connect() told its caller how the connection ended, once and for all: one that
\* was connected is not failed by its timer, or by a shutdown's listener, that ran
\* after; one that failed has no stream, no timer and no listener left over, was
\* never registered with the router, and its child is being reaped.
OutcomeIsFinal ==
    \A c \in Conns :
        /\ caller[c] = "connected" => conn[c].exception = "none"
        /\ conn[c].exception # "none" =>
             /\ "open" \notin {conn[c].stdio, conn[c].stderr}
             /\ ~conn[c].timer /\ ~conn[c].registered /\ conn[c].put
             /\ reaper[c].made \/ proc[c] = "none"
             /\ Listener(c, "connection") \in ToSet(listeners) => connBroker \in {"grace", "ended"}

\* Whatever the child does, however many connections the shutdown's fire() skips:
\* a connect() that the broker began is answered.
ConnectAnswered ==
    []<>(\A c \in Conns : conn[c] = Fresh \/ caller[c] \in {"connected", "failed"})
=============================================================================
