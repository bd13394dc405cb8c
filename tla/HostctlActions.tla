--------------------------- MODULE HostctlActions ---------------------------
(***************************************************************************)
(* `hostctl stop`, `start` and `stopstart` (roles/hostctl/files/hostctl.sh)*)
(* call the stop or start function of every registered module, by priority *)
(* and then by name; the functions of the modules here are stopService and *)
(* startService.  systemd and the services are external: a service may     *)
(* outlive the job that stops it, need any time to answer, or never        *)
(* answer.                                                                 *)
(***************************************************************************)
EXTENDS Integers, Sequences

CONSTANTS
    Modules,     \* the registered modules, by name: sequence of priorities
    PriorityMin, PriorityMax,
    Timeout      \* startServiceTimeout, in seconds

\* A module whose priority is outside of what the script goes through may be registered.
ASSUME ActionsAssumption ==
    /\ Modules \in Seq(Int)
    /\ PriorityMin \in Int /\ PriorityMax \in Int /\ PriorityMin =< PriorityMax
    /\ Timeout \in Nat

VARIABLES
    cmds,      \* the commands still to execute
    prio,      \* the priority that modulesCmd is at
    module,    \* the module that it looks at
    doing,     \* where it is in stopService or startService
    timer,     \* the seconds that startService has waited
    service,   \* service[n]: what module n's service does
    told,      \* told[c][n]: what command c displayed of module n's service
    served,    \* the modules that were called, in order, for each command
    ended

actionVars == <<cmds, prio, module, doing, timer, service, told, served, ended>>

Ids == DOMAIN Modules
States == {"up", "stopping", "down", "starting", "hung"}
\* "is stopped", "is already started", "is started", "start timed-out", "start failed"
Messages == {"nothing", "stopped", "already", "started", "timedout", "refused"}
CmdLines == {<<"stop">>, <<"start">>, <<"stop", "start">>}

ActionsTypeOK ==
    /\ cmds \in CmdLines \cup {<<>>} /\ ended \in BOOLEAN
    /\ prio \in PriorityMin..PriorityMax /\ module \in 1..Len(Modules) + 1
    /\ doing \in {"look", "wait"} /\ timer \in 0..Timeout
    /\ service \in [Ids -> States]
    /\ told \in [{"stop", "start"} -> [Ids -> Messages]]
    /\ served \in [{"stop", "start"} -> Seq(Ids)]

Cmd == Head(cmds)

\* Slip: every command in ascending order.
AscendingOnly(cmd) == FALSE

\* hostModulesCmdReversePriority
Reversed(cmd) == cmd = "stop"

Order(cmd) ==
    IF Reversed(cmd) THEN [from |-> PriorityMax, to |-> PriorityMin, by |-> 0 - 1]
    ELSE [from |-> PriorityMin, to |-> PriorityMax, by |-> 1]

ActionsInit ==
    /\ cmds \in CmdLines
    /\ prio = Order(cmds[1]).from /\ module = 1
    /\ doing = "look" /\ timer = 0
    /\ service \in [Ids -> {"up", "down"}]
    /\ told = [c \in {"stop", "start"} |-> [n \in Ids |-> "nothing"]]
    /\ served = [c \in {"stop", "start"} |-> <<>>] /\ ended = FALSE

\* The module's function returned, or it was not called.
NextModule ==
    /\ module' = module + 1 /\ doing' = "look" /\ timer' = 0
    /\ UNCHANGED <<cmds, prio, ended>>

Looking == cmds # <<>> /\ doing = "look" /\ module \in Ids
Called == Looking /\ Modules[module] = prio
Serve == served' = [served EXCEPT ![Cmd] = Append(@, module)]
Tell(message) == told' = [told EXCEPT ![Cmd][module] = message]

Skip ==
    /\ Looking /\ Modules[module] # prio
    /\ NextModule
    /\ UNCHANGED <<service, told, served>>

NextPriority ==
    /\ cmds # <<>> /\ module = Len(Modules) + 1 /\ prio # Order(Cmd).to
    /\ prio' = prio + Order(Cmd).by
    /\ module' = 1
    /\ UNCHANGED <<cmds, doing, timer, service, told, served, ended>>

NextCmd ==
    /\ cmds # <<>> /\ module = Len(Modules) + 1 /\ prio = Order(Cmd).to
    /\ cmds' = Tail(cmds)
    /\ IF cmds' = <<>> THEN ended' = TRUE /\ UNCHANGED <<prio, module>>
       ELSE prio' = Order(Head(cmds')).from /\ module' = 1 /\ UNCHANGED ended
    /\ UNCHANGED <<doing, timer, service, told, served>>

\* stopService: the result of `systemctl stop` is ignored, a service that it fails
\* for stays as it was; and what `ps` shows is searched for the name between quotes,
\* which no process has.  It never waits, and displays success.
StopService(outcome) ==
    /\ Called /\ Cmd = "stop"
    /\ service' = [service EXCEPT ![module] =
                      IF @ = "down" \/ outcome = "failed" THEN @ ELSE outcome]
    /\ Tell("stopped") /\ Serve /\ NextModule

Answers == service[module] \in {"up", "stopping"}

\* startService: a service that answers is left alone, be it one that is stopping;
\* another is started, which systemd may refuse.
StartService(outcome) ==
    /\ Called /\ Cmd = "start"
    /\ Serve
    /\ IF Answers THEN NextModule /\ Tell("already") /\ UNCHANGED service
       ELSE IF outcome = "failed"
       THEN NextModule /\ Tell("refused") /\ UNCHANGED service
       ELSE /\ service' = [service EXCEPT ![module] = outcome]
            /\ doing' = "wait"
            /\ UNCHANGED <<cmds, prio, module, timer, told, ended>>

Wait ==
    /\ doing = "wait" /\ ~Answers /\ timer < Timeout
    /\ timer' = timer + 1
    /\ UNCHANGED <<cmds, prio, module, doing, service, told, served, ended>>

\* Slip: the loop has no end but the answer.
WaitedLong ==
    /\ doing = "wait" /\ Answers
    /\ Tell("started") /\ NextModule
    /\ UNCHANGED <<service, served>>

Waited ==
    /\ doing = "wait"
    /\ Answers \/ timer = Timeout
    /\ Tell(IF Answers THEN "started" ELSE "timedout")
    /\ NextModule
    /\ UNCHANGED <<service, served>>

\* The services themselves.
Settle(n) ==
    /\ service[n] \in {"stopping", "starting"}
    /\ service' = [service EXCEPT ![n] = IF @ = "stopping" THEN "down" ELSE "up"]
    /\ UNCHANGED <<cmds, prio, module, doing, timer, told, served, ended>>

ActionsProgress ==
    \/ Skip \/ NextPriority \/ NextCmd \/ Wait \/ Waited
    \/ \E outcome \in {"down", "stopping", "failed"} : StopService(outcome)
    \/ \E outcome \in {"up", "starting", "hung", "failed"} : StartService(outcome)

ActionsNext == ActionsProgress \/ \E n \in Ids : Settle(n)

ActionsSpec == ActionsInit /\ [][ActionsNext]_actionVars

----------------------------------------------------------------------------
(* Correctness.                                                            *)

\* What a command is for: dependencies have a lower priority, they are stopped
\* after, and started before, what depends on them.
ByPriority ==
    /\ \A i, j \in DOMAIN served["stop"] :
          i < j => Modules[served["stop"][i]] >= Modules[served["stop"][j]]
    /\ \A i, j \in DOMAIN served["start"] :
          i < j => Modules[served["start"][i]] =< Modules[served["start"][j]]

\* Every module whose priority the script goes through is called exactly once
\* for a command, whatever the services before it did; a module with another
\* priority never is.
EachServedOnce ==
    ended => \A n \in Ids, c \in {"stop", "start"} :
        LET calls == {i \in DOMAIN served[c] : served[c][i] = n} IN
        IF Modules[n] \in PriorityMin..PriorityMax /\ served[c] # <<>>
        THEN \E i \in calls : calls = {i}
        ELSE calls = {}

\* What is displayed of a start is true at the end.  Nothing is said of "is already
\* started": a service that is still stopping answers, and goes down.
StartsAreReported ==
    ended => \A n \in Ids : LET message == told["start"][n] IN
        /\ message = "started" => service[n] = "up"
        /\ message = "refused" => service[n] = "down"
        /\ service[n] \in {"starting", "hung"} => message = "timedout"

\* The modules that a command is for are served, in order and once, and what is displayed
\* of those that are started is true.  Of those that are stopped it need not be: StopWaits.
OrdersAreServed == ByPriority /\ EachServedOnce /\ StartsAreReported

\* "then we wait for the service to stop" (hostctl.sh:492): a service that is displayed as
\* stopped is down when the next module is called.  The code does not keep to it.
StopWaits ==
    \A n \in Ids :
        cmds # <<>> /\ Cmd = "stop" /\ told["stop"][n] = "stopped" => service[n] = "down"

\* No service keeps the script from its end.
ScriptEnds == <>ended
=============================================================================
