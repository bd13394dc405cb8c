-------------------------- MODULE MitogenTransport --------------------------
(***************************************************************************)
(* From a task to the connections it needs: _stack_from_spec() of          *)
(* ansible_mitogen/connection.py and the Specs of transport_config.py.  A  *)
(* stack is the hops from the controller to the account a task runs in.    *)
(* _stack_from_spec() calls itself for the host that mitogen_via= names,   *)
(* down to one that is reached directly; hops are added as the calls       *)
(* return.  The target's settings come from the task (PlayContextSpec);    *)
(* those of a host on the way from its host variables (MitogenViaSpec).  A *)
(* value is modelled by where it comes from.                               *)
(***************************************************************************)
EXTENDS Naturals, Sequences, FiniteSets, SequencesExt

CONSTANTS
    HostNames,
    Inventories,    \* what a host's variables say: [via, transport, login, given, pythons, best]
    TaskLists,
    Pythons         \* possible_pythons

Missing == "none"
NoBecome == [method |-> Missing, user |-> Missing]
Methods == {"local", "ssh", "docker", "kubectl", "sudo", "su", "doas", "mitogen_sudo"}
Becomes == [method : Methods, user : STRING] \cup {NoBecome}
TransportTask == [host : HostNames, delegate : HostNames \cup {Missing}, become : Becomes]

ASSUME TransportAssumption ==
    /\ TaskLists \subseteq Seq(TransportTask)
    /\ \A i \in Inventories : \A h \in HostNames :
           i.transport[h] \in Methods /\ i.via[h].become \in Becomes

VARIABLES
    inventory, todo,
    facts,      \* facts[h]: discovered_interpreter_python that h's tasks have reported
    walk,       \* "idle", "down" to a host that is reached directly, adding "login" or "account"
    way, depth,  \* the calls of _stack_from_spec(), and how many have not returned
    stack,      \* the hops added, each with the settings of its connection
    kept, again,    \* the interpreter kept for the task, and whether one was looked for again
    built       \* [task, error, stack] so far

transportVars == <<inventory, todo, facts, walk, way, depth, stack, kept, again, built>>

Global == "global"      \* configuration, the command line, defaults
Via(h) == inventory.via[h]
Given(h, field) == field \in inventory.given[h]

TransportInit ==
    /\ inventory \in Inventories /\ todo \in TaskLists
    /\ facts = [h \in HostNames |-> Missing] /\ built = <<>>
    /\ walk = "idle" /\ way = <<>> /\ depth = 0 /\ stack = <<>> /\ kept = Missing /\ again = FALSE

----------------------------------------------------------------------------
(* CONNECTION_METHOD: the settings that each method takes.                 *)

Shared == {"python_path", "timeout", "mask_remote_name"}
Ssh == Shared \cup {"remote_addr", "remote_user", "password", "port", "ssh_options", "ssh_args", "ssh_executable"}
Container == Shared \cup {"remote_addr", "remote_user", "tool_path"}
Become == Shared \cup {"become_pass", "become_exe", "sudo_args"}
Account == Shared \cup {"remote_user", "password", "become_exe", "sudo_args"}
Kwargs(method) ==
    CASE method = "local" -> {"python_path"}
      [] method = "ssh" -> Ssh
      [] method = "docker" -> Container
      [] method = "kubectl" -> (Container \ {"remote_user"}) \cup {"extra_args"}
      [] method \in {"sudo", "su", "doas"} -> Become
      [] method = "mitogen_sudo" -> Account
Rediscovers(method) == method = "docker"

----------------------------------------------------------------------------
(* The two Specs: where the value of a field comes from.                   *)

Own(h, field) == IF Given(h, field) THEN h ELSE Global
\* PlayContextSpec: options of the connection and its become plugin, and variables of the
\* host that the task is delegated to, if it is.
PlayContextSpec(h, field) == Own(h, field)
\* Slip: passwords are those of the play, for every host on the way.
PasswordsOfThePlay(t, h, field) ==
    IF field \in {"become_pass", "password"} THEN Own(t.host, field) ELSE Own(h, field)
\* MitogenViaSpec, for a host on the way of the task t: a timeout is not looked up, extra
\* arguments are not either, and ssh_executable is looked up in the task's own variables.
MitogenViaSpec(t, h, field) ==
    CASE field \in {"timeout", "extra_args"} -> Global
      [] field = "ssh_executable" -> Own(t.host, field)
      [] OTHER -> Own(h, field)
Target(t) == IF t.delegate = Missing THEN t.host ELSE t.delegate
Setting(t, hop, field) ==
    IF hop.onTheWay THEN MitogenViaSpec(t, hop.host, field) ELSE PlayContextSpec(hop.host, field)

----------------------------------------------------------------------------
(* The way to the target: calls of _stack_from_spec().                     *)

Current == Head(todo)
Call(h, become, onTheWay) == [host |-> h, become |-> become, onTheWay |-> onTheWay]
SeenName(h) == \E i \in DOMAIN way : way[i].host = h       \* seen_names

\* _build_stack(), for the next task.
BuildStack ==
    /\ walk = "idle" /\ todo # <<>>
    /\ walk' = "down" /\ way' = <<Call(Target(Current), Current.become, FALSE)>> /\ depth' = 1
    /\ stack' = <<>> /\ kept' = facts[Current.host] /\ again' = FALSE
    /\ UNCHANGED <<inventory, todo, facts, built>>

\* The task ends with an error, or with what it reports.
TaskEnds(error, hops) ==
    /\ built' = Append(built, [task |-> Current, error |-> error, stack |-> hops])
    /\ todo' = Tail(todo) /\ walk' = "idle"
    /\ UNCHANGED <<inventory, way, depth, stack, kept, again>>

\* The host that mitogen_via= names is unknown, or seen, or the next call's.
StackFromSpec ==
    LET via == Via(way[depth].host) IN
    /\ walk = "down"
    /\ IF via.host = Missing
       THEN walk' = "login" /\ UNCHANGED <<inventory, todo, facts, way, depth, stack, kept, again, built>>
       ELSE IF via.host \notin HostNames THEN TaskEnds("unknown", <<>>) /\ UNCHANGED facts
       ELSE IF SeenName(via.host) THEN TaskEnds("cycle", <<>>) /\ UNCHANGED facts
       ELSE /\ way' = Append(way, Call(via.host, via.become, TRUE)) /\ depth' = depth + 1
            /\ UNCHANGED <<inventory, todo, facts, walk, stack, kept, again, built>>

----------------------------------------------------------------------------
(* The hops, from the controller on.                                       *)

Hop(call, method) == [host |-> call.host, method |-> method, onTheWay |-> call.onTheWay]

\* While an interpreter is looked for every hop of the way is tried with the same candidate,
\* and the first that works on each of them finds the target's.
Works(p) == \A i \in DOMAIN way : p \in inventory.pythons[way[i].host]
Discovered == IF \E p \in ToSet(Pythons) : Works(p) THEN inventory.best[Target(Current)] ELSE Missing

\* run_interpreter_discovery_if_necessary(): one interpreter is kept for the task, whichever
\* the hop; a container's is discovered again.
Interpreter(method) == IF kept = Missing \/ Rediscovers(method) THEN Discovered ELSE kept
Settings(hop, python) ==
    [f \in Kwargs(hop.method) |-> IF f = "python_path" THEN python ELSE Setting(Current, hop, f)]
Added(hop, then) ==
    LET found == Interpreter(hop.method)
        given == Given(hop.host, "python_path") IN
    IF ~given /\ found = Missing THEN TaskEnds("no interpreter", <<>>) /\ UNCHANGED facts
    ELSE /\ stack' = Append(stack, [hop |-> hop, kwargs |-> Settings(hop, IF given THEN hop.host ELSE found)])
         /\ kept' = IF given THEN kept ELSE found
         /\ again' = (again \/ (~given /\ Rediscovers(hop.method) /\ kept # Missing))
         /\ walk' = then
         /\ UNCHANGED <<inventory, todo, facts, way, depth, built>>

Login ==
    /\ walk = "login" /\ depth > 0
    /\ Added(Hop(way[depth], inventory.transport[way[depth].host]), "account")
\* The account's hop is added unless it is the login account.
SameAccount == \/ way[depth].become = NoBecome
               \/ way[depth].become.user = inventory.login[way[depth].host]
BecomeAccount ==
    /\ walk = "account" /\ ~SameAccount
    /\ Added(Hop(way[depth], way[depth].become.method), "return")
CallReturns ==
    /\ walk = "return" \/ (walk = "account" /\ SameAccount)
    /\ depth' = depth - 1 /\ walk' = "login"
    /\ UNCHANGED <<inventory, todo, facts, way, stack, kept, again, built>>

\* The stack is asked for, and the task's result reports the interpreter that was kept,
\* unless it was discovered again.
RunTask ==
    /\ walk = "login" /\ depth = 0
    /\ TaskEnds(Missing, stack)
    /\ facts' = [facts EXCEPT ![Current.host] = IF again THEN @ ELSE kept]

TransportNext == BuildStack \/ StackFromSpec \/ Login \/ BecomeAccount \/ CallReturns \/ RunTask
TransportSpec == TransportInit /\ [][TransportNext]_transportVars

----------------------------------------------------------------------------

\* What is not, or not always, a setting of the hop's host: an interpreter that was found,
\* and what MitogenViaSpec looks up elsewhere.
Elsewhere(hop) ==
    IF hop.onTheWay THEN {"python_path", "ssh_executable", "timeout", "extra_args"} ELSE {"python_path"}

\* A hop has the settings of its own host, or of none, and follows another of the same host
\* or one of the host that its mitogen_via= names.
HopIsOwn(hops, i) ==
    LET h == hops[i].hop.host
        kwargs == hops[i].kwargs IN
    /\ \A f \in DOMAIN kwargs \ Elsewhere(hops[i].hop) : kwargs[f] = Own(h, f)
    /\ Given(h, "python_path") => kwargs["python_path"] = h
    /\ IF i = 1 THEN Via(h).host = Missing ELSE hops[i - 1].hop.host \in {h, Via(h).host}

\* From each of these hosts mitogen_via= leads to another of them, or to none that there is.
LeadsNowhere(hosts) ==
    \A g \in hosts : Via(g).host # Missing /\ (Via(g).host \in hosts \/ Via(g).host \notin HostNames)
Lost(h) == \E hosts \in SUBSET HostNames : h \in hosts /\ LeadsNowhere(hosts)

\* A task's stack leads from a host that is reached directly to its own, each host in front
\* of those that are reached over it, and never with the password, the user or the address
\* of another host of the stack; that a host on the way is spoken to with the task's own
\* ssh_executable is left open.  A task whose hosts lead nowhere fails, and no other does
\* but for want of an interpreter; no stack is asked for then.
HopsAreTheirOwn ==
    \A e \in ToSet(built) :
        /\ \A i \in DOMAIN e.stack : HopIsOwn(e.stack, i)
        /\ IF e.error = Missing THEN e.stack # <<>> /\ Last(e.stack).hop.host = Target(e.task)
           ELSE e.stack = <<>>
        /\ (e.error \in {"cycle", "unknown"}) <=> Lost(Target(e.task))
=============================================================================
