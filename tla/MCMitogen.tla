------------------------------ MODULE MCMitogen ------------------------------
(***************************************************************************)
(* The machines of mitogen, one at a time: a behaviour is one of the       *)
(* machine that `which` names, with the others in an initial state.  The   *)
(* machines that theorems are about are extended, and their constants are  *)
(* in the cfg; the others are instances, with the constants given here.    *)
(***************************************************************************)
EXTENDS MitogenLatch, MitogenBroker, MitogenPoller, MitogenCalls, MitogenConnection, MitogenPool,
    MitogenProcess, MitogenRunner, MitogenAsync, MitogenStream, MitogenLogin, MitogenTransport,
    MitogenBootstrap, MitogenContexts, MitogenRouting, TLC

VARIABLES which

VARIABLES transfer, received, chunks, requests, acks, jobs, unacked, pumping, stopped
fileVars == <<transfer, received, chunks, requests, acks, jobs, unacked, pumping, stopped>>

VARIABLES asked, pushed, waiters, pushes, calls, sending, getting
pushVars == <<asked, pushed, waiters, pushes, calls, sending, getting>>

VARIABLES cache, callbacks, up, down, sent, preload, wanted, imported
importVars == <<cache, callbacks, up, down, sent, preload, wanted, imported>>

messageVars == <<latchVars, brokerVars, pollerVars, streamVars, routingVars, callVars>>

contextsVars == <<connVars, bootVars, loginVars, contextVars, processVars, transportVars>>

workVars == <<poolVars, fileVars, pushVars, importVars, runnerVars, asyncVars>>

----------------------------------------------------------------------------
(* The machines' constants: as few of each as the interesting cases need.  *)

MCParent == ("one" :> "root") @@ ("two" :> "one") @@ ("three" :> "root")
MCCaller == [a |-> "three", b |-> "two"]
MCCallee == [a |-> "two", b |-> "three"]

MCStack == [k1 |-> <<"host", "a">>, k2 |-> <<"host", "b">>]

Requestees == {"a", "b", "c"}
FileSize == [a |-> 3, b |-> 2, c |-> 2]
Transfers == INSTANCE MitogenFiles
    WITH Size <- FileSize, Readable <- {"a", "b"}, Window <- 2, at <- transfer, got <- received, inbox <- chunks

PushParent == ("host" :> "root") @@ ("a" :> "host") @@ ("b" :> "host")
PushContexts == {"root", "host", "a", "b"}
Push == INSTANCE MitogenPush
    WITH Root <- "root", Contexts <- PushContexts, Parent <- PushParent,
         Targets <- {"host", "a", "b"}, Getters <- {"a"}, cache <- pushed, sent <- pushes

\* A package and its module, and a module that does not compile.
ImportContexts == {"root", "mid", "leaf"}
Related == ("p" :> <<"p.a">>) @@ ("p.a" :> <<"p">>) @@ ("q" :> <<>>)
Import == INSTANCE MitogenImporter
    WITH Root <- "root", Contexts <- ImportContexts, Parent <- ("mid" :> "root") @@ ("leaf" :> "mid"),
         Modules <- {"p", "p.a", "q"}, Broken <- {"q"},
         Package <- ("p" :> "p") @@ ("p.a" :> "p") @@ ("q" :> "q"),
         Preload <- {<<"leaf", "p.a">>, <<"mid", "p">>},
         Imports <- {<<"mid", "p">>, <<"leaf", "p.a">>, <<"leaf", "p">>, <<"leaf", "q">>}

Does(w) == [what |-> w, reply |-> TRUE]
Casts(w) == [what |-> w, reply |-> FALSE]
MCPlans ==
    "a" :> {<<Casts("raises"), Does("returns"), Casts("forget"), Does("returns")>>,
            <<Does("unparsed"), Casts("raises"), Does("unparsed"), Does("unsendable")>>,
            <<Does("unsendable"), Does("raises"), Does("raises"), Does("returns")>>}
    @@ "b" :> {<<Does("raises"), Does("returns")>>}

\* a and b are reached over each other, over accounts on other hosts, or over none.
Sudo == [method |-> "sudo", user |-> "x"]
To(h) == [host |-> h, become |-> NoBecome]
MCInventories ==
    {[via |-> [a |-> va, b |-> vb, c |-> To("none")],
      transport |-> [a |-> ta, b |-> "ssh", c |-> "ssh"],
      login |-> [a |-> "x", b |-> "y", c |-> "x"],
      given |-> [a |-> {"become_pass", "ssh_executable"}, b |-> gb, c |-> {"become_pass"}],
      pythons |-> [a |-> {"p"}, b |-> pb, c |-> {"p", "q"}],
      best |-> [a |-> "p", b |-> "q", c |-> "q"]] :
        va \in {To("none"), To("b"), [host |-> "b", become |-> Sudo]},
        vb \in {To("none"), [host |-> "c", become |-> Sudo], To("a"), To("ghost")},
        ta \in {"docker", "ssh"}, gb \in {{}, {"python_path"}}, pb \in {{"q"}, {"p", "q"}}}
TaskOn(h, over, become) == [host |-> h, delegate |-> over, become |-> become]
MCTaskLists == {<<TaskOn("a", "none", NoBecome), TaskOn("a", "b", NoBecome),
                TaskOn("c", "a", Sudo), TaskOn("b", "none", Sudo)>>}
MCPythons == <<"p", "q">>

NewStyle(isolated, writes) == [kind |-> "new", isolated |-> isolated, writes |-> writes]
Binary == [kind |-> "program", isolated |-> FALSE, writes |-> {}]
MCPlays == {<<NewStyle(FALSE, {"environ", "excepthook", "cwd"}),
           NewStyle(FALSE, {"argv", "stdio", "mkstemp"}),
           Binary, NewStyle(TRUE, {"environ", "importer"}), NewStyle(FALSE, {})>>,
         <<Binary, NewStyle(FALSE, {"excepthook"}), Binary>>,
         <<NewStyle(FALSE, {"atexit", "excepthook"}), Binary, NewStyle(FALSE, {})>>}

MCMuxOf == [x |-> 1, y |-> 2]

\* The last message of one plan is larger than the receiver takes.
MCSizes == {<<0, 4, 1>>, <<1, 0, 9>>}

----------------------------------------------------------------------------

Machines == {"latch", "broker", "poller", "stream", "routing", "calls", "connection", "bootstrap",
             "login", "contexts", "process", "transport", "pool", "files", "push", "import",
             "runner", "async"}

\* One of the calls is made.
OneCall == \E k \in Calls : calling = [j \in Calls |-> IF j = k THEN "before" ELSE "never"]

\* A machine that is not looked at has one initial state.
MCInit ==
    /\ which \in Machines
    /\ LatchInit
    /\ which # "broker" => asks = [t \in Threads |-> "result"]
    /\ BrokerInit
    /\ PollerInit
    /\ which # "stream" => sizes = <<0, 4, 1>>
    /\ StreamInit
    /\ OneCall
    /\ which # "routing" => calling["a"] = "before" /\ unidirectional = FALSE
    /\ RoutingInit
    /\ which # "calls" => plan = [c \in Chains |-> CHOOSE p \in Plans[c] : TRUE]
    /\ CallInit
    /\ ConnInit
    /\ which # "bootstrap" => method = "exec"
    /\ BootInit
    /\ which # "login" => /\ login = "su" /\ given = "none" /\ tries = 1
                          /\ needs = FALSE /\ denies = FALSE /\ unknown = FALSE /\ accept = FALSE
    /\ LoginInit
    /\ ContextInit
    /\ ProcessInit
    /\ which # "transport" => inventory = CHOOSE i \in Inventories : TRUE
    /\ TransportInit
    /\ PoolInit /\ Transfers!Init /\ Push!Init /\ Import!Init
    /\ which # "runner" => tasks = <<Binary, NewStyle(FALSE, {"excepthook"}), Binary>>
    /\ RunnerInit
    /\ AsyncInit

LatchStep(A) == which = "latch" /\ A /\ UNCHANGED <<which, brokerVars, pollerVars, streamVars,
    routingVars, callVars, contextsVars, workVars>>
BrokerStep(A) == which = "broker" /\ A /\ UNCHANGED <<which, latchVars, pollerVars, streamVars,
    routingVars, callVars, contextsVars, workVars>>
PollerStep(A) == which = "poller" /\ A /\ UNCHANGED <<which, latchVars, brokerVars, streamVars,
    routingVars, callVars, contextsVars, workVars>>
StreamStep(A) == which = "stream" /\ A /\ UNCHANGED <<which, latchVars, brokerVars, pollerVars,
    routingVars, callVars, contextsVars, workVars>>
RoutingStep(A) == which = "routing" /\ A /\ UNCHANGED <<which, latchVars, brokerVars, pollerVars,
    streamVars, callVars, contextsVars, workVars>>
CallStep(A) == which = "calls" /\ A /\ UNCHANGED <<which, latchVars, brokerVars, pollerVars,
    streamVars, routingVars, contextsVars, workVars>>
ConnStep(A) == which = "connection" /\ A /\ UNCHANGED <<which, bootVars, loginVars, contextVars,
    processVars, transportVars, messageVars, workVars>>
BootStep(A) == which = "bootstrap" /\ A /\ UNCHANGED <<which, connVars, loginVars, contextVars,
    processVars, transportVars, messageVars, workVars>>
LoginStep(A) == which = "login" /\ A /\ UNCHANGED <<which, connVars, bootVars, contextVars,
    processVars, transportVars, messageVars, workVars>>
ContextStep(A) == which = "contexts" /\ A /\ UNCHANGED <<which, connVars, bootVars, loginVars,
    processVars, transportVars, messageVars, workVars>>
ProcessStep(A) == which = "process" /\ A /\ UNCHANGED <<which, connVars, bootVars, loginVars,
    contextVars, transportVars, messageVars, workVars>>
TransportStep(A) == which = "transport" /\ A /\ UNCHANGED <<which, connVars, bootVars, loginVars,
    contextVars, processVars, messageVars, workVars>>
PoolStep(A) == which = "pool" /\ A /\ UNCHANGED <<which, fileVars, pushVars, importVars, runnerVars,
    asyncVars, messageVars, contextsVars>>
FileStep(A) == which = "files" /\ A /\ UNCHANGED <<which, poolVars, pushVars, importVars,
    runnerVars, asyncVars, messageVars, contextsVars>>
PushStep(A) == which = "push" /\ A /\ UNCHANGED <<which, poolVars, fileVars, importVars, runnerVars,
    asyncVars, messageVars, contextsVars>>
ImportStep(A) == which = "import" /\ A /\ UNCHANGED <<which, poolVars, fileVars, pushVars,
    runnerVars, asyncVars, messageVars, contextsVars>>
RunnerStep(A) == which = "runner" /\ A /\ UNCHANGED <<which, poolVars, fileVars, pushVars,
    importVars, asyncVars, messageVars, contextsVars>>
AsyncStep(A) == which = "async" /\ A /\ UNCHANGED <<which, poolVars, fileVars, pushVars, importVars,
    runnerVars, messageVars, contextsVars>>

MCNext ==
    \/ LatchStep(LatchNext)
    \/ BrokerStep(BrokerNext)
    \/ PollerStep(PollerNext)
    \/ StreamStep(StreamNext)
    \/ RoutingStep(RoutingNext)
    \/ CallStep(CallNext)
    \/ ConnStep(ConnNext)
    \/ BootStep(BootNext)
    \/ LoginStep(LoginNext)
    \/ ContextStep(ContextNext)
    \/ ProcessStep(ProcessNext)
    \/ TransportStep(TransportNext)
    \/ PoolStep(PoolNext)
    \/ FileStep(Transfers!Next)
    \/ PushStep(Push!Next)
    \/ ImportStep(Import!Next)
    \/ RunnerStep(RunnerNext)
    \/ AsyncStep(AsyncNext)

vars == <<which, messageVars, contextsVars, workVars>>

\* Threads and processes that have something to do go on; what comes from outside, as
\* losses and crashes do, need not come.
MCProgress ==
    \/ ConnStep(ConnProgress)
    \/ BootStep(BootProgress)
    \/ ProcessStep(Progress)
    \/ PoolStep(PoolProgress)
    \/ FileStep(Transfers!Progress)
    \/ PushStep(\E n \in PushContexts : Push!Progress(n))
    \/ ImportStep(Import!Progress)

MCSpec == MCInit /\ [][MCNext]_vars /\ WF_vars(MCProgress)

\* The machines' types.
MitogenTypeOK ==
    /\ which \in Machines
    /\ which = "latch" => LatchTypeOK
    /\ which = "broker" => BrokerTypeOK
    /\ which = "poller" => PollerTypeOK
    /\ which = "stream" => StreamTypeOK
    /\ which = "routing" => RoutingTypeOK
    /\ which = "calls" => CallTypeOK
    /\ which = "connection" => ConnTypeOK
    /\ which = "bootstrap" => BootTypeOK
    /\ which = "login" => LoginTypeOK
    /\ which = "contexts" => ContextTypeOK
    /\ which = "process" => ProcessTypeOK
    /\ which = "pool" => PoolTypeOK
    /\ which = "files" => Transfers!FileTypeOK
    /\ which = "push" => Push!PushTypeOK
    /\ which = "import" => Import!ImportTypeOK
    /\ which = "runner" => RunnerTypeOK
    /\ which = "async" => AsyncTypeOK

\* The properties; the invariants are in the machines' modules.

\* Who waits for a process to start or to end is answered.
ProcessesAnswer ==
    /\ ConnectAnswered
    /\ []<>(which = "bootstrap" => BootAnswered)
    /\ MuxesEnd
\* What a context needs from its parents comes: files it fetches, files and modules that
\* are pushed to it, and modules it imports.
NeededArrives == Transfers!TransfersEnd /\ Push!PushedArrives /\ Import!ImportsReturn
=============================================================================
