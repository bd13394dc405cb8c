SPECIFICATION MCSpec
CHECK_DEADLOCK FALSE
CONSTANTS
    Threads = {"t1", "t2"}
    ChildStreams = {"child"}
    PipeSize = 1
    Streams = {"s", "t", "u"}
    Fds = {1, 2}
    Requests = {"m1", "m2"}
    Workers = {"w1", "w2"}
    LastMux = 2
    Hosts = {"x", "y"}
    MuxOf <- MCMuxOf
    Readers = {"r1", "r2"}
    Items = {"i1", "i2"}
    MaxGets = 2
    Conns = {"c1", "c2"}
    Silent = {"c2"}
    TermAt = 2
    KillAt = 3
    GiveUpAt = 3
    Chains = {"a", "b"}
    Pipelined = {"a"}
    Plans <- MCPlans
    Plays <- MCPlays
    Sizes <- MCSizes
    Header = 2
    Joined = 3
    MaxSize = 4
    Room = 3
    MaxTries = 2
    MaxLogs = 2
    Clients = {"k1", "k2"}
    Stack <- MCStack
    MaxContexts = 3
    MaxInterpreters = 1
    MaxConnects = 1
    HostNames = {"a", "b", "c"}
    Inventories <- MCInventories
    TaskLists <- MCTaskLists
    Pythons <- MCPythons
    Root = "root"
    Contexts = {"root", "one", "two", "three"}
    Parent <- MCParent
    Upgraded = {"root", "one"}
    Later = {"two"}
    Calls = {"a", "b"}
    Caller <- MCCaller
    Callee <- MCCallee
INVARIANTS
    MitogenTypeOK
    SleepersAreServed
    DeferredIsRun
    ReadinessIsItsOwn
    StreamKeepsMessages
    RoutingSettles
    ChainStopsAtError
    OutcomeIsFinal
    LogsArrive
    LoginIsExplained
    ContextsAreKept
    SpeaksToItsMux
    HopsAreTheirOwn
    OneAtATime
    TasksFindItClean
    JobIsAccountedFor
PROPERTIES
    ProcessesAnswer
    ArrivedIsServed
    NeededArrives
