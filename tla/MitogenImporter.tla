-------------------------- MODULE MitogenImporter --------------------------
(***************************************************************************)
(* How Python modules get to a context: Importer of mitogen/core.py in the *)
(* contexts that run code, ModuleForwarder of mitogen/parent.py in those   *)
(* with children, and ModuleResponder of mitogen/master.py in the          *)
(* controller.  A context asks its parent; the controller sends what a     *)
(* module is related to before it, and modules that will be needed before  *)
(* anyone asks.  A module is sent once over a stream, so that an answer    *)
(* can be on its way before, after or instead of the request for it.       *)
(***************************************************************************)
EXTENDS Naturals, Sequences, FiniteSets, SequencesExt, FiniteSetsExt, Functions

CONSTANTS
    Root, Contexts, Parent,
    Modules,
    Related,    \* Related[m]: sequence of modules that m imports, and their packages
    Package,    \* Package[m]: the first part of its name
    Broken,     \* modules that the controller cannot build a response for
    Preload,    \* <<c, m>>: modules that are forwarded to contexts
    Imports     \* <<c, m>>: the import statements that contexts run

VARIABLES
    cache,      \* cache[n]: names that n has a response for
    callbacks,  \* callbacks[n][m]: who waits for m in n, its threads or a child
    up, down,   \* up[n], down[n]: between n and its parent
    sent,       \* sent[n]: sent_modules of the stream to n
    preload,    \* forwards that were not asked for yet
    wanted,     \* <<n, m>>: import statements that have begun
    imported    \* ... and have their response

importVars == <<cache, callbacks, up, down, sent, preload, wanted, imported>>

Children(n) == {c \in DOMAIN Parent : Parent[c] = n}
Importing == Contexts \ {Root}
Self == "self"

ImportTypeOK ==
    /\ cache \in [Importing -> SUBSET Modules] /\ sent \in [Importing -> SUBSET Modules]
    /\ \A n \in Importing : callbacks[n] \in [Modules -> SUBSET (Contexts \cup {Self})]
    /\ \A n \in Importing : ToSet(up[n]) \subseteq Modules
    /\ imported \subseteq wanted

Init ==
    /\ cache = [n \in Importing |-> {}] /\ callbacks = [n \in Importing |-> [m \in Modules |-> {}]]
    /\ up = [n \in Importing |-> <<>>] /\ down = up /\ sent = cache
    /\ preload = Preload /\ wanted = {} /\ imported = {}

Load(m) == [kind |-> "load", module |-> m, for |-> Self]
Forwarded(m, c) == [kind |-> "forward", module |-> m, for |-> c]

\* Send a list of modules to a child, each once over its stream.
RECURSIVE SendAll(_, _)
SendAll(s, ms) ==
    IF ms = <<>> THEN s
    ELSE SendAll(IF Head(ms) \in s.sent THEN s
                 ELSE [out |-> Append(s.out, Load(Head(ms))), sent |-> s.sent \cup {Head(ms)}], Tail(ms))

----------------------------------------------------------------------------
(* The controller.                                                         *)

\* Related modules whose package was not sent are left for later.
RECURSIVE Loadable(_, _, _)
Loadable(m, done, ms) ==
    IF ms = <<>> THEN <<>>
    ELSE LET r == Head(ms) IN
         IF Package[r] # m /\ Package[r] \notin done THEN Loadable(m, done, Tail(ms))
         ELSE <<r>> \o Loadable(m, done \cup {r}, Tail(ms))

\* ModuleResponder._send_module_and_related(), to the child c: a module that cannot be
\* built is answered as one that is not found, and is not recorded as sent.
Respond(s, m) ==
    IF m \in s.sent THEN s
    ELSE IF m \in Broken THEN [s EXCEPT !.out = Append(@, Load(m))]
    ELSE SendAll(s, Loadable(m, s.sent, Related[m]) \o <<m>>)
To(c) == [out |-> <<>>, sent |-> sent[c]]

RootOnGet(c) ==
    /\ c \in Children(Root) /\ up[c] # <<>>
    /\ LET r == Respond(To(c), Head(up[c])) IN
       down' = [down EXCEPT ![c] = @ \o r.out] /\ sent' = [sent EXCEPT ![c] = r.sent]
    /\ up' = [up EXCEPT ![c] = Tail(@)]
    /\ UNCHANGED <<cache, callbacks, preload, wanted, imported>>

RECURSIVE ChildTo(_, _)
ChildTo(n, t) == IF Parent[t] = n THEN t ELSE ChildTo(n, Parent[t])

\* _forward_one_module(): to the child, and onwards by a message after it; the module's
\* package goes first.
ForwardModule(t, m) ==
    LET c == ChildTo(Root, t)
        With(s, x) == [Respond(s, x) EXCEPT !.out = @ \o (IF c = t THEN <<>> ELSE <<Forwarded(x, t)>>)]
        package == IF Package[m] = m THEN To(c) ELSE With(To(c), Package[m])
        r == With(package, m) IN
    /\ <<t, m>> \in preload /\ preload' = preload \ {<<t, m>>}
    /\ down' = [down EXCEPT ![c] = @ \o r.out] /\ sent' = [sent EXCEPT ![c] = r.sent]
    /\ UNCHANGED <<cache, callbacks, up, wanted, imported>>

----------------------------------------------------------------------------
(* A context with an importer, and children.                               *)

\* Importer._request_module(), for `who`: one request is in flight at a time.
Requested(n, m, who) == [callbacks EXCEPT ![n][m] = @ \cup {who}]
Asks(n, m) == IF callbacks[n][m] = {} THEN [up EXCEPT ![n] = Append(@, m)] ELSE up

\* ModuleForwarder._send_module_and_related(): what is in the cache, the module last.
FromCache(n, m) ==
    IF m \in Broken THEN <<m>> ELSE SelectSeq(Related[m], LAMBDA r : r \in cache[n] \cup {m}) \o <<m>>

\* Importer.create_module(): until its thread is called back it waits.
Import(n, m) ==
    /\ <<n, m>> \in Imports \ wanted /\ wanted' = wanted \cup {<<n, m>>}
    /\ IF m \in cache[n]
       THEN imported' = imported \cup {<<n, m>>} /\ UNCHANGED <<callbacks, up>>
       ELSE callbacks' = Requested(n, m, Self) /\ up' = Asks(n, m) /\ UNCHANGED imported
    /\ UNCHANGED <<cache, down, sent, preload>>

\* Slip: while a request is in flight another is not remembered.
OnGetOnce(n, c) ==
    LET m == Head(up[c])
        r == SendAll(To(c), FromCache(n, m)) IN
    /\ n # Root /\ c \in Children(n) /\ up[c] # <<>>
    /\ IF m \in cache[n]
       THEN /\ up' = [up EXCEPT ![c] = Tail(@)] /\ UNCHANGED callbacks
            /\ down' = [down EXCEPT ![c] = @ \o r.out] /\ sent' = [sent EXCEPT ![c] = r.sent]
       ELSE /\ callbacks' = IF callbacks[n][m] = {} THEN Requested(n, m, c) ELSE callbacks
            /\ up' = [Asks(n, m) EXCEPT ![c] = Tail(@)] /\ UNCHANGED <<down, sent>>
    /\ UNCHANGED <<cache, preload, wanted, imported>>

\* ModuleForwarder._on_get_module().
OnGet(n, c) ==
    LET m == Head(up[c])
        r == SendAll(To(c), FromCache(n, m)) IN
    /\ n # Root /\ c \in Children(n) /\ up[c] # <<>>
    /\ IF m \in cache[n]
       THEN /\ up' = [up EXCEPT ![c] = Tail(@)] /\ UNCHANGED callbacks
            /\ down' = [down EXCEPT ![c] = @ \o r.out] /\ sent' = [sent EXCEPT ![c] = r.sent]
       ELSE /\ callbacks' = Requested(n, m, c)
            /\ up' = [Asks(n, m) EXCEPT ![c] = Tail(@)] /\ UNCHANGED <<down, sent>>
    /\ UNCHANGED <<cache, preload, wanted, imported>>

Next1(n) == Head(down[n])
Receives(n, kind) == down[n] # <<>> /\ Next1(n).kind = kind

\* Importer._on_load_module(): whoever waits is called back, threads and children.
OnLoad(n) ==
    LET m == Next1(n).module
        r == [c \in Children(n) |->
                IF c \in callbacks[n][m] THEN SendAll(To(c), FromCache(n, m))
                ELSE To(c)] IN
    /\ Receives(n, "load")
    /\ cache' = [cache EXCEPT ![n] = @ \cup {m}] /\ callbacks' = [callbacks EXCEPT ![n][m] = {}]
    /\ imported' = IF Self \in callbacks[n][m] THEN imported \cup {<<n, m>>} ELSE imported
    /\ down' = [c \in Importing |->
                  IF c = n THEN Tail(down[c]) ELSE IF c \in Children(n) THEN down[c] \o r[c].out ELSE down[c]]
    /\ sent' = [c \in Importing |-> IF c \in Children(n) THEN r[c].sent ELSE sent[c]]
    /\ UNCHANGED <<up, preload, wanted>>

\* ModuleForwarder._on_forward_module(): the module came before, over the same stream.
OnForward(n) ==
    LET m == Next1(n).module
        t == Next1(n).for
        c == ChildTo(n, t)
        r == SendAll(To(c), FromCache(n, m))
        onward == IF c = t THEN <<>> ELSE <<Forwarded(m, t)>> IN
    /\ Receives(n, "forward")
    /\ IF m \in sent[c] THEN down' = [down EXCEPT ![n] = Tail(@)] /\ UNCHANGED sent
       ELSE /\ down' = [down EXCEPT ![n] = Tail(@), ![c] = @ \o r.out \o onward]
            /\ sent' = [sent EXCEPT ![c] = r.sent]
    /\ UNCHANGED <<cache, callbacks, up, preload, wanted, imported>>

Answer(n) == RootOnGet(n) \/ OnLoad(n) \/ OnForward(n) \/ \E p \in Contexts : OnGet(p, n)
Progress == \E n \in Importing : Answer(n)
Next ==
    \/ Progress
    \/ \E i \in Imports : Import(i[1], i[2])
    \/ \E p \in Preload : ForwardModule(p[1], p[2])
\* The brokers handle what they receive.
Fairness == WF_importVars(Progress)
Spec == Init /\ [][Next]_importVars

----------------------------------------------------------------------------
(* Properties.                                                             *)

\* Every import statement gets its response, for a module that exists or not, whether the
\* request meets an answer that was sent before or finds a request in flight
\* (core.py:1598-1622, parent.py:2752-2792, master.py:1243-1258).
ImportsReturn == []<>(wanted \subseteq imported)
=============================================================================
