--------------------------- MODULE MitogenProcess ---------------------------
(***************************************************************************)
(* The processes on the controller: ansible_mitogen/process.py,            *)
(* strategy.py and mitogen/unix.py.  The first play of a mitogen strategy  *)
(* forks the multiplexers, one after the other; workers are forked for     *)
(* tasks and connect to the multiplexer that their host's name hashes to.  *)
(* A socket pair tells the top process that a multiplexer listens, the     *)
(* multiplexers that the top process is gone, and it that they are.        *)
(***************************************************************************)
EXTENDS Naturals

CONSTANTS LastMux, Hosts, MuxOf    \* multiplexers 1..LastMux; MuxOf[h] is the hash of h's name

VARIABLES
    top,        \* the top process: "new", "starting", "up", "shut", "ended" or "killed"
    forked,     \* multiplexers forked so far
    ready,      \* a byte in the pair that the top process has not read
    mux,        \* "none", "booting", "up", "closing" or "gone"
    strategy,   \* of the play that runs: "none", "mitogen" or "other"
    worker,     \* "none", or "live" with or without a _worker_model: "usable", "unusable"
    model,      \* ClassicWorkerModel of the processes: [broker, path, parent]
    own,        \* mitogen.context_id: the multiplexer that gave it, or 0
    link,       \* "idle", "leaving" or "joining" while get_binding() runs
    want,       \* the host it was called for
    bound,      \* the host of the binding that it returned
    refused     \* get_binding() has failed in the process, or where it was forked from

processVars == <<top, forked, ready, mux, strategy, worker, model, own, link, want, bound, refused>>

Muxes == 1..LastMux
Processes == {"top", "worker"}
None == "none"
Unset == [broker |-> None, path |-> 0, parent |-> 0]

ProcessTypeOK ==
    /\ top \in {"new", "starting", "up", "shut", "ended", "killed"} /\ forked \in 0..LastMux
    /\ mux \in [Muxes -> {"none", "booting", "up", "closing", "gone"}]
    /\ model \in [Processes -> [broker : Processes \cup {None}, path : 0..LastMux, parent : 0..LastMux]]
    /\ own \in [Processes -> 0..LastMux] /\ link \in [Processes -> {"idle", "leaving", "joining"}]
    /\ bound \in [Processes -> Hosts \cup {None}]

ProcessInit ==
    /\ top = "new" /\ forked = 0 /\ ready = FALSE /\ mux = [i \in Muxes |-> "none"]
    /\ strategy = "none" /\ worker = "none"
    /\ model = [p \in Processes |-> Unset] /\ own = [p \in Processes |-> 0]
    /\ link = [p \in Processes |-> "idle"] /\ want = [p \in Processes |-> None]
    /\ bound = want /\ refused = [p \in Processes |-> FALSE]

----------------------------------------------------------------------------
(* The top process.                                                        *)

Bindings == UNCHANGED <<model, own, link, want, bound, refused>>

\* StrategyMixin.run(), and get_classic_worker_model(), which makes one model for all plays.
BeginPlay(s) ==
    /\ top \in {"new", "up"} /\ strategy = "none"
    /\ strategy' = s /\ top' = IF s = "mitogen" /\ top = "new" THEN "starting" ELSE top
    /\ UNCHANGED <<forked, ready, mux, worker>> /\ Bindings
EndPlay ==
    /\ top \in {"new", "up"} /\ strategy # "none" /\ bound["top"] = None /\ link["top"] = "idle"
    /\ strategy' = "none"
    /\ UNCHANGED <<top, forked, ready, mux, worker>> /\ Bindings

\* MuxProcess.start() forks and waits; the last one started, the pair's other end is closed.
Start ==
    /\ top = "starting" /\ forked < LastMux
    /\ forked = 0 \/ ready
    /\ forked' = forked + 1 /\ mux' = [mux EXCEPT ![forked + 1] = "booting"] /\ ready' = FALSE
    /\ UNCHANGED <<top, strategy, worker>> /\ Bindings
Started ==
    /\ top = "starting" /\ forked = LastMux /\ ready
    /\ top' = "up" /\ ready' = FALSE
    /\ UNCHANGED <<forked, mux, strategy, worker>> /\ Bindings

\* A worker is a copy of the top process.  Ansible forks one for a task.
ForkWorker ==
    /\ top \in {"new", "up"} /\ strategy # "none" /\ worker = "none"
    /\ bound["top"] = None /\ link["top"] = "idle"
    /\ worker' = IF strategy = "mitogen" THEN "usable" ELSE "unusable"
    /\ model' = [model EXCEPT !["worker"] = model["top"]] /\ own' = [own EXCEPT !["worker"] = own["top"]]
    /\ refused' = [refused EXCEPT !["worker"] = refused["top"]]
    /\ UNCHANGED <<top, forked, ready, mux, strategy, link, want, bound>>
EndWorker ==
    /\ worker # "none"
    /\ worker' = "none"
    /\ model' = [model EXCEPT !["worker"] = Unset] /\ own' = [own EXCEPT !["worker"] = 0]
    /\ link' = [link EXCEPT !["worker"] = "idle"] /\ want' = [want EXCEPT !["worker"] = None]
    /\ bound' = [bound EXCEPT !["worker"] = None] /\ refused' = [refused EXCEPT !["worker"] = FALSE]
    /\ UNCHANGED <<top, forked, ready, mux, strategy>>

\* _on_process_exit(): the pair is shut, and read until the multiplexers have closed it.
Exit ==
    /\ top \in {"new", "up"} /\ strategy = "none"
    /\ top' = IF top = "new" THEN "ended" ELSE "shut"
    /\ UNCHANGED <<forked, ready, mux, strategy, worker>> /\ Bindings
\* What the top process reads ends when no process has the other end.
HungUp == \A i \in Muxes : mux[i] = "gone"
Exited ==
    /\ top = "shut" /\ HungUp
    /\ top' = "ended"
    /\ UNCHANGED <<forked, ready, mux, strategy, worker>> /\ Bindings
\* Killed, or interrupted where no handler was registered.
Kill ==
    /\ top \in {"new", "starting", "up", "shut"}
    /\ top' = "killed"
    /\ UNCHANGED <<forked, ready, mux, strategy, worker>> /\ Bindings

----------------------------------------------------------------------------
(* A multiplexer: MuxProcess.worker_main().                                *)

Other == UNCHANGED <<top, forked, strategy, worker>> /\ Bindings

Boot(i) ==
    /\ mux[i] = "booting"
    /\ mux' = [mux EXCEPT ![i] = "up"] /\ ready' = TRUE
    /\ Other
\* No listener, no services: the exception is logged and the process ends.
BootFails(i) ==
    /\ mux[i] = "booting"
    /\ mux' = [mux EXCEPT ![i] = "gone"]
    /\ UNCHANGED ready /\ Other
Dies(i) ==
    /\ mux[i] = "up"
    /\ mux' = [mux EXCEPT ![i] = "gone"]
    /\ UNCHANGED ready /\ Other

\* Slip: a multiplexer keeps the end that it inherits from the top process.
TopIsGoneWithAll ==
    top = "shut" \/ (top \in {"ended", "killed"} /\ worker = "none" /\ \A i \in Muxes : mux[i] \in {"none", "gone"})
\* What a multiplexer reads ends when the top process has shut it, or no process has it:
\* workers do, which inherit it.
TopIsGone == top = "shut" \/ (top \in {"ended", "killed"} /\ worker = "none")
\* The broker shuts down: the listener's socket goes first.
WakeListener(i) ==
    /\ mux[i] = "up" /\ TopIsGone
    /\ mux' = [mux EXCEPT ![i] = "closing"]
    /\ UNCHANGED ready /\ Other
Closed(i) ==
    /\ mux[i] = "closing"
    /\ mux' = [mux EXCEPT ![i] = "gone"]
    /\ UNCHANGED ready /\ Other

----------------------------------------------------------------------------
(* get_binding() and on_binding_close(), in a worker, or in the top        *)
(* process for meta: reset_connection.                                     *)

\* get_worker_model().
MayConnect(p) ==
    IF p = "worker" THEN worker = "usable"
    ELSE top = "up" /\ strategy = "mitogen"
Others == UNCHANGED <<top, forked, ready, mux, strategy, worker>>

GetBinding(p, h) ==
    /\ MayConnect(p) /\ link[p] = "idle" /\ (p = "top" => bound[p] = None)
    /\ model' = [model EXCEPT ![p].broker = IF @ = None THEN p ELSE @]
    /\ IF model[p].path = MuxOf[h]
       THEN bound' = [bound EXCEPT ![p] = h] /\ UNCHANGED <<link, want>>
       ELSE /\ bound' = [bound EXCEPT ![p] = None] /\ want' = [want EXCEPT ![p] = h]
            /\ link' = [link EXCEPT ![p] = IF model[p].parent = 0 THEN "joining" ELSE "leaving"]
    /\ UNCHANGED <<own, refused>> /\ Others

\* Router.disconnect() waits for the broker thread, where _cleanup() forgets the identity.
Leave(p) ==
    /\ link[p] = "leaving"
    /\ link' = [link EXCEPT ![p] = "joining"] /\ own' = [own EXCEPT ![p] = 0]
    /\ model' = [model EXCEPT ![p].parent = 0]
    /\ UNCHANGED <<want, bound, refused>> /\ Others
\* unix.connect(): the listener gives the process its identity.
Identity(h) == MuxOf[h]
Join(p) ==
    /\ link[p] = "joining" /\ mux[MuxOf[want[p]]] = "up"
    /\ link' = [link EXCEPT ![p] = "idle"] /\ bound' = [bound EXCEPT ![p] = want[p]]
    /\ own' = [own EXCEPT ![p] = Identity(want[p])]
    /\ model' = [model EXCEPT ![p].parent = MuxOf[want[p]], ![p].path = MuxOf[want[p]]]
    /\ UNCHANGED <<want, refused>> /\ Others
\* ConnectError: the path stays what it was.
JoinFails(p) ==
    /\ link[p] = "joining" /\ mux[MuxOf[want[p]]] # "up"
    /\ link' = [link EXCEPT ![p] = "idle"] /\ refused' = [refused EXCEPT ![p] = TRUE]
    /\ UNCHANGED <<own, model, want, bound>> /\ Others
\* Slip: a path is kept with the binding that is closed.
CloseKeepingPath(p) ==
    /\ bound[p] # None /\ link[p] = "idle"
    /\ bound' = [bound EXCEPT ![p] = None]
    /\ model' = [model EXCEPT ![p].broker = None, ![p].parent = 0] /\ own' = [own EXCEPT ![p] = 0]
    /\ UNCHANGED <<link, want, refused>> /\ Others
Close(p) ==
    /\ bound[p] # None /\ link[p] = "idle"
    /\ bound' = [bound EXCEPT ![p] = None]
    /\ model' = [model EXCEPT ![p] = Unset] /\ own' = [own EXCEPT ![p] = 0]
    /\ UNCHANGED <<link, want, refused>> /\ Others
\* The multiplexer's end of the stream is closed.
LinkLost(p) ==
    /\ own[p] # 0 /\ mux[own[p]] # "up"
    /\ own' = [own EXCEPT ![p] = 0]
    /\ UNCHANGED <<model, link, want, bound, refused>> /\ Others

MuxProgress(i) == Boot(i) \/ WakeListener(i) \/ Closed(i)
Progress == Exited \/ EndWorker \/ \E i \in Muxes : MuxProgress(i)
ProcessNext ==
    \/ \E s \in {"mitogen", "other"} : BeginPlay(s)
    \/ EndPlay \/ Start \/ Started \/ ForkWorker \/ Exit \/ Kill
    \/ \E i \in Muxes : BootFails(i) \/ Dies(i)
    \/ \E p \in Processes : (\E h \in Hosts : GetBinding(p, h))
                                \/ Leave(p) \/ Join(p) \/ JoinFails(p) \/ Close(p) \/ LinkLost(p)
    \/ Progress
ProcessSpec == ProcessInit /\ [][ProcessNext]_processVars /\ WF_processVars(Progress)

----------------------------------------------------------------------------

\* A process with a binding for h talks to the multiplexer that h's name hashes to, through
\* a broker thread of its own, and under the identity which that one gave it, until the
\* multiplexer is gone.  A process where a connection was refused, or that was forked from
\* such a one, is the exception: it may have no parent, or a broker of another process.
SpeaksToItsMux ==
    \A p \in Processes : bound[p] # None /\ ~refused[p] =>
        /\ model[p] = [broker |-> p, path |-> MuxOf[bound[p]], parent |-> MuxOf[bound[p]]]
        /\ own[p] = MuxOf[bound[p]] \/ mux[MuxOf[bound[p]]] # "up"

\* However the top process ends, the multiplexers end after it, once its workers have; and
\* its own exit, which waits for them, returns.
MuxesEnd ==
    []<>\/ top \in {"new", "starting", "up"}
        \/ top \in {"ended", "killed"} /\ \A i \in Muxes : mux[i] \in {"none", "gone"}
=============================================================================
