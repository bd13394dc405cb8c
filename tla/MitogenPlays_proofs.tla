------------------------- MODULE MitogenPlays_proofs -------------------------
(***************************************************************************)
(* Proofs about the processes of a play (MitogenProcess), for any number of*)
(* multiplexers and hosts and any hash of their names, about the status    *)
(* file of an asynchronous job (MitogenAsync), for any order of the main   *)
(* thread, the timer, the end of the parent and the kill, about the state  *)
(* that tasks leave in a process (MitogenRunner), for any tasks, about     *)
(* chains of calls (MitogenCalls), for any chains and programs, about the  *)
(* stacks of hops that lead to hosts (MitogenTransport), for any           *)
(* inventories, plays and interpreters, and about the contexts that a      *)
(* ContextService makes and shares (MitogenContexts), for any clients and  *)
(* stacks and any number of contexts.                                      *)
(***************************************************************************)
EXTENDS MitogenProcess, MitogenAsync, MitogenRunner, MitogenCalls, MitogenTransport,
        MitogenContexts, FiniteSetTheorems, SequenceTheorems, TLAPS

----------------------------------------------------------------------------
(* The processes.                                                          *)

\* A process that has no binding, and is not about to get one, has no broker, and one that
\* is not there has neither: the worker that is forked starts without a copy of the top's.
TypeInv ==
    /\ ProcessTypeOK
    /\ refused \in [Processes -> BOOLEAN] /\ want \in [Processes -> Hosts \cup {None}]
    /\ \A p \in Processes : link[p] # "idle" => bound[p] = None /\ want[p] \in Hosts
    /\ worker = "none" => link["worker"] = "idle" /\ bound["worker"] = None

\* A multiplexer that was up and is not does not come back.
MuxInv == \A i \in Muxes : i > forked => mux[i] = "none"
Over(i) == mux[i] \in {"closing", "gone"}
WasUp(i) == mux[i] = "up" \/ Over(i)

Bound(p) ==
    /\ model[p] = [broker |-> p, path |-> MuxOf[bound[p]], parent |-> MuxOf[bound[p]]]
    /\ WasUp(MuxOf[bound[p]])
    /\ own[p] = MuxOf[bound[p]] \/ Over(MuxOf[bound[p]])
BindingInv ==
    \A p \in Processes : ~refused[p] =>
        /\ bound[p] # None => Bound(p)
        /\ link[p] # "idle" => model[p].broker = p
        /\ bound[p] = None /\ link[p] = "idle" => model[p] = Unset

ProcessInv == TypeInv /\ MuxInv /\ BindingInv

Hashes == LastMux \in Nat /\ MuxOf \in [Hosts -> Muxes] /\ None \notin Hosts

----------------------------------------------------------------------------
LEMMA ProcessStarts == ASSUME Hashes PROVE ProcessInit => ProcessInv
  <1> SUFFICES ASSUME ProcessInit PROVE ProcessInv
    OBVIOUS
  <1>1. ProcessTypeOK
    BY DEF Hashes, ProcessInit, ProcessTypeOK, Unset, Processes
  <1>2. TypeInv
    BY <1>1 DEF ProcessInit, TypeInv, Processes
  <1>3. MuxInv /\ BindingInv
    BY DEF ProcessInit, MuxInv, BindingInv
  <1> QED
    BY <1>2, <1>3 DEF ProcessInv

LEMMA ProcessInvImplies == ASSUME Hashes PROVE ProcessInv => SpeaksToItsMux
  BY DEF ProcessInv, BindingInv, Bound, Over, WasUp, SpeaksToItsMux

\* What the other parts do to the bindings.
LEMMA MuxesKeep ==
    ASSUME Hashes, ProcessInv, UNCHANGED <<worker, model, own, link, want, bound, refused>>,
           ProcessTypeOK', MuxInv',
           \A i \in Muxes : (Over(i) => Over(i)') /\ (WasUp(i) => WasUp(i)')
    PROVE  ProcessInv'
  <1>1. TypeInv'
    BY DEF ProcessInv, TypeInv
  <1>2. ASSUME NEW p \in Processes, ~refused[p], bound[p] # None
        PROVE  Bound(p)'
    <2>1. MuxOf[bound[p]] \in Muxes
      BY <1>2 DEF ProcessInv, TypeInv, ProcessTypeOK, Hashes
    <2> QED
      BY <1>2, <2>1 DEF ProcessInv, BindingInv, Bound
  <1>3. BindingInv'
    BY <1>2 DEF ProcessInv, BindingInv
  <1> QED
    BY <1>1, <1>3 DEF ProcessInv

\* The steps of the top process and of a multiplexer.
MuxSteps(i) == Boot(i) \/ BootFails(i) \/ Dies(i) \/ WakeListener(i) \/ Closed(i)
TopSteps == (\E s \in {"mitogen", "other"} : BeginPlay(s))
               \/ EndPlay \/ Start \/ Started \/ Exit \/ Exited \/ Kill
\* A process and its binding.
BindSteps(p) == (\E h \in Hosts : GetBinding(p, h)) \/ Leave(p) \/ Join(p) \/ JoinFails(p) \/ Close(p) \/ LinkLost(p)

LEMMA TopKeeps ==
    ASSUME Hashes, ProcessInv, TopSteps
    PROVE  ProcessInv'
  <1> USE DEF ProcessInv, TypeInv, ProcessTypeOK, MuxInv, Bindings, Hashes, Muxes, Over, WasUp
  <1>1. CASE Start
    <2>1. forked + 1 \in Muxes /\ forked' = forked + 1 /\ forked' \in 0..LastMux
      BY <1>1 DEF Start
    <2>2. mux' = [mux EXCEPT ![forked + 1] = "booting"] /\ mux[forked + 1] = "none"
      BY <1>1, <2>1 DEF Start
    <2>3. ProcessTypeOK' /\ MuxInv' /\ \A i \in Muxes : (Over(i) => Over(i)') /\ (WasUp(i) => WasUp(i)')
      BY <1>1, <2>1, <2>2 DEF Start
    <2> QED
      BY <1>1, <2>3, MuxesKeep DEF Start
  <1>2. CASE ~Start
    <2>1. /\ forked' = forked /\ mux' = mux /\ top' \in {"new", "starting", "up", "shut", "ended", "killed"}
          /\ UNCHANGED <<worker, model, own, link, want, bound, refused>>
      BY <1>2 DEF TopSteps, BeginPlay, EndPlay, Started, Exit, Exited, Kill
    <2> QED
      BY <2>1, MuxesKeep
  <1> QED
    BY <1>1, <1>2

LEMMA MuxKeeps ==
    ASSUME Hashes, ProcessInv, NEW i \in Muxes, MuxSteps(i)
    PROVE  ProcessInv'
  <1>1. /\ UNCHANGED <<top, forked, worker, model, own, link, want, bound, refused>>
        /\ mux[i] \in {"booting", "up", "closing"}
        /\ \/ mux' = [mux EXCEPT ![i] = "up"] /\ mux[i] = "booting"
           \/ mux' = [mux EXCEPT ![i] = "closing"]
           \/ mux' = [mux EXCEPT ![i] = "gone"]
    BY DEF MuxSteps, Boot, BootFails, Dies, WakeListener, Closed, Other, Bindings
  <1>2. \A j \in Muxes : (Over(j) => Over(j)') /\ (WasUp(j) => WasUp(j)')
    BY <1>1 DEF Over, WasUp, ProcessInv, TypeInv, ProcessTypeOK
  <1>3. ProcessTypeOK' /\ MuxInv'
    BY <1>1 DEF ProcessInv, TypeInv, ProcessTypeOK, MuxInv
  <1> QED
    BY <1>1, <1>2, <1>3, MuxesKeep

\* The top process has no binding when it forks, so that its copy has none; what it has
\* kept after a refused connection is in the copy, too, which is refused itself.
LEMMA ForkKeeps ==
    ASSUME Hashes, ProcessInv, ForkWorker
    PROVE  ProcessInv'
  <1> USE DEF Processes
  <1>1. TypeInv'
    BY DEF ForkWorker, ProcessInv, TypeInv, ProcessTypeOK
  <1>2. MuxInv'
    BY DEF ForkWorker, ProcessInv, MuxInv
  <1>3. BindingInv'
    BY DEF ForkWorker, ProcessInv, TypeInv, ProcessTypeOK, BindingInv, Bound, Over, WasUp
  <1> QED
    BY <1>1, <1>2, <1>3 DEF ProcessInv

LEMMA EndWorkerKeeps ==
    ASSUME Hashes, ProcessInv, EndWorker
    PROVE  ProcessInv'
  <1> USE DEF Processes
  <1>1. Unset \in [broker : Processes \cup {None}, path : 0..LastMux, parent : 0..LastMux]
    BY DEF Unset, Hashes
  <1>2. TypeInv'
    BY <1>1 DEF EndWorker, ProcessInv, TypeInv, ProcessTypeOK, Hashes
  <1>3. MuxInv'
    BY DEF EndWorker, ProcessInv, MuxInv
  <1>4. BindingInv'
    BY DEF EndWorker, ProcessInv, TypeInv, ProcessTypeOK, BindingInv, Bound, Over, WasUp
  <1> QED
    BY <1>2, <1>3, <1>4 DEF ProcessInv

\* A step of p leaves the binding of the other process alone.
LEMMA OnlyOwnBinding ==
    ASSUME Hashes, ProcessInv, NEW p \in Processes, TypeInv', UNCHANGED <<forked, mux>>,
           \A q \in Processes \ {p} : /\ model'[q] = model[q] /\ own'[q] = own[q] /\ link'[q] = link[q]
                                      /\ bound'[q] = bound[q] /\ refused'[q] = refused[q],
           ~refused'[p] => /\ bound'[p] # None => Bound(p)'
                           /\ link'[p] # "idle" => model'[p].broker = p
                           /\ bound'[p] = None /\ link'[p] = "idle" => model'[p] = Unset
    PROVE  ProcessInv'
  <1>1. MuxInv'
    BY DEF ProcessInv, MuxInv
  <1>2. \A q \in Processes \ {p} : Bound(q)' = Bound(q)
    BY DEF Bound, Over, WasUp
  <1>3. BindingInv'
    BY <1>2 DEF ProcessInv, BindingInv
  <1> QED
    BY <1>1, <1>3 DEF ProcessInv

LEMMA GetBindingKeeps ==
    ASSUME Hashes, ProcessInv, NEW p \in Processes, NEW h \in Hosts, GetBinding(p, h)
    PROVE  ProcessInv'
  <1> USE DEF ProcessInv, TypeInv, ProcessTypeOK
  <1>1. /\ link[p] = "idle" /\ MuxOf[h] \in Muxes /\ h # None
        /\ model' = [model EXCEPT ![p].broker = IF @ = None THEN p ELSE @]
        /\ UNCHANGED <<top, forked, mux, worker, own, refused>>
    BY DEF GetBinding, Others, Hashes
  <1>2. /\ model'[p] = [model[p] EXCEPT !.broker = IF @ = None THEN p ELSE @]
        /\ \A q \in Processes \ {p} : model'[q] = model[q]
        /\ model' \in [Processes -> [broker : Processes \cup {None}, path : 0..LastMux, parent : 0..LastMux]]
    BY <1>1
  <1>3. worker = "none" => p # "worker"
    BY DEF GetBinding, MayConnect
  <1>4. ~refused[p] => model'[p].broker = p
    BY <1>2 DEF BindingInv, Bound, Unset
  <1>5. CASE model[p].path = MuxOf[h]
    <2>1. bound' = [bound EXCEPT ![p] = h] /\ UNCHANGED <<link, want>>
      BY <1>5 DEF GetBinding
    <2>2. TypeInv'
      BY <1>1, <1>2, <1>3, <2>1
    <2>3. ~refused[p] => bound[p] # None
      BY <1>1, <1>5 DEF BindingInv, Unset, Muxes, Hashes
    <2>4. ~refused[p] => Bound(p)'
      BY <1>1, <1>2, <1>5, <2>1, <2>3 DEF BindingInv, Bound, Over, WasUp
    <2> QED
      BY SMTT(30), <1>1, <1>2, <2>1, <2>2, <2>4, OnlyOwnBinding
  <1>6. CASE model[p].path # MuxOf[h]
    <2>1. /\ bound' = [bound EXCEPT ![p] = None] /\ want' = [want EXCEPT ![p] = h]
          /\ link' = [link EXCEPT ![p] = IF model[p].parent = 0 THEN "joining" ELSE "leaving"]
      BY <1>6 DEF GetBinding
    <2>2. TypeInv'
      BY <1>1, <1>2, <1>3, <2>1
    <2> QED
      BY <1>1, <1>2, <1>4, <2>1, <2>2, OnlyOwnBinding
  <1> QED
    BY <1>5, <1>6

LEMMA JoinKeeps ==
    ASSUME Hashes, ProcessInv, NEW p \in Processes, Join(p)
    PROVE  ProcessInv'
  <1> USE DEF ProcessInv, TypeInv, ProcessTypeOK
  <1> DEFINE m == MuxOf[want[p]]
  <1>1. want[p] \in Hosts /\ want[p] # None /\ m \in Muxes /\ m \in 0..LastMux
    BY DEF Join, Hashes, Muxes
  <1>2. /\ UNCHANGED <<top, forked, mux, worker, want, refused>>
        /\ link' = [link EXCEPT ![p] = "idle"] /\ bound' = [bound EXCEPT ![p] = want[p]]
        /\ own' = [own EXCEPT ![p] = m]
        /\ model' = [model EXCEPT ![p].parent = m, ![p].path = m]
    BY DEF Join, Others, Identity
  <1> HIDE DEF m
  <1>3. /\ model'[p] = [broker |-> model[p].broker, path |-> m, parent |-> m]
        /\ \A q \in Processes \ {p} : model'[q] = model[q]
        /\ model' \in [Processes -> [broker : Processes \cup {None}, path : 0..LastMux, parent : 0..LastMux]]
    <2> DEFINE Models == [broker : Processes \cup {None}, path : 0..LastMux, parent : 0..LastMux]
    <2>1. model \in [Processes -> Models]
      OBVIOUS
    <2> DEFINE new == [[model[p] EXCEPT !.parent = m] EXCEPT !.path = m]
    <2>2. model' = [model EXCEPT ![p] = new]
      BY <1>2, <2>1, Zenon
    <2>3. new \in Models /\ new.broker = model[p].broker /\ new.path = m /\ new.parent = m
      BY <1>1, <2>1
    <2> HIDE DEF new
    <2>4. new = [broker |-> model[p].broker, path |-> m, parent |-> m]
      BY <2>3
    <2> QED
      BY <2>1, <2>2, <2>3, <2>4
  <1>4. link[p] = "joining"
    BY DEF Join
  <1>5. TypeInv'
    BY <1>1, <1>2, <1>3, <1>4
  <1>6. ~refused[p] => Bound(p)'
    <2>1. mux[m] = "up" /\ mux' = mux /\ bound'[p] = want[p] /\ own'[p] = m /\ MuxOf[bound'[p]] = m
      BY <1>2 DEF Join, m
    <2>2. ~refused[p] => model'[p] = [broker |-> p, path |-> m, parent |-> m]
      BY <1>3, <1>4 DEF BindingInv
    <2> QED
      BY <2>1, <2>2 DEF Bound, WasUp
  <1> QED
    BY ZenonT(60), <1>1, <1>2, <1>3, <1>5, <1>6, OnlyOwnBinding

LEMMA BindKeeps ==
    ASSUME Hashes, ProcessInv, NEW p \in Processes, BindSteps(p)
    PROVE  ProcessInv'
  <1>1. UNCHANGED <<top, forked, mux, worker>>
    BY DEF BindSteps, GetBinding, Leave, Join, JoinFails, Close, LinkLost, Others
  <1>2. CASE Leave(p)
    <2>1. TypeInv'
      BY <1>2 DEF Leave, Others, ProcessInv, TypeInv, ProcessTypeOK, Hashes
    <2>2. /\ \A q \in Processes \ {p} : model'[q] = model[q] /\ own'[q] = own[q] /\ link'[q] = link[q]
          /\ UNCHANGED <<bound, refused>> /\ link[p] # "idle" /\ bound[p] = None
          /\ link'[p] = "joining" /\ model'[p].broker = model[p].broker
      BY <1>2 DEF Leave, ProcessInv, TypeInv, ProcessTypeOK
    <2> QED
      BY <1>1, <2>1, <2>2, OnlyOwnBinding DEF ProcessInv, BindingInv
  <1>3. CASE JoinFails(p)
    <2>1. TypeInv'
      BY <1>3 DEF JoinFails, Others, ProcessInv, TypeInv, ProcessTypeOK
    <2>2. /\ \A q \in Processes \ {p} : link'[q] = link[q] /\ refused'[q] = refused[q]
          /\ UNCHANGED <<model, own, bound>> /\ refused'[p]
      BY <1>3 DEF JoinFails, ProcessInv, TypeInv, ProcessTypeOK
    <2> QED
      BY <1>1, <2>1, <2>2, OnlyOwnBinding
  <1>4. CASE Close(p)
    <2>1. Unset \in [broker : Processes \cup {None}, path : 0..LastMux, parent : 0..LastMux]
      BY DEF Unset, Hashes
    <2>2. TypeInv'
      BY <1>4, <2>1 DEF Close, Others, ProcessInv, TypeInv, ProcessTypeOK, Hashes
    <2>3. /\ \A q \in Processes \ {p} : model'[q] = model[q] /\ own'[q] = own[q] /\ bound'[q] = bound[q]
          /\ UNCHANGED <<link, refused>>
          /\ link'[p] = "idle" /\ model'[p] = Unset /\ bound'[p] = None
      BY <1>4 DEF Close, ProcessInv, TypeInv, ProcessTypeOK
    <2> QED
      BY <1>1, <2>2, <2>3, OnlyOwnBinding
  <1>5. CASE LinkLost(p)
    <2>1. TypeInv'
      BY <1>5 DEF LinkLost, Others, ProcessInv, TypeInv, ProcessTypeOK, Hashes
    <2>2. /\ \A q \in Processes \ {p} : own'[q] = own[q]
          /\ UNCHANGED <<model, link, bound, refused>> /\ mux[own[p]] # "up"
      BY <1>5 DEF LinkLost, ProcessInv, TypeInv, ProcessTypeOK
    <2>3. Bound(p) => Bound(p)'
      BY <1>1, <2>2 DEF Bound, Over, WasUp
    <2> QED
      BY <1>1, <2>1, <2>2, <2>3, OnlyOwnBinding DEF ProcessInv, BindingInv
  <1> QED
    BY <1>2, <1>3, <1>4, <1>5, GetBindingKeeps, JoinKeeps DEF BindSteps

\* A worker never speaks through the broker of the process it was forked from, and a host's
\* tasks reach the one multiplexer that keeps its connections, whichever hosts the worker
\* served before and whichever multiplexers end meanwhile.
THEOREM SpeaksToOwnMux ==
    ASSUME LastMux \in Nat, MuxOf \in [Hosts -> 1..LastMux], None \notin Hosts
    PROVE  ProcessSpec => []SpeaksToItsMux
  <1> USE DEF Hashes, Muxes
  <1>1. ProcessInit => ProcessInv
    BY ProcessStarts
  <1>2. ProcessInv /\ [ProcessNext]_processVars => ProcessInv'
    <2>1. ASSUME ProcessInv, UNCHANGED processVars
          PROVE  ProcessInv'
      BY <2>1 DEF processVars, ProcessInv, TypeInv, ProcessTypeOK, MuxInv, BindingInv, Bound, Over, WasUp
    <2>2. ASSUME ProcessInv, ProcessNext
          PROVE  ProcessInv'
      <3>1. \/ TopSteps \/ ForkWorker \/ EndWorker
            \/ \E i \in Muxes : MuxSteps(i)
            \/ \E p \in Processes : BindSteps(p)
        BY <2>2 DEF ProcessNext, Progress, MuxProgress, TopSteps, MuxSteps, BindSteps
      <3> QED
        BY <2>2, <3>1, TopKeeps, MuxKeeps, ForkKeeps, EndWorkerKeeps, BindKeeps
    <2> QED
      BY <2>1, <2>2
  <1>3. ProcessInv => SpeaksToItsMux
    BY ProcessInvImplies
  <1> QED
    BY <1>1, <1>2, <1>3, PTL DEF ProcessSpec

----------------------------------------------------------------------------
(* An asynchronous job.                                                    *)

\* The main thread is in _update().
Writing == {"open", "close", "rename"}
\* It has written "started", and has not decided on an outcome yet.
Running == {"tell", "arm", "setup", "detach", "ask", "module"}

ValuesInv ==
    /\ AsyncTypeOK
    /\ alarm \in {"unset", "armed", "fired"} /\ lost \in BOOLEAN
    /\ what # "started" => pc \notin Running

\* The file that _update() has open is the temporary one, until the handler renames it; and
\* the temporary file is missing only when the handler renamed it.  What a failed _update()
\* left there is cut by the next one.
FilesInv ==
    /\ mine # "none" <=> pc = "close"
    /\ mine = "job" => alarm = "fired" /\ tmp = "none"
    /\ mine = "tmp" => tmp = "empty"
    /\ pc = "rename" => tmp \in {"none", what}
    /\ pc = "rename" /\ tmp = "none" => alarm = "fired"

\* The timer is not set before the job has said that it started.
TimerInv ==
    /\ alarm # "unset" => what # "started" \/ pc \notin Writing \cup {"tell", "arm"}
    /\ alarm = "fired" => job \in Final
    /\ pc \in {"finish", "end"} => job \in Final \/ lost
    /\ job = "none" => pc \notin Running
    /\ job = "garbled" => alarm = "fired" /\ what # "started"

\* The process is asked to stop by the timer, by its own end or by the loss of its parent.
EndInv ==
    /\ stopping => alarm = "fired" \/ pc = "end" \/ early
    /\ early => parent = "gone"
    /\ answer = "returned" => job # "none"

AsyncInv == ValuesInv /\ FilesInv /\ TimerInv /\ EndInv

----------------------------------------------------------------------------
LEMMA AsyncStarts == AsyncInit => AsyncInv
  BY DEF AsyncInit, AsyncInv, ValuesInv, AsyncTypeOK, FilesInv, TimerInv, EndInv, Final, Writing, Running

\* The invariant rules the property out of reach: a process that stops was stopped by the
\* timer or by its own end, and either leaves a final status or could not write it.
LEMMA AsyncInvImplies == AsyncInv => JobIsAccountedFor
  BY DEF AsyncInv, TimerInv, EndInv, JobIsAccountedFor

\* _update(), by the main thread.
Updates == OpenTmp \/ CloseTmp \/ UpdateFails \/ Rename \/ RenameFails \/ Unparsed
\* What it does between two of them.
Advances == Tell \/ Arm \/ SetUp \/ Detach \/ AskToDetach \/ Module \/ Finish
Interrupts == Alarm \/ AlarmFails \/ OnBrokerExit \/ Killed \/ LoseParent

\* After a failed _update() the thread writes another status, or ends.
LEMMA WhenFailed ==
    ASSUME AsyncTypeOK, NotWritten
    PROVE  \/ pc' = "open" /\ what' \in {"failed", "crashed"}
           \/ pc' = "finish" /\ what' = what /\ what = "crashed"
  BY DEF AsyncTypeOK, NotWritten, Write

LEMMA UpdatesKeep ==
    ASSUME AsyncInv, Updates
    PROVE  AsyncInv'
  <1> USE DEF AsyncInv, ValuesInv, AsyncTypeOK, FilesInv, TimerInv, EndInv, Final, Writing,
          Running, Main, LeftAlone
  <1>1. CASE OpenTmp
    BY <1>1 DEF OpenTmp
  <1>2. CASE CloseTmp
    BY <1>2 DEF CloseTmp
  <1>3. CASE Rename
    <2>1. tmp = what
      BY <1>3 DEF Rename
    <2>2. CASE what = "started"
      <3>1. pc' = "tell" /\ job' = "started" /\ tmp' = "none" /\ alarm = "unset"
        BY <1>3, <2>1, <2>2 DEF Rename, After
      <3> QED
        BY <1>3, <2>2, <3>1 DEF Rename
    <2>3. CASE what # "started"
      <3>1. pc' = "finish" /\ job' = what /\ tmp' = "none"
        BY <1>3, <2>1, <2>3 DEF Rename, After
      <3> QED
        BY <1>3, <2>3, <3>1 DEF Rename
    <2> QED
      BY <2>2, <2>3
  <1>4. CASE RenameFails
    <2>1. alarm = "fired" /\ what # "started"
      BY <1>4 DEF RenameFails
    <2> QED
      BY <1>4, <2>1, WhenFailed DEF RenameFails, SameFiles
  <1>5. CASE Unparsed
    BY <1>5 DEF Unparsed, Write, SameFiles
  <1>6. CASE UpdateFails
    <2>1. \/ pc' = "open" /\ what' \in {"failed", "crashed"}
          \/ pc' = "finish" /\ what' = what /\ what = "crashed"
      BY <1>6, WhenFailed DEF UpdateFails
    <2>2. /\ pc \in {"open", "close"} /\ mine' = "none" /\ lost' = TRUE /\ ~gone
          /\ job' = job \/ (mine = "job" /\ job' = "garbled")
          /\ UNCHANGED <<tmp, alarm, detached, stopping, gone, parent, early, answer>>
      BY <1>6 DEF UpdateFails
    <2>3. ValuesInv' /\ FilesInv'
      BY <2>1, <2>2
    <2>4. TimerInv' /\ EndInv'
      BY <2>1, <2>2
    <2> QED
      BY <2>3, <2>4
  <1> QED
    BY <1>1, <1>2, <1>3, <1>4, <1>5, <1>6 DEF Updates

LEMMA AdvancesKeep ==
    ASSUME AsyncInv, Advances
    PROVE  AsyncInv'
  <1> USE DEF AsyncInv, ValuesInv, AsyncTypeOK, FilesInv, TimerInv, EndInv, Final, Writing,
          Running, Main, LeftAlone, SameFiles
  <1>1. CASE Tell
    BY <1>1 DEF Tell
  <1>2. CASE Arm
    BY <1>2 DEF Arm
  <1>3. CASE SetUp
    BY <1>3 DEF SetUp, Raise, Write
  <1>4. CASE Detach
    BY <1>4 DEF Detach
  <1>5. CASE AskToDetach
    BY <1>5 DEF AskToDetach, Raise, Write
  <1>6. CASE Module
    BY <1>6 DEF Module, Raise, Write
  <1>7. CASE Finish
    BY <1>7 DEF Finish
  <1> QED
    BY <1>1, <1>2, <1>3, <1>4, <1>5, <1>6, <1>7 DEF Advances

LEMMA InterruptsKeep ==
    ASSUME AsyncInv, Interrupts
    PROVE  AsyncInv'
  <1> USE DEF AsyncInv, ValuesInv, AsyncTypeOK, FilesInv, TimerInv, EndInv, Final, Writing, Running
  <1>1. CASE Alarm
    BY <1>1 DEF Alarm
  <1>2. CASE AlarmFails
    <2>1. /\ alarm = "armed" /\ alarm' = "unset" /\ lost' = TRUE /\ mine' = "none" /\ ~gone
          /\ UNCHANGED <<tmp, job, detached, stopping, gone, parent, early, answer>>
      BY <1>2 DEF AlarmFails, LeftAlone
    <2>2. ASSUME pc \in {"setup", "detach", "ask", "module"}, Raise
          PROVE  AsyncInv'
      BY <2>1, <2>2 DEF Raise, Write
    <2>3. ASSUME pc \in {"open", "close", "rename"}, NotWritten
          PROVE  AsyncInv'
      BY <2>1, <2>3, WhenFailed
    <2>4. ASSUME pc \in {"finish", "end"}, pc' = "end", UNCHANGED what
          PROVE  AsyncInv'
      BY <2>1, <2>4
    <2> QED
      BY <1>2, <2>2, <2>3, <2>4 DEF AlarmFails
  <1>3. CASE OnBrokerExit
    BY <1>3 DEF OnBrokerExit, JobDies
  <1>4. CASE Killed
    BY <1>4 DEF Killed, JobDies
  <1>5. CASE LoseParent
    BY <1>5 DEF LoseParent
  <1> QED
    BY <1>1, <1>2, <1>3, <1>4, <1>5 DEF Interrupts

LEMMA AsyncSteps == AsyncInv /\ [AsyncNext]_asyncVars => AsyncInv'
  <1> SUFFICES ASSUME AsyncInv, [AsyncNext]_asyncVars PROVE AsyncInv'
    OBVIOUS
  <1>1. CASE UNCHANGED asyncVars
    BY <1>1 DEF asyncVars, AsyncInv, ValuesInv, AsyncTypeOK, FilesInv, TimerInv, EndInv
  <1>2. CASE AsyncNext
    <2>1. Updates \/ Advances \/ Interrupts
      BY <1>2 DEF AsyncNext, Updates, Advances, Interrupts
    <2> QED
      BY <2>1, UpdatesKeep, AdvancesKeep, InterruptsKeep
  <1> QED
    BY <1>1, <1>2

\* However the timer, the loss of the parent, the kill and what cannot be written fall between
\* the steps of the main thread, a job whose task has returned has a status, and one that
\* stopped after it had detached a final one, if the last could be written.
THEOREM JobAccounted == AsyncSpec => []JobIsAccountedFor
  BY AsyncStarts, AsyncSteps, AsyncInvImplies, PTL DEF AsyncSpec

----------------------------------------------------------------------------
(* The runners.                                                            *)

\* What the process is to be found clean of: once a setup has failed, little; once a module
\* has replaced atexit.register, nothing.
Watched ==
    CASE replaced -> {}
      [] failed /\ ~replaced -> {"atexit", "excepthook"}
      [] OTHER -> Patches \ {"importer", "cwd"}
\* The patches that were made and not taken back.
Made(kind, n) == {p \in Patches : \E j \in 1..Len(Setup(kind)) : j < n /\ Setup(kind)[j] = p}
ToRevert(kind, n) == {p \in Patches : \E j \in 1..Len(Revert(kind)) : j >= n /\ Revert(kind)[j] = p}
Patched ==
    CASE stage = "idle" -> {}
      [] stage = "setup" -> Made(Task.kind, step)
      [] stage = "run" -> Made(Task.kind, Len(Setup(Task.kind)) + 1)
      [] stage = "revert" -> ToRevert(Task.kind, step)

RunnerTypes ==
    /\ tasks \in Seq(Invocations)
    /\ process \in [Patches -> {"clean", "task", "module", "left"}]
    /\ saved \in [Patches -> {"clean", "task", "module", "left"}]
    /\ stage \in {"idle", "setup", "run", "revert"} /\ step \in Nat /\ failed \in BOOLEAN
    /\ replaced \in BOOLEAN
    /\ stage # "idle" => tasks # <<>> /\ step >= 1
\* What is patched was found clean, and what is not is clean.
FoundClean == \A p \in Watched : IF p \in Patched THEN saved[p] = "clean" ELSE process[p] = "clean"
\* What is installed is the wrapper, or what a module put in its place.
WrapperInv == "atexit" \in Patched => process["atexit"] \in {"task", "module"}
\* The function of a module stays, and keeps every other module from running.
ReplacedInv ==
    replaced =>
        /\ process["atexit"] = "left"
        /\ stage \in {"run", "revert"} => Task.kind # "new"
        /\ stage = "setup" /\ Task.kind = "new" => step <= Len(Setup("new"))
RunnerInv == RunnerTypes /\ FoundClean /\ WrapperInv /\ ReplacedInv

LEMMA Lengths == \A kind : Len(Setup(kind)) \in Nat /\ Len(Revert(kind)) \in Nat
  BY DEF Setup, Revert

\* A step patches one thing, and each is patched once.
LEMMA SetupOnce ==
    ASSUME NEW kind, NEW n \in 1..Len(Setup(kind))
    PROVE  /\ Setup(kind)[n] \notin Made(kind, n)
           /\ Made(kind, n + 1) = Made(kind, n) \cup ({Setup(kind)[n]} \cap Patches)
  <1>1. CASE kind = "new"
    <2>1. Len(Setup(kind)) = 11
      BY <1>1 DEF Setup
    <2>2. \A i, j \in 1..11 : Setup(kind)[i] = Setup(kind)[j] => i = j
      BY <1>1 DEF Setup
    <2> QED
      BY <2>1, <2>2 DEF Made
  <1>2. CASE kind # "new"
    <2>1. Len(Setup(kind)) = 5
      BY <1>2 DEF Setup
    <2>2. \A i, j \in 1..5 : Setup(kind)[i] = Setup(kind)[j] => i = j
      BY <1>2 DEF Setup
    <2> QED
      BY <2>1, <2>2 DEF Made
  <1> QED
    BY <1>1, <1>2

LEMMA RevertOnce ==
    ASSUME NEW kind, NEW n \in 1..Len(Revert(kind))
    PROVE  /\ Revert(kind)[n] \in ToRevert(kind, n)
           /\ ToRevert(kind, n + 1) = ToRevert(kind, n) \ {Revert(kind)[n]}
  <1>1. CASE kind = "new"
    <2>1. Len(Revert(kind)) = 8
      BY <1>1 DEF Revert
    <2>2. \A i, j \in 1..8 : Revert(kind)[i] = Revert(kind)[j] => i = j
      BY <1>1 DEF Revert
    <2>3. \A i \in 1..8 : Revert(kind)[i] \in Patches
      BY <1>1 DEF Revert, Patches
    <2> QED
      BY <2>1, <2>2, <2>3 DEF ToRevert
  <1>2. CASE kind # "new"
    <2>1. Len(Revert(kind)) = 3
      BY <1>2 DEF Revert
    <2>2. \A i, j \in 1..3 : Revert(kind)[i] = Revert(kind)[j] => i = j
      BY <1>2 DEF Revert
    <2>3. \A i \in 1..3 : Revert(kind)[i] \in Patches
      BY <1>2 DEF Revert, Patches
    <2> QED
      BY <2>1, <2>2, <2>3 DEF ToRevert
  <1> QED
    BY <1>1, <1>2

\* revert() takes back what setup() patched, but for the importer.
LEMMA RevertsAll ==
    ASSUME NEW kind, NEW n, n = Len(Setup(kind)) + 1
    PROVE  /\ Made(kind, 1) = {}
           /\ Made(kind, n) \ {"importer"} = ToRevert(kind, 1)
           /\ kind = "new" => ToRevert(kind, 1) = Patches \ {"importer"}
           /\ \A m \in Nat : m > Len(Revert(kind)) => ToRevert(kind, m) = {}
  <1>1. CASE kind = "new"
    <2>1. Len(Setup(kind)) = 11 /\ Len(Revert(kind)) = 8
      BY <1>1 DEF Setup, Revert
    <2>2. ToRevert(kind, 1) = Patches \ {"importer"}
      <3>1. /\ Revert(kind)[1] = "atexit" /\ Revert(kind)[2] = "mkstemp" /\ Revert(kind)[3] = "argv"
            /\ Revert(kind)[4] = "stdio" /\ Revert(kind)[5] = "excepthook" /\ Revert(kind)[6] = "cwd"
            /\ Revert(kind)[7] = "environ" /\ Revert(kind)[8] = "tempdir"
        BY <1>1 DEF Revert
      <3> QED
        BY <3>1, <2>1 DEF ToRevert, Patches
    <2>3. Made(kind, n) = Patches
      <3>1. /\ Setup(kind)[1] = "cwd" /\ Setup(kind)[2] = "environ" /\ Setup(kind)[4] = "tempdir"
            /\ Setup(kind)[5] = "stdio" /\ Setup(kind)[6] = "argv" /\ Setup(kind)[7] = "mkstemp"
            /\ Setup(kind)[8] = "importer" /\ Setup(kind)[10] = "excepthook"
            /\ Setup(kind)[11] = "atexit"
        BY <1>1 DEF Setup
      <3>2. n = 12
        BY <2>1
      <3> QED
        BY <3>1, <3>2, <2>1 DEF Made, Patches
    <2> QED
      BY <2>1, <2>2, <2>3 DEF Made, ToRevert
  <1>2. CASE kind # "new"
    <2>1. Len(Setup(kind)) = 5 /\ Len(Revert(kind)) = 3
      BY <1>2 DEF Setup, Revert
    <2>2. ToRevert(kind, 1) = {"cwd", "environ", "tempdir"}
      <3>1. Revert(kind)[1] = "cwd" /\ Revert(kind)[2] = "environ" /\ Revert(kind)[3] = "tempdir"
        BY <1>2 DEF Revert
      <3> QED
        BY <3>1, <2>1 DEF ToRevert, Patches
    <2>3. Made(kind, n) = {"cwd", "environ", "tempdir"}
      <3>1. /\ Setup(kind)[1] = "cwd" /\ Setup(kind)[2] = "environ" /\ Setup(kind)[3] = "tempdir"
            /\ Setup(kind)[4] = "program" /\ Setup(kind)[5] = "args"
        BY <1>2 DEF Setup
      <3>2. n = 6
        BY <2>1
      <3> QED
        BY <3>1, <3>2, <2>1 DEF Made, Patches
    <2> QED
      BY <1>2, <2>1, <2>2, <2>3 DEF Made, ToRevert
  <1> QED
    BY <1>1, <1>2

\* What is patched last cannot be patched when a setup fails.
LEMMA FailsEarly ==
    ASSUME NEW kind, NEW n \in 1..Len(Setup(kind)), CanFail(Setup(kind)[n])
    PROVE  "atexit" \notin Made(kind, n) /\ "excepthook" \notin Made(kind, n)
  <1>1. CASE kind = "new"
    <2>1. Len(Setup(kind)) = 11
      BY <1>1 DEF Setup
    <2>2. n < 10
      BY <2>1, <1>1 DEF Setup, CanFail
    <2>3. \A j \in 1..9 : Setup(kind)[j] # "atexit" /\ Setup(kind)[j] # "excepthook"
      BY <1>1 DEF Setup
    <2> QED
      BY <2>1, <2>2, <2>3 DEF Made
  <1>2. CASE kind # "new"
    <2>1. Len(Setup(kind)) = 5
      BY <1>2 DEF Setup
    <2>2. \A j \in 1..5 : Setup(kind)[j] # "atexit" /\ Setup(kind)[j] # "excepthook"
      BY <1>2 DEF Setup
    <2> QED
      BY <2>1, <2>2 DEF Made
  <1> QED
    BY <1>1, <1>2

LEMMA AtExitLast ==
    ASSUME NEW kind, NEW n \in Nat, "atexit" \in Made(kind, n)
    PROVE  n > Len(Setup("new"))
  <1>1. Len(Setup("new")) = 11
    BY DEF Setup
  <1>2. CASE kind = "new"
    <2>1. \A j \in 1..11 : Setup(kind)[j] = "atexit" => j = 11
      BY <1>2 DEF Setup
    <2> QED
      BY <2>1, <1>1, <1>2 DEF Made
  <1>3. CASE kind # "new"
    <2>1. Len(Setup(kind)) = 5
      BY <1>3 DEF Setup
    <2>2. \A j \in 1..5 : Setup(kind)[j] # "atexit"
      BY <1>3 DEF Setup
    <2> QED
      BY <2>1, <2>2 DEF Made
  <1> QED
    BY <1>2, <1>3

\* atexit.register is wrapped by the last step and unwrapped by the first.
LEMMA AtExitPlaces ==
    ASSUME NEW kind
    PROVE  /\ \A n \in 1..Len(Setup(kind)) :
                  Setup(kind)[n] = "atexit" <=> kind = "new" /\ n = Len(Setup("new"))
           /\ \A n \in 1..Len(Revert(kind)) : Revert(kind)[n] = "atexit" <=> kind = "new" /\ n = 1
  <1>1. CASE kind = "new"
    BY <1>1 DEF Setup, Revert
  <1>2. CASE kind # "new"
    BY <1>2 DEF Setup, Revert
  <1> QED
    BY <1>1, <1>2

LEMMA RunnerStarts == RunnerInit => RunnerInv
  <1> SUFFICES ASSUME RunnerInit PROVE RunnerInv
    OBVIOUS
  <1>1. RunnerTypes
    BY RunnerAssumption DEF RunnerInit, RunnerTypes
  <1>2. FoundClean
    BY DEF RunnerInit, FoundClean, Watched, Patched
  <1>3. WrapperInv /\ ReplacedInv
    BY DEF RunnerInit, WrapperInv, ReplacedInv, Patched
  <1> QED
    BY <1>1, <1>2, <1>3 DEF RunnerInv

LEMMA RunnerKeeps ==
    ASSUME RunnerInv, [RunnerNext]_runnerVars
    PROVE  RunnerInv'
  <1>1. /\ process \in [Patches -> {"clean", "task", "module", "left"}] /\ saved \in [Patches -> {"clean", "task", "module", "left"}]
        /\ stage \in {"idle", "setup", "run", "revert"} /\ step \in Nat /\ failed \in BOOLEAN
        /\ replaced \in BOOLEAN
        /\ stage # "idle" => tasks # <<>> /\ step >= 1
    BY DEF RunnerInv, RunnerTypes
  <1>2. tasks \in Seq(Invocations)
    BY DEF RunnerInv, RunnerTypes
  <1>3. Tail(tasks) \in Seq(Invocations) \/ tasks = <<>>
    BY <1>2
  <1>4. Watched \subseteq Patches
    BY DEF Watched, Patches
  <1> DEFINE kind == Task.kind
  <1>5. CASE UNCHANGED runnerVars
    BY <1>5 DEF runnerVars, RunnerInv, RunnerTypes, FoundClean, WrapperInv, ReplacedInv, Watched,
                 Patched, Task
  <1>6. CASE InvokeModule
    <2>1. UNCHANGED <<process, saved, failed, replaced>> /\ stage = "idle" /\ tasks # <<>>
      BY <1>6 DEF InvokeModule
    <2>2. Patched = {} /\ Watched' = Watched
      BY <2>1 DEF Patched, Watched
    <2>3. CASE Task.isolated
      <3>1. Ended
        BY <1>6, <2>3 DEF InvokeModule
      <3>2. Patched' = {}
        BY <3>1 DEF Patched, Ended
      <3>3. FoundClean'
        BY <2>1, <2>2, <3>2 DEF RunnerInv, FoundClean
      <3>4. RunnerTypes'
        BY <1>1, <1>3, <2>1, <3>1 DEF RunnerTypes, Ended
      <3>5. WrapperInv' /\ ReplacedInv'
        BY <2>1, <3>1, <3>2 DEF RunnerInv, WrapperInv, ReplacedInv, Ended
      <3> QED
        BY <3>3, <3>4, <3>5 DEF RunnerInv
    <2>4. CASE ~Task.isolated
      <3>1. stage' = "setup" /\ step' = 1 /\ tasks' = tasks
        BY <1>6, <2>4 DEF InvokeModule
      <3>2. Patched' = {}
        BY <3>1, RevertsAll DEF Patched
      <3>3. FoundClean'
        BY <2>1, <2>2, <3>2 DEF RunnerInv, FoundClean
      <3>4. RunnerTypes'
        BY <1>1, <1>2, <2>1, <3>1 DEF RunnerTypes
      <3>5. Len(Setup("new")) = 11
        BY DEF Setup
      <3>6. WrapperInv'
        BY <3>2 DEF WrapperInv
      <3>7. ReplacedInv'
        <4>1. replaced' => process'["atexit"] = "left"
          BY <2>1 DEF RunnerInv, ReplacedInv
        <4>2. step' <= 11
          BY <3>1
        <4> QED
          BY <3>1, <3>5, <4>1, <4>2 DEF ReplacedInv
      <3> QED
        BY <3>3, <3>4, <3>6, <3>7 DEF RunnerInv
    <2> QED
      BY <2>3, <2>4
  <1>7. CASE SetupStep
    <2> DEFINE s == Setup(kind)[step]
    <2>1. /\ stage = "setup" /\ step <= Len(Setup(kind)) /\ step' = step + 1
          /\ UNCHANGED <<tasks, stage, failed, replaced>> /\ ~Wrapped(s)
          /\ IF s \in Patches THEN Set(s) /\ saved' = [saved EXCEPT ![s] = process[s]]
             ELSE UNCHANGED <<process, saved>>
      BY <1>7 DEF SetupStep
    <2>2. step \in 1..Len(Setup(kind))
      BY <1>1, <2>1, Lengths
    <2>3. Patched = Made(kind, step) /\ Patched' = Made(kind, step + 1) /\ Watched' = Watched
      BY <2>1 DEF Patched, Watched, Task
    <2>4. s \notin Patched /\ Patched' = Patched \cup ({s} \cap Patches)
      BY <2>2, <2>3, SetupOnce
    <2> HIDE DEF s
    <2>5. ASSUME NEW p \in Watched
          PROVE  IF p \in Patched' THEN saved'[p] = "clean" ELSE process'[p] = "clean"
      <3>1. IF p \in Patched THEN saved[p] = "clean" ELSE process[p] = "clean"
        BY DEF RunnerInv, FoundClean
      <3>2. CASE p = s
        BY <3>1, <3>2, <1>1, <1>4, <2>1, <2>4
      <3>3. CASE p # s
        BY <3>1, <3>3, <1>1, <1>4, <2>1, <2>4 DEF Set
      <3> QED
        BY <3>2, <3>3
    <2>6. FoundClean'
      BY <2>3, <2>5 DEF FoundClean
    <2>7. RunnerTypes'
      <3>1. CASE s \in Patches
        BY <3>1, <1>1, <1>2, <2>1 DEF RunnerTypes, Set
      <3>2. CASE s \notin Patches
        BY <3>2, <1>1, <1>2, <2>1 DEF RunnerTypes
      <3> QED
        BY <3>1, <3>2
    <2>8. WrapperInv'
      <3>1. CASE s = "atexit"
        BY <3>1, <1>1, <2>1 DEF WrapperInv, Set, Patches
      <3>2. CASE s # "atexit"
        BY <3>2, <1>1, <2>1, <2>4 DEF RunnerInv, WrapperInv, Set, Patches
      <3> QED
        BY <3>1, <3>2
    <2>9. ReplacedInv'
      <3> SUFFICES ASSUME replaced PROVE ReplacedInv'
        BY <2>1 DEF ReplacedInv
      <3>1. process["atexit"] = "left"
        BY DEF RunnerInv, ReplacedInv
      <3>2. s # "atexit"
        BY <2>1, <3>1 DEF Wrapped
      <3>3. process'["atexit"] = "left"
        BY <3>1, <3>2, <1>1, <2>1 DEF Set, Patches
      <3>4. kind = "new" => step < Len(Setup("new"))
        BY <2>1, <2>2, <3>2, AtExitPlaces, Lengths DEF s
      <3> QED
        BY <1>1, <2>1, <3>3, <3>4, Lengths DEF ReplacedInv, Task
    <2> QED
      BY <2>6, <2>7, <2>8, <2>9 DEF RunnerInv
  <1>8. CASE SetupFails
    <2> DEFINE s == Setup(kind)[step]
    <2>1. /\ stage = "setup" /\ step <= Len(Setup(kind)) /\ (CanFail(s) \/ Wrapped(s))
          /\ process' = [p \in Patches |-> IF process[p] = "clean" THEN "clean" ELSE "left"]
          /\ failed' = TRUE /\ Ended /\ saved' = saved /\ replaced' = replaced
      BY <1>8 DEF SetupFails, Abandoned
    <2>2. step \in 1..Len(Setup(kind))
      BY <1>1, <2>1, Lengths
    <2>3. Patched = Made(kind, step) /\ Patched' = {}
      BY <2>1 DEF Patched, Task, Ended
    <2>4. ASSUME replaced PROVE FoundClean' /\ ReplacedInv'
      <3>1. FoundClean'
        BY <2>1, <2>4 DEF FoundClean, Watched
      <3>2. process["atexit"] = "left"
        BY <2>4 DEF RunnerInv, ReplacedInv
      <3> QED
        BY <2>1, <3>1, <3>2 DEF ReplacedInv, Ended, Patches
    <2>5. ASSUME ~replaced PROVE FoundClean' /\ ReplacedInv'
      <3>1. {"atexit", "excepthook"} \subseteq Watched /\ Watched' = {"atexit", "excepthook"}
        BY <2>1, <2>5 DEF Watched, Patches
      <3>2. s = "atexit" => process["atexit"] = "clean"
        BY <2>2, <2>3, <3>1, SetupOnce DEF RunnerInv, FoundClean
      <3>3. CanFail(s)
        BY <2>1, <3>2 DEF Wrapped
      <3>4. "atexit" \notin Made(kind, step) /\ "excepthook" \notin Made(kind, step)
        BY <2>2, <3>3, FailsEarly
      <3>5. process["atexit"] = "clean" /\ process["excepthook"] = "clean"
        BY <2>3, <3>1, <3>4 DEF RunnerInv, FoundClean
      <3>6. FoundClean'
        BY <2>1, <2>3, <3>1, <3>5 DEF FoundClean, Patches
      <3> QED
        BY <2>1, <2>5, <3>6 DEF ReplacedInv
    <2>6. process' \in [Patches -> {"clean", "task", "module", "left"}]
      BY <1>1, <2>1
    <2>7. RunnerTypes'
      BY <1>1, <1>3, <2>1, <2>6 DEF RunnerTypes, Ended
    <2>8. WrapperInv'
      BY <2>3 DEF WrapperInv
    <2> QED
      BY <2>4, <2>5, <2>7, <2>8 DEF RunnerInv
  <1>9. CASE SetupEnds
    <2>1. /\ stage = "setup" /\ step > Len(Setup(kind)) /\ stage' = "run" /\ step' = 1
          /\ UNCHANGED <<tasks, process, saved, failed, replaced>>
      BY <1>9 DEF SetupEnds
    <2>2. Patched = Made(kind, step) /\ Patched' = Made(kind, Len(Setup(kind)) + 1) /\ Watched' = Watched
      BY <2>1 DEF Patched, Watched, Task
    <2>3. Made(kind, step) = Made(kind, Len(Setup(kind)) + 1)
      BY <1>1, <2>1, Lengths DEF Made
    <2>4. FoundClean'
      BY <2>1, <2>2, <2>3 DEF RunnerInv, FoundClean
    <2>5. RunnerTypes'
      BY <1>1, <1>2, <2>1 DEF RunnerTypes
    <2>6. WrapperInv'
      BY <2>1, <2>2, <2>3 DEF RunnerInv, WrapperInv
    <2>7. kind = "new" => step > Len(Setup("new"))
      BY <2>1
    <2>8. ReplacedInv'
      BY <1>1, <2>1, <2>7, Lengths DEF RunnerInv, ReplacedInv, Task
    <2> QED
      BY <2>4, <2>5, <2>6, <2>8 DEF RunnerInv
  <1>10. CASE Execute
    <2>1. /\ stage = "run" /\ stage' = "revert" /\ step' = 1
          /\ UNCHANGED <<tasks, saved, failed, replaced>>
          /\ process' = [p \in Patches |->
                            IF kind = "new" /\ p \in Task.writes THEN "module" ELSE process[p]]
      BY <1>10 DEF Execute
    <2>2. Patched = Made(kind, Len(Setup(kind)) + 1) /\ Patched' = ToRevert(kind, 1) /\ Watched' = Watched
      BY <2>1 DEF Patched, Watched, Task
    <2>3. Made(kind, Len(Setup(kind)) + 1) \ {"importer"} = ToRevert(kind, 1)
          /\ (kind = "new" => ToRevert(kind, 1) = Patches \ {"importer"})
      BY RevertsAll
    <2>4. "importer" \notin Watched
      BY DEF Watched
    <2>5. ASSUME NEW p \in Watched
          PROVE  IF p \in Patched' THEN saved'[p] = "clean" ELSE process'[p] = "clean"
      <3>1. IF p \in Patched THEN saved[p] = "clean" ELSE process[p] = "clean"
        BY DEF RunnerInv, FoundClean
      <3>2. p \in Patched <=> p \in Patched'
        BY <2>2, <2>3, <2>4
      <3>3. kind = "new" => p \in Patched'
        BY <1>4, <2>2, <2>3, <2>4
      <3> QED
        BY <3>1, <3>2, <3>3, <1>4, <2>1
    <2>6. FoundClean'
      BY <2>2, <2>5 DEF FoundClean
    <2>7. process' \in [Patches -> {"clean", "task", "module", "left"}]
      BY <1>1, <2>1
    <2>8. RunnerTypes'
      BY <1>1, <1>2, <2>1, <2>7 DEF RunnerTypes
    <2>9. WrapperInv'
      <3>1. "atexit" \in Patched' => "atexit" \in Patched
        BY <2>2, <2>3
      <3> QED
        BY <1>1, <2>1, <3>1 DEF RunnerInv, WrapperInv, Patches
    <2>10. ReplacedInv'
      BY <1>1, <2>1 DEF RunnerInv, ReplacedInv, Task, Patches
    <2> QED
      BY <2>6, <2>8, <2>9, <2>10 DEF RunnerInv
  <1>11. CASE RevertStep
    <2> DEFINE s == Revert(kind)[step]
    <2>1. /\ stage = "revert" /\ step <= Len(Revert(kind)) /\ step' = step + 1
          /\ \E was \in Restored(s) : process' = [process EXCEPT ![s] = was]
          /\ UNCHANGED <<tasks, saved, stage, failed, replaced>>
      BY <1>11 DEF RevertStep
    <2>2. step \in 1..Len(Revert(kind))
      BY <1>1, <2>1, Lengths
    <2>3. Patched = ToRevert(kind, step) /\ Patched' = ToRevert(kind, step + 1) /\ Watched' = Watched
      BY <2>1 DEF Patched, Watched, Task
    <2>4. s \in Patched /\ Patched' = Patched \ {s} /\ s \in Patches
      BY <2>2, <2>3, RevertOnce DEF ToRevert
    <2> HIDE DEF s
    <2>5. ASSUME NEW p \in Watched
          PROVE  IF p \in Patched' THEN saved'[p] = "clean" ELSE process'[p] = "clean"
      <3>1. IF p \in Patched THEN saved[p] = "clean" ELSE process[p] = "clean"
        BY DEF RunnerInv, FoundClean
      <3>2. CASE p = s
        <4>1. process'[s] \in Restored(s) /\ saved[s] = "clean"
          BY <3>1, <3>2, <1>1, <2>1, <2>4
        <4>2. s # "cwd"
          BY <3>2 DEF Watched
        <4> QED
          BY <4>1, <4>2, <3>2, <2>4 DEF Restored
      <3>3. CASE p # s
        BY <3>1, <3>3, <1>1, <1>4, <2>1, <2>4
      <3> QED
        BY <3>2, <3>3
    <2>6. FoundClean'
      BY <2>3, <2>5 DEF FoundClean
    <2>7. process' \in [Patches -> {"clean", "task", "module", "left"}]
      <3>1. Restored(s) \subseteq {"clean", "task", "module", "left"}
        BY <1>1, <2>4 DEF Restored
      <3> QED
        BY <3>1, <1>1, <2>1
    <2>8. RunnerTypes'
      BY <1>1, <1>2, <2>1, <2>7 DEF RunnerTypes
    <2>9. WrapperInv'
      BY <1>1, <2>1, <2>4 DEF RunnerInv, WrapperInv, Patches
    <2>10. ReplacedInv'
      <3> SUFFICES ASSUME replaced PROVE ReplacedInv'
        BY <2>1 DEF ReplacedInv
      <3>1. process["atexit"] = "left" /\ kind # "new"
        BY <2>1 DEF RunnerInv, ReplacedInv
      <3>2. s # "atexit"
        BY <2>2, <3>1, AtExitPlaces DEF s
      <3> QED
        BY <1>1, <2>1, <3>1, <3>2 DEF ReplacedInv, Task, Patches
    <2> QED
      BY <2>6, <2>8, <2>9, <2>10 DEF RunnerInv
  <1>12. CASE RevertEnds
    <2>1. /\ stage = "revert" /\ step > Len(Revert(kind)) /\ Ended /\ UNCHANGED <<process, saved, failed, replaced>>
      BY <1>12 DEF RevertEnds
    <2>2. Patched = ToRevert(kind, step) /\ Patched' = {} /\ Watched' = Watched
      BY <2>1 DEF Patched, Watched, Task, Ended
    <2>3. ToRevert(kind, step) = {}
      BY <1>1, <2>1, RevertsAll
    <2>4. FoundClean'
      BY <2>1, <2>2, <2>3 DEF RunnerInv, FoundClean
    <2>5. RunnerTypes'
      BY <1>1, <1>3, <2>1 DEF RunnerTypes, Ended
    <2>6. WrapperInv' /\ ReplacedInv'
      BY <2>1, <2>2 DEF RunnerInv, WrapperInv, ReplacedInv, Ended
    <2> QED
      BY <2>4, <2>5, <2>6 DEF RunnerInv
  <1>13. CASE RevertFails
    <2>1. /\ stage = "revert" /\ step \in 1..Len(Revert(kind)) /\ Revert(kind)[step] = "atexit"
          /\ process["atexit"] # "task" /\ replaced' = TRUE /\ Ended /\ saved' = saved /\ failed' = failed
          /\ process' = [p \in Patches |-> IF process[p] = "clean" THEN "clean" ELSE "left"]
      BY <1>1, <1>13, Lengths DEF RevertFails, Abandoned
    <2>2. FoundClean'
      BY <2>1 DEF FoundClean, Watched
    <2>3. RunnerTypes'
      <3>1. process' \in [Patches -> {"clean", "task", "module", "left"}]
        BY <1>1, <2>1
      <3> QED
        BY <1>1, <1>3, <2>1, <3>1 DEF RunnerTypes, Ended
    <2>4. WrapperInv'
      BY <2>1 DEF WrapperInv, Patched, Ended
    <2>5. "atexit" \in Patched
      BY <2>1, RevertOnce DEF Patched
    <2>6. process'["atexit"] = "left"
      BY <2>1, <2>5 DEF RunnerInv, WrapperInv, Patches
    <2>7. ReplacedInv'
      BY <2>1, <2>6 DEF ReplacedInv, Ended
    <2> QED
      BY <2>2, <2>3, <2>4, <2>7 DEF RunnerInv
  <1> QED
    BY <1>5, <1>6, <1>7, <1>8, <1>9, <1>10, <1>11, <1>12, <1>13 DEF RunnerNext

\* As long as no task's setup failed and no module replaced atexit.register, a task finds
\* the process as the first one did, but for the importer and the working directory; as long
\* as no module replaced it, atexit.register and the excepthook in any case; and afterwards
\* no module runs in the process.
THEOREM FoundAsBefore == RunnerSpec => []TasksFindItClean
  <1>1. RunnerInit => RunnerInv
    BY RunnerStarts
  <1>2. RunnerInv /\ [RunnerNext]_runnerVars => RunnerInv'
    BY RunnerKeeps
  <1>3. RunnerInv => TasksFindItClean
    <2> SUFFICES ASSUME RunnerInv PROVE TasksFindItClean
      OBVIOUS
    <2>1. /\ ~replaced => {"atexit", "excepthook"} \subseteq Watched
          /\ ~replaced /\ ~failed => Watched = Patches \ {"importer", "cwd"}
      BY DEF Watched, Patches
    <2>2. stage = "idle" => Patched = {}
      BY DEF Patched
    <2>3. stage = "idle" => \A p \in Watched : process[p] = "clean"
      BY <2>2 DEF RunnerInv, FoundClean
    <2>4. ASSUME stage = "setup", ~replaced, ~(step > Len(Setup("new")))
          PROVE  process["atexit"] = "clean"
      <3>1. step \in Nat
        BY DEF RunnerInv, RunnerTypes
      <3>2. "atexit" \notin Patched
        BY <2>4, <3>1, AtExitLast DEF Patched
      <3> QED
        BY <3>2, <2>1, <2>4 DEF RunnerInv, FoundClean
    <2>5. stage = "run" /\ replaced => Task.kind # "new"
      BY DEF RunnerInv, ReplacedInv
    <2> QED
      BY <2>1, <2>3, <2>4, <2>5 DEF TasksFindItClean
  <1> QED
    BY <1>1, <1>2, <1>3, PTL DEF RunnerSpec

----------------------------------------------------------------------------
(* The chains of calls.                                                    *)

\* The calls that were sent and not dispatched, in that order.
Waiting == callBox \o out
Sent(c) == 1..Len(plan[c])
\* What a call may be answered with by the dispatcher.
Replies == UNION {{[call |-> <<c, i>>, answer |-> Promised(c, i)] : i \in Sent(c)} : c \in Chains}

CallTypes ==
    /\ \A c \in Chains : plan[c] \in Seq([what : Outcomes, reply : BOOLEAN])
    /\ issued \in [Chains -> Nat] /\ \A c \in Chains : issued[c] <= Len(plan[c])
    /\ answers = [c \in Chains |-> answers[c]]
    /\ \A c \in Chains : answers[c] = [i \in Sent(c) |-> answers[c][i]]
    /\ out \in Seq(Chains \X Nat) /\ callBox \in Seq(Chains \X Nat)
    /\ back \in Seq(Replies)
    /\ DOMAIN errors \subseteq Pipelined

\* The error of a chain is that of the first call that raised since it was reset.
Kept(c, n) ==
    IF c \in Pipelined /\ c \in DOMAIN errors
    THEN \E m \in Raised(c, n) : errors[c] = Error(c, m) /\ \A j \in Raised(c, n) : m <= j
    ELSE c \in Pipelined => Raised(c, n) = {}
\* done[c] calls of a chain are dispatched, and the others that were issued wait in order.
InOrder(done) ==
    /\ \A c \in Chains : done[c] <= issued[c] /\ Kept(c, done[c] + 1)
    /\ \A k \in 1..Len(Waiting) :
          done[Waiting[k][1]] < Waiting[k][2] /\ Waiting[k][2] <= issued[Waiting[k][1]]
    /\ \A c \in Chains : \A i \in (done[c] + 1)..issued[c] : \E k \in 1..Len(Waiting) : Waiting[k] = <<c, i>>
    /\ \A j, k \in 1..Len(Waiting) :
          j < k /\ Waiting[j][1] = Waiting[k][1] => Waiting[j][2] < Waiting[k][2]
GotAnswer ==
    /\ \A c \in Chains : \A i \in Sent(c) : answers[c][i] \in {Pending, Dead, Promised(c, i)}
    /\ \A e \in executed : ~Cancelled(e[1], e[2])
CallInv == CallTypes /\ GotAnswer /\ (callee = "up" => \E done \in [Chains -> Nat] : InOrder(done))

LEMMA HeadFirst ==
    ASSUME NEW S, NEW s \in Seq(S), s # <<>>
    PROVE  s = <<Head(s)>> \o Tail(s) /\ Head(s) \in S /\ Tail(s) \in Seq(S)
  <1>1. Len(s) \in Nat /\ Len(s) >= 1 /\ Head(s) = s[1]
    OBVIOUS
  <1>2. SubSeq(s, 1, Len(s)) = <<s[1]>> \o SubSeq(s, 1 + 1, Len(s))
    BY <1>1, SubSeqRecursiveFirst
  <1>3. Tail(s) = SubSeq(s, 1 + 1, Len(s))
    BY TailIsSubSeq
  <1> QED
    BY <1>1, <1>2, <1>3, SubSeqFull, HeadTailProperties

\* Messages keep their order on the way from the stream to the receiver.
LEMMA Moves ==
    ASSUME NEW S, NEW a \in Seq(S), NEW b \in Seq(S)
    PROVE  /\ b # <<>> => Append(a, Head(b)) \o Tail(b) = a \o b
           /\ a # <<>> => Tail(a) \o b = Tail(a \o b) /\ Head(a \o b) = Head(a) /\ a \o b # <<>>
           /\ \A x \in S : a \o Append(b, x) = Append(a \o b, x)
  <1>1. ASSUME b # <<>>
        PROVE  Append(a, Head(b)) \o Tail(b) = a \o b
    <2>1. b = <<Head(b)>> \o Tail(b) /\ Head(b) \in S /\ Tail(b) \in Seq(S)
      BY <1>1, HeadFirst
    <2>2. Append(a, Head(b)) = a \o <<Head(b)>> /\ <<Head(b)>> \in Seq(S)
      BY <2>1, AppendIsConcat
    <2>3. (a \o <<Head(b)>>) \o Tail(b) = a \o (<<Head(b)>> \o Tail(b))
      BY <2>1, <2>2, ConcatAssociative
    <2> QED
      BY <2>1, <2>2, <2>3
  <1>2. ASSUME a # <<>>
        PROVE  Tail(a) \o b = Tail(a \o b) /\ Head(a \o b) = Head(a) /\ a \o b # <<>>
    <2> DEFINE h == <<Head(a)>>
               ab == a \o b
               rest == Tail(a) \o b
    <2>1. a = h \o Tail(a) /\ h \in Seq(S) /\ Tail(a) \in Seq(S)
      BY <1>2, HeadFirst
    <2>2. (h \o Tail(a)) \o b = h \o rest
      BY <2>1, ConcatAssociative
    <2>3. ab = h \o rest
      BY <2>1, <2>2
    <2>4. ab \in Seq(S) /\ rest \in Seq(S)
      BY <2>1, ConcatProperties
    <2>5. ab # <<>>
      BY <1>2, ConcatEqualIffEmpty
    <2>6. Head(ab) = Head(a)
      <3>1. Len(a) \in Nat /\ Len(b) \in Nat /\ Len(a) >= 1 /\ Head(a) = a[1]
        BY <1>2
      <3>2. \A i \in 1..(Len(a) + Len(b)) : ab[i] = IF i <= Len(a) THEN a[i] ELSE b[i - Len(a)]
        BY ConcatProperties
      <3>3. Head(ab) = ab[1]
        BY <2>4, <2>5
      <3> QED
        BY <3>1, <3>2, <3>3
    <2>7. ab = h \o Tail(ab) /\ Tail(ab) \in Seq(S)
      BY <2>4, <2>5, <2>6, HeadFirst
    <2> HIDE DEF ab, rest, h
    <2>8. rest = Tail(ab)
      <3>1. Len(h) = 1 /\ Len(rest) \in Nat /\ Len(Tail(ab)) \in Nat
        BY <2>4, <2>7 DEF h
      <3>2. /\ Len(ab) = Len(h) + Len(rest)
            /\ \A k \in 1..(Len(h) + Len(rest)) : ab[k] = IF k <= Len(h) THEN h[k] ELSE rest[k - Len(h)]
        BY <2>1, <2>3, <2>4, ConcatProperties
      <3>3. /\ Len(ab) = Len(h) + Len(Tail(ab))
            /\ \A k \in 1..(Len(h) + Len(Tail(ab))) :
                  ab[k] = IF k <= Len(h) THEN h[k] ELSE Tail(ab)[k - Len(h)]
        BY <2>1, <2>7, ConcatProperties
      <3>4. Len(rest) = Len(Tail(ab))
        BY <3>1, <3>2, <3>3
      <3>5. ASSUME NEW k \in 1..Len(rest)
            PROVE  rest[k] = Tail(ab)[k]
        <4>1. k + 1 \in 1..(1 + Len(rest)) /\ ~(k + 1 <= 1) /\ (k + 1) - 1 = k
          BY <3>1
        <4> QED
          BY <3>1, <3>2, <3>3, <3>4, <4>1
      <3> QED
        BY <2>4, <2>7, <3>4, <3>5, SeqEqual
    <2> QED
      BY <2>5, <2>6, <2>8 DEF ab, rest
  <1>3. ASSUME NEW x \in S
        PROVE  a \o Append(b, x) = Append(a \o b, x)
    <2>1. Append(b, x) = b \o <<x>> /\ <<x>> \in Seq(S) /\ a \o b \in Seq(S)
      BY AppendIsConcat, ConcatProperties
    <2>2. Append(a \o b, x) = (a \o b) \o <<x>>
      BY <2>1, AppendIsConcat
    <2> QED
      BY <2>1, <2>2, ConcatAssociative
  <1> QED
    BY <1>1, <1>2, <1>3

\* What a call of a chain means for the calls after it.
LEMMA RaisedNext ==
    ASSUME NEW c, NEW i \in Nat, i >= 1
    PROVE  /\ \A j \in Raised(c, i) : j \in Nat /\ j < i
           /\ plan[c][i].what = "raises" => Raised(c, i + 1) = Raised(c, i) \cup {i}
           /\ plan[c][i].what = "forget" => Raised(c, i + 1) = {}
           /\ plan[c][i].what \notin {"raises", "forget"} => Raised(c, i + 1) = Raised(c, i)
  <1>1. \A j \in 1..i : j \in 1..(i - 1) \/ j = i
    OBVIOUS
  <1>2. \A j \in 1..(i - 1) : j \in 1..i /\ j < i
    OBVIOUS
  <1>3. \A j \in 1..i : \A k \in j..i : k \in j..(i - 1) \/ k = i
    OBVIOUS
  <1>4. \A j \in 1..i : (\A k \in j..(i - 1) : k \in j..i) /\ i \in j..i
    OBVIOUS
  <1>5. (i + 1) - 1 = i
    OBVIOUS
  <1>6. Raised(c, i + 1) =
          {j \in 1..i : plan[c][j].what = "raises" /\ \A k \in j..i : plan[c][k].what # "forget"}
    BY <1>5 DEF Raised
  <1>7. CASE plan[c][i].what = "raises"
    BY <1>1, <1>2, <1>3, <1>4, <1>6, <1>7 DEF Raised
  <1>8. CASE plan[c][i].what = "forget"
    BY <1>1, <1>2, <1>3, <1>4, <1>6, <1>8 DEF Raised
  <1>9. CASE plan[c][i].what \notin {"raises", "forget"}
    BY <1>1, <1>2, <1>3, <1>4, <1>6, <1>9 DEF Raised
  <1>10. \A j \in Raised(c, i) : j \in Nat /\ j < i
    BY <1>2 DEF Raised
  <1> QED
    BY <1>7, <1>8, <1>9, <1>10

\* The dispatcher answers what was promised, and runs what is not cancelled.
LEMMA ResultIsPromised ==
    ASSUME CallTypes, NEW c \in Chains, NEW i \in Nat, Kept(c, i)
    PROVE  /\ Result(c, i) = Promised(c, i)
           /\ Runs(c, i) => ~Cancelled(c, i)
           /\ Name(c) \in DOMAIN errors <=> c \in Pipelined /\ c \in DOMAIN errors
  <1>1. Name(c) \in DOMAIN errors <=> c \in Pipelined /\ c \in DOMAIN errors
    BY CallsAssumption DEF Name, CallTypes
  <1>2. CASE c \in Pipelined /\ c \in DOMAIN errors
    <2>1. PICK m \in Raised(c, i) : errors[c] = Error(c, m) /\ \A j \in Raised(c, i) : m <= j
      BY <1>2 DEF Kept
    <2>2. \A j \in Raised(c, i) : j \in Nat
      BY DEF Raised
    <2>3. Min(Raised(c, i)) = m
      BY <2>1, <2>2 DEF Min
    <2>4. Cancelled(c, i)
      BY <1>2, <2>1 DEF Cancelled
    <2> QED
      BY <1>1, <1>2, <2>1, <2>3, <2>4 DEF Result, Promised, Runs, Name
  <1>3. CASE ~(c \in Pipelined /\ c \in DOMAIN errors)
    <2>1. ~Cancelled(c, i)
      BY <1>3 DEF Kept, Cancelled
    <2> QED
      BY <1>1, <1>3, <2>1 DEF Result, Promised
  <1> QED
    BY <1>1, <1>2, <1>3

\* What the dispatcher remembers after a call.
Remembers(c, i) ==
    IF plan[c][i].what = "forget" THEN errors' = Restrict(errors, DOMAIN errors \ {Name(c)})
    ELSE errors' = IF RecordsError(c, i)
                   THEN [n \in DOMAIN errors \cup {Name(c)} |-> IF n = Name(c) THEN Error(c, i) ELSE errors[n]]
                   ELSE errors

\* The error is kept after a call as the next one is promised to be answered.
LEMMA KeptNext ==
    ASSUME CallTypes, NEW c \in Chains, NEW i \in Nat, i >= 1, Kept(c, i), plan' = plan, Remembers(c, i)
    PROVE  /\ DOMAIN errors' \subseteq Pipelined
           /\ Kept(c, i + 1)'
           /\ \A d \in Chains \ {c} : \A n \in Nat : Kept(d, n) => Kept(d, n)'
  <1>1. DOMAIN errors \subseteq Pipelined /\ (c \in Pipelined => Name(c) = c)
        /\ (c \notin Pipelined => Name(c) \notin Pipelined)
    BY CallsAssumption DEF CallTypes, Name
  <1>2. \A d, n : Raised(d, n)' = Raised(d, n)
    BY DEF Raised
  <1>3. CASE plan[c][i].what = "forget"
    <2>1. /\ DOMAIN errors' = DOMAIN errors \ {Name(c)}
          /\ \A n \in DOMAIN errors \ {Name(c)} : errors'[n] = errors[n]
      BY <1>3 DEF Restrict, Remembers
    <2>2. Raised(c, i + 1) = {}
      BY <1>3, RaisedNext
    <2>3. Kept(c, i + 1)'
      BY <1>1, <1>2, <2>1, <2>2 DEF Kept
    <2>4. ASSUME NEW d \in Chains \ {c}, NEW n \in Nat, Kept(d, n)
          PROVE  Kept(d, n)'
      BY <1>1, <1>2, <2>1, <2>4 DEF Kept
    <2> QED
      BY <1>1, <2>1, <2>3, <2>4
  <1>4. CASE plan[c][i].what # "forget" /\ RecordsError(c, i)
    <2>1. /\ plan[c][i].what = "raises" /\ c \in Pipelined /\ c \notin DOMAIN errors /\ Name(c) = c
      BY <1>1, <1>4 DEF RecordsError, Keeps
    <2>2. /\ DOMAIN errors' = DOMAIN errors \cup {c} /\ errors'[c] = Error(c, i)
          /\ \A n \in DOMAIN errors : errors'[n] = errors[n]
      BY <1>4, <2>1 DEF Remembers
    <2>3. Raised(c, i + 1) = {i}
      BY <2>1, RaisedNext DEF Kept
    <2>4. Kept(c, i + 1)'
      <3>1. Error(c, i)' = Error(c, i)
        BY DEF Error
      <3> QED
        BY <1>2, <2>1, <2>2, <2>3, <3>1 DEF Kept
    <2>5. ASSUME NEW d \in Chains \ {c}, NEW n \in Nat, Kept(d, n)
          PROVE  Kept(d, n)'
      BY <1>2, <2>1, <2>2, <2>5 DEF Kept
    <2> QED
      BY <1>1, <2>1, <2>2, <2>4, <2>5
  <1>5. CASE plan[c][i].what # "forget" /\ ~RecordsError(c, i)
    <2>1. errors' = errors
      BY <1>5 DEF Remembers
    <2>2. ASSUME NEW d \in Chains \ {c}, NEW n \in Nat, Kept(d, n)
          PROVE  Kept(d, n)'
      BY <1>2, <2>1, <2>2 DEF Kept
    <2>3. Kept(c, i + 1)'
      <3>1. CASE plan[c][i].what = "raises"
        <4>1. CASE c \in Pipelined
          <5>1. c \in DOMAIN errors
            BY <1>1, <1>5, <3>1, <4>1 DEF RecordsError, Keeps
          <5>2. PICK m \in Raised(c, i) : errors[c] = Error(c, m) /\ \A j \in Raised(c, i) : m <= j
            BY <4>1, <5>1 DEF Kept
          <5>3. Raised(c, i + 1) = Raised(c, i) \cup {i} /\ m \in Nat /\ m < i
            BY <3>1, <5>2, RaisedNext
          <5> QED
            <6>1. Raised(c, i + 1)' = Raised(c, i) \cup {i} /\ errors'[c] = Error(c, m)' /\ c \in DOMAIN errors'
              BY <1>2, <2>1, <5>1, <5>2, <5>3 DEF Error
            <6>2. m \in Raised(c, i + 1) /\ \A j \in Raised(c, i + 1) : m <= j
              <7>1. m <= i
                BY <5>3
              <7> QED
                BY <5>2, <5>3, <7>1
            <6> QED
              BY <1>2, <4>1, <6>1, <6>2 DEF Kept
        <4>2. CASE c \notin Pipelined
          BY <4>2 DEF Kept
        <4> QED
          BY <4>1, <4>2
      <3>2. CASE plan[c][i].what # "raises"
        <4>1. Raised(c, i + 1) = Raised(c, i)
          BY <1>5, <3>2, RaisedNext
        <4> QED
          BY <1>2, <2>1, <4>1 DEF Kept
      <3> QED
        BY <3>1, <3>2
    <2> QED
      BY <1>1, <2>1, <2>2, <2>3
  <1> QED
    BY <1>3, <1>4, <1>5

\* The call that is dispatched is the next one of its chain.
LEMMA NextInLine ==
    ASSUME CallTypes, NEW done \in [Chains -> Nat], InOrder(done), callBox # <<>>,
           NEW c \in Chains, NEW i \in Nat, Head(callBox) = <<c, i>>
    PROVE  /\ Waiting \in Seq(Chains \X Nat) /\ Waiting # <<>> /\ Waiting[1] = <<c, i>>
           /\ i = done[c] + 1 /\ i \in Sent(c) /\ Kept(c, i)
  <1>1. out \in Seq(Chains \X Nat) /\ callBox \in Seq(Chains \X Nat) /\ Waiting \in Seq(Chains \X Nat)
    BY ConcatProperties DEF CallTypes, Waiting
  <1>2. Waiting # <<>> /\ Head(Waiting) = <<c, i>>
    BY <1>1, Moves DEF Waiting
  <1>3. Len(Waiting) \in Nat /\ 1 \in 1..Len(Waiting) /\ Waiting[1] = <<c, i>>
    BY <1>1, <1>2
  <1>4. done[c] < i /\ i <= issued[c] /\ Kept(c, done[c] + 1)
    BY <1>3 DEF InOrder
  <1>5. done[c] \in Nat /\ issued[c] \in Nat /\ Len(plan[c]) \in Nat /\ issued[c] <= Len(plan[c])
    BY DEF CallTypes
  <1>6. ASSUME i # done[c] + 1
        PROVE  FALSE
    <2>1. done[c] + 1 \in (done[c] + 1)..issued[c] /\ ~(i < done[c] + 1)
      BY <1>4, <1>5, <1>6
    <2>2. PICK k \in 1..Len(Waiting) : Waiting[k] = <<c, done[c] + 1>>
      BY <2>1 DEF InOrder
    <2>3. k # 1
      BY <1>3, <1>6, <2>2
    <2>4. 1 < k
      BY <1>3, <2>3
    <2>5. i < done[c] + 1
      BY <1>3, <2>2, <2>4 DEF InOrder
    <2> QED
      BY <2>1, <2>5
  <1>7. i \in Sent(c)
    BY <1>4, <1>5 DEF Sent
  <1> QED
    BY <1>1, <1>2, <1>3, <1>4, <1>6, <1>7

\* The calls after it stay in order.
LEMMA StaysInOrder ==
    ASSUME CallTypes, NEW done \in [Chains -> Nat], InOrder(done), callBox # <<>>,
           NEW c \in Chains, NEW i \in Nat, Head(callBox) = <<c, i>>,
           callBox' = Tail(callBox), UNCHANGED <<plan, issued, out>>,
           Kept(c, i + 1)', \A d \in Chains \ {c} : \A n \in Nat : Kept(d, n) => Kept(d, n)'
    PROVE  \E next \in [Chains -> Nat] : InOrder(next)'
  <1> DEFINE next == [done EXCEPT ![c] = i]
  <1>1. /\ Waiting \in Seq(Chains \X Nat) /\ Waiting # <<>> /\ Waiting[1] = <<c, i>>
        /\ i = done[c] + 1 /\ i \in Sent(c) /\ Kept(c, i)
    BY NextInLine
  <1>2. next \in [Chains -> Nat] /\ next[c] = i /\ \A d \in Chains \ {c} : next[d] = done[d]
    OBVIOUS
  <1>3. Waiting' = Tail(Waiting)
    BY Moves DEF Waiting, CallTypes
  <1>4. /\ Len(Waiting) \in Nat /\ Len(Waiting') = Len(Waiting) - 1
        /\ \A k \in 1..Len(Waiting') : Waiting'[k] = Waiting[k + 1]
    BY <1>1, <1>3
  <1>5. \A k \in 1..Len(Waiting) : Waiting[k] \in Chains \X Nat
    BY <1>1
  <1>6. \A k \in 1..Len(Waiting') : k + 1 \in 1..Len(Waiting) /\ 1 < k + 1
    BY <1>4
  <1>7. 1 \in 1..Len(Waiting) /\ i <= issued[c]
    <2>1. 1 \in 1..Len(Waiting)
      BY <1>1, <1>4
    <2> QED
      BY SMTT(30), <1>1, <2>1 DEF InOrder
  <1> HIDE DEF next
  <1>8. ASSUME NEW d \in Chains
        PROVE  next[d] <= issued'[d] /\ Kept(d, next[d] + 1)'
    <2>1. CASE d = c
      BY <1>2, <1>7, <2>1
    <2>2. CASE d # c
      BY <1>2, <2>2 DEF InOrder
    <2> QED
      BY <2>1, <2>2
  <1>9. ASSUME NEW k \in 1..Len(Waiting')
        PROVE  next[Waiting'[k][1]] < Waiting'[k][2] /\ Waiting'[k][2] <= issued'[Waiting'[k][1]]
    <2>1. k + 1 \in 1..Len(Waiting) /\ 1 < k + 1 /\ Waiting'[k] = Waiting[k + 1]
      BY <1>4, <1>6
    <2>2. Waiting[k + 1][1] \in Chains
      BY <1>5, <2>1
    <2>3. done[Waiting[k + 1][1]] < Waiting[k + 1][2] /\ Waiting[k + 1][2] <= issued[Waiting[k + 1][1]]
      BY <2>1 DEF InOrder
    <2>4. CASE Waiting[k + 1][1] = c
      <3>1. Waiting[1][1] = Waiting[k + 1][1] /\ Waiting[1][2] = i
        BY <1>1, <2>4
      <3>2. \A j, n \in 1..Len(Waiting) :
              j < n /\ Waiting[j][1] = Waiting[n][1] => Waiting[j][2] < Waiting[n][2]
        BY DEF InOrder
      <3>3. i < Waiting[k + 1][2]
        BY <1>7, <2>1, <3>1, <3>2
      <3> QED
        BY <1>2, <2>1, <2>3, <2>4, <3>3
    <2>5. CASE Waiting[k + 1][1] # c
      BY <1>2, <2>1, <2>2, <2>3, <2>5
    <2> QED
      BY <2>4, <2>5
  <1>10. ASSUME NEW d \in Chains, NEW n \in (next[d] + 1)..issued'[d]
         PROVE  \E k \in 1..Len(Waiting') : Waiting'[k] = <<d, n>>
    <2>1. next[d] \in Nat /\ done[d] \in Nat /\ issued[d] \in Nat /\ done[d] <= next[d]
      <3>1. next[d] \in Nat /\ done[d] \in Nat /\ issued[d] \in Nat
        BY <1>2 DEF CallTypes
      <3>2. CASE d = c
        BY <1>1, <1>2, <3>1, <3>2
      <3>3. CASE d # c
        BY <1>2, <3>1, <3>3
      <3> QED
        BY <3>1, <3>2, <3>3
    <2>2. n \in (done[d] + 1)..issued[d] /\ n > next[d]
      BY <2>1
    <2>3. PICK k \in 1..Len(Waiting) : Waiting[k] = <<d, n>>
      BY <2>2 DEF InOrder
    <2>4. k # 1
      BY <1>1, <1>2, <2>1, <2>2, <2>3
    <2>5. k - 1 \in 1..Len(Waiting') /\ (k - 1) + 1 = k
      BY <1>4, <2>4
    <2>6. Waiting'[k - 1] = Waiting[k]
      BY <1>4, <2>5
    <2> QED
      BY <2>3, <2>5, <2>6
  <1>11. ASSUME NEW j \in 1..Len(Waiting'), NEW k \in 1..Len(Waiting'),
                j < k, Waiting'[j][1] = Waiting'[k][1]
         PROVE  Waiting'[j][2] < Waiting'[k][2]
    <2>1. /\ j + 1 \in 1..Len(Waiting) /\ Waiting'[j] = Waiting[j + 1]
          /\ k + 1 \in 1..Len(Waiting) /\ Waiting'[k] = Waiting[k + 1]
      BY <1>4, <1>6
    <2>2. j + 1 < k + 1
      BY <1>11
    <2> QED
      BY <1>11, <2>1, <2>2 DEF InOrder
  <1> QED
    BY <1>2, <1>8, <1>9, <1>10, <1>11 DEF InOrder

LEMMA CallStarts == CallInit => CallInv
  <1> SUFFICES ASSUME CallInit PROVE CallInv
    OBVIOUS
  <1>1. \A c \in Chains : plan[c] \in Seq([what : Outcomes, reply : BOOLEAN])
    BY CallsAssumption DEF CallInit
  <1>2. \A c \in Chains : Len(plan[c]) \in Nat /\ DOMAIN plan[c] = Sent(c)
    BY <1>1 DEF Sent
  <1>3. answers = [c \in Chains |-> [i \in Sent(c) |-> Pending]]
    BY <1>2 DEF CallInit
  <1>4. issued \in [Chains -> Nat] /\ \A c \in Chains : issued[c] = 0
    BY DEF CallInit
  <1>5. out = <<>> /\ callBox = <<>> /\ back = <<>> /\ DOMAIN errors = {} /\ executed = {}
    BY DEF CallInit
  <1>6. CallTypes
    <2>1. \A c \in Chains : issued[c] <= Len(plan[c])
      BY <1>2, <1>4
    <2>2. answers = [c \in Chains |-> answers[c]]
          /\ \A c \in Chains : answers[c] = [i \in Sent(c) |-> answers[c][i]]
      BY <1>3
    <2>3. out \in Seq(Chains \X Nat) /\ callBox \in Seq(Chains \X Nat) /\ back \in Seq(Replies)
      BY <1>5
    <2> QED
      BY <1>1, <1>4, <1>5, <2>1, <2>2, <2>3 DEF CallTypes
  <1>7. GotAnswer
    BY <1>3, <1>5 DEF GotAnswer
  <1>8. Waiting = <<>> /\ Len(Waiting) = 0
    BY <1>5 DEF Waiting
  <1>9. \A c \in Chains : Raised(c, 1) = {}
    BY DEF Raised
  <1>10. \A c \in Chains : Kept(c, 1)
    BY <1>5, <1>9 DEF Kept
  <1>11. InOrder([c \in Chains |-> 0])
    BY <1>4, <1>8, <1>10 DEF InOrder
  <1> QED
    BY <1>6, <1>7, <1>11 DEF CallInv

\* The parts of the invariant that do not depend on the order of the calls.
LEMMA TypesKeep ==
    ASSUME CallTypes, UNCHANGED plan,
           issued' \in [Chains -> Nat], \A c \in Chains : issued'[c] <= Len(plan[c]),
           answers' = [c \in Chains |-> answers'[c]],
           \A c \in Chains : answers'[c] = [i \in Sent(c) |-> answers'[c][i]],
           \A c \in Chains : \A i \in Sent(c) : answers'[c][i] \in {Pending, Dead, Promised(c, i)},
           out' \in Seq(Chains \X Nat), callBox' \in Seq(Chains \X Nat),
           NEW b \in Seq(Replies), back' = b,
           DOMAIN errors' \subseteq Pipelined,
           \A e \in executed' : ~Cancelled(e[1], e[2])
    PROVE  CallTypes' /\ GotAnswer'
  <1>1. \A c : Sent(c)' = Sent(c)
    BY DEF Sent
  <1>2. \A c, i : Promised(c, i)' = Promised(c, i)
    BY DEF Promised, Cancelled, Raised, Value, Error
  <1>3. Replies' = Replies
    BY <1>1, <1>2 DEF Replies
  <1>4. CallTypes'
    BY <1>1, <1>3 DEF CallTypes
  <1>5. \A c, i : Cancelled(c, i)' = Cancelled(c, i)
    BY DEF Cancelled, Raised
  <1>6. Pending' = Pending /\ Dead' = Dead
    BY DEF Pending, Dead
  <1>7. \A e \in executed' : ~Cancelled(e[1], e[2])'
    BY <1>5
  <1>8. \A c \in Chains : \A i \in Sent(c)' : answers'[c][i] \in {Pending', Dead', Promised(c, i)'}
    BY <1>1, <1>2, <1>6
  <1>9. GotAnswer'
    BY <1>7, <1>8 DEF GotAnswer
  <1> QED
    BY <1>4, <1>9

\* What a step that leaves the order of the calls alone must keep.
LEMMA AnswersOnly ==
    ASSUME CallInv, UNCHANGED <<plan, issued, errors, executed>>,
           NEW b \in Seq(Replies), back' = b,
           answers' = [c \in Chains |-> answers'[c]],
           \A c \in Chains : answers'[c] = [i \in Sent(c) |-> answers'[c][i]],
           \A c \in Chains : \A i \in Sent(c) : answers'[c][i] \in {Pending, Dead, Promised(c, i)},
           out' \in Seq(Chains \X Nat), callBox' \in Seq(Chains \X Nat),
           callee' = "up" => callee = "up" /\ Waiting' = Waiting
    PROVE  CallInv'
  <1>1. CallTypes /\ issued' \in [Chains -> Nat] /\ \A c \in Chains : issued'[c] <= Len(plan[c])
    BY DEF CallInv, CallTypes
  <1>2. DOMAIN errors' \subseteq Pipelined /\ \A e \in executed' : ~Cancelled(e[1], e[2])
    BY DEF CallInv, CallTypes, GotAnswer
  <1>3. CallTypes' /\ GotAnswer'
    BY <1>1, <1>2, TypesKeep
  <1>4. ASSUME callee' = "up"
        PROVE  \E done \in [Chains -> Nat] : InOrder(done)'
    <2>1. PICK done \in [Chains -> Nat] : InOrder(done)
      BY <1>4 DEF CallInv
    <2>2. Waiting' = Waiting
      BY <1>4
    <2>3. \A c, n : Kept(c, n)' = Kept(c, n)
      BY DEF Kept, Raised, Error
    <2>4. InOrder(done)'
      BY <2>1, <2>2, <2>3 DEF InOrder
    <2> QED
      BY <2>4
  <1> QED
    BY <1>3, <1>4 DEF CallInv

LEMMA AnswerKeeps == CallInv /\ ReceiveAnswer => CallInv'
  <1> SUFFICES ASSUME CallInv, ReceiveAnswer PROVE CallInv'
    OBVIOUS
  <1>1. back \in Seq(Replies) /\ back # <<>> /\ back' = Tail(back)
    BY DEF CallInv, CallTypes, ReceiveAnswer
  <1>2. Head(back) \in Replies /\ back' \in Seq(Replies)
    BY <1>1, HeadFirst
  <1>21. PICK c \in Chains : \E i \in Sent(c) : Head(back) = [call |-> <<c, i>>, answer |-> Promised(c, i)]
    BY <1>2 DEF Replies
  <1>3. PICK i \in Sent(c) : Head(back) = [call |-> <<c, i>>, answer |-> Promised(c, i)]
    BY <1>21
  <1>4. Head(back).call[1] = c /\ Head(back).call[2] = i /\ Head(back).answer = Promised(c, i)
    BY <1>3
  <1>5. answers' = [answers EXCEPT ![c][i] = Promised(c, i)]
    BY <1>4 DEF ReceiveAnswer
  <1>6. answers = [d \in Chains |-> answers[d]] /\ \A d \in Chains : answers[d] = [n \in Sent(d) |-> answers[d][n]]
    BY DEF CallInv, CallTypes
  <1>7. answers' = [d \in Chains |-> answers'[d]]
        /\ \A d \in Chains : answers'[d] = IF d = c THEN [answers[c] EXCEPT ![i] = Promised(c, i)] ELSE answers[d]
    BY <1>5, <1>6
  <1>8. ASSUME NEW d \in Chains
        PROVE  answers'[d] = [n \in Sent(d) |-> answers'[d][n]]
               /\ \A n \in Sent(d) : answers'[d][n] = Promised(d, n) \/ answers'[d][n] = answers[d][n]
    <2>1. CASE d = c
      BY <1>6, <1>7, <2>1
    <2>2. CASE d # c
      BY <1>6, <1>7, <2>2
    <2> QED
      BY <2>1, <2>2
  <1>9. ASSUME NEW d \in Chains, NEW n \in Sent(d)
        PROVE  answers'[d][n] \in {Pending, Dead, Promised(d, n)}
    BY <1>8 DEF CallInv, GotAnswer
  <1>10. /\ UNCHANGED <<plan, issued, errors, executed, out, callBox, callee>>
         /\ out' \in Seq(Chains \X Nat) /\ callBox' \in Seq(Chains \X Nat)
    BY DEF ReceiveAnswer, CallInv, CallTypes
  <1>11. Waiting' = Waiting
    BY <1>10 DEF Waiting
  <1> QED
    BY <1>2, <1>7, <1>8, <1>9, <1>10, <1>11, AnswersOnly

LEMMA LoseKeeps == CallInv /\ Lose => CallInv'
  <1> SUFFICES ASSUME CallInv, Lose PROVE CallInv'
    OBVIOUS
  <1>1. ASSUME NEW c \in Chains
        PROVE  DOMAIN plan[c] = Sent(c)
    <2>1. plan[c] \in Seq([what : Outcomes, reply : BOOLEAN])
      BY DEF CallInv, CallTypes
    <2> QED
      BY <2>1 DEF Sent
  <1>2. answers' = [c \in Chains |-> [i \in Sent(c) |->
          IF i <= issued[c] /\ plan[c][i].reply /\ answers[c][i] = Pending THEN Dead ELSE answers[c][i]]]
    BY <1>1 DEF Lose
  <1>3. answers' = [c \in Chains |-> answers'[c]]
        /\ \A c \in Chains : answers'[c] = [i \in Sent(c) |-> answers'[c][i]]
    BY <1>2
  <1>4. ASSUME NEW c \in Chains, NEW i \in Sent(c)
        PROVE  answers'[c][i] \in {Pending, Dead, Promised(c, i)}
    <2>1. answers'[c][i] \in {Dead, answers[c][i]}
      BY <1>2
    <2> QED
      BY <2>1 DEF CallInv, GotAnswer
  <1>5. /\ UNCHANGED <<plan, issued, errors, executed>> /\ callee' # "up"
        /\ out' \in Seq(Chains \X Nat) /\ callBox' \in Seq(Chains \X Nat) /\ back' \in Seq(Replies)
    BY DEF Lose
  <1> QED
    BY <1>3, <1>4, <1>5, AnswersOnly

LEMMA DeliverKeeps == CallInv /\ Deliver => CallInv'
  <1> SUFFICES ASSUME CallInv, Deliver PROVE CallInv'
    OBVIOUS
  <1>1. out \in Seq(Chains \X Nat) /\ callBox \in Seq(Chains \X Nat) /\ back \in Seq(Replies) /\ out # <<>>
    BY DEF CallInv, CallTypes, Deliver
  <1>2. /\ callBox' = Append(callBox, Head(out)) /\ out' = Tail(out) /\ callee = "up"
        /\ UNCHANGED <<plan, issued, answers, back, errors, executed, callee>>
    BY DEF Deliver
  <1>3. Waiting' = Waiting
    BY <1>1, <1>2, Moves DEF Waiting
  <1>4. out' \in Seq(Chains \X Nat) /\ callBox' \in Seq(Chains \X Nat)
    BY <1>1, <1>2, HeadFirst
  <1>5. /\ answers' = [c \in Chains |-> answers'[c]]
        /\ \A c \in Chains : answers'[c] = [i \in Sent(c) |-> answers'[c][i]]
        /\ \A c \in Chains : \A i \in Sent(c) : answers'[c][i] \in {Pending, Dead, Promised(c, i)}
    BY <1>2 DEF CallInv, CallTypes, GotAnswer
  <1> QED
    BY <1>1, <1>2, <1>3, <1>4, <1>5, AnswersOnly

LEMMA CloseKeeps == CallInv /\ CloseCallee => CallInv'
  <1> SUFFICES ASSUME CallInv, CloseCallee PROVE CallInv'
    OBVIOUS
  <1>1. out \in Seq(Chains \X Nat) /\ back \in Seq(Replies)
    BY DEF CallInv, CallTypes
  <1>2. /\ callBox' = <<>> /\ callee' = "closing"
        /\ UNCHANGED <<plan, issued, answers, out, back, errors, executed>>
    BY DEF CloseCallee
  <1>3. /\ answers' = [c \in Chains |-> answers'[c]]
        /\ \A c \in Chains : answers'[c] = [i \in Sent(c) |-> answers'[c][i]]
        /\ \A c \in Chains : \A i \in Sent(c) : answers'[c][i] \in {Pending, Dead, Promised(c, i)}
    BY <1>2 DEF CallInv, CallTypes, GotAnswer
  <1>4. out' \in Seq(Chains \X Nat) /\ callBox' \in Seq(Chains \X Nat) /\ callee' # "up"
    BY <1>1, <1>2
  <1> QED
    BY <1>1, <1>2, <1>3, <1>4, AnswersOnly

LEMMA IssueKeeps == ASSUME CallInv, NEW c \in Chains, Issue(c) PROVE CallInv'
  <1> DEFINE n == issued[c] + 1
             x == <<c, n>>
  <1>1. /\ CallTypes /\ GotAnswer /\ issued \in [Chains -> Nat] /\ \A d \in Chains : issued[d] <= Len(plan[d])
        /\ \A d \in Chains : plan[d] \in Seq([what : Outcomes, reply : BOOLEAN])
    BY DEF CallInv, CallTypes
  <1>2. Len(plan[c]) \in Nat /\ issued[c] \in Nat /\ issued[c] < Len(plan[c]) /\ n \in Sent(c) /\ n \in Nat
    BY <1>1 DEF Issue, Sent
  <1>3. /\ issued' = [issued EXCEPT ![c] = issued[c] + 1]
        /\ UNCHANGED <<plan, callBox, back, errors, executed, callee>>
    BY DEF Issue
  <1>4. /\ issued' \in [Chains -> Nat] /\ issued'[c] = n
        /\ \A d \in Chains \ {c} : issued'[d] = issued[d]
    BY <1>1, <1>2, <1>3
  <1>14. ASSUME NEW d \in Chains
         PROVE  issued[d] \in Nat /\ issued'[d] \in Nat /\ issued[d] <= issued'[d]
    <2>1. CASE d = c
      BY <1>1, <1>2, <1>4, <2>1
    <2>2. CASE d # c
      BY <1>1, <1>4, <2>2
    <2> QED
      BY <2>1, <2>2
  <1>5. \A d \in Chains : issued'[d] <= Len(plan[d])
    <2>1. issued[c] + 1 <= Len(plan[c])
      BY <1>2
    <2> QED
      BY <1>1, <1>4, <2>1
  <1> HIDE DEF n
  <1>6. answers = [d \in Chains |-> answers[d]] /\ \A d \in Chains : answers[d] = [i \in Sent(d) |-> answers[d][i]]
    BY <1>1 DEF CallTypes
  <1>7. /\ answers' = [d \in Chains |-> answers'[d]]
        /\ \A d \in Chains : answers'[d] = [i \in Sent(d) |-> answers'[d][i]]
        /\ \A d \in Chains : \A i \in Sent(d) : answers'[d][i] \in {Dead, answers[d][i]}
    <2>1. CASE answers' = answers
      BY <1>6, <2>1
    <2>2. CASE answers' # answers
      <3>1. PICK v : answers' = [answers EXCEPT ![c][n] = v] /\ v \in {Dead, answers[c][n]}
        BY <2>2 DEF Issue, n
      <3>2. answers' = [d \in Chains |-> answers'[d]]
            /\ \A d \in Chains : answers'[d] = IF d = c THEN [answers[c] EXCEPT ![n] = v] ELSE answers[d]
        BY <1>6, <3>1
      <3>3. ASSUME NEW d \in Chains
            PROVE  answers'[d] = [i \in Sent(d) |-> answers'[d][i]]
                   /\ \A i \in Sent(d) : answers'[d][i] \in {Dead, answers[d][i]}
        <4>1. CASE d = c
          BY <1>6, <3>1, <3>2, <4>1
        <4>2. CASE d # c
          BY <1>6, <3>2, <4>2
        <4> QED
          BY <4>1, <4>2
      <3> QED
        BY <3>2, <3>3
    <2> QED
      BY <2>1, <2>2
  <1>8. ASSUME NEW d \in Chains, NEW i \in Sent(d)
        PROVE  answers'[d][i] \in {Pending, Dead, Promised(d, i)}
    <2>1. answers'[d][i] \in {Dead, answers[d][i]}
      BY <1>7
    <2> QED
      BY <1>1, <2>1 DEF GotAnswer
  <1>9. x \in Chains \X Nat /\ out \in Seq(Chains \X Nat) /\ callBox \in Seq(Chains \X Nat)
    BY <1>1, <1>2 DEF CallTypes
  <1>10. out' = IF callee = "gone" THEN out ELSE Append(out, x)
    BY DEF Issue, n
  <1> HIDE DEF x
  <1>11. out' \in Seq(Chains \X Nat) /\ callBox' \in Seq(Chains \X Nat)
    BY <1>3, <1>9, <1>10
  <1>12. CallTypes' /\ GotAnswer'
    <2>1. back \in Seq(Replies) /\ back' = back /\ plan' = plan
      BY <1>1, <1>3 DEF CallTypes
    <2>2. DOMAIN errors' \subseteq Pipelined /\ \A e \in executed' : ~Cancelled(e[1], e[2])
      BY <1>1, <1>3 DEF CallTypes, GotAnswer
    <2> QED
      BY <1>1, <1>4, <1>5, <1>7, <1>8, <1>11, <2>1, <2>2, TypesKeep
  <1>13. ASSUME callee' = "up"
         PROVE  \E done \in [Chains -> Nat] : InOrder(done)'
    <2>1. PICK done \in [Chains -> Nat] : InOrder(done)
      BY <1>3, <1>13 DEF CallInv
    <2>2. out' = Append(out, x)
      BY <1>3, <1>10, <1>13
    <2>3. Waiting' = Append(Waiting, x) /\ Waiting \in Seq(Chains \X Nat)
      BY SMTT(30), <1>3, <1>9, <2>2, Moves, ConcatProperties DEF Waiting
    <2>4. /\ Len(Waiting) \in Nat /\ Len(Waiting') = Len(Waiting) + 1 /\ Waiting'[Len(Waiting) + 1] = x
          /\ \A k \in 1..Len(Waiting) : Waiting'[k] = Waiting[k] /\ Waiting[k] \in Chains \X Nat
      BY <1>9, <2>3
    <2>5. \A k \in 1..Len(Waiting') : k \in 1..Len(Waiting) \/ k = Len(Waiting) + 1
      BY <2>4
    <2>6. x[1] = c /\ x[2] = n /\ issued[c] < n /\ done[c] <= issued[c] /\ done[c] < n
      <3>1. done[c] <= issued[c] /\ done[c] \in Nat
        BY <2>1 DEF InOrder
      <3> QED
        BY <1>2, <3>1 DEF x, n
    <2>7. ASSUME NEW d \in Chains
          PROVE  done[d] <= issued'[d] /\ Kept(d, done[d] + 1)'
      <3>1. done[d] <= issued[d] /\ Kept(d, done[d] + 1) /\ done[d] \in Nat /\ issued[d] \in Nat
        BY <1>1, <2>1 DEF InOrder
      <3>2. Kept(d, done[d] + 1)'
        BY <1>3, <3>1 DEF Kept, Raised, Error
      <3>3. done[d] <= issued'[d]
        BY <1>2, <1>4, <2>6, <3>1
      <3> QED
        BY <3>2, <3>3
    <2>8. ASSUME NEW k \in 1..Len(Waiting')
          PROVE  done[Waiting'[k][1]] < Waiting'[k][2] /\ Waiting'[k][2] <= issued'[Waiting'[k][1]]
      <3>1. CASE k \in 1..Len(Waiting)
        <4>1. Waiting'[k] = Waiting[k] /\ Waiting[k][1] \in Chains /\ Waiting[k][2] \in Nat
          BY <2>4, <3>1
        <4>2. done[Waiting[k][1]] < Waiting[k][2] /\ Waiting[k][2] <= issued[Waiting[k][1]]
          BY <2>1, <3>1 DEF InOrder
        <4>3. issued[Waiting[k][1]] <= issued'[Waiting[k][1]] /\ issued[Waiting[k][1]] \in Nat
              /\ issued'[Waiting[k][1]] \in Nat
          BY <1>14, <4>1
        <4>4. Waiting[k][2] <= issued'[Waiting[k][1]]
          BY <4>1, <4>2, <4>3
        <4> QED
          BY <4>1, <4>2, <4>4
      <3>2. CASE k = Len(Waiting) + 1
        BY <1>2, <1>4, <2>4, <2>6, <3>2
      <3> QED
        BY <2>5, <3>1, <3>2
    <2>9. ASSUME NEW d \in Chains, NEW i \in (done[d] + 1)..issued'[d]
          PROVE  \E k \in 1..Len(Waiting') : Waiting'[k] = <<d, i>>
      <3>1. done[d] \in Nat /\ issued[d] \in Nat /\ i \in Nat
        BY <1>1, <1>4
      <3>2. CASE d = c /\ i = n
        <4>1. Len(Waiting) + 1 \in 1..Len(Waiting') /\ Waiting'[Len(Waiting) + 1] = <<d, i>>
          BY <2>4, <3>2 DEF x
        <4> QED
          BY <4>1
      <3>3. CASE ~(d = c /\ i = n)
        <4>1. i \in (done[d] + 1)..issued[d]
          BY <1>2, <1>4, <3>1, <3>3 DEF n
        <4>2. PICK k \in 1..Len(Waiting) : Waiting[k] = <<d, i>>
          BY <2>1, <4>1 DEF InOrder
        <4>3. k \in 1..Len(Waiting') /\ Waiting'[k] = <<d, i>>
          BY <2>4, <4>2
        <4> QED
          BY <4>3
      <3> QED
        BY <3>2, <3>3
    <2>10. ASSUME NEW j \in 1..Len(Waiting'), NEW k \in 1..Len(Waiting'),
                  j < k, Waiting'[j][1] = Waiting'[k][1]
           PROVE  Waiting'[j][2] < Waiting'[k][2]
      <3>1. j \in 1..Len(Waiting) /\ Waiting'[j] = Waiting[j]
        BY <2>4, <2>5, <2>10
      <3>2. CASE k \in 1..Len(Waiting)
        BY <2>1, <2>4, <2>10, <3>1, <3>2 DEF InOrder
      <3>3. CASE k = Len(Waiting) + 1
        <4>1. Waiting[j][1] = c /\ Waiting'[k][2] = n
          BY <2>4, <2>6, <2>10, <3>1, <3>3
        <4>2. Waiting[j][2] <= issued[c] /\ Waiting[j][2] \in Nat
          BY <2>1, <2>4, <3>1, <4>1 DEF InOrder
        <4> QED
          BY <1>2, <2>6, <3>1, <4>1, <4>2
      <3> QED
        BY <2>5, <3>2, <3>3
    <2>11. InOrder(done)'
      BY <2>7, <2>8, <2>9, <2>10 DEF InOrder
    <2> QED
      BY <2>11
  <1> QED
    BY <1>12, <1>13 DEF CallInv

\* The dispatcher takes the next call of a chain: it runs it and answers it, or forgets the
\* chain's error.
LEMMA DispatchKeeps == CallInv /\ (Dispatch \/ Forget) => CallInv'
  <1> SUFFICES ASSUME CallInv, Dispatch \/ Forget PROVE CallInv'
    OBVIOUS
  <1>1. /\ callee = "up" /\ callBox # <<>> /\ callBox' = Tail(callBox)
        /\ UNCHANGED <<plan, issued, answers, out, callee>>
    BY DEF Dispatch, Forget
  <1>2. /\ CallTypes /\ GotAnswer /\ issued \in [Chains -> Nat] /\ \A d \in Chains : issued[d] <= Len(plan[d])
        /\ out \in Seq(Chains \X Nat) /\ callBox \in Seq(Chains \X Nat) /\ back \in Seq(Replies)
        /\ DOMAIN errors \subseteq Pipelined
    BY DEF CallInv, CallTypes
  <1>3. Head(callBox) \in Chains \X Nat /\ Tail(callBox) \in Seq(Chains \X Nat)
    BY <1>1, <1>2, HeadFirst
  <1>4. PICK c \in Chains, i \in Nat : Head(callBox) = <<c, i>>
    BY <1>3
  <1>5. PICK done \in [Chains -> Nat] : InOrder(done)
    BY <1>1 DEF CallInv
  <1>6. Head(callBox)[1] = c /\ Head(callBox)[2] = i
    BY <1>4
  <1>7. /\ Remembers(c, i)
        /\ back' \in {back, Reply(c, i)}
        /\ executed' # executed => Runs(c, i) /\ executed' = executed \cup {<<c, i>>}
    <2>1. CASE Dispatch
      BY <1>6, <2>1 DEF Dispatch, Remembers
    <2>2. CASE Forget
      BY <1>6, <2>2 DEF Forget, Remembers
    <2> QED
      BY <2>1, <2>2
  <1>8. i = done[c] + 1 /\ i \in Sent(c) /\ Kept(c, i) /\ i >= 1
    <2>1. i = done[c] + 1 /\ i \in Sent(c) /\ Kept(c, i)
      BY <1>1, <1>2, <1>4, <1>5, NextInLine
    <2> QED
      BY <2>1 DEF Sent
  <1>9. Result(c, i) = Promised(c, i) /\ (Runs(c, i) => ~Cancelled(c, i))
    BY <1>2, <1>4, <1>8, ResultIsPromised
  <1>10. back' \in Seq(Replies)
    <2> DEFINE r == [call |-> <<c, i>>, answer |-> Promised(c, i)]
    <2>1. r \in Replies
      BY <1>4, <1>8 DEF Replies
    <2>2. back' \in {back, Append(back, r)}
      BY <1>7, <1>9 DEF Reply
    <2> HIDE DEF r
    <2>3. back \in Seq(Replies)
      BY <1>2
    <2>4. Append(back, r) \in Seq(Replies)
      BY <2>1, <2>3
    <2> QED
      BY <2>2, <2>3, <2>4
  <1>11. \A e \in executed' : ~Cancelled(e[1], e[2])
    <2>1. \A e \in executed : ~Cancelled(e[1], e[2])
      BY <1>2 DEF GotAnswer
    <2> QED
      BY <1>7, <1>9, <2>1
  <1>12. /\ DOMAIN errors' \subseteq Pipelined /\ Kept(c, i + 1)'
         /\ \A d \in Chains \ {c} : \A n \in Nat : Kept(d, n) => Kept(d, n)'
    BY <1>1, <1>2, <1>4, <1>7, <1>8, KeptNext
  <1>13. CallTypes' /\ GotAnswer'
    <2>1. /\ answers' = [d \in Chains |-> answers'[d]]
          /\ \A d \in Chains : answers'[d] = [n \in Sent(d) |-> answers'[d][n]]
          /\ \A d \in Chains : \A n \in Sent(d) : answers'[d][n] \in {Pending, Dead, Promised(d, n)}
      BY <1>1, <1>2 DEF CallTypes, GotAnswer
    <2>2. /\ issued' \in [Chains -> Nat] /\ \A d \in Chains : issued'[d] <= Len(plan[d])
          /\ out' \in Seq(Chains \X Nat) /\ callBox' \in Seq(Chains \X Nat) /\ plan' = plan
      BY <1>1, <1>2, <1>3
    <2> QED
      BY <1>2, <1>10, <1>11, <1>12, <2>1, <2>2, TypesKeep
  <1>14. \E next \in [Chains -> Nat] : InOrder(next)'
    <2>1. /\ Kept(c, i + 1)' /\ callBox # <<>> /\ callBox' = Tail(callBox) /\ Head(callBox) = <<c, i>>
          /\ plan' = plan /\ issued' = issued /\ out' = out
      BY <1>1, <1>4, <1>12
    <2>2. \A d \in Chains \ {c} : \A n \in Nat : Kept(d, n) => Kept(d, n)'
      BY <1>12
    <2> QED
      BY <1>2, <1>4, <1>5, <2>1, <2>2, StaysInOrder
  <1> QED
    BY <1>13, <1>14 DEF CallInv

LEMMA CallKeeps == CallInv /\ [CallNext]_callVars => CallInv'
  <1> SUFFICES ASSUME CallInv, [CallNext]_callVars PROVE CallInv'
    OBVIOUS
  <1>1. ASSUME NEW c \in Chains, Issue(c) PROVE CallInv'
    BY <1>1, IssueKeeps
  <1>2. CASE ReceiveAnswer
    BY <1>2, AnswerKeeps
  <1>3. CASE Lose
    BY <1>3, LoseKeeps
  <1>4. CASE Deliver
    BY <1>4, DeliverKeeps
  <1>5. CASE Dispatch \/ Forget
    BY <1>5, DispatchKeeps
  <1>6. CASE CloseCallee
    BY <1>6, CloseKeeps
  <1>7. CASE UNCHANGED callVars
    <2>1. /\ UNCHANGED <<plan, issued, answers, out, callBox, back, errors, executed, callee>>
          /\ Waiting' = Waiting
      BY <1>7 DEF callVars, Waiting
    <2>2. /\ answers' = [c \in Chains |-> answers'[c]]
          /\ \A c \in Chains : answers'[c] = [i \in Sent(c) |-> answers'[c][i]]
          /\ \A c \in Chains : \A i \in Sent(c) : answers'[c][i] \in {Pending, Dead, Promised(c, i)}
          /\ out' \in Seq(Chains \X Nat) /\ callBox' \in Seq(Chains \X Nat) /\ back \in Seq(Replies)
      BY <2>1 DEF CallInv, CallTypes, GotAnswer
    <2> QED
      BY <2>1, <2>2, AnswersOnly
  <1> QED
    BY <1>1, <1>2, <1>3, <1>4, <1>5, <1>6, <1>7 DEF CallNext

\* For any chains and programs, with the context lost or shut down at any moment: no function
\* runs after the function of a call before it in its pipelined chain raised, until the chain
\* is reset, and every answer is the call's own, an error its chain failed with before, or a
\* dead message.
THEOREM ErrorsStopChains == CallSpec => []ChainStopsAtError
  <1>1. CallInv => ChainStopsAtError
    <2> SUFFICES ASSUME CallInv PROVE ChainStopsAtError
      OBVIOUS
    <2>1. ASSUME NEW c \in Chains
          PROVE  DOMAIN plan[c] = Sent(c)
      <3>1. plan[c] \in Seq([what : Outcomes, reply : BOOLEAN])
        BY DEF CallInv, CallTypes
      <3> QED
        BY <3>1 DEF Sent
    <2> QED
      BY <2>1 DEF CallInv, GotAnswer, ChainStopsAtError
  <1> QED
    BY <1>1, CallStarts, CallKeeps, PTL DEF CallSpec

----------------------------------------------------------------------------
(* Stacks of hops.                                                         *)

IsList(s) == s \in Seq(ToSet(s))
Calls == [host : HostNames, become : Becomes, onTheWay : BOOLEAN]

TransportTypes ==
    /\ todo \in Seq(TransportTask) /\ inventory \in Inventories /\ IsList(built)
    /\ walk \in {"idle", "down", "login", "account", "return"}
    /\ walk # "idle" => todo # <<>>

\* The calls are those of the hosts that lead to the one that is looked at, and whatever
\* leads nowhere from the target does from there.
WayInv ==
    walk # "idle" =>
        /\ way \in Seq(Calls) /\ way # <<>> /\ way[1].host = Target(Current)
        /\ \A i \in 1..(Len(way) - 1) :
               Via(way[i].host).host = way[i + 1].host /\ Via(way[i].host).host # Missing
        /\ walk = "down" => depth = Len(way) /\ stack = <<>>
        /\ \A hosts \in SUBSET HostNames :
               Target(Current) \in hosts /\ LeadsNowhere(hosts) => way[Len(way)].host \in hosts

\* Hops are added from the end of the way, which is reached directly, to its beginning.
StackInv ==
    walk \notin {"idle", "down"} =>
        /\ Via(way[Len(way)].host).host = Missing
        /\ depth \in 0..Len(way) /\ (walk # "login" => depth >= 1)
        /\ IsList(stack) /\ \A i \in 1..Len(stack) : HopIsOwn(stack, i)
        /\ IF walk = "login" /\ depth = Len(way) THEN stack = <<>>
           ELSE /\ stack # <<>>
                /\ Last(stack).hop.host = way[IF walk = "login" THEN depth + 1 ELSE depth].host

TransportInv == TransportTypes /\ WayInv /\ StackInv /\ HopsAreTheirOwn

----------------------------------------------------------------------------
LEMMA AppendToList ==
    ASSUME NEW s, IsList(s), NEW x
    PROVE  LET t == Append(s, x) IN
           /\ IsList(t) /\ t # <<>> /\ Len(t) = Len(s) + 1 /\ Len(s) \in Nat
           /\ t[Len(t)] = x /\ \A i \in 1..Len(s) : t[i] = s[i]
           /\ ToSet(t) = ToSet(s) \cup {x}
  <1> DEFINE t == Append(s, x)
             S == ToSet(s) \cup {x}
  <1>1. s \in Seq(S) /\ t \in Seq(S)
    BY DEF IsList
  <1>2. Len(t) = Len(s) + 1 /\ Len(s) \in Nat /\ t # <<>> /\ t[Len(t)] = x
        /\ \A i \in 1..Len(s) : t[i] = s[i]
    BY <1>1
  <1>3. DOMAIN t = 1..Len(t) /\ DOMAIN s = 1..Len(s)
    BY <1>1
  <1> HIDE DEF t, S
  <1>4. ToSet(t) = ToSet(s) \cup {x}
    <2>1. \A i \in DOMAIN t : t[i] \in ToSet(s) \cup {x}
      BY <1>2, <1>3 DEF ToSet
    <2>2. \A y \in ToSet(s) : y \in ToSet(t)
      BY <1>2, <1>3 DEF ToSet
    <2>3. x \in ToSet(t)
      BY <1>2, <1>3 DEF ToSet
    <2> QED
      BY <2>1, <2>2, <2>3 DEF ToSet
  <1>5. IsList(t)
    BY <1>1, <1>4 DEF IsList, S
  <1> QED
    BY <1>2, <1>4, <1>5 DEF t

\* What the property says of one task.
Explained(e) ==
    /\ \A i \in DOMAIN e.stack : HopIsOwn(e.stack, i)
    /\ IF e.error = Missing THEN e.stack # <<>> /\ Last(e.stack).hop.host = Target(e.task)
       ELSE e.stack = <<>>
    /\ (e.error \in {"cycle", "unknown"}) <=> Lost(Target(e.task))

\* The inventory says the same of a hop and of a task as long as it is the same.
LEMMA SaysTheSame ==
    ASSUME inventory' = inventory
    PROVE  /\ \A hops, i : HopIsOwn(hops, i)' <=> HopIsOwn(hops, i)
           /\ \A hosts : LeadsNowhere(hosts)' <=> LeadsNowhere(hosts)
           /\ \A e : Explained(e)' <=> Explained(e)
           /\ \A h : Via(h)' = Via(h)
  <1>1. \A h : Via(h)' = Via(h)
    BY DEF Via
  <1>2. \A h, f : (Given(h, f)' <=> Given(h, f)) /\ Own(h, f)' = Own(h, f)
    BY DEF Own, Given
  <1>3. \A hops, i : HopIsOwn(hops, i)' <=> HopIsOwn(hops, i)
    BY <1>1, <1>2, Zenon DEF HopIsOwn
  <1>4. \A hosts : LeadsNowhere(hosts)' <=> LeadsNowhere(hosts)
    BY <1>1, Zenon DEF LeadsNowhere
  <1>5. \A h : Lost(h)' <=> Lost(h)
    BY <1>4, Zenon DEF Lost
  <1>6. \A e : Explained(e)' <=> Explained(e)
    BY <1>3, <1>5, Zenon DEF Explained
  <1> QED
    BY <1>1, <1>3, <1>4, <1>6

\* The property says it of each task.
LEMMA EachIsExplained == HopsAreTheirOwn <=> \A e \in ToSet(built) : Explained(e)
  BY Zenon DEF HopsAreTheirOwn, Explained

LEMMA StaysExplained ==
    ASSUME HopsAreTheirOwn, inventory' = inventory, built' = built
    PROVE  HopsAreTheirOwn'
  <1>1. \A e \in ToSet(built') : Explained(e)'
    BY EachIsExplained, SaysTheSame
  <1> QED
    BY <1>1, Zenon DEF HopsAreTheirOwn, Explained, ToSet

LEMMA TransportStart == TransportInit => TransportInv
  <1> SUFFICES ASSUME TransportInit PROVE TransportInv
    OBVIOUS
  <1>1. ToSet(built) = {} /\ IsList(built)
    BY DEF TransportInit, ToSet, IsList
  <1> QED
    BY <1>1, TransportAssumption
       DEF TransportInit, TransportInv, TransportTypes, WayInv, StackInv, HopsAreTheirOwn

\* A task that ends is explained by the way that was found, or that was not.
LEMMA TaskEndsExplained ==
    ASSUME TransportInv, walk # "idle", NEW error, NEW hops, TaskEnds(error, hops),
           Explained([task |-> Current, error |-> error, stack |-> hops])
    PROVE  TransportInv'
  <1> DEFINE e == [task |-> Current, error |-> error, stack |-> hops]
  <1>1. IsList(built) /\ todo \in Seq(TransportTask) /\ todo # <<>>
    BY DEF TransportInv, TransportTypes
  <1>2. built' = Append(built, e) /\ todo' = Tail(todo) /\ walk' = "idle" /\ inventory' = inventory
    BY DEF TaskEnds
  <1>3. Explained(e)
    OBVIOUS
  <1> HIDE DEF e
  <1>4. IsList(built') /\ ToSet(built') = ToSet(built) \cup {e}
    BY <1>1, <1>2, AppendToList
  <1>5. \A x \in ToSet(built') : Explained(x)
    BY <1>3, <1>4, EachIsExplained DEF TransportInv
  <1>6. HopsAreTheirOwn'
    <2>1. \A x \in ToSet(built') : Explained(x)'
      BY <1>2, <1>5, SaysTheSame
    <2> QED
      BY <2>1, Zenon DEF HopsAreTheirOwn, Explained, ToSet
  <1>7. todo' \in Seq(TransportTask)
    BY <1>1, <1>2
  <1>8. IsList(built)'
    BY <1>4 DEF IsList, ToSet
  <1> QED
    BY <1>2, <1>6, <1>7, <1>8 DEF TransportInv, TransportTypes, WayInv, StackInv

LEMMA TransportBuild == TransportInv /\ BuildStack => TransportInv'
  <1> SUFFICES ASSUME TransportInv, BuildStack PROVE TransportInv'
    OBVIOUS
  <1>1. /\ walk' = "down" /\ way' = <<Call(Target(Current), Current.become, FALSE)>> /\ depth' = 1
        /\ stack' = <<>> /\ UNCHANGED <<inventory, todo, built>> /\ todo # <<>>
    BY DEF BuildStack
  <1>2. Current \in TransportTask
    BY <1>1 DEF TransportInv, TransportTypes, Current
  <1>3. Call(Target(Current), Current.become, FALSE) \in Calls
    BY <1>2 DEF TransportTask, Target, Call, Calls
  <1>4. way' \in Seq(Calls) /\ Len(way') = 1 /\ way' # <<>> /\ way'[1].host = Target(Current)
    BY <1>1, <1>3 DEF Call
  <1>5. Target(Current)' = Target(Current)
    BY <1>1 DEF Target, Current
  <1>6. WayInv'
    <2>1. (1..(Len(way') - 1)) = {}
      BY <1>4
    <2> QED
      BY <1>1, <1>4, <1>5, <2>1 DEF WayInv
  <1>7. TransportTypes' /\ StackInv'
    BY <1>1 DEF TransportInv, TransportTypes, StackInv, IsList, ToSet
  <1>8. HopsAreTheirOwn'
    BY <1>1, StaysExplained DEF TransportInv
  <1> QED
    BY <1>6, <1>7, <1>8 DEF TransportInv

LEMMA NoneInEmpty == DOMAIN <<>> = {}
  OBVIOUS

\* A task that fails asks for no stack.
LEMMA FailureExplained ==
    ASSUME NEW error \in {"cycle", "unknown", "no interpreter"},
           error \in {"cycle", "unknown"} <=> Lost(Target(Current))
    PROVE  Explained([task |-> Current, error |-> error, stack |-> <<>>])
  <1> DEFINE e == [task |-> Current, error |-> error, stack |-> <<>>]
  <1>1. e.stack = <<>> /\ e.error = error /\ e.task = Current
    OBVIOUS
  <1>3. DOMAIN e.stack = {} /\ error # Missing
    <2>1. DOMAIN <<>> = {}
      BY NoneInEmpty
    <2>2. error # "none"
      OBVIOUS
    <2> QED
      BY <1>1, <2>1, <2>2, Zenon DEF Missing
  <1> HIDE DEF e
  <1>2. Explained(e)
    BY <1>1, <1>3, Zenon DEF Explained
  <1> QED
    BY <1>2 DEF e

\* The hosts of the way, when it leads back to one of them or to none that there is.
LEMMA WayLeadsNowhere ==
    ASSUME TransportInv, walk = "down",
           LET last == Via(way[Len(way)].host) IN
           last.host # Missing /\ (SeenName(last.host) \/ last.host \notin HostNames)
    PROVE  Lost(Target(Current))
  <1> DEFINE hosts == {way[i].host : i \in 1..Len(way)}
  <1>1. /\ way \in Seq(Calls) /\ way # <<>> /\ way[1].host = Target(Current)
        /\ \A i \in 1..(Len(way) - 1) :
               Via(way[i].host).host = way[i + 1].host /\ Via(way[i].host).host # Missing
    BY DEF TransportInv, WayInv
  <1>2. Len(way) \in Nat /\ Len(way) >= 1
    BY <1>1
  <1>0. DOMAIN way = 1..Len(way)
    BY <1>1
  <1>3. hosts \in SUBSET HostNames
    <2>1. \A i \in 1..Len(way) : way[i] \in Calls
      BY <1>1
    <2> QED
      BY <2>1 DEF Calls
  <1>4. \A i \in 1..Len(way) : LET via == Via(way[i].host) IN
            via.host # Missing /\ (via.host \in hosts \/ via.host \notin HostNames)
    <2> SUFFICES ASSUME NEW i \in 1..Len(way)
                 PROVE  LET via == Via(way[i].host) IN
                        via.host # Missing /\ (via.host \in hosts \/ via.host \notin HostNames)
      OBVIOUS
    <2>1. CASE i = Len(way)
      BY <1>0, <1>2, <2>1 DEF SeenName
    <2>2. CASE i # Len(way)
      <3>1. i \in 1..(Len(way) - 1) /\ i + 1 \in 1..Len(way)
        <4> DEFINE n == Len(way)
        <4>1. n \in Nat /\ i \in 1..n /\ i # n
          BY <1>2, <2>2
        <4> HIDE DEF n
        <4>2. i \in 1..(n - 1) /\ i + 1 \in 1..n
          BY <4>1
        <4> QED
          BY <4>2 DEF n
      <3> QED
        BY <1>1, <3>1
    <2> QED
      BY <2>1, <2>2
  <1>5. LeadsNowhere(hosts)
    BY <1>4 DEF LeadsNowhere
  <1>6. Target(Current) \in hosts
    BY <1>1, <1>2
  <1> QED
    BY <1>3, <1>5, <1>6 DEF Lost

LEMMA TransportWalk == TransportInv /\ StackFromSpec => TransportInv'
  <1> SUFFICES ASSUME TransportInv, StackFromSpec PROVE TransportInv'
    OBVIOUS
  <1> DEFINE via == Via(way[Len(way)].host)
             n == Len(way)
  <1>1. /\ way \in Seq(Calls) /\ way # <<>> /\ way[1].host = Target(Current)
        /\ \A i \in 1..(Len(way) - 1) :
               Via(way[i].host).host = way[i + 1].host /\ Via(way[i].host).host # Missing
        /\ depth = Len(way) /\ stack = <<>> /\ walk = "down"
        /\ \A hosts \in SUBSET HostNames :
               Target(Current) \in hosts /\ LeadsNowhere(hosts) => way[Len(way)].host \in hosts
    BY DEF TransportInv, WayInv, StackFromSpec
  <1>2. n \in Nat /\ n >= 1 /\ way[n] \in Calls
    BY <1>1
  <1>3. CASE via.host = Missing
    <2>1. walk' = "login" /\ UNCHANGED <<inventory, todo, way, depth, stack, built>>
      BY <1>1, <1>3 DEF StackFromSpec
    <2>2. HopsAreTheirOwn'
      BY <2>1, StaysExplained DEF TransportInv
    <2>3. TransportTypes'
      BY <1>1, <2>1 DEF TransportInv, TransportTypes, IsList, ToSet
    <2>4. Target(Current)' = Target(Current)
      BY <2>1 DEF Target, Current
    <2>5. WayInv'
      BY <1>1, <2>1, <2>4, SaysTheSame DEF WayInv
    <2>6. StackInv'
      <3>1. DOMAIN stack = {} /\ 1..Len(stack) = {} /\ IsList(stack)'
        BY <1>1, <2>1 DEF IsList, ToSet
      <3> QED
        BY <1>1, <1>2, <1>3, <2>1, <3>1, SaysTheSame DEF StackInv
    <2> QED
      BY <2>2, <2>3, <2>5, <2>6 DEF TransportInv
  <1>4. CASE via.host # Missing /\ (SeenName(via.host) \/ via.host \notin HostNames)
    <2>1. PICK error \in {"unknown", "cycle"} : TaskEnds(error, <<>>)
      BY <1>1, <1>4 DEF StackFromSpec
    <2>2. Lost(Target(Current))
      BY <1>1, <1>4, WayLeadsNowhere
    <2>3. Explained([task |-> Current, error |-> error, stack |-> <<>>])
      BY <2>2, FailureExplained
    <2> QED
      BY <1>1, <2>1, <2>3, TaskEndsExplained
  <1>5. CASE via.host # Missing /\ ~SeenName(via.host) /\ via.host \in HostNames
    <2> DEFINE call == Call(via.host, via.become, TRUE)
    <2>1. /\ way' = Append(way, call) /\ depth' = depth + 1
          /\ UNCHANGED <<inventory, todo, walk, stack, built>>
      BY <1>1, <1>5 DEF StackFromSpec
    <2>2. call \in Calls
      <3>1. way[n].host \in HostNames
        BY <1>2 DEF Calls
      <3>2. via.become \in Becomes
        BY <3>1, TransportAssumption DEF Via, TransportInv, TransportTypes
      <3> QED
        BY <1>5, <3>2 DEF Call, Calls
    <2>3. call.host = via.host
      BY DEF Call
    <2> HIDE DEF call
    <2>4. /\ way' \in Seq(Calls) /\ Len(way') = n + 1 /\ way'[n + 1] = call
          /\ \A i \in 1..n : way'[i] = way[i]
      BY <1>1, <2>1, <2>2
    <2>5. Target(Current)' = Target(Current)
      BY <2>1 DEF Target, Current
    <2>6. \A i \in 1..n : Via(way'[i].host).host = way'[i + 1].host /\ Via(way'[i].host).host # Missing
      <3> SUFFICES ASSUME NEW i \in 1..n
                   PROVE  Via(way'[i].host).host = way'[i + 1].host /\ Via(way'[i].host).host # Missing
        OBVIOUS
      <3>1. CASE i = n
        BY <1>2, <1>5, <2>3, <2>4, <3>1
      <3>2. CASE i # n
        <4>1. i \in 1..(n - 1) /\ i + 1 \in 1..n
          BY <1>2, <3>2
        <4> QED
          BY <1>1, <2>4, <4>1
      <3> QED
        BY <3>1, <3>2
    <2>7. \A hosts \in SUBSET HostNames :
              Target(Current) \in hosts /\ LeadsNowhere(hosts) => way'[n + 1].host \in hosts
      BY <1>1, <1>5, <2>3, <2>4 DEF LeadsNowhere
    <2>8. WayInv'
      <3>1. way'[1] = way[1] /\ way' # <<>> /\ Len(way') - 1 = n /\ depth' = Len(way')
        BY <1>1, <1>2, <2>1, <2>4
      <3>2. \A i \in 1..(Len(way') - 1) :
                (Via(way[i].host).host = way[i + 1].host /\ Via(way[i].host).host # Missing)'
        BY <2>1, <2>6, <3>1 DEF Via
      <3>3. \A hosts \in SUBSET HostNames :
                Target(Current)' \in hosts /\ LeadsNowhere(hosts)' => way'[Len(way')].host \in hosts
        BY <2>1, <2>4, <2>5, <2>7, SaysTheSame
      <3> QED
        BY <1>1, <2>1, <2>4, <2>5, <3>1, <3>2, <3>3 DEF WayInv
    <2>9. HopsAreTheirOwn' /\ TransportTypes' /\ StackInv'
      BY <1>1, <2>1, StaysExplained DEF TransportInv, TransportTypes, StackInv, IsList, ToSet
    <2> QED
      BY <2>8, <2>9 DEF TransportInv
  <1> QED
    BY <1>3, <1>4, <1>5

\* Every method takes an interpreter, and a value that is looked up is the host's own.
LEMMA SettingsAreOwn ==
    ASSUME NEW hop, hop.method \in Methods, hop.onTheWay \in BOOLEAN, NEW python
    PROVE  LET kwargs == Settings(hop, python) IN
           /\ kwargs["python_path"] = python
           /\ \A f \in DOMAIN kwargs \ Elsewhere(hop) : kwargs[f] = Own(hop.host, f)
  <1>1. "python_path" \in Kwargs(hop.method)
    BY DEF Methods, Kwargs, Shared, Ssh, Container, Become, Account
  <1>2. \A f : f \notin Elsewhere(hop) => Setting(Current, hop, f) = Own(hop.host, f)
    BY DEF Elsewhere, Setting, MitogenViaSpec, PlayContextSpec
  <1>3. "python_path" \in Elsewhere(hop)
    BY DEF Elsewhere
  <1> QED
    BY <1>1, <1>2, <1>3, Zenon DEF Settings

\* A hop is added to the stack, or its interpreter is not found.
LEMMA AddsHop ==
    ASSUME TransportInv, walk \in {"login", "account"}, depth \in 1..Len(way),
           NEW method \in Methods, NEW then \in {"account", "return"},
           Added(Hop(way[depth], method), then),
           IF stack = <<>> THEN depth = Len(way)
           ELSE \/ Last(stack).hop.host = way[depth].host
                \/ depth < Len(way) /\ Last(stack).hop.host = way[depth + 1].host
    PROVE  TransportInv'
  <1> DEFINE hop == Hop(way[depth], method)
             found == Interpreter(method)
             given == Given(hop.host, "python_path")
             python == IF given THEN hop.host ELSE found
             entry == [hop |-> hop, kwargs |-> Settings(hop, python)]
             h == way[depth].host
  <1>1. /\ way \in Seq(Calls) /\ way # <<>>
        /\ \A i \in 1..(Len(way) - 1) : Via(way[i].host).host = way[i + 1].host
        /\ \A hosts \in SUBSET HostNames :
               Target(Current) \in hosts /\ LeadsNowhere(hosts) => way[Len(way)].host \in hosts
    BY DEF TransportInv, WayInv
  <1>2. /\ Via(way[Len(way)].host).host = Missing /\ depth \in 0..Len(way)
        /\ IsList(stack) /\ \A i \in 1..Len(stack) : HopIsOwn(stack, i)
    BY DEF TransportInv, StackInv
  <1>3. ~Lost(Target(Current))
    BY <1>1, <1>2 DEF Lost, LeadsNowhere
  <1>4. hop.method = method /\ hop.host = h /\ hop.onTheWay \in BOOLEAN
    <2>1. way[depth] \in Calls
      BY <1>1
    <2> QED
      BY <2>1 DEF Hop, Calls
  <1>5. CASE ~given /\ found = Missing
    <2>1. TaskEnds("no interpreter", <<>>)
      BY <1>4, <1>5 DEF Added
    <2>2. Explained([task |-> Current, error |-> "no interpreter", stack |-> <<>>])
      BY <1>3, FailureExplained
    <2> QED
      BY <2>1, <2>2, TaskEndsExplained
  <1>6. CASE ~(~given /\ found = Missing)
    <2>1. /\ stack' = Append(stack, entry) /\ walk' = then
          /\ UNCHANGED <<inventory, todo, way, depth, built>>
      BY <1>4, <1>6 DEF Added
    <2>2. /\ entry.hop.host = h
          /\ \A f \in DOMAIN entry.kwargs \ Elsewhere(entry.hop) : entry.kwargs[f] = Own(h, f)
          /\ Given(h, "python_path") => entry.kwargs["python_path"] = h
      <3>1. /\ Settings(hop, python)["python_path"] = python
            /\ \A f \in DOMAIN Settings(hop, python) \ Elsewhere(hop) :
                   Settings(hop, python)[f] = Own(hop.host, f)
        <4> HIDE DEF hop, python
        <4> QED
          BY <1>4, SettingsAreOwn
      <3> QED
        BY <1>4, <3>1
    <2> HIDE DEF entry
    <2>3. /\ IsList(stack') /\ stack' # <<>> /\ Len(stack') = Len(stack) + 1 /\ Len(stack) \in Nat
          /\ stack'[Len(stack')] = entry /\ \A i \in 1..Len(stack) : stack'[i] = stack[i]
      BY <1>2, <2>1, AppendToList
    <2>4. \A i \in 1..Len(stack) : HopIsOwn(stack', i)
      <3> SUFFICES ASSUME NEW i \in 1..Len(stack) PROVE HopIsOwn(stack', i)
        OBVIOUS
      <3>1. stack'[i] = stack[i] /\ (i # 1 => stack'[i - 1] = stack[i - 1]) /\ HopIsOwn(stack, i)
        BY <1>2, <2>3
      <3> QED
        BY <3>1, Zenon DEF HopIsOwn
    <2>5. HopIsOwn(stack', Len(stack'))
      <3> DEFINE n == Len(stack')
      <3>1. IF n = 1 THEN Via(h).host = Missing ELSE stack'[n - 1].hop.host \in {h, Via(h).host}
        <4>1. CASE stack = <<>>
          <5>1. n = 1 /\ depth = Len(way)
            BY <2>3, <4>1
          <5> QED
            BY <1>2, <5>1
        <4>2. CASE stack # <<>>
          <5>1. Len(stack) >= 1 /\ n # 1 /\ stack'[n - 1] = Last(stack)
            BY <1>2, <2>3, <4>2 DEF IsList, Last
          <5>2. depth < Len(way) => Via(h).host = way[depth + 1].host
            BY <1>1
          <5> QED
            BY <4>2, <5>1, <5>2
        <4> QED
          BY <4>1, <4>2
      <3>2. stack'[n] = entry
        BY <2>3
      <3> HIDE DEF n, h
      <3>3. HopIsOwn(stack', n)
        BY <2>2, <3>1, <3>2, Zenon DEF HopIsOwn
      <3> QED
        BY <3>3 DEF n
    <2>6. \A i \in 1..Len(stack') : HopIsOwn(stack', i)
      BY <2>3, <2>4, <2>5
    <2>7. StackInv'
      <3>1. Last(stack') = entry
        BY <2>3 DEF Last
      <3>2. Via(way[Len(way)].host)' = Via(way[Len(way)].host)
        BY <2>1 DEF Via
      <3>3. IsList(stack)' /\ \A i \in 1..Len(stack') : HopIsOwn(stack, i)'
        <4>1. IsList(stack)'
          BY <2>3 DEF IsList, ToSet
        <4>2. \A i \in 1..Len(stack') : HopIsOwn(stack', i)
          BY <2>6
        <4>3. \A i : HopIsOwn(stack, i)' <=> HopIsOwn(stack', i)
          BY <2>1, SaysTheSame, Zenon DEF HopIsOwn, Own, Given, Via
        <4> QED
          BY <4>1, <4>2, <4>3
      <3> QED
        BY <1>2, <2>1, <2>2, <2>3, <3>1, <3>2, <3>3 DEF StackInv
    <2>8. Target(Current)' = Target(Current)
      BY <2>1 DEF Target, Current
    <2>9. WayInv'
      <3>1. walk # "idle" /\ walk' \notin {"idle", "down"}
        BY <2>1
      <3> QED
        BY <2>1, <2>8, <3>1, SaysTheSame DEF TransportInv, WayInv, Via
    <2>10. HopsAreTheirOwn' /\ TransportTypes'
      BY <2>1, StaysExplained DEF TransportInv, TransportTypes, IsList, ToSet
    <2> QED
      BY <2>7, <2>9, <2>10 DEF TransportInv
  <1> QED
    BY <1>5, <1>6

LEMMA TransportLogin == TransportInv /\ Login => TransportInv'
  <1> SUFFICES ASSUME TransportInv, Login PROVE TransportInv'
    OBVIOUS
  <1>1. walk = "login" /\ depth \in 0..Len(way) /\ depth > 0 /\ way \in Seq(Calls)
    BY DEF Login, TransportInv, StackInv, WayInv
  <1>2. depth \in 1..Len(way)
    BY <1>1
  <1>3. inventory.transport[way[depth].host] \in Methods
    <2>1. way[depth] \in Calls
      BY <1>1, <1>2
    <2> QED
      BY <2>1, TransportAssumption DEF Calls, TransportInv, TransportTypes
  <1>4. IF stack = <<>> THEN depth = Len(way)
        ELSE depth < Len(way) /\ Last(stack).hop.host = way[depth + 1].host
    BY <1>1, <1>2 DEF TransportInv, StackInv
  <1> QED
    BY <1>1, <1>2, <1>3, <1>4, AddsHop DEF Login

LEMMA TransportAccount == TransportInv /\ BecomeAccount => TransportInv'
  <1> SUFFICES ASSUME TransportInv, BecomeAccount PROVE TransportInv'
    OBVIOUS
  <1>1. walk = "account" /\ depth \in 0..Len(way) /\ depth >= 1 /\ way \in Seq(Calls)
    BY DEF BecomeAccount, TransportInv, StackInv, WayInv
  <1>2. depth \in 1..Len(way)
    BY <1>1
  <1>3. way[depth].become.method \in Methods
    <2>1. way[depth] \in Calls
      BY <1>1, <1>2
    <2> QED
      BY <2>1 DEF Calls, Becomes, BecomeAccount, SameAccount
  <1>4. stack # <<>> /\ Last(stack).hop.host = way[depth].host
    BY <1>1 DEF TransportInv, StackInv
  <1> QED
    BY <1>1, <1>2, <1>3, <1>4, AddsHop DEF BecomeAccount

LEMMA TransportReturns == TransportInv /\ CallReturns => TransportInv'
  <1> SUFFICES ASSUME TransportInv, CallReturns PROVE TransportInv'
    OBVIOUS
  <1>1. /\ walk \in {"account", "return"} /\ depth' = depth - 1 /\ walk' = "login"
        /\ UNCHANGED <<inventory, todo, way, stack, built>>
    BY DEF CallReturns
  <1>2. depth \in 1..Len(way) /\ Len(way) \in Nat /\ stack # <<>> /\ Last(stack).hop.host = way[depth].host
    BY <1>1 DEF TransportInv, StackInv, WayInv
  <1>3. depth' \in 0..Len(way) /\ depth' # Len(way) /\ depth' + 1 = depth
    BY <1>1, <1>2
  <1>4. Target(Current)' = Target(Current)
    BY <1>1 DEF Target, Current
  <1>5. WayInv'
    BY <1>1, <1>4, SaysTheSame DEF TransportInv, WayInv, Via
  <1>6. Via(way[Len(way)].host)' = Via(way[Len(way)].host) /\ IsList(stack)'
        /\ \A i \in 1..Len(stack') : HopIsOwn(stack, i)'
    BY <1>1, SaysTheSame DEF TransportInv, StackInv, Via, IsList, ToSet
  <1>7. StackInv'
    BY <1>1, <1>2, <1>3, <1>6 DEF TransportInv, StackInv, Last
  <1>8. HopsAreTheirOwn' /\ TransportTypes'
    BY <1>1, StaysExplained DEF TransportInv, TransportTypes, IsList, ToSet
  <1> QED
    BY <1>5, <1>7, <1>8 DEF TransportInv

LEMMA TransportRun == TransportInv /\ RunTask => TransportInv'
  <1> SUFFICES ASSUME TransportInv, RunTask PROVE TransportInv'
    OBVIOUS
  <1>1. walk = "login" /\ depth = 0 /\ TaskEnds(Missing, stack)
    BY DEF RunTask
  <1>2. /\ way \in Seq(Calls) /\ way # <<>> /\ way[1].host = Target(Current)
        /\ \A hosts \in SUBSET HostNames :
               Target(Current) \in hosts /\ LeadsNowhere(hosts) => way[Len(way)].host \in hosts
    BY <1>1 DEF TransportInv, WayInv
  <1>3. Len(way) # 0
    BY <1>2
  <1>4. /\ Via(way[Len(way)].host).host = Missing
        /\ IsList(stack) /\ \A i \in 1..Len(stack) : HopIsOwn(stack, i)
        /\ stack # <<>> /\ Last(stack).hop.host = Target(Current)
    BY <1>1, <1>2, <1>3 DEF TransportInv, StackInv
  <1>5. ~Lost(Target(Current))
    BY <1>2, <1>4 DEF Lost, LeadsNowhere
  <1> DEFINE e == [task |-> Current, error |-> Missing, stack |-> stack]
  <1>6. Explained(e)
    <2>1. DOMAIN stack = 1..Len(stack)
      BY <1>4 DEF IsList
    <2>2. e.task = Current /\ e.error = Missing /\ e.stack = stack
      OBVIOUS
    <2>3. Missing \notin {"cycle", "unknown"}
      BY DEF Missing
    <2> HIDE DEF e
    <2> QED
      BY <1>4, <1>5, <2>1, <2>2, <2>3, Zenon DEF Explained
  <1> QED
    BY <1>1, <1>6, TaskEndsExplained

\* Each host of a stack is reached over the one that its mitogen_via= names, with settings
\* of its own or of none, and a task fails for the way exactly if its hosts lead nowhere: for
\* any inventory, cycles and unknown hosts included, and any tasks.
THEOREM StacksAreTheirOwn == TransportSpec => []HopsAreTheirOwn
  <1>1. TransportInv /\ [TransportNext]_transportVars => TransportInv'
    <2> SUFFICES ASSUME TransportInv, [TransportNext]_transportVars PROVE TransportInv'
      OBVIOUS
    <2>1. CASE UNCHANGED transportVars
      <3>1. HopsAreTheirOwn' /\ TransportTypes'
        BY <2>1, StaysExplained DEF transportVars, TransportInv, TransportTypes, IsList, ToSet
      <3>2. Target(Current)' = Target(Current)
        BY <2>1 DEF transportVars, Target, Current
      <3>3. WayInv' /\ StackInv'
        BY <2>1, <3>2, SaysTheSame
           DEF transportVars, TransportInv, WayInv, StackInv, Via, IsList, ToSet, Last
      <3> QED
        BY <3>1, <3>3 DEF TransportInv
    <2>2. CASE TransportNext
      BY <2>2, TransportBuild, TransportWalk, TransportLogin, TransportAccount, TransportReturns,
         TransportRun DEF TransportNext
    <2> QED
      BY <2>1, <2>2
  <1>2. TransportInv => HopsAreTheirOwn
    BY DEF TransportInv
  <1> QED
    BY <1>1, <1>2, TransportStart, PTL DEF TransportSpec

----------------------------------------------------------------------------
(* Contexts.                                                               *)

Making == {"recycle", "prepare", "register", "produce"}
Answering == {"record", "count"}
Steps == Connecting \cup Answering \cup {"idle", "ask", "wait", "held"}
Contextual == 0..made
Request == [at : Steps, hop : Nat, via : Contextual, new : Contextual, count : Nat,
            answer : Contextual \cup {Failed}]

IsTables(s) ==
    /\ s = [response |-> s.response, latches |-> s.latches, refs |-> s.refs, key |-> s.key,
            via |-> s.via, lru |-> s.lru]
    /\ s.refs \in [DOMAIN s.refs -> Nat] /\ DOMAIN s.refs \subseteq 1..made
    /\ \A key \in DOMAIN s.response : s.response[key] \in 1..made
    /\ \A key \in DOMAIN s.latches : s.latches[key] \subseteq Clients

ContextTypes ==
    /\ made \in 0..MaxContexts /\ dropped \subseteq Clients
    /\ IsTables(service) /\ get \in [Clients -> Request]

\* Who has not asked has nothing, and who makes a context has a new one.
Proper(r) ==
    /\ r.at = "idle" => r.new = NoContext /\ r.answer = NoContext
    /\ r.at \in {"ask", "create"} => r.new = NoContext
    /\ r.at = "ask" => r.answer = NoContext
    /\ r.at \in Making \cup Answering => r.new # NoContext
RequestInv == \A k \in Clients : Proper(get[k])

\* Nobody else makes it, and nobody knows it before it is ready.
FreshInv ==
    /\ \A j, k \in Clients : get[j].new = get[k].new /\ get[j].new # NoContext => j = k
    /\ \A k \in Clients : StepOf(k) \in Making =>
           /\ \A j \in Clients : get[j].answer # get[k].new /\ get[j].via # get[k].new
           /\ \A key \in DOMAIN service.response : service.response[key] # get[k].new

\* A reference is counted, or soon will be, from the answer until the client lets it go.
Entitled(c) == {k \in Clients : get[k].answer = c \/ get[k].via = c}
Covered(c) == Cardinality(Entitled(c)) <= service.refs[c] + Uncounted(c)
CoverInv == \A c \in DOMAIN service.refs : Covered(c)

\* Who is listed waits for the key, and someone makes its connection; who is not has an
\* answer, or was thrown away.
ListInv ==
    /\ \A key \in DOMAIN service.latches :
        /\ \A k \in service.latches[key] :
               Key(k) = key /\ StepOf(k) \in Connecting \cup {"wait"} /\ get[k].answer = NoContext
        /\ service.latches[key] # {} => \E j \in Clients : StepOf(j) \in Connecting /\ Key(j) = key
    /\ \A k \in Clients \ dropped : get[k].answer = NoContext =>
        /\ StepOf(k) \in Connecting \cup {"wait"} => k \in WaitersOf(service, Key(k))
        /\ StepOf(k) \notin Answering

ContextInv == ContextTypes /\ RequestInv /\ FreshInv /\ CoverInv /\ ListInv

\* What is left of the tables when contexts are ended: t, of s.
Part(g, f) == \A x \in DOMAIN g : x \in DOMAIN f /\ g[x] = f[x]
Less(t, s) ==
    IsTables(t) /\ Part(t.refs, s.refs) /\ Part(t.response, s.response) /\ Part(t.latches, s.latches)

Only(k) == \A j \in Clients \ {k} : get'[j] = get[j]

LEMMA RequestIs ==
    ASSUME NEW r \in Request
    PROVE  /\ r.at \in Steps /\ r.hop \in Nat /\ r.via \in Contextual /\ r.new \in Contextual
           /\ r.count \in Nat /\ r.answer \in Contextual \cup {Failed}
  BY DEF Request

LEMMA DropIs ==
    ASSUME NEW g, NEW xs
    PROVE  DOMAIN Drop(g, xs) = DOMAIN g \ xs /\ Part(Drop(g, xs), g)
  BY DEF Drop, Restrict, Part

LEMMA Forgets ==
    ASSUME NEW s, IsTables(s), NEW cs
    PROVE  /\ Less(ForgetContexts(s, cs), s)
           /\ \A key \in DOMAIN s.latches \ DOMAIN ForgetContexts(s, cs).latches :
                  s.latches[key] \subseteq Forgotten(s, cs)
           /\ \A key \in DOMAIN s.latches : s.latches[key] \subseteq Clients
           /\ Forgotten(s, cs) \subseteq Clients
  <1> DEFINE f == ForgetContexts(s, cs)
  <1>1. /\ f = [response |-> f.response, latches |-> f.latches, refs |-> f.refs, key |-> f.key,
                via |-> f.via, lru |-> f.lru]
    BY DEF ForgetContexts
  <1>0. /\ f.refs = Drop(s.refs, cs \cap DOMAIN s.key) /\ f.response = Drop(s.response, KeysOf(s, cs))
        /\ f.latches = Drop(s.latches, KeysOf(s, cs))
    BY DEF ForgetContexts
  <1> HIDE DEF f
  <1>2. DOMAIN f.latches = DOMAIN s.latches \ KeysOf(s, cs)
    BY <1>0, DropIs
  <1>3. f.refs \in [DOMAIN f.refs -> Nat]
    <2>1. f.refs = [x \in DOMAIN s.refs \ (cs \cap DOMAIN s.key) |-> s.refs[x]]
      BY <1>0 DEF Drop, Restrict
    <2> QED
      BY <2>1 DEF IsTables
  <1>4. Less(f, s)
    <2>1. Part(f.refs, s.refs)
      <3>1. Part(Drop(s.refs, cs \cap DOMAIN s.key), s.refs)
        BY DropIs
      <3>2. f.refs = Drop(s.refs, cs \cap DOMAIN s.key)
        BY <1>0
      <3> QED
        BY <3>1, <3>2
    <2>2. Part(f.response, s.response)
      <3>1. Part(Drop(s.response, KeysOf(s, cs)), s.response)
        BY DropIs
      <3>2. f.response = Drop(s.response, KeysOf(s, cs))
        BY <1>0
      <3> QED
        BY <3>1, <3>2
    <2>3. Part(f.latches, s.latches)
      <3>1. Part(Drop(s.latches, KeysOf(s, cs)), s.latches)
        BY DropIs
      <3>2. f.latches = Drop(s.latches, KeysOf(s, cs))
        BY <1>0
      <3> QED
        BY <3>1, <3>2
    <2>4. IsTables(f)
      BY <1>1, <1>3, <2>1, <2>2, <2>3 DEF IsTables, Part
    <2> QED
      BY <2>1, <2>2, <2>3, <2>4 DEF Less
  <1>5. \A key \in DOMAIN s.latches \ DOMAIN f.latches : s.latches[key] \subseteq Forgotten(s, cs)
    <2> SUFFICES ASSUME NEW key \in DOMAIN s.latches, key \notin DOMAIN f.latches
                 PROVE  s.latches[key] \subseteq Forgotten(s, cs)
      OBVIOUS
    <2>1. key \in KeysOf(s, cs)
      BY <1>2
    <2>2. WaitersOf(s, key) = s.latches[key]
      BY DEF WaitersOf
    <2> QED
      BY <2>1, <2>2 DEF Forgotten
  <1>6. Forgotten(s, cs) \subseteq Clients
    <2>1. \A key : WaitersOf(s, key) \subseteq Clients
      BY DEF WaitersOf, IsTables
    <2> QED
      BY <2>1 DEF Forgotten
  <1> QED
    BY <1>4, <1>5, <1>6 DEF f, IsTables

\* The lists of the contexts reached by others are of no importance here.
LEMMA ShutsDown ==
    ASSUME NEW s, IsTables(s), NEW c, NEW room
    PROVE  /\ Less(Shutdown(s, c, room), s)
           /\ \A key \in DOMAIN s.latches \ DOMAIN Shutdown(s, c, room).latches :
                  s.latches[key] \subseteq Forgotten(s, {c})
           /\ Forgotten(s, {c}) \subseteq Clients
  <1> DEFINE lru == [v \in DOMAIN s.lru |-> IF c \in DOMAIN s.via /\ s.via[c] = v
                                            THEN Replaced(s.lru[v], c, room) ELSE s.lru[v]]
             t == [s EXCEPT !.lru = lru]
  <1>1. Shutdown(s, c, room) = ForgetContexts(t, {c})
    BY DEF Shutdown
  <1> HIDE DEF lru
  <1>2. /\ t = [response |-> t.response, latches |-> t.latches, refs |-> t.refs, key |-> t.key,
                via |-> t.via, lru |-> t.lru]
        /\ t.refs = s.refs /\ t.response = s.response /\ t.latches = s.latches /\ t.key = s.key
    BY DEF IsTables
  <1> HIDE DEF t
  <1>3. IsTables(t)
    BY <1>2 DEF IsTables
  <1>4. Forgotten(t, {c}) = Forgotten(s, {c})
    <2>1. KeysOf(t, {c}) = KeysOf(s, {c}) /\ \A key : WaitersOf(t, key) = WaitersOf(s, key)
      BY <1>2 DEF KeysOf, WaitersOf
    <2> QED
      BY <2>1 DEF Forgotten
  <1> DEFINE f == ForgetContexts(t, {c})
  <1>5. /\ Less(f, t)
        /\ \A key \in DOMAIN t.latches \ DOMAIN f.latches : t.latches[key] \subseteq Forgotten(t, {c})
        /\ Forgotten(t, {c}) \subseteq Clients
    BY <1>3, Forgets
  <1> HIDE DEF f
  <1>6. Less(f, s)
    BY <1>2, <1>5 DEF Less
  <1>7. f = Shutdown(s, c, room)
    BY <1>1 DEF f
  <1> QED
    BY <1>2, <1>4, <1>5, <1>6, <1>7

----------------------------------------------------------------------------
\* What a client does to its request alone.
LEMMA Goes ==
    ASSUME get \in [Clients -> Request], NEW k \in Clients, NEW to \in Steps, GoesTo(k, to)
    PROVE  /\ get' \in [Clients -> Request] /\ Only(k)
           /\ get'[k].at = to /\ get'[k].hop = get[k].hop /\ get'[k].via = get[k].via
           /\ get'[k].new = get[k].new /\ get'[k].count = get[k].count /\ get'[k].answer = get[k].answer
  <1>1. get' = [get EXCEPT ![k] = [get[k] EXCEPT !.at = to]]
    BY DEF GoesTo
  <1>2. [get[k] EXCEPT !.at = to] \in Request
    BY DEF Request
  <1> QED
    BY <1>1, <1>2 DEF Only, Request

LEMMA Rethrows ==
    ASSUME get \in [Clients -> Request], made \in Nat, NEW k \in Clients, Rethrow(k)
    PROVE  /\ get' \in [Clients -> Request] /\ Only(k)
           /\ get'[k].at = "idle" /\ get'[k].via = NoContext /\ get'[k].new = NoContext
           /\ get'[k].answer = NoContext
  <1>1. NoRequest \in Request
    BY DEF NoRequest, Request, Steps, Contextual, NoContext
  <1> QED
    BY <1>1 DEF Rethrow, Only, NoRequest

LEMMA Numbered ==
    ASSUME ContextTypes
    PROVE  /\ made \in Nat /\ MaxContexts \in Nat /\ Failed = MaxContexts + 1 /\ NoContext = 0
           /\ \A c \in Contextual : c \in Nat /\ c # Failed
           /\ \A c \in 1..made : c \in Nat /\ c # Failed /\ c # NoContext /\ c \in Contextual
           /\ \A k \in Clients : get[k] \in Request
  BY ContextAssumption DEF ContextTypes, Contextual, Failed, NoContext

CountOf(g, c) ==
    LET counting == {k \in Clients : g[k].at \in Answering /\ g[k].new = c} IN
    IF counting = {} THEN 0 ELSE g[CHOOSE k \in counting : TRUE].count

LEMMA UncountedIs ==
    ASSUME NEW c
    PROVE  Uncounted(c) = CountOf(get, c) /\ Uncounted(c)' = CountOf(get', c)
  BY DEF Uncounted, Counting, CountOf, StepOf, Answering

LEMMA OneCounts ==
    ASSUME NEW g, NEW c, NEW k \in Clients, g[k].at \in Answering, g[k].new = c,
           \A j \in Clients : g[j].at \in Answering /\ g[j].new = c => j = k
    PROVE  CountOf(g, c) = g[k].count
  <1> DEFINE counting == {j \in Clients : g[j].at \in Answering /\ g[j].new = c}
  <1>1. counting = {k}
    OBVIOUS
  <1>2. (CHOOSE j \in counting : TRUE) = k
    BY <1>1
  <1> QED
    BY <1>1, <1>2 DEF CountOf

LEMMA NoneCounts ==
    ASSUME NEW g, NEW c, \A j \in Clients : ~(g[j].at \in Answering /\ g[j].new = c)
    PROVE  CountOf(g, c) = 0
  BY DEF CountOf

LEMMA CountsNat ==
    ASSUME NEW g, \A k \in Clients : g[k].count \in Nat, NEW c,
           \A j, k \in Clients : g[j].new = c /\ g[k].new = c => j = k
    PROVE  CountOf(g, c) \in Nat
  <1>1. CASE \E k \in Clients : g[k].at \in Answering /\ g[k].new = c
    <2> PICK k \in Clients : g[k].at \in Answering /\ g[k].new = c
      BY <1>1
    <2>1. CountOf(g, c) = g[k].count
      BY OneCounts
    <2> QED
      BY <2>1
  <1>2. CASE ~\E k \in Clients : g[k].at \in Answering /\ g[k].new = c
    BY <1>2, NoneCounts
  <1> QED
    BY <1>1, <1>2

LEMMA EntitledFinite ==
    ASSUME NEW c
    PROVE  /\ IsFiniteSet(Entitled(c)) /\ Cardinality(Entitled(c)) \in Nat
           /\ IsFiniteSet(Entitled(c)') /\ Cardinality(Entitled(c)') \in Nat
  <1>1. Entitled(c) \subseteq Clients /\ Entitled(c)' \subseteq Clients
    BY DEF Entitled
  <1> QED
    BY <1>1, ContextAssumption, FS_Subset, FS_CardinalityType

\* A context that is still there, its references not fewer, and its holders not more.
LEMMA CoverKept ==
    ASSUME ContextInv, ContextTypes', FreshInv',
           NEW c \in DOMAIN service'.refs, c \in DOMAIN service.refs,
           service'.refs[c] >= service.refs[c],
           \A k \in Clients : get'[k].answer = c \/ get'[k].via = c => get[k].answer = c \/ get[k].via = c,
           \A k \in Clients : get[k].at \in Answering /\ get[k].new = c =>
               get'[k].at \in Answering /\ get'[k].new = c /\ get'[k].count = get[k].count
    PROVE  Covered(c)'
  <1>1. c # NoContext /\ service.refs[c] \in Nat /\ service'.refs[c] \in Nat
    BY Numbered DEF ContextInv, ContextTypes, IsTables
  <1>2. \A k \in Clients : get[k].count \in Nat /\ get'[k].count \in Nat
    BY DEF ContextInv, ContextTypes, Request
  <1>3. /\ \A j, k \in Clients : get[j].new = c /\ get[k].new = c => j = k
        /\ \A j, k \in Clients : get'[j].new = c /\ get'[k].new = c => j = k
    BY <1>1 DEF ContextInv, FreshInv, NoContext
  <1>4. CountOf(get, c) \in Nat /\ CountOf(get', c) \in Nat
    BY <1>2, <1>3, CountsNat
  <1>5. CountOf(get', c) >= CountOf(get, c)
    <2>1. CASE \E k \in Clients : get[k].at \in Answering /\ get[k].new = c
      <3> PICK k \in Clients : get[k].at \in Answering /\ get[k].new = c
        BY <2>1
      <3>1. CountOf(get, c) = get[k].count
        BY <1>3, OneCounts
      <3>2. CountOf(get', c) = get'[k].count
        BY <1>3, OneCounts
      <3> QED
        BY <1>2, <3>1, <3>2
    <2>2. CASE ~\E k \in Clients : get[k].at \in Answering /\ get[k].new = c
      BY <1>4, <2>2, NoneCounts
    <2> QED
      BY <2>1, <2>2
  <1>6. Entitled(c)' \subseteq Entitled(c)
    BY DEF Entitled
  <1>7. Cardinality(Entitled(c)') <= Cardinality(Entitled(c))
    BY <1>6, EntitledFinite, FS_Subset
  <1>8. Cardinality(Entitled(c)) <= service.refs[c] + CountOf(get, c)
    BY UncountedIs DEF ContextInv, CoverInv, Covered
  <1>9. Cardinality(Entitled(c)') <= service'.refs[c] + CountOf(get', c)
    BY <1>1, <1>4, <1>5, <1>7, <1>8, EntitledFinite
  <1> QED
    BY <1>9, UncountedIs DEF Covered

\* A context that is known already, or that is not being made any more.
Learnt(c) ==
    \/ \E key \in DOMAIN service.response : service.response[key] = c
    \/ \E j \in Clients : get[j].new = c /\ get'[j].at \notin Making

LEMMA FreshKept ==
    ASSUME ContextInv, RequestInv', ContextTypes', made' = made,
           \A key \in DOMAIN service'.response : Learnt(service'.response[key]),
           \A j \in Clients :
               /\ \/ get'[j].answer \in {get[j].answer, get[j].via, NoContext, Failed}
                  \/ Learnt(get'[j].answer)
               /\ get'[j].via \in {get[j].answer, get[j].via, NoContext, Failed}
               /\ get'[j].new \in {get[j].new, NoContext}
               /\ get'[j].at \in Making => get[j].at \in Making
    PROVE  FreshInv'
  <1>1. \A j, k \in Clients : get'[j].new = get'[k].new /\ get'[j].new # NoContext => j = k
    BY DEF ContextInv, FreshInv, NoContext
  <1>2. ASSUME NEW k \in Clients, get'[k].at \in Making
        PROVE  /\ \A j \in Clients : get'[j].answer # get'[k].new /\ get'[j].via # get'[k].new
               /\ \A key \in DOMAIN service'.response : service'.response[key] # get'[k].new
    <2>1. get'[k].new # NoContext
      BY <1>2 DEF RequestInv, Proper
    <2>2. get'[k].new = get[k].new /\ get[k].at \in Making
      BY <1>2, <2>1
    <2>3. get[k].new # Failed
      BY Numbered, RequestIs DEF ContextInv
    <2>4. \A j \in Clients : get[j].answer # get[k].new /\ get[j].via # get[k].new
      BY <2>2 DEF ContextInv, FreshInv, StepOf
    <2>5. ~Learnt(get[k].new)
      <3>1. \A key \in DOMAIN service.response : service.response[key] # get[k].new
        BY <2>2 DEF ContextInv, FreshInv, StepOf
      <3>2. \A j \in Clients : get[j].new = get[k].new => j = k
        BY <2>1, <2>2 DEF ContextInv, FreshInv
      <3> QED
        BY <1>2, <3>1, <3>2 DEF Learnt
    <2> QED
      BY <2>1, <2>2, <2>3, <2>4, <2>5
  <1> QED
    BY <1>1, <1>2 DEF FreshInv, StepOf, NoContext

\* The lists are not longer, and who is on one goes on waiting for the same, and making it.
LEMMA ListKept ==
    ASSUME ContextInv, Part(service'.latches, service.latches),
           \A key \in DOMAIN service.latches \ DOMAIN service'.latches : service.latches[key] \subseteq dropped',
           \A j \in Clients :
               /\ j \in dropped => j \in dropped' \/ get'[j].at = "ask"
               /\ \/ get[j].at \notin Connecting \cup {"wait"}
                  \/ get[j].at \in Connecting /\ get'[j].at \in Connecting
                     /\ get'[j].hop = get[j].hop /\ get'[j].via = get[j].via /\ get'[j].answer = get[j].answer
                  \/ get[j].at = "wait" /\ get'[j].at = "wait"
                     /\ get'[j].hop = get[j].hop /\ get'[j].via = get[j].via /\ get'[j].answer = get[j].answer
                  \/ get[j].at = "wait" /\ get[j].answer # NoContext
                  \/ Key(j) \notin DOMAIN service'.latches
               /\ get'[j].at \in Connecting \cup {"wait"} /\ get'[j].answer = NoContext =>
                     /\ get[j].at \in Connecting \cup {"wait"} \cup Answering
                     /\ get'[j].hop = get[j].hop /\ get'[j].via = get[j].via /\ get'[j].answer = get[j].answer
               /\ get'[j].at \in Answering => get[j].at \in Answering /\ get'[j].answer = get[j].answer
    PROVE  ListInv'
  <1>1. \A j \in Clients : Key(j)' = <<Stack[j][get'[j].hop], get'[j].via>>
    BY DEF Key
  <1>2. \A j \in Clients : get'[j].hop = get[j].hop /\ get'[j].via = get[j].via => Key(j)' = Key(j)
    BY DEF Key
  <1>3. ASSUME NEW key \in DOMAIN service'.latches, NEW k \in service'.latches[key]
        PROVE  Key(k)' = key /\ get'[k].at \in Connecting \cup {"wait"} /\ get'[k].answer = NoContext
    <2>1. key \in DOMAIN service.latches /\ k \in service.latches[key] /\ k \in Clients
      BY <1>3 DEF Part, ContextInv, ContextTypes, IsTables
    <2>2. Key(k) = key /\ get[k].at \in Connecting \cup {"wait"} /\ get[k].answer = NoContext
      BY <2>1 DEF ContextInv, ListInv, StepOf
    <2> QED
      BY <1>2, <1>3, <2>1, <2>2
  <1>4. ASSUME NEW key \in DOMAIN service'.latches, service'.latches[key] # {}
        PROVE  \E j \in Clients : get'[j].at \in Connecting /\ Key(j)' = key
    <2>1. key \in DOMAIN service.latches /\ service.latches[key] # {}
      BY <1>4 DEF Part
    <2>2. PICK j \in Clients : get[j].at \in Connecting /\ Key(j) = key
      BY <2>1 DEF ContextInv, ListInv, StepOf
    <2>3. "wait" \notin Connecting
      BY DEF Connecting
    <2> QED
      BY <1>2, <1>4, <2>2, <2>3
  <1>5. ASSUME NEW k \in Clients, k \notin dropped', get'[k].answer = NoContext
        PROVE  /\ get'[k].at \in Connecting \cup {"wait"} => k \in WaitersOf(service', Key(k)')
               /\ get'[k].at \notin Answering
    <2>1. get'[k].at # "ask" => k \notin dropped
      BY <1>5
    <2>2. ASSUME get'[k].at \in Connecting \cup {"wait"} PROVE k \in WaitersOf(service', Key(k)')
      <3>1. Key(k)' = Key(k) /\ get[k].answer = NoContext /\ get[k].at \in Connecting \cup {"wait"} \cup Answering
        BY <1>2, <1>5, <2>2
      <3>2. k \notin dropped
        BY <2>1, <2>2 DEF Connecting
      <3>3. k \in WaitersOf(service, Key(k))
        BY <3>1, <3>2 DEF ContextInv, ListInv, StepOf
      <3>4. Key(k) \in DOMAIN service.latches /\ k \in service.latches[Key(k)]
        BY <3>3 DEF WaitersOf
      <3>5. Key(k) \in DOMAIN service'.latches
        BY <1>5, <3>4
      <3>6. k \in service'.latches[Key(k)]
        BY <3>4, <3>5 DEF Part
      <3> QED
        BY <3>1, <3>5, <3>6 DEF WaitersOf
    <2>3. ASSUME get'[k].at \in Answering PROVE FALSE
      <3>1. get[k].at \in Answering /\ get[k].answer = NoContext
        BY <1>5, <2>3
      <3>2. k \notin dropped
        BY <2>1, <2>3 DEF Answering
      <3> QED
        BY <3>1, <3>2 DEF ContextInv, ListInv, StepOf
    <2> QED
      BY <2>2, <2>3
  <1> QED
    BY <1>3, <1>4, <1>5 DEF ListInv, StepOf, NoContext, WaitersOf

----------------------------------------------------------------------------
\* One request changes: its client learns of no context, and goes on, gives up or ends.
GoesAlone(k) ==
    /\ get' \in [Clients -> Request] /\ Only(k) /\ Proper(get'[k])
    /\ {get'[k].answer, get'[k].via} \subseteq {get[k].answer, get[k].via, NoContext, Failed}
    /\ get'[k].new \in {get[k].new, NoContext}
    /\ get'[k].at \in Making => get[k].at \in Making
    /\ get'[k].at \in Answering => get[k].at \in Answering /\ get'[k].answer = get[k].answer
    /\ get'[k].at \in Connecting \cup {"wait"} /\ get'[k].answer = NoContext =>
           /\ get[k].at \in Connecting \cup {"wait"} \cup Answering
           /\ get'[k].hop = get[k].hop /\ get'[k].via = get[k].via /\ get'[k].answer = get[k].answer
    /\ \/ get[k].at \notin Connecting \cup {"wait"}
       \/ get[k].at \in Connecting /\ get'[k].at \in Connecting
          /\ get'[k].hop = get[k].hop /\ get'[k].via = get[k].via /\ get'[k].answer = get[k].answer
       \/ get[k].at = "wait" /\ get[k].answer # NoContext
       \/ Key(k) \notin DOMAIN service.latches

\* Whoever is thrown away is noted.
Throws(k) ==
    /\ dropped' \subseteq Clients
    /\ \A j \in dropped : j \in dropped' \/ (j = k /\ get'[k].at = "ask")
    /\ \A key \in DOMAIN service.latches \ DOMAIN service'.latches : service.latches[key] \subseteq dropped'

LEMMA Alone ==
    ASSUME ContextInv, NEW k \in Clients, GoesAlone(k), Throws(k), made' = made, IsTables(service'),
           \A key \in DOMAIN service'.response : Learnt(service'.response[key]),
           Part(service'.latches, service.latches)
    PROVE  ContextTypes' /\ RequestInv' /\ FreshInv' /\ ListInv'
  <1>1. ContextTypes'
    BY DEF GoesAlone, Throws, ContextInv, ContextTypes, IsTables, Request, Contextual
  <1>2. RequestInv'
    BY DEF GoesAlone, Only, ContextInv, RequestInv, Proper, NoContext
  <1>3. FreshInv'
    <2>1. \A j \in Clients :
               /\ get'[j].answer \in {get[j].answer, get[j].via, NoContext, Failed}
               /\ get'[j].via \in {get[j].answer, get[j].via, NoContext, Failed}
               /\ get'[j].new \in {get[j].new, NoContext}
               /\ get'[j].at \in Making => get[j].at \in Making
      BY DEF GoesAlone, Only
    <2> QED
      BY <1>1, <1>2, <2>1, FreshKept
  <1>4. ListInv'
    <2>1. ASSUME NEW j \in Clients
          PROVE
               /\ j \in dropped => j \in dropped' \/ get'[j].at = "ask"
               /\ \/ get[j].at \notin Connecting \cup {"wait"}
                  \/ get[j].at \in Connecting /\ get'[j].at \in Connecting
                     /\ get'[j].hop = get[j].hop /\ get'[j].via = get[j].via /\ get'[j].answer = get[j].answer
                  \/ get[j].at = "wait" /\ get'[j].at = "wait"
                     /\ get'[j].hop = get[j].hop /\ get'[j].via = get[j].via /\ get'[j].answer = get[j].answer
                  \/ get[j].at = "wait" /\ get[j].answer # NoContext
                  \/ Key(j) \notin DOMAIN service'.latches
               /\ get'[j].at \in Connecting \cup {"wait"} /\ get'[j].answer = NoContext =>
                     /\ get[j].at \in Connecting \cup {"wait"} \cup Answering
                     /\ get'[j].hop = get[j].hop /\ get'[j].via = get[j].via /\ get'[j].answer = get[j].answer
               /\ get'[j].at \in Answering => get[j].at \in Answering /\ get'[j].answer = get[j].answer
      <3>1. j \in dropped => j \in dropped' \/ get'[j].at = "ask"
        BY DEF Throws
      <3>2. CASE j = k
        <4>1. Key(k) \notin DOMAIN service.latches => Key(k) \notin DOMAIN service'.latches
          BY DEF Part
        <4> QED
          BY <3>1, <3>2, <4>1 DEF GoesAlone
      <3>3. CASE j # k
        <4>1. get'[j] = get[j]
          BY <3>3 DEF GoesAlone, Only
        <4> QED
          BY <3>1, <4>1
      <3> QED
        BY <3>2, <3>3
    <2>2. \A key \in DOMAIN service.latches \ DOMAIN service'.latches : service.latches[key] \subseteq dropped'
      BY DEF Throws
    <2> QED
      BY <2>1, <2>2, ListKept
  <1> QED
    BY <1>1, <1>2, <1>3, <1>4

LEMMA AloneCovers ==
    ASSUME ContextInv, NEW k \in Clients, GoesAlone(k), ContextTypes', FreshInv',
           NEW c \in DOMAIN service'.refs, c \in DOMAIN service.refs,
           service'.refs[c] >= service.refs[c],
           get[k].at \in Answering /\ get[k].new = c =>
               get'[k].at \in Answering /\ get'[k].new = c /\ get'[k].count = get[k].count
    PROVE  Covered(c)'
  <1>1. c # NoContext /\ c # Failed
    BY Numbered DEF ContextInv, ContextTypes, IsTables
  <1>2. ASSUME NEW j \in Clients
        PROVE  /\ get'[j].answer = c \/ get'[j].via = c => get[j].answer = c \/ get[j].via = c
               /\ get[j].at \in Answering /\ get[j].new = c =>
                      get'[j].at \in Answering /\ get'[j].new = c /\ get'[j].count = get[j].count
    <2>1. CASE j = k
      BY <1>1, <2>1 DEF GoesAlone
    <2>2. CASE j # k
      BY <2>2 DEF GoesAlone, Only
    <2> QED
      BY <2>1, <2>2
  <1> QED
    BY <1>2, CoverKept

\* The tables only lose contexts.
LEMMA AloneKeeps ==
    ASSUME ContextInv, NEW k \in Clients, GoesAlone(k), Throws(k), made' = made, Less(service', service),
           get[k].at \in Answering /\ get[k].new \in DOMAIN service'.refs =>
               get'[k].at \in Answering /\ get'[k].new = get[k].new /\ get'[k].count = get[k].count
    PROVE  ContextInv'
  <1>1. ContextTypes' /\ RequestInv' /\ FreshInv' /\ ListInv'
    BY Alone DEF Less, Part, Learnt
  <1>2. ASSUME NEW c \in DOMAIN service'.refs PROVE Covered(c)'
    <2>1. c \in DOMAIN service.refs /\ service'.refs[c] = service.refs[c] /\ service.refs[c] \in Nat
      BY DEF Less, Part, ContextInv, ContextTypes, IsTables
    <2> QED
      BY <1>1, <2>1, AloneCovers
  <1>3. CoverInv'
    BY <1>2 DEF CoverInv
  <1> QED
    BY <1>1, <1>3 DEF ContextInv

LEMMA ContextStart == ContextInit => ContextInv
  <1> SUFFICES ASSUME ContextInit PROVE ContextInv
    OBVIOUS
  <1>0. \A x : x \notin DOMAIN <<>>
    OBVIOUS
  <1>1. /\ service = Empty /\ made = 0 /\ dropped = {} /\ MaxContexts \in Nat
        /\ \A k \in Clients : get[k] = NoRequest
    BY ContextAssumption DEF ContextInit
  <1>2. NoRequest \in Request
    BY <1>1 DEF NoRequest, Request, Steps, Contextual, NoContext
  <1>3. IsTables(Empty)
    <2>1. <<>> \in [DOMAIN <<>> -> Nat]
      BY <1>0
    <2> QED
      BY <1>0, <2>1 DEF Empty, IsTables
  <1>4. ContextTypes
    BY <1>1, <1>2, <1>3 DEF ContextInit, ContextTypes
  <1>5. RequestInv /\ FreshInv
    BY <1>1 DEF RequestInv, Proper, FreshInv, StepOf, NoRequest, Making, Answering
  <1>6. CoverInv
    BY <1>0, <1>1 DEF CoverInv, Empty
  <1>7. ListInv
    BY <1>0, <1>1 DEF ListInv, Empty, StepOf, NoRequest, Connecting, Answering
  <1> QED
    BY <1>4, <1>5, <1>6, <1>7 DEF ContextInv

----------------------------------------------------------------------------
\* The tables stay, and nobody is thrown away.
LEMMA Unthrown ==
    ASSUME ContextInv, UNCHANGED <<service, dropped>>, NEW k \in Clients
    PROVE  Less(service', service) /\ Throws(k)
  <1>1. service' = service /\ dropped' = dropped
    OBVIOUS
  <1>2. Less(service, service)
    BY DEF ContextInv, ContextTypes, Less, Part
  <1> QED
    BY <1>1, <1>2 DEF Throws, ContextInv, ContextTypes

LEMMA ContextConnect == ASSUME ContextInv, NEW k \in Clients, Connect(k) PROVE ContextInv'
  <1>1. get[k].at = "idle" /\ GoesTo(k, "ask") /\ dropped' = dropped \ {k} /\ service' = service /\ made' = made
    BY DEF Connect, StepOf
  <1>2. /\ get' \in [Clients -> Request] /\ Only(k)
        /\ get'[k].at = "ask" /\ get'[k].hop = get[k].hop /\ get'[k].via = get[k].via
        /\ get'[k].new = get[k].new /\ get'[k].count = get[k].count /\ get'[k].answer = get[k].answer
    BY <1>1, Goes DEF Steps, ContextInv, ContextTypes
  <1>3. Proper(get[k])
    BY DEF ContextInv, RequestInv
  <1>4. GoesAlone(k)
    BY <1>1, <1>2, <1>3 DEF GoesAlone, Proper, Making, Answering, Connecting
  <1>5. Less(service', service) /\ Throws(k)
    <2>1. Less(service, service)
      BY DEF ContextInv, ContextTypes, Less, Part
    <2> QED
      BY <1>1, <1>2, <2>1 DEF Throws, ContextInv, ContextTypes
  <1> QED
    BY <1>1, <1>4, <1>5, AloneKeeps DEF Answering

\* A step on the way to a connection, which nobody learns of.
LEMMA ContextGoes ==
    ASSUME ContextInv, NEW k \in Clients, NEW to \in {"prepare", "register", "fail"}, GoesTo(k, to),
           get[k].at \in {"create", "recycle", "prepare"}, to = "fail" \/ get[k].at # "create",
           made' = made, Less(service', service), Throws(k)
    PROVE  ContextInv'
  <1>1. /\ get' \in [Clients -> Request] /\ Only(k)
        /\ get'[k].at = to /\ get'[k].hop = get[k].hop /\ get'[k].via = get[k].via
        /\ get'[k].new = get[k].new /\ get'[k].count = get[k].count /\ get'[k].answer = get[k].answer
    BY Goes DEF Steps, Connecting, ContextInv, ContextTypes
  <1>2. Proper(get[k])
    BY DEF ContextInv, RequestInv
  <1>3. GoesAlone(k)
    BY <1>1, <1>2 DEF GoesAlone, Proper, Making, Answering, Connecting
  <1> QED
    BY <1>3, AloneKeeps DEF Answering

LEMMA ContextRecycles == ASSUME ContextInv, NEW k \in Clients, Recycle(k) PROVE ContextInv'
  <1> DEFINE s == Known(service, get[k].new, get[k].via)
             list == s.lru[get[k].via]
             last == list[Max(Candidates(s, list))]
  <1>1. get[k].at = "recycle" /\ made' = made
    BY DEF Recycle, StepOf
  <1>2. PICK to \in {"prepare", "fail"} :
           /\ GoesTo(k, to)
           /\ \/ (\E lru : service' = [s EXCEPT !.lru[get[k].via] = lru]) /\ dropped' = dropped
              \/ service' = s /\ dropped' = dropped
              \/ service' = Shutdown(s, last, get[k].new) /\ dropped' = dropped \cup Forgotten(s, {last})
    <2> HIDE DEF s, last
    <2>1. Recycle(k) =>
           \/ (\E lru : service' = [s EXCEPT !.lru[get[k].via] = lru]) /\ GoesTo(k, "prepare") /\ dropped' = dropped
           \/ service' = s /\ GoesTo(k, "fail") /\ dropped' = dropped
           \/ service' = Shutdown(s, last, get[k].new) /\ GoesTo(k, "prepare")
              /\ dropped' = dropped \cup Forgotten(s, {last})
      BY DEF Recycle, s, last
    <2> QED
      BY <2>1
  <1>3. IsTables(service)
    BY DEF ContextInv, ContextTypes
  <1>4. /\ s = [response |-> s.response, latches |-> s.latches, refs |-> s.refs, key |-> s.key,
                via |-> s.via, lru |-> s.lru]
        /\ s.response = service.response /\ s.latches = service.latches /\ s.refs = service.refs
    <2> DEFINE c == get[k].new
               v == get[k].via
               via1 == With(service.via, c, v)
               lru1 == IF v \in DOMAIN service.lru THEN service.lru ELSE With(service.lru, v, <<>>)
    <2>1. s = [service EXCEPT !.via = via1, !.lru = lru1]
      BY DEF Known
    <2> HIDE DEF via1, lru1, s
    <2> QED
      BY <1>3, <2>1 DEF IsTables
  <1> HIDE DEF s, last
  <1>5. IsTables(s)
    BY <1>3, <1>4 DEF IsTables
  <1>6. dropped \subseteq Clients
    BY DEF ContextInv, ContextTypes
  <1>7. Less(service', service) /\ Throws(k)
    <2>1. CASE (\E lru : service' = [s EXCEPT !.lru[get[k].via] = lru]) /\ dropped' = dropped
      <3>1. PICK lru : service' = [s EXCEPT !.lru[get[k].via] = lru]
        BY <2>1
      <3>2. /\ service' = [response |-> service'.response, latches |-> service'.latches,
                           refs |-> service'.refs, key |-> service'.key,
                           via |-> service'.via, lru |-> service'.lru]
            /\ service'.response = s.response /\ service'.latches = s.latches /\ service'.refs = s.refs
        BY <1>4, <3>1
      <3>3. IsTables(service')
        BY <1>5, <3>2 DEF IsTables
      <3> QED
        BY <1>4, <1>6, <2>1, <3>2, <3>3 DEF Less, Part, Throws
    <2>2. CASE service' = s /\ dropped' = dropped
      BY <1>4, <1>5, <1>6, <2>2 DEF Less, Part, Throws
    <2>3. CASE service' = Shutdown(s, last, get[k].new) /\ dropped' = dropped \cup Forgotten(s, {last})
      <3>1. /\ Less(service', s) /\ Forgotten(s, {last}) \subseteq Clients
            /\ \A key \in DOMAIN s.latches \ DOMAIN service'.latches : s.latches[key] \subseteq Forgotten(s, {last})
        BY <1>5, <2>3, ShutsDown
      <3> QED
        BY <1>4, <1>6, <2>3, <3>1 DEF Less, Part, Throws
    <2> QED
      BY <1>2, <2>1, <2>2, <2>3
  <1> QED
    BY <1>1, <1>2, <1>7, ContextGoes

LEMMA ContextPrepares == ASSUME ContextInv, NEW k \in Clients, Prepare(k) PROVE ContextInv'
  <1>1. get[k].at = "prepare" /\ made' = made /\ UNCHANGED <<service, dropped>>
    BY DEF Prepare, StepOf
  <1>2. PICK to \in {"register", "fail"} : GoesTo(k, to)
    BY DEF Prepare
  <1> QED
    BY <1>1, <1>2, Unthrown, ContextGoes

LEMMA ContextCreates == ASSUME ContextInv, NEW k \in Clients, Create(k) PROVE ContextInv'
  <1>1. get[k].at = "create" /\ UNCHANGED <<service, dropped>> /\ Proper(get[k])
    BY DEF Create, StepOf, ContextInv, RequestInv
  <1>2. CASE GoesTo(k, "fail") /\ UNCHANGED made
    BY <1>1, <1>2, Unthrown, ContextGoes
  <1>3. CASE /\ made < MaxContexts /\ made' = made + 1
             /\ get' = [get EXCEPT ![k].new = made',
                                   ![k].at = IF get[k].via = NoContext THEN "prepare" ELSE "recycle"]
    <2>1. /\ made \in Nat /\ MaxContexts \in Nat /\ Failed = MaxContexts + 1 /\ NoContext = 0
          /\ get \in [Clients -> Request]
      BY Numbered DEF ContextInv, ContextTypes
    <2>2. \A j \in Clients : get[j].new \in 0..made /\ get[j].via \in 0..made /\ get[j].answer \in 0..made \cup {Failed}
      BY <2>1, RequestIs DEF Contextual
    <2>3. /\ Only(k) /\ get'[k].hop = get[k].hop /\ get'[k].via = get[k].via
          /\ get'[k].new = made' /\ get'[k].count = get[k].count /\ get'[k].answer = get[k].answer
          /\ get'[k].at \in {"prepare", "recycle"}
      BY <1>3, <2>1 DEF Only, Request
    <2>4. get' \in [Clients -> Request']
      <3>1. \A r \in Request : r \in Request'
        BY <1>3, <2>1 DEF Request, Contextual
      <3> DEFINE at == IF get[k].via = NoContext THEN "prepare" ELSE "recycle"
      <3>2. get' = [get EXCEPT ![k] = [get[k] EXCEPT !.new = made', !.at = at]]
        BY <1>3
      <3>3. at \in Steps /\ made' \in Contextual'
        BY <1>3, <2>1 DEF Steps, Connecting, Contextual
      <3> HIDE DEF at
      <3>4. [get[k] EXCEPT !.new = made', !.at = at] \in Request'
        <4>1. get[k] \in Request'
          BY <2>1, <3>1
        <4> QED
          BY <3>3, <4>1 DEF Request
      <3> QED
        BY <2>1, <3>1, <3>2, <3>4
    <2>5. ContextTypes'
      <3>1. IsTables(service)'
        BY <1>1, <1>3, <2>1 DEF ContextInv, ContextTypes, IsTables
      <3> QED
        BY <1>1, <1>3, <2>1, <2>4, <3>1 DEF ContextInv, ContextTypes
    <2>6. RequestInv'
      BY <1>1, <1>3, <2>1, <2>3 DEF Only, ContextInv, RequestInv, Proper, Making, Answering
    <2>7. FreshInv'
      <3>1. \A j, i \in Clients : get'[j].new = get'[i].new /\ get'[j].new # NoContext => j = i
        BY <1>3, <2>1, <2>2, <2>3 DEF Only, ContextInv, FreshInv
      <3>2. ASSUME NEW i \in Clients, get'[i].at \in Making
            PROVE  /\ \A j \in Clients : get'[j].answer # get'[i].new /\ get'[j].via # get'[i].new
                   /\ \A key \in DOMAIN service'.response : service'.response[key] # get'[i].new
        <4>1. CASE i = k
          <5>1. \A key \in DOMAIN service'.response : service'.response[key] \in 1..made
            BY <1>1 DEF ContextInv, ContextTypes, IsTables
          <5> QED
            BY <1>3, <2>1, <2>2, <2>3, <4>1, <5>1 DEF Only
        <4>2. CASE i # k
          BY <1>1, <2>3, <3>2, <4>2 DEF Only, ContextInv, FreshInv, StepOf
        <4> QED
          BY <4>1, <4>2
      <3> QED
        BY <3>1, <3>2 DEF FreshInv, StepOf
    <2>8. CoverInv'
      <3>1. ASSUME NEW c \in DOMAIN service'.refs PROVE Covered(c)'
        <4>1. c \in DOMAIN service.refs /\ service'.refs[c] = service.refs[c] /\ service.refs[c] \in Nat
          BY <1>1 DEF ContextInv, ContextTypes, IsTables
        <4>2. \A j \in Clients : get'[j].answer = c \/ get'[j].via = c => get[j].answer = c \/ get[j].via = c
          BY <2>3 DEF Only
        <4>3. \A j \in Clients : get[j].at \in Answering /\ get[j].new = c =>
                  get'[j].at \in Answering /\ get'[j].new = c /\ get'[j].count = get[j].count
          BY <1>1, <2>3 DEF Only, Answering
        <4> QED
          BY <2>5, <2>7, <4>1, <4>2, <4>3, CoverKept
      <3> QED
        BY <3>1 DEF CoverInv
    <2>9. ListInv'
      <3>1. \A j \in Clients :
               /\ j \in dropped => j \in dropped'
               /\ \/ get[j].at \notin Connecting \cup {"wait"}
                  \/ get[j].at \in Connecting /\ get'[j].at \in Connecting
                     /\ get'[j].hop = get[j].hop /\ get'[j].via = get[j].via /\ get'[j].answer = get[j].answer
                  \/ get[j].at = "wait" /\ get'[j].at = "wait"
                     /\ get'[j].hop = get[j].hop /\ get'[j].via = get[j].via /\ get'[j].answer = get[j].answer
               /\ get'[j].at \in Connecting \cup {"wait"} /\ get'[j].answer = NoContext =>
                     /\ get[j].at \in Connecting \cup {"wait"}
                     /\ get'[j].hop = get[j].hop /\ get'[j].via = get[j].via /\ get'[j].answer = get[j].answer
               /\ get'[j].at \in Answering => get[j].at \in Answering /\ get'[j].answer = get[j].answer
        BY <1>1, <2>3 DEF Only, Connecting, Answering
      <3>2. Part(service'.latches, service.latches) /\ DOMAIN service.latches \ DOMAIN service'.latches = {}
        BY <1>1 DEF Part
      <3> QED
        BY <3>1, <3>2, ListKept
    <2> QED
      BY <2>5, <2>6, <2>7, <2>8, <2>9 DEF ContextInv
  <1> QED
    BY <1>2, <1>3 DEF Create

----------------------------------------------------------------------------
LEMMA UncountedNat ==
    ASSUME ContextTypes', FreshInv', NEW c \in 1..made'
    PROVE  CountOf(get', c) \in Nat
  <1>1. c # NoContext
    BY DEF NoContext
  <1>2. \A k \in Clients : get'[k].count \in Nat
    BY DEF ContextTypes, Request
  <1>3. \A j, k \in Clients : get'[j].new = c /\ get'[k].new = c => j = k
    BY <1>1 DEF FreshInv, NoContext
  <1> QED
    BY <1>2, <1>3, CountsNat

\* The client of a call that is refused has nothing of it.
LEMMA ContextRethrows ==
    ASSUME ContextInv, NEW k \in Clients, Rethrow(k),
           \/ get[k].at \notin Connecting \cup {"wait"}
           \/ get[k].at = "wait" /\ get[k].answer # NoContext
           \/ Key(k) \notin DOMAIN service.latches
    PROVE  GoesAlone(k)
  <1>1. /\ get' \in [Clients -> Request] /\ Only(k)
        /\ get'[k].at = "idle" /\ get'[k].via = NoContext /\ get'[k].new = NoContext
        /\ get'[k].answer = NoContext
    BY Rethrows DEF ContextInv, ContextTypes
  <1> QED
    BY <1>1 DEF GoesAlone, Proper, Making, Answering, Connecting

LEMMA ContextRegisters == ASSUME ContextInv, NEW k \in Clients, Register(k) PROVE ContextInv'
  <1> DEFINE n == get[k].new
             refs == With(service.refs, n, 0)
             key == With(service.key, n, Key(k))
  <1>1. /\ get[k].at = "register" /\ made' = made /\ dropped' = dropped /\ GoesTo(k, "produce")
        /\ service' = [service EXCEPT !.key = key, !.refs = refs]
    BY DEF Register, StepOf
  <1>2. /\ get' \in [Clients -> Request] /\ Only(k)
        /\ get'[k].at = "produce" /\ get'[k].hop = get[k].hop /\ get'[k].via = get[k].via
        /\ get'[k].new = get[k].new /\ get'[k].count = get[k].count /\ get'[k].answer = get[k].answer
    BY <1>1, Goes DEF Steps, Connecting, ContextInv, ContextTypes
  <1>3. Proper(get[k])
    BY DEF ContextInv, RequestInv
  <1>4. GoesAlone(k)
    BY <1>1, <1>2, <1>3 DEF GoesAlone, Proper, Making, Answering, Connecting
  <1>5. n \in 1..made
    BY <1>1, <1>3, RequestIs, Numbered DEF ContextInv, Proper, Making, Contextual
  <1>6. /\ DOMAIN refs = DOMAIN service.refs \cup {n} /\ refs[n] = 0
        /\ \A c \in DOMAIN service.refs : c # n => refs[c] = service.refs[c]
    BY DEF With
  <1>7. IsTables(service)
    BY DEF ContextInv, ContextTypes
  <1>8. refs \in [DOMAIN refs -> Nat]
    BY <1>7 DEF IsTables, With
  <1> HIDE DEF refs, key, n
  <1>9. /\ service' = [response |-> service'.response, latches |-> service'.latches,
                       refs |-> service'.refs, key |-> service'.key, via |-> service'.via,
                       lru |-> service'.lru]
        /\ service'.response = service.response /\ service'.latches = service.latches /\ service'.refs = refs
    BY <1>1, <1>7 DEF IsTables
  <1>10. IsTables(service')
    <2>1. DOMAIN refs \subseteq 1..made
      BY <1>5, <1>6, <1>7 DEF IsTables
    <2> QED
      BY <1>7, <1>8, <1>9, <2>1 DEF IsTables
  <1>11. Throws(k)
    BY <1>1, <1>9 DEF Throws, ContextInv, ContextTypes
  <1>12. ContextTypes' /\ RequestInv' /\ FreshInv' /\ ListInv'
    <2>1. \A x \in DOMAIN service'.response : Learnt(service'.response[x])
      BY <1>9 DEF Learnt
    <2>2. Part(service'.latches, service.latches)
      BY <1>9 DEF Part
    <2> QED
      BY <1>1, <1>4, <1>10, <1>11, <2>1, <2>2, Alone
  <1>13. ASSUME NEW c \in DOMAIN service'.refs PROVE Covered(c)'
    <2>1. c \in 1..made /\ service'.refs[c] \in Nat
      BY <1>10 DEF IsTables
    <2>2. CASE c = n
      <3>1. \A j \in Clients : get'[j].answer # n /\ get'[j].via # n
        BY <1>1, <1>2 DEF Only, ContextInv, FreshInv, StepOf, Making, n
      <3>2. Entitled(c)' = {}
        BY <2>2, <3>1 DEF Entitled
      <3>3. Cardinality(Entitled(c)') = 0
        BY <3>2, FS_EmptySet
      <3>4. CountOf(get', c) \in Nat
        BY <1>1, <1>12, <2>1, UncountedNat
      <3> QED
        BY <2>1, <3>3, <3>4, UncountedIs DEF Covered
    <2>3. CASE c # n
      <3>1. c \in DOMAIN service.refs /\ service'.refs[c] = service.refs[c]
        BY <1>6, <1>9, <2>3
      <3> QED
        BY <1>1, <1>4, <1>12, <2>1, <3>1, AloneCovers DEF Answering
    <2> QED
      BY <2>2, <2>3
  <1> QED
    BY <1>12, <1>13 DEF ContextInv, CoverInv

LEMMA ContextRecords == ASSUME ContextInv, NEW k \in Clients, Record(k) PROVE ContextInv'
  <1> DEFINE n == get[k].new
             response == With(service.response, Key(k), n)
  <1>1. /\ get[k].at = "record" /\ made' = made /\ dropped' = dropped /\ GoesTo(k, "count")
        /\ service' = [service EXCEPT !.response = response]
    BY DEF Record, StepOf
  <1>2. /\ get' \in [Clients -> Request] /\ Only(k)
        /\ get'[k].at = "count" /\ get'[k].hop = get[k].hop /\ get'[k].via = get[k].via
        /\ get'[k].new = get[k].new /\ get'[k].count = get[k].count /\ get'[k].answer = get[k].answer
    BY <1>1, Goes DEF Steps, Answering, ContextInv, ContextTypes
  <1>3. Proper(get[k])
    BY DEF ContextInv, RequestInv
  <1>4. GoesAlone(k)
    BY <1>1, <1>2, <1>3 DEF GoesAlone, Proper, Making, Answering, Connecting
  <1>5. n \in 1..made
    BY <1>1, <1>3, RequestIs, Numbered DEF ContextInv, Proper, Answering, Contextual
  <1>6. /\ DOMAIN response = DOMAIN service.response \cup {Key(k)} /\ response[Key(k)] = n
        /\ \A x \in DOMAIN service.response : x # Key(k) => response[x] = service.response[x]
    BY DEF With
  <1>7. IsTables(service)
    BY DEF ContextInv, ContextTypes
  <1> HIDE DEF response
  <1>8. /\ service' = [response |-> service'.response, latches |-> service'.latches,
                       refs |-> service'.refs, key |-> service'.key, via |-> service'.via,
                       lru |-> service'.lru]
        /\ service'.response = response /\ service'.latches = service.latches /\ service'.refs = service.refs
    BY <1>1, <1>7 DEF IsTables
  <1>9. \A x \in DOMAIN response : response[x] = n \/ (x \in DOMAIN service.response /\ response[x] = service.response[x])
    BY <1>6
  <1>10. IsTables(service')
    BY <1>5, <1>7, <1>8, <1>9 DEF IsTables
  <1>11. Throws(k)
    BY <1>1, <1>8 DEF Throws, ContextInv, ContextTypes
  <1>12. ContextTypes' /\ RequestInv' /\ FreshInv' /\ ListInv'
    <2>1. \A x \in DOMAIN service'.response : Learnt(service'.response[x])
      <3>1. Learnt(n)
        BY <1>2 DEF Learnt, Making
      <3>2. \A x \in DOMAIN service.response : Learnt(service.response[x])
        BY DEF Learnt
      <3> QED
        BY <1>8, <1>9, <3>1, <3>2
    <2>2. Part(service'.latches, service.latches)
      BY <1>8 DEF Part
    <2> QED
      BY <1>1, <1>4, <1>10, <1>11, <2>1, <2>2, Alone
  <1>13. ASSUME NEW c \in DOMAIN service'.refs PROVE Covered(c)'
    <2>1. c \in DOMAIN service.refs /\ service'.refs[c] = service.refs[c] /\ service.refs[c] \in Nat
      BY <1>7, <1>8 DEF IsTables
    <2> QED
      BY <1>2, <1>4, <1>12, <2>1, AloneCovers DEF Answering
  <1> QED
    BY <1>12, <1>13 DEF ContextInv, CoverInv

LEMMA ContextCounts == ASSUME ContextInv, NEW k \in Clients, CountWaiters(k) PROVE ContextInv'
  <1> DEFINE n == get[k].new
  <1>1. /\ get[k].at = "count" /\ made' = made /\ dropped' = dropped
    BY DEF CountWaiters, StepOf
  <1>2. PICK to \in {"wait", "fail"} :
            /\ GoesTo(k, to)
            /\ IF n \in DOMAIN service.refs
               THEN to = "wait" /\ service' = [service EXCEPT !.refs[n] = @ + get[k].count]
               ELSE to = "fail" /\ service' = service
    BY DEF CountWaiters
  <1>3. /\ get' \in [Clients -> Request] /\ Only(k)
        /\ get'[k].at = to /\ get'[k].hop = get[k].hop /\ get'[k].via = get[k].via
        /\ get'[k].new = get[k].new /\ get'[k].count = get[k].count /\ get'[k].answer = get[k].answer
    BY <1>2, Goes DEF Steps, Connecting, ContextInv, ContextTypes
  <1>4. Proper(get[k])
    BY DEF ContextInv, RequestInv
  <1>5. GoesAlone(k)
    BY <1>1, <1>3, <1>4 DEF GoesAlone, Proper, Making, Answering, Connecting
  <1>6. CASE n \notin DOMAIN service.refs
    BY <1>1, <1>2, <1>5, <1>6, Unthrown, AloneKeeps
  <1>7. CASE n \in DOMAIN service.refs
    <2> DEFINE refs == [service.refs EXCEPT ![n] = @ + get[k].count]
    <2>1. IsTables(service)
      BY DEF ContextInv, ContextTypes
    <2>2. service' = [service EXCEPT !.refs = refs]
      BY <1>2, <1>7
    <2>3. /\ DOMAIN refs = DOMAIN service.refs /\ refs[n] = service.refs[n] + get[k].count
          /\ \A c \in DOMAIN service.refs : c # n => refs[c] = service.refs[c]
          /\ refs \in [DOMAIN refs -> Nat] /\ get[k].count \in Nat
      BY <1>7, <2>1, RequestIs, Numbered DEF IsTables, ContextInv
    <2> HIDE DEF refs
    <2>4. /\ service' = [response |-> service'.response, latches |-> service'.latches,
                         refs |-> service'.refs, key |-> service'.key, via |-> service'.via,
                         lru |-> service'.lru]
          /\ service'.response = service.response /\ service'.latches = service.latches /\ service'.refs = refs
      BY <2>1, <2>2 DEF IsTables
    <2>5. IsTables(service')
      BY <2>1, <2>3, <2>4 DEF IsTables
    <2>6. Throws(k)
      BY <1>1, <2>4 DEF Throws, ContextInv, ContextTypes
    <2>7. ContextTypes' /\ RequestInv' /\ FreshInv' /\ ListInv'
      <3>1. \A x \in DOMAIN service'.response : Learnt(service'.response[x])
        BY <2>4 DEF Learnt
      <3>2. Part(service'.latches, service.latches)
        BY <2>4 DEF Part
      <3> QED
        BY <1>1, <1>5, <2>5, <2>6, <3>1, <3>2, Alone
    <2>8. ASSUME NEW c \in DOMAIN service'.refs PROVE Covered(c)'
      <3>1. /\ c \in DOMAIN service.refs /\ service.refs[c] \in Nat /\ service'.refs[c] \in Nat
            /\ c \in 1..made
        BY <2>1, <2>3, <2>4, <2>5 DEF IsTables
      <3>2. CASE c # n
        BY <1>5, <2>3, <2>4, <2>7, <3>1, <3>2, AloneCovers
      <3>3. CASE c = n
        <4>1. c # NoContext /\ c # Failed
          BY <3>1, Numbered DEF ContextInv
        <4>2. \A j \in Clients : get[j].new = n => j = k
          BY <3>3, <4>1 DEF ContextInv, FreshInv
        <4>3. CountOf(get, c) = get[k].count
          BY <1>1, <3>3, <4>2, OneCounts DEF Answering
        <4>4. CountOf(get', c) \in Nat
          BY <1>1, <2>7, <3>1, UncountedNat
        <4>5. Entitled(c)' \subseteq Entitled(c)
          BY <1>3 DEF Only, Entitled
        <4>6. Cardinality(Entitled(c)') <= Cardinality(Entitled(c))
          BY <4>5, EntitledFinite, FS_Subset
        <4>7. Cardinality(Entitled(c)) <= service.refs[c] + get[k].count
          BY <3>1, <4>3, UncountedIs DEF ContextInv, CoverInv, Covered
        <4>8. service'.refs[c] = service.refs[c] + get[k].count
          BY <2>3, <2>4, <3>3
        <4>9. Cardinality(Entitled(c)') <= service'.refs[c] + CountOf(get', c)
          BY <2>3, <3>1, <4>4, <4>6, <4>7, <4>8, EntitledFinite
        <4> QED
          BY <4>9, UncountedIs DEF Covered
      <3> QED
        BY <3>2, <3>3
    <2> QED
      BY <2>7, <2>8 DEF ContextInv, CoverInv
  <1> QED
    BY <1>6, <1>7

LEMMA ContextAnswered == ASSUME ContextInv, NEW k \in Clients, Answered(k) PROVE ContextInv'
  <1> DEFINE c == get[k].answer
  <1>1. get[k].at = "wait" /\ c # NoContext /\ made' = made /\ UNCHANGED <<service, dropped>>
    BY DEF Answered, StepOf
  <1>2. get \in [Clients -> Request] /\ get[k] \in Request /\ made \in Nat
    BY Numbered DEF ContextInv, ContextTypes
  <1>3. CASE Rethrow(k)
    BY <1>1, <1>3, ContextRethrows, Unthrown, AloneKeeps DEF Answering
  <1>4. CASE ~Rethrow(k)
    <2>1. /\ c # Failed
          /\ \/ get' = [get EXCEPT ![k] = [NoRequest EXCEPT !.at = "ask", !.hop = get[k].hop + 1, !.via = c]]
             \/ get' = [get EXCEPT ![k] = [NoRequest EXCEPT !.at = "held", !.answer = c]]
      BY <1>4 DEF Answered
    <2>2. c \in Contextual /\ get[k].hop + 1 \in Nat /\ 1 \in Nat /\ NoContext \in Contextual /\ 0 \in Nat
      BY <1>2, <2>1, RequestIs DEF Contextual, NoContext
    <2>3. /\ [NoRequest EXCEPT !.at = "ask", !.hop = get[k].hop + 1, !.via = c] \in Request
          /\ [NoRequest EXCEPT !.at = "held", !.answer = c] \in Request
      <3>1. NoRequest \in Request
        BY <2>2 DEF NoRequest, Request, Steps
      <3>2. "ask" \in Steps /\ "held" \in Steps
        BY DEF Steps
      <3> HIDE DEF c
      <3> QED
        BY <2>2, <3>1, <3>2 DEF Request
    <2>4. get' \in [Clients -> Request] /\ Only(k)
      BY <1>2, <2>1, <2>3 DEF Only
    <2>5. /\ get'[k].new = NoContext
          /\ \/ get'[k].at = "ask" /\ get'[k].via = c /\ get'[k].answer = NoContext
             \/ get'[k].at = "held" /\ get'[k].via = NoContext /\ get'[k].answer = c
      BY <1>2, <2>1 DEF NoRequest
    <2>6. GoesAlone(k)
      BY <1>1, <2>4, <2>5 DEF GoesAlone, Proper, Making, Answering, Connecting
    <2> QED
      BY <1>1, <2>6, Unthrown, AloneKeeps DEF Answering
  <1> QED
    BY <1>3, <1>4

LEMMA ReturnedIs ==
    ASSUME ContextInv, NEW c
    PROVE  LET s == Returned(service, c) IN
           /\ IsTables(s) /\ s.response = service.response /\ s.latches = service.latches
           /\ DOMAIN s.refs = DOMAIN service.refs
           /\ \A d \in DOMAIN s.refs :
                  \/ s.refs[d] = service.refs[d]
                  \/ d = c /\ service.refs[d] > 0 /\ s.refs[d] = service.refs[d] - 1
  <1>1. IsTables(service)
    BY DEF ContextInv, ContextTypes
  <1>2. CASE c \in DOMAIN service.refs /\ service.refs[c] > 0
    <2> DEFINE refs == [service.refs EXCEPT ![c] = @ - 1]
               s == [service EXCEPT !.refs = refs]
    <2>1. Returned(service, c) = s
      BY <1>2 DEF Returned
    <2>2. /\ DOMAIN refs = DOMAIN service.refs /\ refs \in [DOMAIN refs -> Nat]
          /\ refs[c] = service.refs[c] - 1
          /\ \A d \in DOMAIN refs : d # c => refs[d] = service.refs[d]
      BY <1>1, <1>2 DEF IsTables
    <2> HIDE DEF refs
    <2>3. /\ s = [response |-> s.response, latches |-> s.latches, refs |-> s.refs, key |-> s.key,
                  via |-> s.via, lru |-> s.lru]
          /\ s.response = service.response /\ s.latches = service.latches /\ s.refs = refs
      BY <1>1 DEF IsTables
    <2> HIDE DEF s
    <2>4. IsTables(s)
      BY <1>1, <2>2, <2>3 DEF IsTables
    <2> QED
      BY <1>2, <2>1, <2>2, <2>3, <2>4
  <1>3. CASE ~(c \in DOMAIN service.refs /\ service.refs[c] > 0)
    BY <1>1, <1>3 DEF Returned
  <1> QED
    BY <1>2, <1>3

\* The client lets its reference go, and contexts may be ended.
LEMMA ContextReturns ==
    ASSUME ContextInv, NEW k \in Clients, get[k].at \in {"idle", "held"}, Rethrow(k), made' = made,
           Less(service', Returned(service, get[k].answer)), dropped \subseteq dropped',
           dropped' \subseteq Clients,
           \A key \in DOMAIN service.latches \ DOMAIN service'.latches : service.latches[key] \subseteq dropped'
    PROVE  ContextInv'
  <1> DEFINE c == get[k].answer
             s == Returned(service, c)
  <1>1. /\ IsTables(s) /\ s.response = service.response /\ s.latches = service.latches
        /\ DOMAIN s.refs = DOMAIN service.refs
        /\ \A d \in DOMAIN s.refs :
               \/ s.refs[d] = service.refs[d]
               \/ d = c /\ service.refs[d] > 0 /\ s.refs[d] = service.refs[d] - 1
    BY ReturnedIs
  <1>2. Less(service', s)
    OBVIOUS
  <1> HIDE DEF s
  <1>3. GoesAlone(k)
    BY ContextRethrows DEF Connecting
  <1>4. Throws(k)
    BY DEF Throws
  <1>5. ContextTypes' /\ RequestInv' /\ FreshInv' /\ ListInv'
    <2>1. \A x \in DOMAIN service'.response : Learnt(service'.response[x])
      BY <1>1, <1>2 DEF Less, Part, Learnt
    <2>2. Part(service'.latches, service.latches)
      BY <1>1, <1>2 DEF Less
    <2>3. IsTables(service')
      BY <1>2 DEF Less
    <2> QED
      BY <1>3, <1>4, <2>1, <2>2, <2>3, Alone
  <1>6. ASSUME NEW d \in DOMAIN service'.refs PROVE Covered(d)'
    <2>1. /\ d \in DOMAIN service.refs /\ service.refs[d] \in Nat /\ d \in 1..made
          /\ service'.refs[d] = s.refs[d] /\ service'.refs[d] \in Nat
      BY <1>1, <1>2 DEF Less, Part, IsTables, ContextInv, ContextTypes
    <2>2. CASE s.refs[d] = service.refs[d]
      BY <1>3, <1>5, <2>1, <2>2, AloneCovers DEF Answering
    <2>3. CASE d = c /\ service.refs[d] > 0 /\ s.refs[d] = service.refs[d] - 1
      <3>1. d # NoContext /\ Failed # d
        BY <2>1, Numbered DEF ContextInv
      <3>2. Only(k) /\ get'[k].answer = NoContext /\ get'[k].via = NoContext /\ get'[k].at = "idle"
        BY Rethrows, Numbered DEF ContextInv, ContextTypes
      <3>3. Entitled(d)' = Entitled(d) \ {k} /\ k \in Entitled(d)
        BY <2>3, <3>1, <3>2 DEF Only, Entitled
      <3>4. Cardinality(Entitled(d)') = Cardinality(Entitled(d)) - 1
        BY <3>3, EntitledFinite, FS_RemoveElement
      <3>5. CountOf(get', d) \in Nat
        BY <1>5, <2>1, UncountedNat
      <3>6. CountOf(get, d) <= CountOf(get', d)
        <4>1. CASE \E j \in Clients : get[j].at \in Answering /\ get[j].new = d
          <5> PICK j \in Clients : get[j].at \in Answering /\ get[j].new = d
            BY <4>1
          <5>1. j # k /\ get'[j] = get[j]
            BY <3>2 DEF Only, Answering
          <5>2. \A i \in Clients : get[i].new = d => i = j
            BY <3>1 DEF ContextInv, FreshInv
          <5>3. \A i \in Clients : get'[i].new = d => i = j
            BY <1>5, <3>1, <5>1 DEF FreshInv, NoContext
          <5>4. CountOf(get, d) = get[j].count /\ CountOf(get', d) = get'[j].count
            BY <5>1, <5>2, <5>3, OneCounts
          <5>5. get[j].count \in Nat
            BY RequestIs, Numbered DEF ContextInv
          <5> QED
            BY <5>1, <5>4, <5>5
        <4>2. CASE ~\E j \in Clients : get[j].at \in Answering /\ get[j].new = d
          BY <3>5, <4>2, NoneCounts
        <4> QED
          BY <4>1, <4>2
      <3>7. CountOf(get, d) \in Nat
        <4>1. \A j, i \in Clients : get[j].new = d /\ get[i].new = d => j = i
          BY <3>1 DEF ContextInv, FreshInv
        <4>2. \A j \in Clients : get[j].count \in Nat
          BY RequestIs, Numbered DEF ContextInv
        <4> QED
          BY <4>1, <4>2, CountsNat
      <3>8. Cardinality(Entitled(d)) <= service.refs[d] + CountOf(get, d)
        BY <2>1, UncountedIs DEF ContextInv, CoverInv, Covered
      <3>9. Cardinality(Entitled(d)') <= service'.refs[d] + CountOf(get', d)
        BY <2>1, <2>3, <3>4, <3>5, <3>6, <3>7, <3>8, EntitledFinite
      <3> QED
        BY <3>9, UncountedIs DEF Covered
    <2> QED
      BY <1>1, <2>1, <2>2, <2>3
  <1> QED
    BY <1>5, <1>6 DEF ContextInv, CoverInv

LEMMA ContextPuts == ASSUME ContextInv, NEW k \in Clients, PutConnection(k) PROVE ContextInv'
  <1> DEFINE s == Returned(service, get[k].answer)
  <1>1. /\ get[k].at = "held" /\ service' = s /\ Rethrow(k) /\ made' = made /\ dropped' = dropped
    BY DEF PutConnection, StepOf
  <1>2. IsTables(s) /\ s.latches = service.latches
    BY ReturnedIs
  <1> HIDE DEF s
  <1>3. Less(service', s)
    BY <1>1, <1>2 DEF Less, Part
  <1>4. dropped' \subseteq Clients
    BY <1>1 DEF ContextInv, ContextTypes
  <1> QED
    BY <1>1, <1>2, <1>3, <1>4, ContextReturns DEF s

LEMMA ContextResets == ASSUME ContextInv, NEW k \in Clients, Reset(k) PROVE ContextInv'
  <1> DEFINE s == Returned(service, get[k].answer)
             d == service.response[<<Stack[k][1], NoContext>>]
  <1>1. get[k].at \in {"idle", "held"} /\ Rethrow(k) /\ made' = made
    BY DEF Reset, StepOf
  <1>2. (IF get[k].at = "held" THEN s ELSE service) = s
    <2>1. CASE get[k].at = "idle"
      <3>1. get[k].answer = NoContext
        BY <2>1 DEF ContextInv, RequestInv, Proper
      <3>2. get[k].answer \notin DOMAIN service.refs
        BY <3>1, Numbered DEF ContextInv, ContextTypes, IsTables
      <3> QED
        BY <2>1, <3>2 DEF Returned
    <2> QED
      BY <1>1, <2>1
  <1>3. IsTables(s) /\ s.latches = service.latches /\ s.response = service.response
    BY ReturnedIs
  <1> HIDE DEF s
  <1>4. \/ service' = Shutdown(s, d, NoContext) /\ dropped' = dropped \cup Forgotten(s, {d})
        \/ service' = s /\ dropped' = dropped
    BY <1>2, <1>3 DEF Reset, StepOf, s
  <1>5. /\ Less(service', s) /\ dropped \subseteq dropped' /\ dropped' \subseteq Clients
        /\ \A key \in DOMAIN s.latches \ DOMAIN service'.latches : s.latches[key] \subseteq dropped'
    <2>1. dropped \subseteq Clients
      BY DEF ContextInv, ContextTypes
    <2>2. CASE service' = s /\ dropped' = dropped
      BY <1>3, <2>1, <2>2 DEF Less, Part
    <2>3. CASE service' = Shutdown(s, d, NoContext) /\ dropped' = dropped \cup Forgotten(s, {d})
      <3>1. /\ Less(service', s) /\ Forgotten(s, {d}) \subseteq Clients
            /\ \A key \in DOMAIN s.latches \ DOMAIN service'.latches : s.latches[key] \subseteq Forgotten(s, {d})
        BY <1>3, <2>3, ShutsDown
      <3> QED
        BY <2>1, <2>3, <3>1
    <2> QED
      BY <1>4, <2>2, <2>3
  <1> QED
    BY <1>1, <1>3, <1>5, ContextReturns DEF s

LEMMA ContextLost == ASSUME ContextInv, NEW c, OnContextDisconnect(c) PROVE ContextInv'
  <1>1. PICK cs : /\ service' = ForgetContexts(service, cs) /\ dropped' = dropped \cup Forgotten(service, cs)
                  /\ get' = get /\ made' = made
    BY DEF OnContextDisconnect
  <1>2. /\ Less(service', service) /\ Forgotten(service, cs) \subseteq Clients
        /\ \A key \in DOMAIN service.latches \ DOMAIN service'.latches : service.latches[key] \subseteq dropped'
    BY <1>1, Forgets DEF ContextInv, ContextTypes
  <1>3. ContextTypes'
    BY <1>1, <1>2 DEF ContextInv, ContextTypes, Less, IsTables, Request, Contextual
  <1>4. RequestInv'
    BY <1>1 DEF ContextInv, RequestInv
  <1>5. FreshInv'
    <2>1. \A x \in DOMAIN service'.response : Learnt(service'.response[x])
      BY <1>2 DEF Less, Part, Learnt
    <2> QED
      BY <1>1, <1>3, <1>4, <2>1, FreshKept
  <1>6. ListInv'
    BY <1>1, <1>2, ListKept DEF Less
  <1>7. ASSUME NEW d \in DOMAIN service'.refs PROVE Covered(d)'
    <2>1. d \in DOMAIN service.refs /\ service'.refs[d] = service.refs[d] /\ service.refs[d] \in Nat
      BY <1>2 DEF Less, Part, ContextInv, ContextTypes, IsTables
    <2> QED
      BY <1>1, <1>3, <1>5, <2>1, CoverKept
  <1> QED
    BY <1>3, <1>4, <1>5, <1>6, <1>7 DEF ContextInv, CoverInv

----------------------------------------------------------------------------
\* The response is there, and so is its context: the reference is counted with the answer.
LEMMA AskAnswered ==
    ASSUME ContextInv, NEW k \in Clients, get[k].at = "ask", NEW key \in DOMAIN service.response,
           NEW c, c = service.response[key], c \in DOMAIN service.refs,
           service' = [service EXCEPT !.refs[c] = @ + 1], AnswerWith(k, c),
           made' = made, dropped' = dropped
    PROVE  ContextInv'
  <1> DEFINE refs == [service.refs EXCEPT ![c] = @ + 1]
  <1>1. IsTables(service) /\ get \in [Clients -> Request] /\ Proper(get[k]) /\ get[k] \in Request
    BY DEF ContextInv, ContextTypes, RequestInv
  <1>2. c \in 1..made /\ c \in Contextual /\ c # NoContext /\ c # Failed
    BY <1>1, Numbered DEF IsTables, ContextInv
  <1>3. /\ get' \in [Clients -> Request] /\ Only(k) /\ get'[k].at = "wait" /\ get'[k].answer = c
        /\ get'[k].via = get[k].via /\ get'[k].new = get[k].new
    <2>1. get' = [get EXCEPT ![k] = [get[k] EXCEPT !.answer = c, !.at = "wait"]]
      BY <1>1 DEF AnswerWith
    <2>2. [get[k] EXCEPT !.answer = c, !.at = "wait"] \in Request
      <3>1. "wait" \in Steps
        BY DEF Steps
      <3> QED
        BY <1>1, <1>2, <3>1 DEF Request
    <2> QED
      BY <1>1, <2>1, <2>2 DEF Only, Request
  <1>4. /\ DOMAIN refs = DOMAIN service.refs /\ refs \in [DOMAIN refs -> Nat]
        /\ refs[c] = service.refs[c] + 1 /\ service.refs[c] \in Nat
        /\ \A d \in DOMAIN refs : d # c => refs[d] = service.refs[d]
    BY <1>1 DEF IsTables
  <1>5. service' = [service EXCEPT !.refs = refs]
    OBVIOUS
  <1> HIDE DEF refs
  <1>6. /\ service' = [response |-> service'.response, latches |-> service'.latches,
                       refs |-> service'.refs, key |-> service'.key, via |-> service'.via,
                       lru |-> service'.lru]
        /\ service'.response = service.response /\ service'.latches = service.latches /\ service'.refs = refs
    BY <1>1, <1>5 DEF IsTables
  <1>7. IsTables(service')
    BY <1>1, <1>4, <1>6 DEF IsTables
  <1>8. ContextTypes'
    BY <1>3, <1>7 DEF ContextInv, ContextTypes, IsTables, Request, Contextual
  <1>9. RequestInv'
    BY <1>3 DEF Only, ContextInv, RequestInv, Proper, NoContext, Making, Answering
  <1>10. FreshInv'
    <2>1. \A x \in DOMAIN service.response : Learnt(service.response[x])
      BY DEF Learnt
    <2>2. \A j \in Clients :
               /\ \/ get'[j].answer \in {get[j].answer, get[j].via, NoContext, Failed}
                  \/ Learnt(get'[j].answer)
               /\ get'[j].via \in {get[j].answer, get[j].via, NoContext, Failed}
               /\ get'[j].new \in {get[j].new, NoContext}
               /\ get'[j].at \in Making => get[j].at \in Making
      BY <1>3, <2>1 DEF Only, Making
    <2> QED
      BY <1>6, <1>8, <1>9, <2>1, <2>2, FreshKept
  <1>11. ListInv'
    <2>1. \A j \in Clients :
               /\ j \in dropped => j \in dropped'
               /\ \/ get[j].at \notin Connecting \cup {"wait"}
                  \/ get'[j] = get[j]
               /\ get'[j].at \in Connecting \cup {"wait"} /\ get'[j].answer = NoContext => get'[j] = get[j]
               /\ get'[j].at \in Answering => get'[j] = get[j]
      BY <1>2, <1>3 DEF Only, Connecting, Answering
    <2>2. Part(service'.latches, service.latches) /\ DOMAIN service.latches \ DOMAIN service'.latches = {}
      BY <1>6 DEF Part
    <2> QED
      BY <2>1, <2>2, ListKept
  <1>12. ASSUME NEW d \in DOMAIN service'.refs PROVE Covered(d)'
    <2>1. d \in DOMAIN service.refs /\ service.refs[d] \in Nat /\ d \in 1..made /\ service'.refs[d] \in Nat
      BY <1>1, <1>4, <1>6 DEF IsTables
    <2>2. \A j \in Clients : get[j].at \in Answering /\ get[j].new = d =>
              get'[j].at \in Answering /\ get'[j].new = d /\ get'[j].count = get[j].count
      BY <1>3 DEF Only, Answering
    <2>3. CASE d # c
      <3>1. \A j \in Clients : get'[j].answer = d \/ get'[j].via = d => get[j].answer = d \/ get[j].via = d
        BY <1>3, <2>3 DEF Only
      <3>2. service'.refs[d] = service.refs[d]
        BY <1>4, <1>6, <2>1, <2>3
      <3> QED
        BY <1>8, <1>10, <2>1, <2>2, <3>1, <3>2, CoverKept
    <2>4. CASE d = c
      <3>1. Entitled(c)' \subseteq Entitled(c) \cup {k}
        BY <1>3 DEF Only, Entitled
      <3>2. IsFiniteSet(Entitled(c) \cup {k}) /\ Cardinality(Entitled(c) \cup {k}) <= Cardinality(Entitled(c)) + 1
        <4> DEFINE E == Entitled(c)
                   n == Cardinality(E)
        <4>1. IsFiniteSet(E) /\ n \in Nat
          BY EntitledFinite
        <4> HIDE DEF E
        <4>2. IsFiniteSet(E \cup {k}) /\ Cardinality(E \cup {k}) = IF k \in E THEN n ELSE n + 1
          BY <4>1, FS_AddElement
        <4> HIDE DEF n
        <4>3. Cardinality(E \cup {k}) <= n + 1
          BY <4>1, <4>2
        <4> QED
          BY <4>2, <4>3 DEF E, n
      <3>3. Cardinality(Entitled(c)') <= Cardinality(Entitled(c) \cup {k}) /\ Cardinality(Entitled(c) \cup {k}) \in Nat
        BY <3>1, <3>2, FS_Subset, FS_CardinalityType
      <3>4. CountOf(get', c) \in Nat /\ CountOf(get, c) = CountOf(get', c)
        <4>1. CountOf(get', c) \in Nat
          BY <1>2, <1>8, <1>10, UncountedNat
        <4>2. CASE \E j \in Clients : get[j].at \in Answering /\ get[j].new = c
          <5> PICK j \in Clients : get[j].at \in Answering /\ get[j].new = c
            BY <4>2
          <5>1. get'[j] = get[j]
            BY <1>3 DEF Only, Answering
          <5>2. \A i \in Clients : get[i].new = c => i = j
            BY <1>2 DEF ContextInv, FreshInv
          <5>3. \A i \in Clients : get'[i].new = c => i = j
            BY <1>2, <1>10, <5>1 DEF FreshInv, NoContext
          <5> QED
            BY <4>1, <5>1, <5>2, <5>3, OneCounts
        <4>3. CASE ~\E j \in Clients : get[j].at \in Answering /\ get[j].new = c
          <5>1. \A j \in Clients : ~(get'[j].at \in Answering /\ get'[j].new = c)
            BY <1>3, <4>3 DEF Only, Answering
          <5> QED
            BY <4>1, <4>3, <5>1, NoneCounts
        <4> QED
          BY <4>2, <4>3
      <3>5. Cardinality(Entitled(c)) <= service.refs[c] + CountOf(get, c)
        BY UncountedIs DEF ContextInv, CoverInv, Covered
      <3>6. service'.refs[c] = service.refs[c] + 1
        BY <1>4, <1>6
      <3>7. Cardinality(Entitled(c)') <= service'.refs[c] + CountOf(get', c)
        BY <1>4, <3>2, <3>3, <3>4, <3>5, <3>6, EntitledFinite
      <3> QED
        BY <2>4, <3>7, UncountedIs DEF Covered
    <2> QED
      BY <2>3, <2>4
  <1> QED
    BY <1>8, <1>9, <1>10, <1>11, <1>12 DEF ContextInv, CoverInv

\* It is not: who is the first to ask makes the connection, and the others wait for it.
LEMMA AskListed ==
    ASSUME ContextInv, NEW k \in Clients, get[k].at = "ask", service' = Listed(k),
           GoesTo(k, IF FirstToAsk(k) THEN "create" ELSE "wait"), made' = made, dropped' = dropped
    PROVE  ContextInv'
  <1> DEFINE to == IF FirstToAsk(k) THEN "create" ELSE "wait"
             ks == WaitersOf(service, Key(k)) \cup {k}
             latches == With(service.latches, Key(k), ks)
  <1>1. IsTables(service) /\ get \in [Clients -> Request] /\ Proper(get[k])
    BY DEF ContextInv, ContextTypes, RequestInv
  <1>2. to \in Steps
    BY DEF Steps, Connecting
  <1>3. /\ get' \in [Clients -> Request] /\ Only(k)
        /\ get'[k].at = to /\ get'[k].hop = get[k].hop /\ get'[k].via = get[k].via
        /\ get'[k].new = get[k].new /\ get'[k].count = get[k].count /\ get'[k].answer = get[k].answer
    <2> HIDE DEF to
    <2>1. GoesTo(k, to)
      BY DEF to
    <2> QED
      BY <1>1, <1>2, <2>1, Goes
  <1>4. get[k].answer = NoContext /\ get[k].new = NoContext
    BY <1>1 DEF Proper
  <1>5. /\ DOMAIN latches = DOMAIN service.latches \cup {Key(k)} /\ latches[Key(k)] = ks
        /\ \A key \in DOMAIN service.latches : key # Key(k) => latches[key] = service.latches[key]
    BY DEF With
  <1>6. ks \subseteq Clients
    BY <1>1 DEF WaitersOf, IsTables
  <1>7. service' = [service EXCEPT !.latches = latches]
    BY DEF Listed
  <1> HIDE DEF latches
  <1>8. /\ service' = [response |-> service'.response, latches |-> service'.latches,
                       refs |-> service'.refs, key |-> service'.key, via |-> service'.via,
                       lru |-> service'.lru]
        /\ service'.response = service.response /\ service'.latches = latches /\ service'.refs = service.refs
    BY <1>1, <1>7 DEF IsTables
  <1>9. IsTables(service')
    <2>1. \A key \in DOMAIN latches : latches[key] \subseteq Clients
      BY <1>1, <1>5, <1>6 DEF IsTables
    <2> QED
      BY <1>1, <1>8, <2>1 DEF IsTables
  <1>10. ContextTypes'
    BY <1>3, <1>9 DEF ContextInv, ContextTypes, IsTables, Request, Contextual
  <1>11. RequestInv'
    BY <1>3, <1>4 DEF Only, ContextInv, RequestInv, Proper, NoContext, Making, Answering
  <1>12. FreshInv'
    <2>1. \A x \in DOMAIN service'.response : Learnt(service'.response[x])
      BY <1>8 DEF Learnt
    <2>2. \A j \in Clients :
               /\ get'[j].answer = get[j].answer /\ get'[j].via = get[j].via /\ get'[j].new = get[j].new
               /\ get'[j].at \in Making => get[j].at \in Making
      BY <1>3 DEF Only, Making
    <2> QED
      BY <1>10, <1>11, <2>1, <2>2, FreshKept
  <1>13. ASSUME NEW d \in DOMAIN service'.refs PROVE Covered(d)'
    <2>1. d \in DOMAIN service.refs /\ service'.refs[d] = service.refs[d] /\ service.refs[d] \in Nat
      BY <1>1, <1>8 DEF IsTables
    <2>2. \A j \in Clients : get'[j].answer = d \/ get'[j].via = d => get[j].answer = d \/ get[j].via = d
      BY <1>3 DEF Only
    <2>3. \A j \in Clients : get[j].at \in Answering /\ get[j].new = d =>
              get'[j].at \in Answering /\ get'[j].new = d /\ get'[j].count = get[j].count
      BY <1>3 DEF Only, Answering
    <2> QED
      BY <1>10, <1>12, <2>1, <2>2, <2>3, CoverKept
  <1>14. ListInv'
    <2>1. \A j \in Clients : Key(j)' = Key(j)
      BY <1>3 DEF Only, Key
    <2>2. ASSUME NEW key \in DOMAIN latches, NEW j \in latches[key]
          PROVE  Key(j) = key /\ get'[j].at \in Connecting \cup {"wait"} /\ get'[j].answer = NoContext
      <3>1. CASE j = k /\ key = Key(k)
        BY <1>3, <1>4, <3>1 DEF Connecting
      <3>2. CASE ~(j = k /\ key = Key(k))
        <4>1. key \in DOMAIN service.latches /\ j \in service.latches[key] /\ j \in Clients
          BY <1>1, <1>5, <2>2, <3>2 DEF WaitersOf, IsTables
        <4>2. Key(j) = key /\ get[j].at \in Connecting \cup {"wait"} /\ get[j].answer = NoContext
          BY <4>1 DEF ContextInv, ListInv, StepOf
        <4>3. j # k
          BY <4>2 DEF Connecting
        <4> QED
          BY <1>3, <4>1, <4>2, <4>3 DEF Only
      <3> QED
        BY <3>1, <3>2
    <2>3. ASSUME NEW key \in DOMAIN latches, latches[key] # {}
          PROVE  \E j \in Clients : get'[j].at \in Connecting /\ Key(j) = key
      <3>1. CASE key = Key(k) /\ FirstToAsk(k)
        BY <1>3, <3>1 DEF Connecting
      <3>2. CASE ~(key = Key(k) /\ FirstToAsk(k))
        <4>1. key \in DOMAIN service.latches /\ service.latches[key] # {}
          BY <1>5, <2>3, <3>2 DEF FirstToAsk, WaitersOf
        <4>2. PICK j \in Clients : get[j].at \in Connecting /\ Key(j) = key
          BY <4>1 DEF ContextInv, ListInv, StepOf
        <4>3. j # k
          BY <4>2 DEF Connecting
        <4> QED
          BY <1>3, <4>2, <4>3 DEF Only
      <3> QED
        BY <3>1, <3>2
    <2>4. ASSUME NEW j \in Clients, j \notin dropped, get'[j].answer = NoContext
          PROVE  /\ get'[j].at \in Connecting \cup {"wait"} => Key(j) \in DOMAIN latches /\ j \in latches[Key(j)]
                 /\ get'[j].at \notin Answering
      <3>1. CASE j = k
        BY <1>3, <1>5, <3>1 DEF Answering
      <3>2. CASE j # k
        <4>1. get'[j] = get[j]
          BY <1>3, <3>2 DEF Only
        <4>2. /\ get[j].at \in Connecting \cup {"wait"} => j \in WaitersOf(service, Key(j))
              /\ get[j].at \notin Answering
          BY <2>4, <4>1 DEF ContextInv, ListInv, StepOf
        <4>3. j \in WaitersOf(service, Key(j)) => Key(j) \in DOMAIN latches /\ j \in latches[Key(j)]
          BY <1>5 DEF WaitersOf
        <4> QED
          BY <4>1, <4>2, <4>3
      <3> QED
        BY <3>1, <3>2
    <2>5. \A key \in DOMAIN service'.latches :
              /\ \A j \in service'.latches[key] :
                     Key(j)' = key /\ get'[j].at \in Connecting \cup {"wait"} /\ get'[j].answer = NoContext
              /\ service'.latches[key] # {} => \E j \in Clients : get'[j].at \in Connecting /\ Key(j)' = key
      <3>1. \A key \in DOMAIN latches : latches[key] \subseteq Clients
        BY <1>8, <1>9 DEF IsTables
      <3> QED
        BY <1>8, <2>1, <2>2, <2>3, <3>1
    <2>6. \A j \in Clients \ dropped' : get'[j].answer = NoContext =>
              /\ get'[j].at \in Connecting \cup {"wait"} => j \in WaitersOf(service', Key(j)')
              /\ get'[j].at \notin Answering
      BY <1>8, <2>1, <2>4 DEF WaitersOf
    <2> QED
      BY <2>5, <2>6 DEF ListInv, StepOf, NoContext, WaitersOf
  <1> QED
    BY <1>10, <1>11, <1>12, <1>13, <1>14 DEF ContextInv, CoverInv

LEMMA ContextAsks == ASSUME ContextInv, NEW k \in Clients, Ask(k) PROVE ContextInv'
  <1>1. get[k].at = "ask" /\ made' = made /\ dropped' = dropped
    BY DEF Ask, StepOf
  <1>2. CASE Key(k) \notin DOMAIN service.response
    BY <1>1, <1>2, AskListed DEF Ask
  <1>3. CASE Key(k) \in DOMAIN service.response /\ service.response[Key(k)] \in DOMAIN service.refs
    BY <1>1, <1>3, AskAnswered DEF Ask
  <1>4. CASE Key(k) \in DOMAIN service.response /\ service.response[Key(k)] \notin DOMAIN service.refs
    <2>1. Rethrow(k) /\ service' = service
      BY <1>4 DEF Ask
    <2> QED
      BY <1>1, <2>1, ContextRethrows, Unthrown, AloneKeeps DEF Connecting, Answering
  <1> QED
    BY <1>2, <1>3, <1>4

\* Whoever waits for the key is answered, with the context or with the failure.
LEMMA ContextTells ==
    ASSUME ContextInv, NEW k \in Clients, NEW v, NEW to,
           \/ get[k].at = "produce" /\ v = get[k].new /\ to = "record"
           \/ get[k].at = "fail" /\ v = Failed /\ to = "wait",
           Key(k) \in DOMAIN service.latches,
           service' = [service EXCEPT !.latches = Drop(@, {Key(k)})],
           Told(service.latches[Key(k)], v, k, to), made' = made, dropped' = dropped
    PROVE  ContextInv'
  <1> DEFINE ks == service.latches[Key(k)]
             latches == Drop(service.latches, {Key(k)})
  <1>1. IsTables(service) /\ get \in [Clients -> Request] /\ Proper(get[k]) /\ get[k] \in Request
    BY DEF ContextInv, ContextTypes, RequestInv
  <1>2. /\ ks \subseteq Clients /\ IsFiniteSet(ks) /\ Cardinality(ks) \in Nat
        /\ \A j \in ks : Key(j) = Key(k) /\ get[j].at \in Connecting \cup {"wait"} /\ get[j].answer = NoContext
    <2>1. ks \subseteq Clients
      BY <1>1 DEF IsTables
    <2> QED
      BY <2>1, ContextAssumption, FS_Subset, FS_CardinalityType DEF ContextInv, ListInv, StepOf
  <1>3. /\ v \in Contextual \cup {Failed} /\ v # NoContext /\ to \in Steps
        /\ v = Failed \/ (v = get[k].new /\ to = "record")
    <2>1. get[k].new \in Contextual /\ Failed # NoContext
      BY <1>1, RequestIs, Numbered DEF ContextInv, NoContext
    <2> QED
      BY <1>1, <2>1 DEF Proper, Making, Steps, Answering
  <1> DEFINE number == Cardinality(ks)
  <1>4. get' = [j \in Clients |->
                   [get[j] EXCEPT !.answer = IF j \in ks THEN v ELSE @,
                                  !.count = IF j = k THEN number ELSE @,
                                  !.at = IF j = k THEN to ELSE @]]
    BY DEF Told
  <1>5. number \in Nat
    BY <1>2
  <1>6. DOMAIN latches = DOMAIN service.latches \ {Key(k)} /\ Part(latches, service.latches)
    BY DEF Drop, Restrict, Part
  <1> HIDE DEF ks, number, latches
  <1>7. \A j \in Clients :
           /\ get'[j].answer = (IF j \in ks THEN v ELSE get[j].answer)
           /\ get'[j].count = (IF j = k THEN number ELSE get[j].count)
           /\ get'[j].at = (IF j = k THEN to ELSE get[j].at)
           /\ get'[j].hop = get[j].hop /\ get'[j].via = get[j].via /\ get'[j].new = get[j].new
    BY <1>1, <1>4 DEF Request
  <1>8. get' \in [Clients -> Request]
    <2> SUFFICES ASSUME NEW j \in Clients PROVE get'[j] \in Request
      BY <1>4
    <2> DEFINE a == IF j \in ks THEN v ELSE get[j].answer
               n == IF j = k THEN number ELSE get[j].count
               p == IF j = k THEN to ELSE get[j].at
    <2>1. get'[j] = [get[j] EXCEPT !.answer = a, !.count = n, !.at = p]
      BY <1>4
    <2>2. get[j] \in Request
      BY <1>1
    <2>3. a \in Contextual \cup {Failed} /\ n \in Nat /\ p \in Steps
      BY <1>3, <1>5, <2>2, RequestIs
    <2> HIDE DEF a, n, p
    <2> QED
      BY <2>1, <2>2, <2>3 DEF Request
  <1>9. service' = [service EXCEPT !.latches = latches]
    BY DEF latches
  <1>10. /\ service' = [response |-> service'.response, latches |-> service'.latches,
                        refs |-> service'.refs, key |-> service'.key, via |-> service'.via,
                        lru |-> service'.lru]
         /\ service'.response = service.response /\ service'.latches = latches /\ service'.refs = service.refs
    BY <1>1, <1>9 DEF IsTables
  <1>11. IsTables(service')
    BY <1>1, <1>6, <1>10 DEF IsTables, Part
  <1>12. ContextTypes'
    BY <1>8, <1>11 DEF ContextInv, ContextTypes, IsTables, Request, Contextual
  <1>13. RequestInv'
    <2> SUFFICES ASSUME NEW j \in Clients PROVE Proper(get'[j])
      BY DEF RequestInv, Proper, NoContext
    <2>1. Proper(get[j])
      BY DEF ContextInv, RequestInv
    <2>2. CASE j = k
      BY <1>1, <1>3, <1>7, <2>2 DEF Proper, Making, Answering
    <2>3. CASE j # k
      <3>1. j \in ks => get[j].at \notin {"idle", "ask"}
        BY <1>2 DEF Connecting, ks
      <3> QED
        BY <1>7, <2>1, <2>3, <3>1 DEF Proper
    <2> QED
      BY <2>2, <2>3
  <1>14. FreshInv'
    <2>1. \A x \in DOMAIN service'.response : Learnt(service'.response[x])
      BY <1>10 DEF Learnt
    <2>2. v = Failed \/ Learnt(v)
      BY <1>3, <1>7 DEF Learnt, Making
    <2>3. \A j \in Clients :
               /\ \/ get'[j].answer \in {get[j].answer, get[j].via, NoContext, Failed}
                  \/ Learnt(get'[j].answer)
               /\ get'[j].via = get[j].via /\ get'[j].new = get[j].new
               /\ get'[j].at \in Making => get[j].at \in Making
      <3>1. to \notin Making
        BY DEF Making
      <3> QED
        BY <1>7, <2>2, <3>1
    <2> QED
      BY <1>12, <1>13, <2>1, <2>3, FreshKept
  <1>15. ASSUME NEW c \in DOMAIN service'.refs PROVE Covered(c)'
    <2>1. /\ c \in DOMAIN service.refs /\ service'.refs[c] = service.refs[c] /\ service.refs[c] \in Nat
          /\ c \in 1..made /\ c # Failed /\ c # NoContext
      BY <1>1, <1>10, Numbered DEF IsTables, ContextInv
    <2>2. CASE c = v
      <3>1. get[k].at = "produce" /\ c = get[k].new /\ get'[k].at = "record" /\ get'[k].new = c
        BY <1>3, <1>7, <2>1, <2>2
      <3>2. \A j \in Clients : get[j].answer # c /\ get[j].via # c
        BY <3>1 DEF ContextInv, FreshInv, StepOf, Making
      <3>3. Entitled(c)' \subseteq ks
        BY <1>7, <3>2 DEF Entitled
      <3>4. \A j \in Clients : get'[j].new = c => j = k
        BY <1>14, <2>1, <3>1 DEF FreshInv, NoContext
      <3>5. CountOf(get', c) = number
        BY <1>7, <3>1, <3>4, OneCounts DEF Answering
      <3>6. Cardinality(Entitled(c)') <= number
        BY <1>2, <3>3, FS_Subset DEF number, ks
      <3>7. Cardinality(Entitled(c)') <= service'.refs[c] + CountOf(get', c)
        BY <1>5, <2>1, <3>5, <3>6, EntitledFinite
      <3> QED
        BY <3>7, UncountedIs DEF Covered
    <2>3. CASE c # v
      <3>1. \A j \in Clients : get'[j].answer = c \/ get'[j].via = c => get[j].answer = c \/ get[j].via = c
        BY <1>7, <2>3
      <3>2. \A j \in Clients : get[j].at \in Answering /\ get[j].new = c =>
                get'[j].at \in Answering /\ get'[j].new = c /\ get'[j].count = get[j].count
        <4>1. get[k].at \notin Answering
          BY DEF Answering
        <4> QED
          BY <1>7, <4>1
      <3> QED
        BY <1>12, <1>14, <2>1, <3>1, <3>2, CoverKept
    <2> QED
      BY <2>2, <2>3
  <1>16. ListInv'
    <2>1. \A j \in Clients : Key(j)' = Key(j)
      BY <1>7 DEF Key
    <2>2. get[k].at \in Connecting /\ to \notin Connecting /\ k \in Clients
      BY DEF Connecting
    <2>3. ASSUME NEW key \in DOMAIN latches, NEW j \in latches[key]
          PROVE  Key(j)' = key /\ get'[j].at \in Connecting \cup {"wait"} /\ get'[j].answer = NoContext
      <3>1. key \in DOMAIN service.latches /\ j \in service.latches[key] /\ key # Key(k) /\ j \in Clients
        BY <1>1, <1>6, <2>3 DEF Part, IsTables
      <3>2. Key(j) = key /\ get[j].at \in Connecting \cup {"wait"} /\ get[j].answer = NoContext
        BY <3>1 DEF ContextInv, ListInv, StepOf
      <3>3. j # k /\ j \notin ks
        BY <1>2, <3>1, <3>2 DEF ks
      <3> QED
        BY <1>7, <2>1, <3>1, <3>2, <3>3
    <2>4. ASSUME NEW key \in DOMAIN latches, latches[key] # {}
          PROVE  \E j \in Clients : get'[j].at \in Connecting /\ Key(j)' = key
      <3>1. key \in DOMAIN service.latches /\ service.latches[key] # {} /\ key # Key(k)
        BY <1>6, <2>4 DEF Part
      <3>2. PICK j \in Clients : get[j].at \in Connecting /\ Key(j) = key
        BY <3>1 DEF ContextInv, ListInv, StepOf
      <3> QED
        BY <1>7, <2>1, <3>1, <3>2
    <2>5. ASSUME NEW j \in Clients, j \notin dropped, get'[j].answer = NoContext
          PROVE  /\ get'[j].at \in Connecting \cup {"wait"} =>
                        Key(j)' \in DOMAIN latches /\ j \in latches[Key(j)']
                 /\ get'[j].at \notin Answering
      <3>1. j \notin ks /\ get[j].answer = NoContext
        BY <1>3, <1>7, <2>5
      <3>2. /\ get[j].at \in Connecting \cup {"wait"} => j \in WaitersOf(service, Key(j))
            /\ get[j].at \notin Answering
        BY <2>5, <3>1 DEF ContextInv, ListInv, StepOf
      <3>3. WaitersOf(service, Key(k)) = ks
        BY DEF WaitersOf, ks
      <3>4. j # k
        BY <2>2, <3>1, <3>2, <3>3
      <3>5. ASSUME get[j].at \in Connecting \cup {"wait"}
            PROVE  Key(j) \in DOMAIN latches /\ j \in latches[Key(j)]
        <4>1. Key(j) # Key(k)
          BY <3>1, <3>2, <3>3, <3>5
        <4>2. Key(j) \in DOMAIN service.latches /\ j \in service.latches[Key(j)]
          BY <3>2, <3>5 DEF WaitersOf
        <4> QED
          BY <1>6, <4>1, <4>2 DEF Part
      <3> QED
        BY <1>7, <2>1, <3>2, <3>4, <3>5
    <2>6. \A key \in DOMAIN service'.latches :
              /\ \A j \in service'.latches[key] :
                     Key(j)' = key /\ get'[j].at \in Connecting \cup {"wait"} /\ get'[j].answer = NoContext
              /\ service'.latches[key] # {} => \E j \in Clients : get'[j].at \in Connecting /\ Key(j)' = key
      BY <1>10, <2>3, <2>4
    <2>7. \A j \in Clients \ dropped' : get'[j].answer = NoContext =>
              /\ get'[j].at \in Connecting \cup {"wait"} => j \in WaitersOf(service', Key(j)')
              /\ get'[j].at \notin Answering
      BY <1>10, <2>5 DEF WaitersOf
    <2> QED
      BY <2>6, <2>7 DEF ListInv, StepOf, NoContext, WaitersOf
  <1> QED
    BY <1>12, <1>13, <1>14, <1>15, <1>16 DEF ContextInv, CoverInv

LEMMA ContextProduces ==
    ASSUME ContextInv, NEW k \in Clients, Produce(k) \/ AnswerFailure(k) PROVE ContextInv'
  <1> DEFINE v == IF Produce(k) THEN get[k].new ELSE Failed
             to == IF Produce(k) THEN "record" ELSE "wait"
  <1>1. /\ ProduceResponse(k, v, to)
        /\ \/ get[k].at = "produce" /\ v = get[k].new /\ to = "record"
           \/ get[k].at = "fail" /\ v = Failed /\ to = "wait"
    BY DEF Produce, AnswerFailure, StepOf
  <1> HIDE DEF v, to
  <1>2. made' = made /\ dropped' = dropped
    BY <1>1 DEF ProduceResponse
  <1>3. CASE Key(k) \in DOMAIN service.latches
    <2>1. /\ service' = [service EXCEPT !.latches = Drop(@, {Key(k)})]
          /\ Told(service.latches[Key(k)], v, k, to)
      BY <1>1, <1>3 DEF ProduceResponse, WaitersOf
    <2> QED
      BY <1>1, <1>2, <1>3, <2>1, ContextTells
  <1>4. CASE Key(k) \notin DOMAIN service.latches
    <2>1. Rethrow(k) /\ service' = service
      BY <1>1, <1>4 DEF ProduceResponse
    <2> QED
      BY <1>1, <1>2, <1>4, <2>1, ContextRethrows, Unthrown, AloneKeeps DEF Answering
  <1> QED
    BY <1>3, <1>4

\* Contexts in use stay, and who waits for a connection is not left alone: for any clients
\* and stacks, any number of contexts, and whatever is lost or ended meanwhile.
THEOREM ContextsStay == ContextSpec => []ContextsAreKept
  <1>1. ContextInit => ContextInv
    BY ContextStart
  <1>2. ContextInv /\ [ContextNext]_contextVars => ContextInv'
    <2> SUFFICES ASSUME ContextInv, [ContextNext]_contextVars PROVE ContextInv'
      OBVIOUS
    <2>1. ASSUME NEW k \in Clients, Connect(k) PROVE ContextInv'
      BY <2>1, ContextConnect
    <2>2. ASSUME NEW k \in Clients, Ask(k) PROVE ContextInv'
      BY <2>2, ContextAsks
    <2>3. ASSUME NEW k \in Clients, Create(k) PROVE ContextInv'
      BY <2>3, ContextCreates
    <2>4. ASSUME NEW k \in Clients, Recycle(k) PROVE ContextInv'
      BY <2>4, ContextRecycles
    <2>5. ASSUME NEW k \in Clients, Prepare(k) PROVE ContextInv'
      BY <2>5, ContextPrepares
    <2>6. ASSUME NEW k \in Clients, Register(k) PROVE ContextInv'
      BY <2>6, ContextRegisters
    <2>7. ASSUME NEW k \in Clients, Produce(k) \/ AnswerFailure(k) PROVE ContextInv'
      BY <2>7, ContextProduces
    <2>8. ASSUME NEW k \in Clients, Record(k) PROVE ContextInv'
      BY <2>8, ContextRecords
    <2>9. ASSUME NEW k \in Clients, CountWaiters(k) PROVE ContextInv'
      BY <2>9, ContextCounts
    <2>10. ASSUME NEW k \in Clients, Answered(k) PROVE ContextInv'
      BY <2>10, ContextAnswered
    <2>11. ASSUME NEW k \in Clients, PutConnection(k) PROVE ContextInv'
      BY <2>11, ContextPuts
    <2>12. ASSUME NEW k \in Clients, Reset(k) PROVE ContextInv'
      BY <2>12, ContextResets
    <2>13. ASSUME NEW c \in Ids, OnContextDisconnect(c) PROVE ContextInv'
      BY <2>13, ContextLost
    <2>14. CASE UNCHANGED contextVars
      <3>1. service' = service /\ get' = get /\ made' = made /\ dropped' = dropped
        BY <2>14 DEF contextVars
      <3>2. ContextTypes' /\ RequestInv' /\ FreshInv' /\ ListInv'
        BY <3>1 DEF ContextInv, ContextTypes, RequestInv, FreshInv, ListInv, IsTables, Request, Contextual,
                    StepOf, Key, WaitersOf
      <3>3. ASSUME NEW c \in DOMAIN service'.refs PROVE Covered(c)'
        <4>1. c \in DOMAIN service.refs /\ service'.refs[c] = service.refs[c] /\ service.refs[c] \in Nat
          BY <3>1 DEF ContextInv, ContextTypes, IsTables
        <4> QED
          BY <3>1, <3>2, <4>1, CoverKept
      <3> QED
        BY <3>2, <3>3 DEF ContextInv, CoverInv
    <2> QED
      BY <2>1, <2>2, <2>3, <2>4, <2>5, <2>6, <2>7, <2>8, <2>9, <2>10, <2>11, <2>12, <2>13, <2>14
         DEF ContextNext, GetProgress
  <1>3. ContextInv => ContextsAreKept
    <2> SUFFICES ASSUME ContextInv PROVE ContextsAreKept
      OBVIOUS
    <2>1. ASSUME NEW c \in DOMAIN service.refs
          PROVE  Cardinality(Holders(c)) <= service.refs[c] + Uncounted(c)
      <3>1. Holders(c) \subseteq Entitled(c)
        BY DEF Holders, Entitled
      <3>2. Cardinality(Holders(c)) <= Cardinality(Entitled(c)) /\ Cardinality(Holders(c)) \in Nat
        BY <3>1, EntitledFinite, FS_Subset, FS_CardinalityType
      <3>3. c \in 1..made /\ service.refs[c] \in Nat
        BY DEF ContextInv, ContextTypes, IsTables
      <3>4. CountOf(get, c) \in Nat
        <4>1. \A j, k \in Clients : get[j].new = c /\ get[k].new = c => j = k
          BY <3>3 DEF ContextInv, FreshInv, NoContext
        <4>2. \A k \in Clients : get[k].count \in Nat
          BY RequestIs, Numbered DEF ContextInv
        <4> QED
          BY <4>1, <4>2, CountsNat
      <3>5. Cardinality(Entitled(c)) <= service.refs[c] + CountOf(get, c)
        BY UncountedIs DEF ContextInv, CoverInv, Covered
      <3>6. Cardinality(Holders(c)) <= service.refs[c] + CountOf(get, c)
        BY <3>2, <3>3, <3>4, <3>5, EntitledFinite
      <3> QED
        BY <3>6, UncountedIs
    <2>2. WaitsForAConnection
      <3> SUFFICES ASSUME NEW k \in Clients, get[k].at = "wait", get[k].answer = NoContext, k \notin dropped
                   PROVE  /\ k \in WaitersOf(service, Key(k))
                          /\ \E j \in Clients : j # k /\ get[j].at \in Connecting /\ Key(j) = Key(k)
        BY DEF WaitsForAConnection, StepOf
      <3>1. k \in WaitersOf(service, Key(k))
        BY DEF ContextInv, ListInv, StepOf
      <3>2. Key(k) \in DOMAIN service.latches /\ service.latches[Key(k)] # {}
        BY <3>1 DEF WaitersOf
      <3>3. PICK j \in Clients : get[j].at \in Connecting /\ Key(j) = Key(k)
        BY <3>2 DEF ContextInv, ListInv, StepOf
      <3>4. j # k
        BY <3>3 DEF Connecting
      <3> QED
        BY <3>1, <3>3, <3>4
    <2> QED
      BY <2>1, <2>2 DEF ContextsAreKept, CountsCoverHolders
  <1> QED
    BY <1>1, <1>2, <1>3, PTL DEF ContextSpec

==============================================================================
