---------------------------- MODULE MitogenRunner ----------------------------
(***************************************************************************)
(* Modules of synchronous tasks, run one after the other in the process of *)
(* their account: planner.py chooses a runner and whether a module gets a  *)
(* process of its own, runner.py patches the process for the module,       *)
(* executes it and takes the patches back.                                 *)
(***************************************************************************)
EXTENDS Naturals, Sequences, SequencesExt, Functions

CONSTANT Plays      \* sequences of [kind, isolated, writes] that a play may make

VARIABLES
    tasks,      \* tasks to come
    process,    \* what is patched: "clean", by the "task", by its "module", or "left" by one before
    saved,      \* what the runner found where it patched
    stage,      \* "idle", "setup", "run" or "revert"
    step,
    failed,     \* the setup of a task has failed
    replaced    \* a module has put its own function in the place of atexit.register

runnerVars == <<tasks, process, saved, stage, step, failed, replaced>>

Patches == {"cwd", "environ", "tempdir", "stdio", "argv", "mkstemp", "importer", "excepthook", "atexit"}
\* A task: how its module runs, and what the module's own code changes in the process.
Invocations == [kind : {"new", "program"}, isolated : BOOLEAN, writes : SUBSET Patches]
ASSUME RunnerAssumption == Plays \subseteq Seq(Invocations)

\* What setup() does, base classes first.  Programs and their arguments go to files, the
\* source of a new-style module is fetched; its imports are made before it runs.
Setup(kind) ==
    IF kind = "new"
    THEN <<"cwd", "environ", "fetch", "tempdir", "stdio", "argv", "mkstemp", "importer", "imports",
           "excepthook", "atexit">>
    ELSE <<"cwd", "environ", "tempdir", "program", "args">>
\* Steps that fail: a directory that is not there, one that cannot be made, a lost parent.
CanFail(s) == s \in {"cwd", "tempdir", "fetch", "imports", "program", "args"}
\* Slip: the hook that a module installs is left to the next one.
RevertNoHook(kind) ==
    IF kind = "new"
    THEN <<"atexit", "mkstemp", "argv", "stdio", "cwd", "environ", "tempdir">>
    ELSE <<"cwd", "environ", "tempdir">>
\* revert(), subclasses first.  The importer of custom module_utils has no part in it.
Revert(kind) ==
    IF kind = "new"
    THEN <<"atexit", "mkstemp", "argv", "stdio", "excepthook", "cwd", "environ", "tempdir">>
    ELSE <<"cwd", "environ", "tempdir">>
RunnerTypeOK ==
    /\ process \in [Patches -> {"clean", "task", "module", "left"}]
    /\ stage \in {"idle", "setup", "run", "revert"} /\ step \in 0..12
    /\ failed \in BOOLEAN /\ replaced \in BOOLEAN

RunnerInit ==
    /\ tasks \in Plays
    /\ process = [p \in Patches |-> "clean"] /\ saved = process
    /\ stage = "idle" /\ step = 0 /\ failed = FALSE /\ replaced = FALSE

Task == Head(tasks)
Ended == stage' = "idle" /\ step' = 0 /\ tasks' = Tail(tasks)
\* An exception on the way: nothing that is patched is taken back.
Abandoned == process' = [p \in Patches |-> IF process[p] = "clean" THEN "clean" ELSE "left"]

\* planner.invoke(): a module that should_fork() runs in a child that is shut down after.
InvokeModule ==
    /\ stage = "idle" /\ tasks # <<>>
    /\ IF Task.isolated THEN Ended ELSE stage' = "setup" /\ step' = 1 /\ UNCHANGED tasks
    /\ UNCHANGED <<process, saved, failed, replaced>>

\* The hook is only saved: modules install their own.
Set(s) == process' = IF s = "excepthook" THEN process ELSE [process EXCEPT ![s] = "task"]
\* AtExitWrapper asserts that it is not installed twice.
Wrapped(s) == s = "atexit" /\ process[s] # "clean"
SetupStep ==
    /\ stage = "setup" /\ step <= Len(Setup(Task.kind))
    /\ LET s == Setup(Task.kind)[step] IN
       /\ ~Wrapped(s)
       /\ IF s \in Patches THEN Set(s) /\ saved' = [saved EXCEPT ![s] = process[s]]
          ELSE UNCHANGED <<process, saved>>
    /\ step' = step + 1
    /\ UNCHANGED <<tasks, stage, failed, replaced>>
\* setup() is not in the try block of run(): nothing is reverted.
SetupFails ==
    /\ stage = "setup" /\ step <= Len(Setup(Task.kind))
    /\ CanFail(Setup(Task.kind)[step]) \/ Wrapped(Setup(Task.kind)[step])
    /\ Abandoned /\ failed' = TRUE
    /\ Ended
    /\ UNCHANGED <<saved, replaced>>
SetupEnds ==
    /\ stage = "setup" /\ step > Len(Setup(Task.kind))
    /\ stage' = "run" /\ step' = 1
    /\ UNCHANGED <<tasks, process, saved, failed, replaced>>

\* The module's code runs in the process; a program has its own.  However it ends, exit,
\* exception or result, run() goes on to revert().
Execute ==
    /\ stage = "run"
    /\ process' = [p \in Patches |-> IF Task.kind = "new" /\ p \in Task.writes THEN "module" ELSE process[p]]
    /\ stage' = "revert" /\ step' = 1
    /\ UNCHANGED <<tasks, saved, failed, replaced>>

\* The working directory becomes good_temp_dir, if that is still there; the others become
\* what they were.
Restored(s) == CASE s = "cwd" -> {"clean", "left"} [] s = "tempdir" -> {"clean"} [] OTHER -> {saved[s]}
RevertStep ==
    /\ stage = "revert" /\ step <= Len(Revert(Task.kind))
    /\ LET s == Revert(Task.kind)[step] IN
       /\ s = "atexit" => process[s] = "task"
       /\ \E was \in Restored(s) : process' = [process EXCEPT ![s] = was]
    /\ step' = step + 1
    /\ UNCHANGED <<tasks, saved, stage, failed, replaced>>
\* AtExitWrapper.revert() comes first, and asserts that its own function is still there.
RevertFails ==
    /\ stage = "revert" /\ step <= Len(Revert(Task.kind))
    /\ Revert(Task.kind)[step] = "atexit" /\ process["atexit"] # "task"
    /\ Abandoned /\ replaced' = TRUE
    /\ Ended
    /\ UNCHANGED <<saved, failed>>
RevertEnds ==
    /\ stage = "revert" /\ step > Len(Revert(Task.kind))
    /\ Ended
    /\ UNCHANGED <<process, saved, failed, replaced>>

RunnerNext == InvokeModule \/ SetupStep \/ SetupFails \/ SetupEnds \/ Execute
              \/ RevertStep \/ RevertFails \/ RevertEnds
RunnerSpec == RunnerInit /\ [][RunnerNext]_runnerVars

----------------------------------------------------------------------------

\* A task finds the process as the first one did but for two accidents, whose patches stay
\* for the process's life: the setup of some task failed, or some module put its own function
\* in the place of atexit.register, so that the revert stopped at its first step.  Of what
\* else modules do, their importers are never taken back, and the return to the working
\* directory is but an attempt.  A failed setup leaves neither atexit.register wrapped nor
\* the excepthook of a module; and after the second accident no module runs in the process.
TasksFindItClean ==
    /\ stage = "idle" /\ ~failed /\ ~replaced => \A p \in Patches \ {"importer", "cwd"} : process[p] = "clean"
    /\ stage \in {"idle", "setup"} /\ ~replaced => process["atexit"] = "clean" \/ step > Len(Setup("new"))
    /\ stage = "idle" /\ ~replaced => process["excepthook"] = "clean"
    /\ stage = "run" /\ replaced => Task.kind # "new"
=============================================================================
