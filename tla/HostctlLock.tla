---------------------------- MODULE HostctlLock -----------------------------
(***************************************************************************)
(* The lock file that keeps hostctl from running twice on a host:          *)
(* exitIfScriptIsAlreadyRunning at the start of the script and endScript   *)
(* at its end (roles/hostctl/files/functions.sh), with every command on    *)
(* the file a step of its own.  A file that names no process is Empty; the *)
(* redirection that saves the PID empties the file before it writes.       *)
(***************************************************************************)
EXTENDS Naturals

CONSTANTS
    Scripts,    \* the executions of hostctl under way, or to come
    Pids,       \* process IDs; the system reuses those of processes that ended
    NoFile,     \* the lock file does not exist
    Empty,      \* the lock file names no process
    NoPid,      \* not a running process
    MaxLaunches   \* bound: launches per member of Scripts

ASSUME PidsAssumption == {NoFile, Empty, NoPid} \cap Pids = {} /\ MaxLaunches \in Nat

ASSUME FileAssumption == NoFile # Empty

VARIABLES
    lock,     \* the lock file
    pid,      \* pid[s]: the process that executes s
    step,     \* step[s]: what s does next
    lastPID,  \* lastPID[s]: what s read
    others,   \* the IDs of the other processes of the host
    starts,   \* starts[s]: launches so far
    raced,    \* history: two scripts were between read and write at once
    used,     \* history: the IDs that a process has had
    reused    \* history: a second process got one of those

lockVars == <<lock, pid, step, lastPID, others, starts, raced, used, reused>>

Steps == {"off", "create", "read", "test", "truncate", "write", "act", "exit"}

LockTypeOK ==
    /\ lock \in Pids \cup {NoFile, Empty}
    /\ pid \in [Scripts -> Pids \cup {NoPid}]
    /\ step \in [Scripts -> Steps]
    /\ lastPID \in [Scripts -> Pids \cup {Empty}]
    /\ others \subseteq Pids
    /\ starts \in [Scripts -> 0..MaxLaunches]
    /\ raced \in BOOLEAN
    /\ used \subseteq Pids /\ reused \in BOOLEAN

\* The processes: /proc has an entry for each.
Alive == others \cup {pid[s] : s \in {t \in Scripts : pid[t] # NoPid}}

\* Has read the lock file, and not yet written its own ID.
Checking(s) == step[s] \in {"test", "truncate", "write"}

Acting == {s \in Scripts : step[s] = "act"}

LockInit ==
    /\ lock = NoFile
    /\ pid = [s \in Scripts |-> NoPid]
    /\ step = [s \in Scripts |-> "off"]
    /\ lastPID = [s \in Scripts |-> Empty]
    /\ others = {}
    /\ starts = [s \in Scripts |-> 0]
    /\ raced = FALSE
    /\ used = {} /\ reused = FALSE

\* The process ends, with or without its lock file.
Gone(s) ==
    /\ pid' = [pid EXCEPT ![s] = NoPid]
    /\ step' = [step EXCEPT ![s] = "off"]
    /\ lastPID' = [lastPID EXCEPT ![s] = Empty]
    /\ UNCHANGED <<lock, others, starts, raced, used, reused>>

\* A process is forked with ID p.
Forked(p) ==
    /\ p \notin Alive
    /\ used' = used \cup {p}
    /\ reused' = (reused \/ p \in used)

Launch(s, p) ==
    /\ step[s] = "off" /\ starts[s] < MaxLaunches
    /\ Forked(p)
    /\ pid' = [pid EXCEPT ![s] = p]
    /\ step' = [step EXCEPT ![s] = "create"]
    /\ starts' = [starts EXCEPT ![s] = @ + 1]
    /\ UNCHANGED <<lock, lastPID, others, raced>>

\* Slip: > for >>.
CreateAfresh(s) ==
    /\ step[s] = "create"
    /\ lock' = Empty
    /\ step' = [step EXCEPT ![s] = "read"]
    /\ UNCHANGED <<pid, lastPID, others, starts, raced, used, reused>>

\* cat /dev/null >> $lf
CreateFile(s) ==
    /\ step[s] = "create"
    /\ lock' = IF lock = NoFile THEN Empty ELSE lock
    /\ step' = [step EXCEPT ![s] = "read"]
    /\ UNCHANGED <<pid, lastPID, others, starts, raced, used, reused>>

\* read lastPID < $lf, which leaves it empty if the file is no longer there.
Read(s) ==
    /\ step[s] = "read"
    /\ lastPID' = [lastPID EXCEPT ![s] = IF lock = NoFile THEN Empty ELSE lock]
    /\ step' = [step EXCEPT ![s] = "test"]
    /\ raced' = (raced \/ \E t \in Scripts \ {s} : Checking(t))
    /\ UNCHANGED <<lock, pid, others, starts, used, reused>>

\* Slip: any ID in the file blocks.
BlockedByAny(s) == lastPID[s] # Empty

Blocked(s) == lastPID[s] # Empty /\ lastPID[s] \in Alive

\* Slip: endScript for exit.
RefuseAndRemove(s) ==
    /\ step[s] = "test" /\ Blocked(s)
    /\ lock' = NoFile
    /\ pid' = [pid EXCEPT ![s] = NoPid]
    /\ step' = [step EXCEPT ![s] = "off"]
    /\ lastPID' = [lastPID EXCEPT ![s] = Empty]
    /\ UNCHANGED <<others, starts, raced, used, reused>>

\* exit 102
Refuse(s) ==
    /\ step[s] = "test" /\ Blocked(s)
    /\ Gone(s)

Proceed(s) ==
    /\ step[s] = "test" /\ ~Blocked(s)
    /\ step' = [step EXCEPT ![s] = "truncate"]
    /\ UNCHANGED <<lock, pid, lastPID, others, starts, raced, used, reused>>

\* echo $$ > $lf, in two steps.
Truncate(s) ==
    /\ step[s] = "truncate"
    /\ lock' = Empty
    /\ step' = [step EXCEPT ![s] = "write"]
    /\ UNCHANGED <<pid, lastPID, others, starts, raced, used, reused>>

WritePid(s) ==
    /\ step[s] = "write"
    /\ lock' = pid[s]
    /\ step' = [step EXCEPT ![s] = "act"]
    /\ UNCHANGED <<pid, lastPID, others, starts, raced, used, reused>>

\* endScript: rm -f $lf, then exit.
RemoveFile(s) ==
    /\ step[s] = "act"
    /\ lock' = NoFile
    /\ step' = [step EXCEPT ![s] = "exit"]
    /\ UNCHANGED <<pid, lastPID, others, starts, raced, used, reused>>

ExitScript(s) ==
    /\ step[s] = "exit"
    /\ Gone(s)

\* Ends without endScript: an unknown action, a reboot.
Bail(s) ==
    /\ step[s] = "act"
    /\ Gone(s)

\* Killed, at any step.
Crash(s) ==
    /\ step[s] # "off"
    /\ Gone(s)

Spawn(p) ==
    /\ Forked(p)
    /\ others' = others \cup {p}
    /\ UNCHANGED <<lock, pid, step, lastPID, starts, raced>>

Die(p) ==
    /\ p \in others
    /\ others' = others \ {p}
    /\ UNCHANGED <<lock, pid, step, lastPID, starts, raced, used, reused>>

LockNext ==
    \/ \E s \in Scripts :
          \/ \E p \in Pids : Launch(s, p)
          \/ CreateFile(s) \/ Read(s) \/ Refuse(s) \/ Proceed(s)
          \/ Truncate(s) \/ WritePid(s) \/ RemoveFile(s) \/ ExitScript(s)
          \/ Bail(s) \/ Crash(s)
    \/ \E p \in Pids : Spawn(p) \/ Die(p)

LockSpec == LockInit /\ [][LockNext]_lockVars

----------------------------------------------------------------------------
(* Correctness.                                                            *)

\* "the script can run only once at a time on a host" (functions.sh).
OneAtATime == \A s, t \in Acting : s = t

\* What the file does guarantee, whoever crashed and whatever ID was reused:
\* two hostctl act at once only after one read the file while another was
\* between its own read and write.
OneAtATimeUnlessRaced == raced \/ OneAtATime

\* Meanwhile the file names the script that acts, so that whoever comes next
\* is refused: no other script's end removes it.
ActorHoldsTheLock == raced \/ \A s \in Acting : lock = pid[s]

Refusing(s) == step[s] = "test" /\ Blocked(s)

\* "If script crashes and leaves lockfile around, it will have a different pid
\* so will not prevent script running again" (functions.sh).
CrashNeverBlocks ==
    \A s \in Scripts : Refusing(s) =>
        \E t \in Scripts \ {s} : pid[t] = lastPID[s]

\* That is so as long as the system does not reuse an ID: a script is then
\* refused only while the one whose ID it read is still there, however the
\* scripts before it ended.
CrashBlocksOnlyByReuse == reused \/ CrashNeverBlocks
=============================================================================
