---------------------------- MODULE MitogenAsync ----------------------------
(***************************************************************************)
(* Asynchronous jobs: _invoke_async_task() of ansible_mitogen/planner.py,  *)
(* and AsyncRunner of target.py in the child that runs the module.  The    *)
(* child writes its status to a file, next to it and renamed, tells the    *)
(* controller that it started, detaches from its parent and goes on when   *)
(* the play is over.  A timer ends it: the signal handler runs on the main *)
(* thread, between any two of its steps, and writes the same files.        *)
(***************************************************************************)
EXTENDS Naturals

VARIABLES
    pc,         \* where the main thread is
    what,       \* the status it is writing
    mine,       \* the file it has open: "none", the "tmp" file or the "job" file
    tmp, job,   \* what the files hold
    alarm,      \* "unset", "armed" or "fired"
    lost,       \* the last _update() could not write its status
    detached, stopping, gone,
    parent,     \* "up" or "gone"
    early,      \* the parent was gone before the job had detached
    answer      \* what _invoke_async_task() did: "none", "returned" or "raised"

asyncVars == <<pc, what, mine, tmp, job, alarm, lost, detached, stopping, gone, parent, early,
               answer>>

Final == {"timeout", "result", "failed", "crashed", "garbled"}

AsyncTypeOK ==
    /\ pc \in {"open", "close", "rename", "tell", "arm", "setup", "detach", "ask", "module", "finish", "end"}
    /\ what \in {"started", "result", "failed", "crashed"} /\ mine \in {"none", "tmp", "job"}
    /\ tmp \in {"none", "empty", "started", "result", "failed", "crashed"}
    /\ job \in Final \cup {"none", "started"}
    /\ answer \in {"none", "returned", "raised"}

\* The child has been forked and its dependencies propagated.
AsyncInit ==
    /\ pc = "open" /\ what = "started" /\ mine = "none" /\ tmp = "none" /\ job = "none"
    /\ alarm = "unset" /\ lost = FALSE /\ detached = FALSE /\ stopping = FALSE /\ gone = FALSE
    /\ parent = "up" /\ early = FALSE /\ answer = "none"

Main(at) == ~gone /\ pc = at
\* What the main thread leaves alone unless it says otherwise.
LeftAlone == UNCHANGED <<detached, stopping, gone, parent, early, answer>>
SameFiles == UNCHANGED <<mine, tmp, job>>

----------------------------------------------------------------------------
(* _update(), and what the main thread does around it.                     *)

Write(status) == pc' = "open" /\ what' = status
\* _run() records that it could not write the result, run() what _run() raises; what run()
\* itself raises is not recorded.
NotWritten ==
    \/ what = "result" /\ Write("failed")
    \/ what \in {"started", "failed"} /\ Write("crashed")
    \/ what = "crashed" /\ pc' = "finish" /\ UNCHANGED what

OpenTmp ==
    /\ Main("open")
    /\ tmp' = "empty" /\ mine' = "tmp" /\ pc' = "close"
    /\ UNCHANGED <<what, job, alarm, lost>> /\ LeftAlone
\* A file that the handler has renamed holds its text below that of the main thread.
CloseTmp ==
    /\ Main("close")
    /\ mine' = "none" /\ pc' = "rename"
    /\ IF mine = "tmp" THEN tmp' = what /\ UNCHANGED job
       ELSE job' \in {what, "garbled"} /\ UNCHANGED tmp
    /\ UNCHANGED <<what, alarm, lost>> /\ LeftAlone
\* The file cannot be opened, or is not written to the end and stays behind.
UpdateFails ==
    /\ Main("open") \/ Main("close")
    /\ NotWritten /\ mine' = "none" /\ lost' = TRUE
    /\ job' \in IF mine = "job" THEN {job, "garbled"} ELSE {job}
    /\ UNCHANGED <<tmp, alarm>> /\ LeftAlone
After == CASE what = "started" -> "tell" [] OTHER -> "finish"
Rename ==
    /\ Main("rename") /\ tmp # "none"
    /\ job' = tmp /\ tmp' = "none" /\ lost' = FALSE /\ pc' = After
    /\ UNCHANGED <<what, mine, alarm>> /\ LeftAlone
\* The handler has renamed the file.
RenameFails ==
    /\ Main("rename") /\ tmp = "none"
    /\ NotWritten /\ SameFiles
    /\ UNCHANGED <<alarm, lost>> /\ LeftAlone

\* Slip: an exception ends the process and is not written to the file.
RaiseQuietly == pc' = "finish" /\ UNCHANGED what
\* run(): an exception becomes the job's status, and the process ends in any case.
Raise == Write("crashed")

\* started_sender.send().
Tell ==
    /\ Main("tell")
    /\ answer' = IF parent = "up" /\ answer = "none" THEN "returned" ELSE answer
    /\ pc' = "arm" /\ SameFiles
    /\ UNCHANGED <<what, alarm, lost, detached, stopping, gone, parent, early>>
\* A job without a time limit has no timer.
Arm ==
    /\ Main("arm")
    /\ alarm' \in {"unset", "armed"} /\ pc' = "setup" /\ SameFiles
    /\ UNCHANGED <<what, lost>> /\ LeftAlone
\* Runner.setup() fetches what the module needs from the controller.
SetUp ==
    /\ Main("setup")
    /\ (pc' = "detach" /\ UNCHANGED what) \/ Raise
    /\ UNCHANGED <<alarm, lost>> /\ SameFiles /\ LeftAlone
\* ExternalContext.detach(): from here on the loss of the parent does not stop the job.  A
\* parent that is gone is not told.
Detach ==
    /\ Main("detach")
    /\ detached' = TRUE
    /\ pc' = IF parent = "gone" THEN "module" ELSE "ask"
    /\ UNCHANGED <<what, alarm, lost, stopping, gone, parent, early, answer>> /\ SameFiles
\* It waits for the answer to DETACHING: a parent that goes away meanwhile raises.
AskToDetach ==
    /\ Main("ask")
    /\ (pc' = "module" /\ UNCHANGED what) \/ (parent = "gone" /\ Raise)
    /\ UNCHANGED <<alarm, lost>> /\ SameFiles /\ LeftAlone
\* The module returns, or raises; a result that came after the timer is not written.
Module ==
    /\ Main("module")
    /\ \/ alarm # "fired" /\ Write("result")
       \/ alarm = "fired" /\ pc' = "finish" /\ UNCHANGED what
       \/ Raise
    /\ UNCHANGED <<alarm, lost>> /\ SameFiles /\ LeftAlone
\* A result that is not JSON: _update() is not reached.
Unparsed ==
    /\ Main("open") /\ what = "result"
    /\ Write("failed") /\ SameFiles
    /\ UNCHANGED <<alarm, lost>> /\ LeftAlone
Finish ==
    /\ Main("finish")
    /\ stopping' = TRUE /\ pc' = "end" /\ SameFiles
    /\ UNCHANGED <<what, alarm, lost, detached, gone, parent, early, answer>>

----------------------------------------------------------------------------
(* The timer, the broker, the parent and the controller.                   *)

\* _on_sigalrm(): its own _update() cuts the file that the main thread may be writing, and
\* renames it.
Alarm ==
    /\ ~gone /\ alarm = "armed"
    /\ alarm' = "fired" /\ job' = "timeout" /\ tmp' = "none" /\ lost' = FALSE
    /\ mine' = IF mine = "tmp" THEN "job" ELSE mine
    /\ stopping' = TRUE
    /\ UNCHANGED <<pc, what, detached, gone, parent, early, answer>>
\* The handler cannot write: its exception is raised where the main thread is, and neither
\* _timed_out nor the shutdown is reached.  One that hits the last step ends the thread only.
AlarmFails ==
    /\ ~gone /\ alarm = "armed"
    /\ alarm' = "unset" /\ lost' = TRUE /\ mine' = "none"
    /\ \/ pc \in {"setup", "detach", "ask", "module"} /\ Raise
       \/ pc \in {"open", "close", "rename"} /\ NotWritten
       \/ pc \in {"finish", "end"} /\ pc' = "end" /\ UNCHANGED what
    /\ UNCHANGED <<tmp, job>> /\ LeftAlone
JobDies == gone' = TRUE /\ answer' = IF answer = "none" THEN "raised" ELSE answer
\* ExternalContext._on_broker_exit() kills the process, wherever the main thread is.
OnBrokerExit ==
    /\ stopping /\ ~gone
    /\ JobDies
    /\ UNCHANGED <<pc, what, mine, tmp, job, alarm, lost, detached, stopping, parent, early>>
\* Somebody else kills it, or its host stops.
Killed ==
    /\ ~stopping /\ ~gone
    /\ JobDies
    /\ UNCHANGED <<pc, what, mine, tmp, job, alarm, lost, detached, stopping, parent, early>>
\* The play ends, or the parent dies: a job that has not detached stops.
LoseParent ==
    /\ ~gone /\ parent = "up"
    /\ parent' = "gone"
    /\ early' = ~detached /\ stopping' = (stopping \/ ~detached)
    /\ answer' = IF answer = "none" THEN "raised" ELSE answer
    /\ UNCHANGED <<pc, what, mine, tmp, job, alarm, lost, detached, gone>>

AsyncNext ==
    \/ OpenTmp \/ CloseTmp \/ UpdateFails \/ Rename \/ RenameFails \/ Unparsed
    \/ Tell \/ Arm \/ SetUp \/ Detach \/ AskToDetach \/ Module \/ Finish
    \/ Alarm \/ AlarmFails \/ OnBrokerExit \/ Killed \/ LoseParent
AsyncSpec == AsyncInit /\ [][AsyncNext]_asyncVars

----------------------------------------------------------------------------

\* Who asks for a job's status after the task has returned finds a file.  When the process
\* has stopped of itself the file says how the job ended, and not that it runs, but for two
\* accidents: the parent was lost before the job had detached, or the last status could not be
\* written; a failure that a later status makes good is none.  The file cannot be read only
\* when the timer ended the job while the main thread wrote a status of its own.
JobIsAccountedFor ==
    /\ answer = "returned" => job # "none"
    /\ gone /\ stopping /\ ~early /\ ~lost => job \in Final
    /\ job = "garbled" => alarm = "fired" /\ what # "started"
=============================================================================
