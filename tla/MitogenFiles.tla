---------------------------- MODULE MitogenFiles ----------------------------
(***************************************************************************)
(* FileService of mitogen/service.py and transfer_file() of                *)
(* ansible_mitogen/target.py: the contexts that are reached by one stream  *)
(* share its window.  A transfer is a request, its metadata, chunks that   *)
(* the requestee acknowledges one by one, and an end; files are pumped in  *)
(* turn while the chunks that were not acknowledged fit the window.  A     *)
(* context may be lost, and the service may be shut down, at any time.     *)
(* Sizes are in chunks of IO_SIZE.                                         *)
(***************************************************************************)
EXTENDS Naturals, Sequences, FiniteSets, FiniteSetsExt, SequencesExt, Functions

CONSTANTS
    Requestees,     \* contexts on the stream, each fetches a file once
    Size,           \* Size[c]: of the file that c fetches
    Readable,       \* those whose file the service can open
    Window          \* window_size_bytes

VARIABLES
    at,         \* at[c]: where transfer_file() of c is
    got,        \* received_bytes
    inbox,      \* inbox[c]: what was sent to c
    requests,   \* fetch() calls on their way
    acks,       \* acks[c]: acknowledge() calls of c on their way
    jobs,       \* FileStreamState.jobs: the requestee, and what is left of its file
    unacked,
    pumping,    \* the stream's lock is held by _schedule_pending_unlocked()
    stopped     \* on_shutdown() was called

fileVars == <<at, got, inbox, requests, acks, jobs, unacked, pumping, stopped>>

FileTypeOK ==
    /\ at \in [Requestees -> {"idle", "asked", "receiving", "renamed", "unlinked", "lost"}]
    /\ \A c \in Requestees : got[c] \in 0..Size[c] /\ ToSet(inbox[c]) \subseteq {"stat", "chunk", "end", "error"}
    /\ unacked \in 0..Window /\ {pumping, stopped} \subseteq BOOLEAN /\ requests \subseteq Requestees

Init ==
    /\ at = [c \in Requestees |-> "idle"] /\ got = [c \in Requestees |-> 0]
    /\ inbox = [c \in Requestees |-> <<>>] /\ requests = {} /\ acks = got
    /\ jobs = <<>> /\ unacked = 0 /\ pumping = FALSE /\ stopped = FALSE

Sent(c, msg) == [inbox EXCEPT ![c] = Append(@, msg)]
Move(c, to) == at' = [at EXCEPT ![c] = to]

----------------------------------------------------------------------------
(* The requestee: FileService.get(), and the file that replaces another.   *)

Ask(c) ==
    /\ at[c] = "idle" /\ ~stopped
    /\ Move(c, "asked") /\ requests' = requests \cup {c}
    /\ UNCHANGED <<got, inbox, acks, jobs, unacked, pumping, stopped>>

Metadata(c) ==
    /\ at[c] = "asked" /\ inbox[c] # <<>>
    /\ Move(c, IF Head(inbox[c]) = "stat" THEN "receiving" ELSE "unlinked")
    /\ inbox' = [inbox EXCEPT ![c] = Tail(@)]
    /\ UNCHANGED <<got, requests, acks, jobs, unacked, pumping, stopped>>

ReceiveChunk(c) ==
    /\ at[c] = "receiving" /\ inbox[c] # <<>> /\ Head(inbox[c]) = "chunk"
    /\ inbox' = [inbox EXCEPT ![c] = Tail(@)]
    /\ got' = [got EXCEPT ![c] = @ + 1] /\ acks' = [acks EXCEPT ![c] = @ + 1]
    /\ UNCHANGED <<at, requests, jobs, unacked, pumping, stopped>>

\* A file that is not complete is discarded.
ReceiveEnd(c) ==
    /\ at[c] = "receiving" /\ inbox[c] # <<>> /\ Head(inbox[c]) = "end"
    /\ inbox' = [inbox EXCEPT ![c] = Tail(@)]
    /\ Move(c, IF got[c] = Size[c] THEN "renamed" ELSE "unlinked")
    /\ UNCHANGED <<got, requests, acks, jobs, unacked, pumping, stopped>>

Lost(c) ==
    /\ at[c] \notin {"idle", "lost"} /\ Move(c, "lost")
    /\ UNCHANGED <<got, inbox, requests, acks, jobs, unacked, pumping, stopped>>

----------------------------------------------------------------------------
(* The service.  Pool's workers run its methods, the stream's lock in turn. *)

\* fetch(): the metadata goes before the first chunk.  For a context whose route is gone
\* the transfer is not the stream's.
Fetch(c) ==
    /\ c \in requests /\ requests' = requests \ {c} /\ ~pumping /\ ~stopped
    /\ IF c \in Readable
       THEN /\ inbox' = Sent(c, "stat")
            /\ \/ jobs' = Append(jobs, [to |-> c, left |-> Size[c]]) /\ pumping' = TRUE
               \/ at[c] = "lost" /\ UNCHANGED <<jobs, pumping>>
       ELSE inbox' = Sent(c, "error") /\ UNCHANGED <<jobs, pumping>>
    /\ UNCHANGED <<at, got, acks, unacked, stopped>>

\* Slip: the drained window is filled by the next fetch().
AcknowledgeOnly(c) ==
    /\ acks[c] > 0 /\ ~pumping /\ ~stopped
    /\ acks' = [acks EXCEPT ![c] = @ - 1] /\ unacked' = unacked - 1
    /\ UNCHANGED <<at, got, inbox, requests, jobs, pumping, stopped>>

\* acknowledge(): a KeyError when there is no route to who sent it.
Acknowledge(c) ==
    /\ acks[c] > 0 /\ ~pumping /\ ~stopped
    /\ acks' = [acks EXCEPT ![c] = @ - 1]
    /\ \/ unacked' = unacked - 1 /\ pumping' = TRUE
       \/ at[c] = "lost" /\ UNCHANGED <<unacked, pumping>>
    /\ UNCHANGED <<at, got, inbox, requests, jobs, stopped>>

Fits == jobs # <<>> /\ unacked < Window

\* _schedule_pending_unlocked(): a chunk of the first file, or its end.
Pump ==
    /\ pumping /\ Fits
    /\ LET job == Head(jobs) IN
       IF job.left > 0
       THEN /\ jobs' = [jobs EXCEPT ![1].left = @ - 1] /\ unacked' = unacked + 1
            /\ inbox' = Sent(job.to, "chunk")
       ELSE jobs' = Tail(jobs) /\ inbox' = Sent(job.to, "end") /\ UNCHANGED unacked
    /\ UNCHANGED <<at, got, requests, acks, pumping, stopped>>

Pumped ==
    /\ pumping /\ ~Fits /\ pumping' = FALSE
    /\ UNCHANGED <<at, got, inbox, requests, acks, jobs, unacked, stopped>>

\* on_shutdown(), when the pool's workers have ended: every receive loop is closed.  Of
\* the requests that nobody took, those that come later are refused.
Shutdown ==
    /\ ~stopped /\ ~pumping /\ stopped' = TRUE
    /\ \E refused \in SUBSET requests :
         inbox' = [c \in Requestees |->
                     inbox[c] \o (IF c \in {jobs[i].to : i \in DOMAIN jobs} THEN <<"end">> ELSE <<>>)
                              \o (IF c \in refused THEN <<"error">> ELSE <<>>)]
    /\ jobs' = <<>> /\ requests' = {}
    /\ UNCHANGED <<at, got, acks, unacked, pumping>>

Requestee(c) == Metadata(c) \/ ReceiveChunk(c) \/ ReceiveEnd(c)
Next ==
    \/ \E c \in Requestees : Ask(c) \/ Requestee(c) \/ Lost(c) \/ Fetch(c) \/ Acknowledge(c)
    \/ Pump \/ Pumped \/ Shutdown

\* What the contexts that were not lost, and the pool's workers, do until there is nothing left.
Progress == Pump \/ Pumped \/ \E c \in Requestees : Requestee(c) \/ Fetch(c) \/ Acknowledge(c)
Fairness == WF_fileVars(Progress)
Spec == Init /\ [][Next]_fileVars

----------------------------------------------------------------------------
(* Properties.                                                             *)

\* A transfer that is asked for ends, by the shutdown if it had begun.  But what a lost
\* context did not acknowledge stays in the window of all the contexts on the stream
\* (service.py:995, 1111): when it fills the window, the others wait for the shutdown.
Unread(c) == Len(SelectSeq(inbox[c], LAMBDA msg : msg = "chunk"))
ToCome == MapThenSumSet(LAMBDA c : acks[c] + (IF at[c] = "lost" THEN 0 ELSE Unread(c)), Requestees)
WindowIsLost == ~stopped /\ unacked - ToCome >= Window
Unheard(c) == stopped /\ at[c] = "asked"
TransfersEnd ==
    []<>(\A c \in Requestees :
            at[c] \in {"idle", "renamed", "unlinked", "lost"} \/ Unheard(c) \/ WindowIsLost)
=============================================================================
