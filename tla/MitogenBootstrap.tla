-------------------------- MODULE MitogenBootstrap --------------------------
(***************************************************************************)
(* A new context comes up: Connection._first_stage(), get_preamble() and   *)
(* BootstrapProtocol of mitogen/parent.py, ExternalContext.main() and      *)
(* LogHandler of mitogen/core.py, and mitogen/fork.py.  The first stage    *)
(* forks: one process execs an interpreter whose input is a pipe, the      *)
(* other reads the core's source from the parent and writes it to the      *)
(* interpreter twice, as its script and for the modules of children.       *)
(* Everything is larger than a pipe: who writes waits for who reads.       *)
(***************************************************************************)
EXTENDS Naturals, Sequences, SequencesExt

CONSTANT MaxLogs        \* bound: log messages during the bootstrap

ASSUME BootAssumption == MaxLogs \in Nat

VARIABLES
    method,     \* "exec", or "fork" of a context that is there
    length,     \* what is sent, against the length in the command: "same", "longer", "shorter"
    stdin,      \* what is on the child's input: "nothing" or "preamble"
    feeder,     \* the first stage's child: where it is
    interp,     \* the interpreter
    wends,      \* who has the write end of the interpreter's input
    corked, logged,         \* LogHandler: whether it buffers, and how many messages it got
    earlyLogs, buffer,      \* how many it got before uncork(), and what it still buffers
    output,     \* lines and messages on the child's output, which the parent has not read
    peer,       \* the parent: "waiting", "sent", "connected", "failed"
    seen,       \* messages that MitogenProtocol got
    junk        \* something of one protocol was read by the other

bootVars == <<method, length, stdin, feeder, interp, wends, corked, logged, earlyLogs, buffer,
              output, peer, seen, junk>>

Log(n) == [kind |-> "log", of |-> n]
Line(text) == [kind |-> "line", of |-> text]

BootTypeOK ==
    /\ feeder \in {"none", "hello", "read", "script", "core", "ready", "gone"}
    /\ interp \in {"exec", "script", "core", "reap", "stdio", "announce", "uncork", "flush", "run", "dead"}
    /\ wends \subseteq {"feeder", "interp"} /\ corked \in BOOLEAN /\ junk \in BOOLEAN
    /\ peer \in {"waiting", "sent", "connected", "failed"} /\ logged \in 0..MaxLogs

\* popen() of the command, or os.fork(): a forked child writes the last marker first of all.
BootInit ==
    /\ method \in {"exec", "fork"}
    /\ length = "same" /\ stdin = "nothing"
    /\ feeder = IF method = "exec" THEN "hello" ELSE "none"
    /\ interp = IF method = "exec" THEN "exec" ELSE "stdio"
    /\ wends = IF method = "exec" THEN {"feeder", "interp"} ELSE {}
    /\ corked = TRUE /\ logged = 0 /\ earlyLogs = 0 /\ buffer = <<>>
    /\ peer = "waiting" /\ seen = <<>> /\ junk = FALSE
    /\ output = IF method = "exec" THEN <<>> ELSE <<Line("EC2")>>

----------------------------------------------------------------------------
(* The first stage's child.                                                *)

Feeder(from, to) == feeder = from /\ interp # "dead" /\ feeder' = to
                    /\ UNCHANGED <<method, length, corked, logged, earlyLogs, buffer, peer, seen, junk>>

Hello ==
    /\ Feeder("hello", "read")
    /\ output' = Append(output, Line("EC0"))
    /\ UNCHANGED <<stdin, interp, wends>>
\* As many bytes as the command says: it waits for those that do not come.
ReadPreamble ==
    /\ Feeder("read", "script") /\ stdin = "preamble" /\ length = "same"
    /\ stdin' = "nothing"
    /\ UNCHANGED <<output, interp, wends>>
\* zlib.decompress() of a stream that is cut off raises: the process ends, and its ends of the
\* pipes with it.
ReadTruncated ==
    /\ Feeder("read", "gone") /\ stdin = "preamble" /\ length = "longer"
    /\ stdin' = "nothing" /\ wends' = wends \ {"feeder"}
    /\ UNCHANGED <<output, interp>>
WriteScript ==
    /\ Feeder("script", "core") /\ interp = "script"
    /\ wends' = wends \ {"feeder"}
    /\ UNCHANGED <<output, interp, stdin>>
WriteCore ==
    /\ Feeder("core", "ready") /\ interp = "core"
    /\ interp' = "reap"
    /\ UNCHANGED <<output, wends, stdin>>
SayReady ==
    /\ Feeder("ready", "gone")
    /\ output' = Append(output, Line("EC1"))
    /\ UNCHANGED <<interp, wends, stdin>>

----------------------------------------------------------------------------
(* The interpreter.                                                        *)

Interp(from, to) == interp = from /\ interp' = to
                    /\ UNCHANGED <<method, length, stdin, feeder, peer, seen, junk>>

\* Slip: the write end of its own input is not closed before the interpreter is executed.
ExecOpen ==
    /\ Interp("exec", "script")
    /\ UNCHANGED <<wends, corked, logged, earlyLogs, buffer, output>>
Exec ==
    /\ Interp("exec", "script")
    /\ wends' = wends \ {"interp"}
    /\ UNCHANGED <<corked, logged, earlyLogs, buffer, output>>
\* The script runs when its input ends: _setup_master(), _setup_logging().
RunScript ==
    /\ Interp("script", "core") /\ wends = {} /\ feeder # "gone"
    /\ UNCHANGED <<wends, corked, logged, earlyLogs, buffer, output>>
\* The input ends and nothing was written: the interpreter has nothing to run, and ends.
RunNothing ==
    /\ Interp("script", "dead") /\ wends = {} /\ feeder = "gone"
    /\ UNCHANGED <<wends, corked, logged, earlyLogs, buffer, output>>
\* _reap_first_stage() waits for the first stage's child.
ReapFirstStage ==
    /\ Interp("reap", "stdio") /\ feeder = "gone"
    /\ UNCHANGED <<wends, corked, logged, earlyLogs, buffer, output>>
\* _setup_stdio(): what is printed from here on is logged; the dispatcher, and the stream.
SetupStdio ==
    /\ Interp("stdio", IF method = "fork" THEN "uncork" ELSE "announce")
    /\ UNCHANGED <<wends, corked, logged, earlyLogs, buffer, output>>
Announce ==
    /\ Interp("announce", "uncork")
    /\ output' = Append(output, Line("EC2"))
    /\ UNCHANGED <<wends, corked, logged, earlyLogs, buffer>>
\* LogHandler.uncork() holds the lock from here on, but emit() does not take it any more.
Uncork ==
    /\ Interp("uncork", "flush")
    /\ corked' = FALSE
    /\ UNCHANGED <<wends, logged, earlyLogs, buffer, output>>
Flush ==
    /\ Interp("flush", IF buffer = <<>> THEN "run" ELSE "flush")
    /\ output' = output \o (IF buffer = <<>> THEN <<>> ELSE <<Log(Head(buffer))>>)
    /\ buffer' = IF buffer = <<>> THEN <<>> ELSE Tail(buffer)
    /\ UNCHANGED <<wends, corked, logged, earlyLogs>>
\* LogHandler.emit(), of any thread, once the handler is installed.
Emit ==
    /\ interp \in {"core", "reap", "stdio", "announce", "uncork", "flush", "run"} /\ logged < MaxLogs
    /\ logged' = logged + 1
    /\ earlyLogs' = IF corked THEN logged + 1 ELSE earlyLogs
    /\ buffer' = IF corked THEN Append(buffer, logged + 1) ELSE buffer
    /\ output' = IF corked THEN output ELSE Append(output, Log(logged + 1))
    /\ UNCHANGED <<method, length, stdin, feeder, interp, wends, corked, peer, seen, junk>>
\* The child is lost, at any time, with both of its processes.
Die ==
    /\ interp # "dead"
    /\ interp' = "dead" /\ feeder' = IF feeder = "none" THEN "none" ELSE "gone"
    /\ UNCHANGED <<method, length, stdin, wends, corked, logged, earlyLogs, buffer, output, peer, seen, junk>>

----------------------------------------------------------------------------
(* The parent.                                                             *)

\* get_preamble() is called for the length, and again to be sent: the router's lists of
\* modules and the log level, which are in it, may have changed.
Reconfigure ==
    /\ method = "exec" /\ peer = "waiting" /\ length = "same" /\ stdin = "nothing"
    /\ length' \in {"longer", "shorter"}
    /\ UNCHANGED <<method, stdin, feeder, interp, wends, corked, logged, earlyLogs, buffer, output, peer, seen, junk>>

IsLine(x) == x.kind = "line"
\* The lines up to the one after which another protocol takes over.
Lines(s) ==
    LET last == {k \in DOMAIN s : s[k] = Line("EC2")} IN
    IF last = {} THEN s ELSE SubSeq(s, 1, CHOOSE k \in last : \A j \in last : k <= j)
\* Slip: what was read with the last line is dropped with it.
NoTrailer(s) == <<>>
\* iter_split() and DelimitedProtocol.on_receive(): the rest is for the new protocol.
Trailer(s) == SubSeq(s, Len(Lines(s)) + 1, Len(s))

\* Whatever has come is read at once.
ReadBootstrap ==
    /\ peer \in {"waiting", "sent"} /\ output # <<>>
    /\ LET s == Lines(output)
           ec0 == Contains(s, Line("EC0"))
           ec2 == Contains(s, Line("EC2")) IN
       /\ stdin' = IF ec0 THEN "preamble" ELSE stdin
       /\ peer' = CASE ec2 -> "connected" [] ~ec2 /\ ec0 -> "sent" [] OTHER -> peer
       /\ junk' = (junk \/ \E x \in ToSet(s) : ~IsLine(x))
       /\ seen' = Trailer(output) /\ output' = <<>>
    /\ UNCHANGED <<method, length, feeder, interp, wends, corked, logged, earlyLogs, buffer>>
ReceiveLogs ==
    /\ peer = "connected" /\ output # <<>>
    /\ seen' = seen \o output /\ output' = <<>>
    /\ junk' = (junk \/ \E x \in ToSet(output) : IsLine(x))
    /\ UNCHANGED <<method, length, stdin, feeder, interp, wends, corked, logged, earlyLogs, buffer, peer>>
\* The connection fails with its stream; a preamble that is too short does by its timeout.
ConnectionFails ==
    /\ peer \in {"waiting", "sent"} /\ output = <<>>
    /\ interp = "dead" \/ length = "shorter"
    /\ peer' = "failed" /\ interp' = "dead"
    /\ UNCHANGED <<method, length, stdin, feeder, wends, corked, logged, earlyLogs, buffer, output, seen, junk>>

BootProgress ==
    \/ Hello \/ ReadPreamble \/ ReadTruncated \/ WriteScript \/ WriteCore \/ SayReady
    \/ Exec \/ RunScript \/ RunNothing \/ ReapFirstStage \/ SetupStdio \/ Announce \/ Uncork \/ Flush
    \/ ReadBootstrap \/ ReceiveLogs \/ ConnectionFails
BootNext == BootProgress \/ Emit \/ Die \/ Reconfigure
BootSpec == BootInit /\ [][BootNext]_bootVars /\ WF_bootVars(BootProgress)

----------------------------------------------------------------------------

\* Every child that is started comes up, or is told to have failed: none of the processes
\* waits for ever for another to read, to close or to end.  That is []<>BootAnswered.
BootAnswered == peer \in {"connected", "failed"}

Logs(s) == {i \in DOMAIN s : s[i].kind = "log"}
Numbers(s) == {s[i].of : i \in Logs(s)}
\* Of those up to e, and of those after it.
InOrder(s, e) == \A i, j \in Logs(s) : i < j /\ (s[i].of <= e <=> s[j].of <= e) => s[i].of < s[j].of

\* Nothing that is logged is lost or comes twice, from the beginning of the bootstrap on.
\* What was logged before uncork() comes in its order, and so does what was logged after
\* it, but the later may overtake the earlier; what is still buffered is the last of what
\* was logged before.  Neither protocol reads what was meant for the other.
LogsArrive ==
    LET sent == seen \o output
        flushed == earlyLogs - Len(buffer) IN
    /\ ~junk
    /\ peer # "failed" =>
        /\ Numbers(sent) = 1..flushed \cup (earlyLogs + 1)..logged /\ InOrder(sent, earlyLogs)
        /\ \A k \in DOMAIN buffer : buffer[k] = flushed + k
=============================================================================
