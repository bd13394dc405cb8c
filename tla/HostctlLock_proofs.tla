------------------------ MODULE HostctlLock_proofs --------------------------
(***************************************************************************)
(* Proofs about HostctlLock, for any number of executions, launches and    *)
(* process IDs.                                                            *)
(***************************************************************************)
EXTENDS HostctlLock, TLAPS

\* A script that executes has a process, and its ID is its own.
ProcessInv ==
    /\ \A s \in Scripts : pid[s] = NoPid <=> step[s] = "off"
    /\ \A s, t \in Scripts : pid[s] = pid[t] /\ pid[s] # NoPid => s = t

\* Who acts excludes the others: the file names it, a script that is about to
\* decide has read its ID, and none has already decided to go ahead.
ExclusionInv ==
    /\ \A s, t \in Scripts : Checking(s) /\ Checking(t) => s = t
    /\ \A s, t \in Acting : s = t
    /\ \A s \in Acting : lock = pid[s]
    /\ \A s \in Acting, t \in Scripts :
          Checking(t) => step[t] = "test" /\ lastPID[t] = pid[s]

IInv == LockTypeOK /\ ProcessInv /\ (raced \/ ExclusionInv)

----------------------------------------------------------------------------
LEMMA InitInv == LockInit => IInv
  <1> SUFFICES ASSUME LockInit PROVE IInv
    OBVIOUS
  <1>1. \A s \in Scripts : step[s] = "off" /\ pid[s] = NoPid /\ starts[s] = 0
    BY DEF LockInit
  <1>2. LockTypeOK
    <2>1. 0 \in 0..MaxLaunches
      BY PidsAssumption
    <2>2. /\ starts \in [Scripts -> 0..MaxLaunches]
          /\ step \in [Scripts -> Steps]
          /\ pid \in [Scripts -> Pids \cup {NoPid}]
          /\ lastPID \in [Scripts -> Pids \cup {Empty}]
      BY <2>1 DEF LockInit, Steps
    <2> QED
      BY <2>2 DEF LockInit, LockTypeOK
  <1>3. ProcessInv
    BY <1>1 DEF ProcessInv
  <1>4. ExclusionInv
    BY <1>1 DEF ExclusionInv, Checking, Acting
  <1> QED
    BY <1>2, <1>3, <1>4 DEF IInv

\* The steps of one script that neither start nor end its process.
Onward(s) == CreateFile(s) \/ Read(s) \/ Proceed(s) \/ Truncate(s) \/ WritePid(s) \/ RemoveFile(s)

Ends(s) == Refuse(s) \/ ExitScript(s) \/ Bail(s) \/ Crash(s)

LEMMA NextCases ==
    ASSUME LockNext
    PROVE  \/ \E s \in Scripts, p \in Pids : Launch(s, p)
           \/ \E s \in Scripts : Onward(s) \/ Ends(s)
           \/ \E p \in Pids : Spawn(p) \/ Die(p)
  BY DEF LockNext, Onward, Ends

LEMMA TypeInductive ==
    ASSUME LockTypeOK, ProcessInv, [LockNext]_lockVars
    PROVE  LockTypeOK'
  <1> USE DEF LockTypeOK
  <1>1. CASE UNCHANGED lockVars
    BY <1>1 DEF lockVars
  <1>2. ASSUME NEW s \in Scripts, NEW p \in Pids, Launch(s, p)
        PROVE  LockTypeOK'
    <2>1. starts[s] + 1 \in 0..MaxLaunches
      BY <1>2, PidsAssumption DEF Launch
    <2>2. used \cup {p} \subseteq Pids /\ (reused \/ p \in used) \in BOOLEAN
      OBVIOUS
    <2> QED
      BY <1>2, <2>1, <2>2 DEF Launch, Forked, Steps
  <1>3. ASSUME NEW s \in Scripts, Onward(s)
        PROVE  LockTypeOK'
    <2>1. CASE CreateFile(s) \/ Proceed(s) \/ Truncate(s) \/ RemoveFile(s)
      BY <2>1 DEF CreateFile, Proceed, Truncate, RemoveFile, Steps
    <2>2. CASE Read(s)
      <3>1. (raced \/ \E t \in Scripts \ {s} : Checking(t)) \in BOOLEAN
        OBVIOUS
      <3> QED
        BY <2>2, <3>1 DEF Read, Steps
    <2>3. CASE WritePid(s)
      BY <2>3 DEF WritePid, Steps, ProcessInv
    <2> QED
      BY <1>3, <2>1, <2>2, <2>3 DEF Onward
  <1>4. ASSUME NEW s \in Scripts, Ends(s)
        PROVE  LockTypeOK'
    BY <1>4 DEF Ends, Refuse, ExitScript, Bail, Crash, Gone, Steps
  <1>5. ASSUME NEW p \in Pids, Spawn(p) \/ Die(p)
        PROVE  LockTypeOK'
    BY <1>5 DEF Spawn, Die, Forked
  <1> QED
    BY <1>1, <1>2, <1>3, <1>4, <1>5, NextCases

LEMMA ProcessInductive ==
    ASSUME LockTypeOK, ProcessInv, [LockNext]_lockVars
    PROVE  ProcessInv'
  <1> USE DEF LockTypeOK
  <1>1. CASE UNCHANGED lockVars
    BY <1>1 DEF lockVars, ProcessInv
  <1>2. ASSUME NEW s \in Scripts, NEW p \in Pids, Launch(s, p)
        PROVE  ProcessInv'
    <2>1. p # NoPid /\ \A t \in Scripts : pid[t] # p
      BY <1>2, PidsAssumption DEF Launch, Forked, Alive
    <2>2. /\ pid' = [pid EXCEPT ![s] = p]
          /\ step' = [step EXCEPT ![s] = "create"]
      BY <1>2 DEF Launch
    <2> QED
      BY <2>1, <2>2 DEF ProcessInv
  <1>3. ASSUME NEW s \in Scripts, Onward(s)
        PROVE  ProcessInv'
    <2>1. /\ pid' = pid /\ step[s] # "off"
          /\ \E n \in Steps \ {"off"} : step' = [step EXCEPT ![s] = n]
      BY <1>3 DEF Onward, CreateFile, Read, Proceed, Truncate, WritePid, RemoveFile, Steps
    <2> QED
      BY <2>1 DEF ProcessInv
  <1>4. ASSUME NEW s \in Scripts, Ends(s)
        PROVE  ProcessInv'
    BY <1>4 DEF Ends, Refuse, ExitScript, Bail, Crash, Gone, ProcessInv
  <1>5. ASSUME NEW p \in Pids, Spawn(p) \/ Die(p)
        PROVE  ProcessInv'
    BY <1>5 DEF Spawn, Die, ProcessInv
  <1> QED
    BY <1>1, <1>2, <1>3, <1>4, <1>5, NextCases

LEMMA ExclusionInductive ==
    ASSUME LockTypeOK, ProcessInv, raced \/ ExclusionInv, [LockNext]_lockVars
    PROVE  (raced \/ ExclusionInv)'
  <1> USE DEF LockTypeOK
  <1>1. raced => raced'
    BY NextCases DEF lockVars, Onward, Ends, Launch, CreateFile, Read, Proceed, Truncate,
       WritePid, RemoveFile, Refuse, ExitScript, Bail, Crash, Gone, Spawn, Die
  <1> SUFFICES ASSUME ~raced, ~raced', ExclusionInv PROVE ExclusionInv'
    BY <1>1
  <1> USE DEF ExclusionInv, Checking, Acting
  <1>2. CASE UNCHANGED lockVars
    BY <1>2 DEF lockVars
  <1>3. ASSUME NEW s \in Scripts, NEW p \in Pids, Launch(s, p)
        PROVE  ExclusionInv'
    BY <1>3 DEF Launch, ProcessInv
  <1>4. ASSUME NEW s \in Scripts, CreateFile(s)
        PROVE  ExclusionInv'
    <2>1. Acting # {} => lock # NoFile
      BY PidsAssumption DEF ProcessInv
    <2> QED
      BY <1>4, <2>1 DEF CreateFile
  <1>5. ASSUME NEW s \in Scripts, Read(s)
        PROVE  ExclusionInv'
    <2>1. \A t \in Scripts \ {s} : ~Checking(t)
      BY <1>5 DEF Read
    <2>2. \A t \in Acting : lock = pid[t] /\ lock # NoFile
      BY PidsAssumption DEF ProcessInv
    <2> QED
      BY <1>5, <2>1, <2>2 DEF Read
  <1>6. ASSUME NEW s \in Scripts, Proceed(s)
        PROVE  ExclusionInv'
    <2>1. Acting = {}
      <3> SUFFICES ASSUME NEW t \in Acting PROVE FALSE
        OBVIOUS
      <3>1. lastPID[s] = pid[t]
        BY <1>6 DEF Proceed
      <3>2. pid[t] \in Pids
        BY DEF ProcessInv
      <3>3. lastPID[s] \in Alive /\ lastPID[s] # Empty
        BY <3>1, <3>2, PidsAssumption DEF Alive
      <3> QED
        BY <1>6, <3>3 DEF Proceed, Blocked
    <2> QED
      BY <1>6, <2>1 DEF Proceed
  <1>7. ASSUME NEW s \in Scripts, Truncate(s) \/ WritePid(s)
        PROVE  ExclusionInv'
    <2>1. Acting = {}
      BY <1>7 DEF Truncate, WritePid
    <2> QED
      BY <1>7, <2>1 DEF Truncate, WritePid
  <1>8. ASSUME NEW s \in Scripts, RemoveFile(s)
        PROVE  ExclusionInv'
    BY <1>8 DEF RemoveFile
  <1>9. ASSUME NEW s \in Scripts, Ends(s)
        PROVE  ExclusionInv'
    BY <1>9 DEF Ends, Refuse, ExitScript, Bail, Crash, Gone
  <1>10. ASSUME NEW p \in Pids, Spawn(p) \/ Die(p)
         PROVE  ExclusionInv'
    BY <1>10 DEF Spawn, Die
  <1> QED
    BY <1>2, <1>3, <1>4, <1>5, <1>6, <1>7, <1>8, <1>9, <1>10, NextCases DEF Onward

\* Every reachable state satisfies the inductive invariant.
THEOREM LockInvariance == LockSpec => []IInv
  <1>1. IInv /\ [LockNext]_lockVars => IInv'
    BY TypeInductive, ProcessInductive, ExclusionInductive DEF IInv
  <1> QED
    BY InitInv, <1>1, PTL DEF LockSpec

\* Two hostctl act at once only after their checks overlapped.
THEOREM ExclusionUnlessRaced == LockSpec => []OneAtATimeUnlessRaced
  <1>1. IInv => OneAtATimeUnlessRaced
    BY DEF IInv, ExclusionInv, OneAtATimeUnlessRaced, OneAtATime
  <1> QED
    BY <1>1, LockInvariance, PTL

\* The lock file names the script that acts, unless checks overlapped.
THEOREM HolderIsNamed == LockSpec => []ActorHoldsTheLock
  <1>1. IInv => ActorHoldsTheLock
    BY DEF IInv, ExclusionInv, ActorHoldsTheLock
  <1> QED
    BY <1>1, LockInvariance, PTL

----------------------------------------------------------------------------
(* As long as no ID is reused, one that was read belongs to a script.      *)

OwnerInv ==
    /\ others \subseteq used
    /\ \A s \in Scripts : pid[s] # NoPid => pid[s] \in used \ others
    /\ lock \in Pids => lock \in used \ others
    /\ \A s \in Scripts : lastPID[s] # Empty => lastPID[s] \in used \ others
    /\ \A s \in Scripts : step[s] \in {"create", "read"} => lock # pid[s]
    /\ \A s \in Scripts : step[s] = "test" => lastPID[s] # pid[s]

LEMMA OwnerInductive ==
    ASSUME LockTypeOK, ProcessInv, reused \/ OwnerInv, [LockNext]_lockVars
    PROVE  (reused \/ OwnerInv)'
  <1> USE DEF LockTypeOK
  <1>1. reused => reused'
    BY NextCases DEF lockVars, Onward, Ends, Launch, CreateFile, Read, Proceed, Truncate,
       WritePid, RemoveFile, Refuse, ExitScript, Bail, Crash, Gone, Spawn, Die, Forked
  <1> SUFFICES ASSUME ~reused, ~reused', OwnerInv PROVE OwnerInv'
    BY <1>1
  <1> USE DEF OwnerInv
  <1>2. CASE UNCHANGED lockVars
    BY <1>2 DEF lockVars
  <1>3. ASSUME NEW s \in Scripts, NEW p \in Pids, Launch(s, p)
        PROVE  OwnerInv'
    <2>1. p \notin used /\ used' = used \cup {p}
      BY <1>3 DEF Launch, Forked
    <2> QED
      BY <1>3, <2>1, PidsAssumption DEF Launch
  <1>4. ASSUME NEW s \in Scripts, CreateFile(s) \/ Truncate(s) \/ RemoveFile(s)
        PROVE  OwnerInv'
    <2>1. lock' \in Pids => lock' = lock
      BY <1>4, PidsAssumption DEF CreateFile, Truncate, RemoveFile
    <2>2. \A t \in Scripts : step[t] # "off" => pid[t] \in Pids
      BY DEF ProcessInv
    <2>3. /\ pid' = pid /\ lastPID' = lastPID
          /\ others' = others /\ used' = used
          /\ \A t \in Scripts : step'[t] \in {"create", "read", "test"} =>
                step[t] = step'[t] \/ (step[t] = "create" /\ step'[t] = "read")
      BY <1>4 DEF CreateFile, Truncate, RemoveFile
    <2> QED
      BY <2>1, <2>2, <2>3
  <1>5. ASSUME NEW s \in Scripts, Read(s)
        PROVE  OwnerInv'
    <2>1. IF lock = NoFile THEN lastPID'[s] = Empty ELSE lastPID'[s] = lock
      BY <1>5 DEF Read
    <2>2. lastPID'[s] # Empty => lastPID'[s] = lock /\ lock \in Pids
      BY <2>1
    <2>3. pid[s] \in Pids
      BY <1>5 DEF ProcessInv, Read
    <2>4. lastPID'[s] # pid[s]
      BY <1>5, <2>2, <2>3, PidsAssumption DEF Read
    <2> QED
      BY <1>5, <2>2, <2>4 DEF Read
  <1>6. ASSUME NEW s \in Scripts, Proceed(s)
        PROVE  OwnerInv'
    BY <1>6 DEF Proceed
  <1>7. ASSUME NEW s \in Scripts, WritePid(s)
        PROVE  OwnerInv'
    BY <1>7 DEF WritePid, ProcessInv
  <1>8. ASSUME NEW s \in Scripts, Ends(s)
        PROVE  OwnerInv'
    BY <1>8, PidsAssumption DEF Ends, Refuse, ExitScript, Bail, Crash, Gone, ProcessInv
  <1>9. ASSUME NEW p \in Pids, Spawn(p) \/ Die(p)
        PROVE  OwnerInv'
    BY <1>9 DEF Spawn, Die, Forked
  <1> QED
    BY <1>2, <1>3, <1>4, <1>5, <1>6, <1>7, <1>8, <1>9, NextCases DEF Onward

\* A script that ended without its lock file in any way blocks no other, as
\* long as the system reuses no process ID.
THEOREM OnlyReuseBlocks == LockSpec => []CrashBlocksOnlyByReuse
  <1>1. LockInit => OwnerInv
    BY PidsAssumption DEF LockInit, OwnerInv
  <1>2. LockTypeOK /\ ProcessInv /\ (reused \/ OwnerInv) => CrashBlocksOnlyByReuse
    <2> SUFFICES ASSUME LockTypeOK, OwnerInv, NEW s \in Scripts, Refusing(s)
                 PROVE  \E t \in Scripts \ {s} : pid[t] = lastPID[s]
      BY DEF CrashBlocksOnlyByReuse, CrashNeverBlocks
    <2> QED
      BY DEF OwnerInv, Refusing, Blocked, Alive
  <1>3. IInv => LockTypeOK /\ ProcessInv
    BY DEF IInv
  <1>4. /\ LockTypeOK /\ ProcessInv /\ (reused \/ OwnerInv) /\ [LockNext]_lockVars
        => (reused \/ OwnerInv)'
    BY OwnerInductive
  <1> QED
    BY <1>1, <1>2, <1>3, <1>4, LockInvariance, PTL DEF LockSpec

\* Every reachable state is well typed, whichever processes have the IDs of others.
THEOREM TypeCorrect == LockSpec => []LockTypeOK
  <1>1. IInv => LockTypeOK
    BY DEF IInv
  <1> QED
    BY <1>1, LockInvariance, PTL
=============================================================================
