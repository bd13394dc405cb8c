------------------------------- MODULE MCRace -------------------------------
(***************************************************************************)
(* What happens at the same time, one machine at a time: two operators     *)
(* work on the same orchestrator; and hosts fail, reboot and join during   *)
(* the plays of the ceph role.  A behaviour is one of the machine that     *)
(* `which` names, with the other in its initial state.                     *)
(***************************************************************************)
EXTENDS MCTasks, MCKeyrings

VARIABLES which

Machines == {"orchestrator", "keyrings"}

MCInitial ==
    << Thing("region", r1, NoFields, <<>>, <<>>),
       Thing("agent", a2, Typed("Kiwi"), <<>>, <<>>),
       Thing("pool", p1, Described("x"), << <<2>> >>, <<1>>) >>

MCRequests ==
    { Present("agent", a1, Typed("Kiwi"), <<>>, <<>>),
      Present("agent", 2, Described("x"), <<>>, <<>>),
      Absent("agent", a2, <<>>, <<>>),
      Present("pool", p1, Described("y"), <<{a2}>>, <<r1>>),
      Present("pool", p1, NoFields, <<{a1, a2}>>, <<r1>>),
      Checked(Present("pool", p1, Described("y"), <<{a1}>>, <<r1>>)),
      Absent("pool", 3, <<{a2}>>, <<r1>>),
      Present("region_record", i1, Described("x"), <<>>, <<r1>>),
      Absent("region", r1, <<>>, <<>>) }

----------------------------------------------------------------------------
MCInit ==
    /\ which \in Machines
    /\ Init /\ KeyringsInit

OrchestratorStep(A) == which = "orchestrator" /\ A /\ UNCHANGED <<which, keyringsVars>>
KeyringsStep(A) == which = "keyrings" /\ A /\ UNCHANGED <<which, vars>>

MCNext ==
    \/ OrchestratorStep(Next)
    \/ KeyringsStep(KeyringsNext)

mcVars == <<which, vars, keyringsVars>>

\* FairSpec: a module that was started goes on.
MCSpec ==
    /\ MCInit /\ [][MCNext]_mcVars
    /\ \A r \in Runs : WF_mcVars(OrchestratorStep(Progress(r)))
=============================================================================
