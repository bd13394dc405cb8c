----------------------------- MODULE MCPlaybook -----------------------------
(***************************************************************************)
(* Plays and scripts, one machine at a time: a playbook whose tasks come   *)
(* one after the other, with faults and retries; the plays of the mongodb  *)
(* and the kvm role, under which mongod and libvirt change; the commands   *)
(* of hostctl, its comparison of versions and its lock, which several      *)
(* executions of it look at.  A behaviour is one of the machine that       *)
(* `which` names, with the others in one initial state.                    *)
(***************************************************************************)
EXTENDS MCTasks, MongoReplicaSet, LibvirtProvision, HostctlActions, VersionOrder,
        HostctlLock

VARIABLES which

Machines == {"playbook", "mongodb", "kvm", "actions", "versions", "lock"}

\* As few of each as the interesting cases need.  Two of four modules have the same
\* priority, and one has none that the script goes through.
MCInventory == <<"h1", "h2">>
MCBridges == <<"br0", "br1">>
MCModules == <<3, 0, 1, 3>>

MCInitial ==
    << Thing("region", r1, NoFields, <<>>, <<>>),
       Thing("agent", a2, Typed("Kiwi"), <<>>, <<>>),
       Thing("kawaii", k1, NoFields, <<>>, <<>>) >>

MCRequests ==
    { Present("agent", a1, Typed("Kiwi"), <<>>, <<>>),
      Present("agent", a1, Typed("Kaktus"), <<>>, <<>>),
      Absent("agent", a2, <<>>, <<>>),
      Present("pool", p1, Described("x"), <<{a1, a2}>>, <<r1>>),
      Checked(Present("pool", p1, Described("y"), <<{a2}>>, <<1>>)),
      Present("pool", p1, Described("y"), <<{a2}>>, <<1>>),
      Present("pool", p1, NoFields, <<{a2}>>, <<r1>>),
      Absent("pool", p1, <<{a2}>>, <<r1>>),
      Without({"pool", "agents"}, Absent("pool", p1, <<{}>>, <<r1>>)),
      Present("kiwi", j1, NoFields, <<{}>>, <<r1>>),
      Present("region_record", i1, Described("x"), <<>>, <<r1>>),
      Absent("region_record", i1, <<>>, <<r1>>),
      Present("kawaii_ipsec", i1, Described("y"), <<>>, <<k1>>),
      Absent("kawaii_ipsec", i1, <<>>, <<k1>>),
      Absent("kawaii", 3, <<>>, <<z1, r1>>),
      Present("project", j1, [Described("x") EXCEPT !["subnet_size"] = "y"], <<{}, {r1}>>, <<>>),
      Absent("region", r1, <<>>, <<>>) }

\* What KowabungaRefinement_proofs assumes of tasks and store.
ASSUME PlaybookAssumption == OneAfterAnother /\ ListsByName /\ TidyStart /\ UniqueStart
----------------------------------------------------------------------------
\* A machine that is not looked at has one initial state.
MCInit ==
    /\ which \in Machines
    /\ Init /\ MongoInit
    /\ which # "kvm" => default = "none"
    /\ LibvirtInit
    /\ which # "actions" => cmds = <<"stop">> /\ service = [n \in Ids |-> "up"]
    /\ ActionsInit
    /\ which # "versions" => v1 = <<>> /\ v2 = <<>>
    /\ VersionInit /\ LockInit

PlaybookStep(A) ==
    which = "playbook" /\ A /\ UNCHANGED <<which, mongoVars, libvirtVars, actionVars, versionVars, lockVars>>
MongoStep(A) ==
    which = "mongodb" /\ A /\ UNCHANGED <<which, vars, libvirtVars, actionVars, versionVars, lockVars>>
LibvirtStep(A) ==
    which = "kvm" /\ A /\ UNCHANGED <<which, vars, mongoVars, actionVars, versionVars, lockVars>>
ActionsStep(A) ==
    which = "actions" /\ A /\ UNCHANGED <<which, vars, mongoVars, libvirtVars, versionVars, lockVars>>
VersionStep(A) ==
    which = "versions" /\ A /\ UNCHANGED <<which, vars, mongoVars, libvirtVars, actionVars, lockVars>>
LockStep(A) ==
    which = "lock" /\ A /\ UNCHANGED <<which, vars, mongoVars, libvirtVars, actionVars, versionVars>>

MCNext ==
    \/ PlaybookStep(Next)
    \/ MongoStep(MongoNext)
    \/ LibvirtStep(LibvirtNext)
    \/ ActionsStep(ActionsNext)
    \/ VersionStep(VersionNext)
    \/ LockStep(LockNext)

mcVars == <<which, vars, mongoVars, libvirtVars, actionVars, versionVars, lockVars>>

\* The controller and the script go on, and so do mongod's elections; hosts and plays need
\* not fail, and nobody need reconfigure.
MCSpec ==
    /\ MCInit /\ [][MCNext]_mcVars
    /\ WF_mcVars(MongoStep(MongoProgress))
    /\ WF_mcVars(MongoStep(\E h \in Hosts : Elect(h)))
    /\ WF_mcVars(LibvirtStep(LibvirtProgress))
    /\ WF_mcVars(ActionsStep(ActionsProgress))

\* The roles' types.
HostsTypeOK == MongoTypeOK /\ LibvirtTypeOK /\ ActionsTypeOK /\ VersionTypeOK

\* The machines' own properties are stated in their modules.
\* Plays that are repeated get there, and so does the script (provision.yml, network.yml,
\* startService).
PlaysEnd ==
    /\ which = "mongodb" => Provisioned
    /\ which = "kvm" => NetworksAreReached
    /\ which = "actions" => ScriptEnds
=============================================================================
