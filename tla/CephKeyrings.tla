---------------------------- MODULE CephKeyrings ----------------------------
(***************************************************************************)
(* How the ceph role bootstraps and hands out the keyrings of a cluster:   *)
(* roles/ceph/tasks/authentication.yml between the mkfs guard and the mkfs *)
(* of monitor.yml, and the admin keyring of the other hosts (main.yml).    *)
(*                                                                         *)
(* A play runs its tasks in lockstep: a task is over when every host that  *)
(* has not failed is through with it.  A run_once task executes on the     *)
(* first of those hosts, for all, and if it fails the play is over.  A     *)
(* host that fails any other task leaves the play, which goes on without   *)
(* it.  A key is here the number of the bootstrap that generated it.       *)
(***************************************************************************)
EXTENDS Naturals, Sequences, Functions

CONSTANTS
    Inventory,      \* the hosts, in inventory order
    Monitors,       \* those with kowabunga_ceph_monitor_enabled
    Founders,       \* the hosts of the cluster at first; the others may join
    Unlucky,        \* hosts that may fail a task, or be reinstalled
    Interruptions,  \* TRUE: the controller may stop in the middle of a play
    MaxKeys,        \* bound: bootstraps
    NoKey           \* no such file, or no monitor store

Hosts == Range(Inventory)

ASSUME InventoryAssumption ==
    /\ Inventory \in Seq(Hosts) /\ IsInjective(Inventory)
    /\ Monitors \subseteq Hosts /\ Founders \subseteq Hosts
    /\ Unlucky \subseteq Hosts
    /\ Founders # {}
    /\ Interruptions \in BOOLEAN /\ MaxKeys \in Nat /\ NoKey \notin Nat

\* In the order of the loops.
Files == <<"bootstrap", "admin", "secret">>
File == Range(Files)

Key == 1..MaxKeys \cup {NoKey}
Keyrings == [File -> Key]
Nothing == [f \in File |-> NoKey]

Tasks == {"stat", "bootstrap", "fetch", "sops", "plain", "mkfs", "admin"}

VARIABLES
    members,   \* the hosts of the inventory so far
    key,       \* key[h]: the keyrings on host h
    mon,       \* mon[h]: the key that h's monitor store was made with
    plain,     \* the keyrings on the controller, as fetched
    sops,      \* the keyrings on the controller, as encrypted by the operator
    fresh,     \* the number of bootstraps so far
    task,      \* the task under way, or "idle"
    playing,   \* the hosts that have not failed in this play
    todo,      \* those that still have to execute the task
    completed  \* the hosts that were through the last play, and are as it left them

keyringsVars == <<members, key, mon, plain, sops, fresh, task, playing, todo, completed>>

KeyringsTypeOK ==
    /\ members \subseteq Hosts
    /\ key \in [Hosts -> Keyrings]
    /\ mon \in [Hosts -> Key]
    /\ plain \in Keyrings /\ sops \in Keyrings
    /\ fresh \in 0..MaxKeys
    /\ task \in Tasks \cup {"idle"}
    /\ todo \subseteq playing /\ playing \subseteq members
    /\ completed \subseteq members

First == Inventory[CHOOSE n \in DOMAIN Inventory :
                      /\ Inventory[n] \in playing
                      /\ \A m \in 1..n - 1 : Inventory[m] \notin playing]

\* Slip: the bootstrap is not guarded.
BlankAnyway(h) == TRUE

\* The stat of the bootstrap and the admin keyring found neither.
Blank(h) == key[h]["bootstrap"] = NoKey /\ key[h]["admin"] = NoKey

\* The first n files of a loop that copies from src onto dst what there is.
Copied(dst, src, n) ==
    [f \in File |-> IF src[f] # NoKey /\ \E m \in 1..n : Files[m] = f
                    THEN src[f] ELSE dst[f]]

----------------------------------------------------------------------------
KeyringsInit ==
    /\ members = Founders
    /\ key = [h \in Hosts |-> Nothing]
    /\ mon = [h \in Hosts |-> NoKey]
    /\ plain = Nothing /\ sops = Nothing
    /\ fresh = 0
    /\ task = "idle"
    /\ playing = {} /\ todo = {} /\ completed = {}

\* The hosts whose `when` lets them execute a task.
Executing(t) == IF t = "admin" THEN playing \ Monitors ELSE playing \cap Monitors

\* After a task that every host executes.
Follows == [stat |-> "bootstrap", sops |-> "plain", plain |-> "mkfs",
            mkfs |-> "admin"]

GoTo(t) == task' = t /\ todo' = Executing(t) /\ UNCHANGED playing

Stop == task' = "idle" /\ playing' = {} /\ todo' = {} /\ UNCHANGED completed

\* h is through with the task, or it fails it.
Through(h) == todo' = todo \ {h} /\ UNCHANGED <<task, playing, completed>>

\* Slip: a loop waits for a host that left the play.
FailsAndStays(h) ==
    /\ playing' = playing \ {h}
    /\ UNCHANGED <<todo, task, completed>>

Fails(h) ==
    /\ playing' = playing \ {h}
    /\ todo' = todo \ {h}
    /\ UNCHANGED <<task, completed>>

Play ==
    /\ task = "idle"
    /\ task' = "stat"
    /\ playing' = members
    /\ todo' = members \cap Monitors
    /\ completed' = {}
    /\ UNCHANGED <<members, key, mon, plain, sops, fresh>>

\* The key files' stat, registered by each monitor; nothing changes the files
\* before the registered results are used.
Stat(h) ==
    /\ task = "stat" /\ h \in todo
    /\ Through(h)
    /\ UNCHANGED <<members, key, mon, plain, sops, fresh>>

NextTask ==
    /\ task \in DOMAIN Follows
    /\ todo = {} /\ playing # {}
    /\ GoTo(Follows[task])
    /\ UNCHANGED <<members, key, mon, plain, sops, fresh, completed>>

\* run_once: the condition is the first host's.  The five ceph-authtool
\* commands leave a new cluster keyring on it.
Bootstrap ==
    /\ task = "bootstrap"
    /\ First \in Monitors /\ Blank(First)
    /\ fresh < MaxKeys
    /\ fresh' = fresh + 1
    /\ key' = [key EXCEPT ![First]["secret"] = fresh + 1]
    /\ GoTo("fetch")
    /\ UNCHANGED <<members, mon, plain, sops, completed>>

SkipBootstrap ==
    /\ task = "bootstrap"
    /\ ~(First \in Monitors /\ Blank(First))
    /\ GoTo("sops")
    /\ UNCHANGED <<members, key, mon, plain, sops, fresh, completed>>

\* Slip: the cluster keyring, which is in /tmp, is not fetched.
FetchWithoutSecret ==
    /\ task = "fetch"
    /\ plain' = Copied(plain, [f \in File |-> fresh], Len(Files) - 1)
    /\ GoTo("sops")
    /\ UNCHANGED <<members, key, mon, sops, fresh, completed>>

\* run_once too; the controller's files are overwritten.
Fetch ==
    /\ task = "fetch"
    /\ plain' = Copied(plain, [f \in File |-> fresh], Len(Files))
    /\ GoTo("sops")
    /\ UNCHANGED <<members, key, mon, sops, fresh, completed>>

\* The first host, or the controller, stops after n of the files.
FetchBreaks(n) ==
    /\ task = "fetch"
    /\ Interruptions \/ First \in Unlucky
    /\ plain' = Copied(plain, [f \in File |-> fresh], n)
    /\ Stop
    /\ UNCHANGED <<members, key, mon, sops, fresh>>

Source == IF task = "sops" THEN sops ELSE plain

Deploy(h) ==
    /\ task \in {"sops", "plain"} /\ h \in todo
    /\ key' = [key EXCEPT ![h] = Copied(@, Source, Len(Files))]
    /\ Through(h)
    /\ UNCHANGED <<members, mon, plain, sops, fresh>>

\* h fails, or the controller stops, after n of the files.
DeployBreaks(h, n) ==
    /\ task \in {"sops", "plain"} /\ h \in todo
    /\ key' = [key EXCEPT ![h] = Copied(@, Source, n)]
    /\ \/ h \in Unlucky /\ Fails(h)
       \/ Interruptions /\ Stop
    /\ UNCHANGED <<members, mon, plain, sops, fresh>>

\* ceph-mon --mkfs fails without the cluster keyring.
Mkfs(h) ==
    /\ task = "mkfs" /\ h \in todo
    /\ IF mon[h] # NoKey THEN Through(h) /\ UNCHANGED mon
       ELSE IF key[h]["secret"] = NoKey THEN Fails(h) /\ UNCHANGED mon
       ELSE Through(h) /\ mon' = [mon EXCEPT ![h] = key[h]["secret"]]
    /\ UNCHANGED <<members, key, plain, sops, fresh>>

\* Slip: hosts that cannot get the admin keyring go on without it.
CopyAdminIfAny(h) ==
    /\ task = "admin" /\ h \in todo
    /\ Through(h)
    /\ key' = [key EXCEPT ![h] = [@ EXCEPT !["admin"] =
                  IF plain["admin"] = NoKey THEN @ ELSE plain["admin"]]]
    /\ UNCHANGED <<members, mon, plain, sops, fresh>>

\* The other hosts get the admin keyring in plain, and fail where it is not.
CopyAdmin(h) ==
    /\ task = "admin" /\ h \in todo
    /\ IF plain["admin"] = NoKey THEN Fails(h) /\ UNCHANGED key
       ELSE Through(h) /\ key' = [key EXCEPT ![h]["admin"] = plain["admin"]]
    /\ UNCHANGED <<members, mon, plain, sops, fresh>>

PlayEnds ==
    /\ \/ task = "admin" /\ todo = {}
       \/ task # "idle" /\ playing = {}
    /\ completed' = playing
    /\ task' = "idle" /\ playing' = {} /\ todo' = {}
    /\ UNCHANGED <<members, key, mon, plain, sops, fresh>>

\* A host fails before it has any effect: unreachable, no disk space...
HostFails(h) ==
    /\ h \in todo \cap Unlucky
    /\ task \notin {"bootstrap", "fetch"}
    /\ Fails(h)
    /\ UNCHANGED <<members, key, mon, plain, sops, fresh>>

\* The play stops between two steps.  A failed run_once task stops it too.
Interrupted ==
    /\ task # "idle"
    /\ \/ Interruptions
       \/ task \in {"bootstrap", "fetch"} /\ First \in Unlucky
    /\ Stop
    /\ UNCHANGED <<members, key, mon, plain, sops, fresh>>

----------------------------------------------------------------------------
(* Between two plays.                                                      *)

Join(h) ==
    /\ task = "idle" /\ h \in Hosts \ members
    /\ members' = members \cup {h}
    /\ UNCHANGED <<key, mon, plain, sops, fresh, task, playing, todo, completed>>

\* The cluster keyring is in /tmp.
Reboot(h) ==
    /\ task = "idle" /\ h \in members
    /\ key' = [key EXCEPT ![h]["secret"] = NoKey]
    /\ UNCHANGED <<members, mon, plain, sops, fresh, task, playing, todo, completed>>

Reinstall(h) ==
    /\ task = "idle" /\ h \in members \cap Unlucky
    /\ key' = [key EXCEPT ![h] = Nothing]
    /\ mon' = [mon EXCEPT ![h] = NoKey]
    /\ completed' = completed \ {h}
    /\ UNCHANGED <<members, plain, sops, fresh, task, playing, todo>>

\* The operator encrypts what was fetched, and may keep the original.
Encrypt(kept) ==
    /\ task = "idle"
    /\ plain # Nothing
    /\ sops' = Copied(sops, plain, Len(Files))
    /\ plain' = IF kept THEN plain ELSE Nothing
    /\ UNCHANGED <<members, key, mon, fresh, task, playing, todo, completed>>

KeyringsNext ==
    \/ Play \/ NextTask \/ Bootstrap \/ SkipBootstrap \/ Fetch
    \/ PlayEnds \/ Interrupted
    \/ \E n \in 0..Len(Files) - 1 : FetchBreaks(n)
    \/ \E h \in Hosts :
          \/ Stat(h) \/ Deploy(h) \/ Mkfs(h) \/ CopyAdmin(h) \/ HostFails(h)
          \/ \E n \in 0..Len(Files) - 1 : DeployBreaks(h, n)
          \/ Join(h) \/ Reboot(h) \/ Reinstall(h)
    \/ \E kept \in BOOLEAN : Encrypt(kept)

KeyringsSpec == KeyringsInit /\ [][KeyringsNext]_keyringsVars

----------------------------------------------------------------------------
(* Correctness.                                                            *)

\* The monitors of a cluster know each other: their stores were made with one
\* cluster key, whichever hosts failed, joined late or were reinstalled and
\* wherever plays stopped.  It rests on the first host of the inventory never
\* losing its keyrings once monitors exist.
OneClusterKey ==
    \A g, h \in members :
        mon[g] # NoKey /\ mon[h] # NoKey => mon[g] = mon[h]

\* A host that a play completed on can talk to every monitor as admin.
AdminIsKnown ==
    \A h \in completed, m \in members :
        mon[m] # NoKey => key[h]["admin"] = mon[m]

\* As soon as a monitor exists the controller holds all three keyrings of its
\* cluster, in plain or encrypted: a monitor can always be added or rebuilt.
ClusterKeyIsKept ==
    \A h \in members, f \in File :
        mon[h] # NoKey => Copied(sops, plain, Len(Files))[f] = mon[h]

\* "Make sure that this doesn't run if one of the bootstrap files already
\* exists", "on the cluster" (authentication.yml): no key is generated while a
\* monitor of the cluster has a bootstrap or an admin keyring.
BootstrapOnlyBlankCluster ==
    [][fresh' # fresh => \A h \in members \cap Monitors : Blank(h)]_keyringsVars
=============================================================================
