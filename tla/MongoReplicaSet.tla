--------------------------- MODULE MongoReplicaSet ---------------------------
(***************************************************************************)
(* The mongodb role (roles/mongodb/tasks): every host writes the key file  *)
(* and mongod.conf, starts mongod and restarts it where a file changed;    *)
(* then the first host initiates the replica set, every host tries to      *)
(* create the administrator, and the first host creates the users as that  *)
(* administrator.  mongod is external: a set is initiated only while all   *)
(* its members answer, it takes writes only from its primary, and the      *)
(* first account only through localhost.  Plays may stop anywhere.         *)
(***************************************************************************)
EXTENDS Naturals, FiniteSets, Sequences

CONSTANTS
    Hosts,      \* the members of the replica set
    Inventory,  \* the hosts in the inventory's order
    NoHost,     \* no member is primary
    MaxConf,    \* bound: configurations that the operator asks for
    MaxFaults   \* bound: hosts that fail, and plays that stop

ASSUME MongoAssumption ==
    /\ IsFiniteSet(Hosts) /\ NoHost \notin Hosts
    /\ MaxConf \in Nat \ {0} /\ MaxFaults \in Nat

VARIABLES
    wanted,     \* the configuration, and users, that the inventory describes
    conf,       \* conf[h][f]: the configuration that file f of h was written from
    running,    \* running[h]: the files that its mongod read, Off if none runs
    notified,   \* the hosts whose handler is to run
    initiated, primary,
    admin,      \* the set has the administrator's account
    users,      \* the users' configuration that the set has
    play,       \* the task, "idle" between plays
    playing, todo,
    done,       \* the last play ended, on every host
    stale,      \* history: the hosts whose notification was lost
    faults      \* hosts that failed and plays that stopped so far

mongoVars == <<wanted, conf, running, notified, initiated, primary, admin, users,
               play, playing, todo, done, stale, faults>>

Files == {"key", "conf"}
Blank == [f \in Files |-> 0]
Off == [f \in Files |-> MaxConf + 1]
PerHost == {"key", "conf", "start", "flush", "admin"}
Follows == [key |-> "conf", conf |-> "start", start |-> "flush",
            flush |-> "initiate", initiate |-> "admin", admin |-> "users"]

MongoTypeOK ==
    /\ wanted \in 1..MaxConf /\ users \in 0..MaxConf
    /\ conf \in [Hosts -> [Files -> 0..MaxConf]]
    /\ running \in [Hosts -> [Files -> 0..MaxConf] \cup {Off}]
    /\ notified \subseteq playing /\ todo \subseteq playing /\ playing \subseteq Hosts
    /\ initiated \in BOOLEAN /\ admin \in BOOLEAN /\ done \in BOOLEAN
    /\ primary \in Hosts \cup {NoHost} /\ (primary # NoHost => initiated)
    /\ play \in PerHost \cup {"idle", "initiate", "users"}
    /\ stale \subseteq Hosts /\ faults \in 0..MaxFaults

First == Inventory[CHOOSE n \in DOMAIN Inventory :
                      /\ Inventory[n] \in playing
                      /\ \A m \in 1..n - 1 : Inventory[m] \notin playing]

Up(h) == running[h] # Off

\* Members talk to each other when their mongod runs with the same key.
Peers(h) == IF Up(h) THEN {g \in Hosts : Up(g) /\ running[g]["key"] = running[h]["key"]}
            ELSE {}
Majority(S) == 2 * Cardinality(S) > Cardinality(Hosts)

MongoInit ==
    /\ wanted = 1
    /\ conf = [h \in Hosts |-> Blank] /\ running = [h \in Hosts |-> Off]
    /\ notified = {} /\ initiated = FALSE /\ primary = NoHost
    /\ admin = FALSE /\ users = 0
    /\ play = "idle" /\ playing = {} /\ todo = {} /\ done = FALSE
    /\ stale = {} /\ faults = 0

replicaSet == <<running, initiated, primary, admin, users>>
files == <<wanted, conf>>

MongoPlay ==
    /\ play = "idle" /\ ~done
    /\ play' = "key" /\ playing' = Hosts /\ todo' = Hosts
    /\ UNCHANGED <<files, replicaSet, notified, done, stale, faults>>

NextTask ==
    /\ play \in PerHost /\ todo = {} /\ playing # {}
    /\ play' = Follows[play]
    /\ todo' = playing
    /\ UNCHANGED <<files, replicaSet, notified, playing, done, stale, faults>>

Through(h) == todo' = todo \ {h} /\ UNCHANGED <<play, playing>>
Stop == play' = "idle" /\ playing' = {} /\ todo' = {}

\* A template that changes its file notifies the handler.
Write(h) ==
    /\ play \in Files /\ h \in todo
    /\ conf' = [conf EXCEPT ![h][play] = wanted]
    /\ notified' = IF conf[h][play] # wanted THEN notified \cup {h} ELSE notified
    /\ Through(h)
    /\ UNCHANGED <<wanted, replicaSet, done, stale, faults>>

Boot(h) == running' = [running EXCEPT ![h] = conf[h]]

\* "Ensure mongod is started": one that runs is left alone.
EnsureStarted(h) ==
    /\ play = "start" /\ h \in todo
    /\ IF Up(h) THEN UNCHANGED running ELSE Boot(h)
    /\ Through(h)
    /\ UNCHANGED <<files, initiated, primary, admin, users, notified, done, stale, faults>>

\* The flushed handler restarts mongod, and a primary steps down.
Flush(h) ==
    /\ play = "flush" /\ h \in todo
    /\ IF h \in notified
       THEN Boot(h) /\ primary' = IF primary = h THEN NoHost ELSE primary
       ELSE UNCHANGED <<running, primary>>
    /\ notified' = notified \ {h} /\ stale' = IF h \in notified THEN stale \ {h} ELSE stale
    /\ Through(h)
    /\ UNCHANGED <<files, initiated, admin, users, done, faults>>

\* Every notification of a host that leaves the play is lost.
Lose(hosts) == stale' = stale \cup (notified \cap hosts) /\ notified' = notified \ hosts

\* run_once, and a failure fails the play: rs.initiate, where rs.status says that
\* the host has no set yet, throws unless every member answers.
Initiate ==
    /\ play = "initiate" /\ playing # {} /\ Up(First)
    /\ initiated' = (initiated \/ Peers(First) = Hosts)
    /\ \/ play' = "admin" /\ todo' = playing /\ UNCHANGED <<playing, notified, stale>>
       \/ ~initiated' /\ Stop /\ Lose(playing)
    /\ UNCHANGED <<files, running, primary, admin, users, done, faults>>

\* mongod: the members elect one that a majority talks to.
Elect(h) ==
    /\ initiated /\ primary = NoHost
    /\ Majority(Peers(h))
    /\ primary' = h
    /\ UNCHANGED <<files, running, initiated, admin, users, notified, play, playing, todo,
                   done, stale, faults>>

\* mongod: a primary that no majority talks to any more steps down.
StepDown ==
    /\ primary # NoHost /\ ~Majority(Peers(primary))
    /\ primary' = NoHost
    /\ UNCHANGED <<files, running, initiated, admin, users, notified, play, playing, todo,
                   done, stale, faults>>

\* createUser throws on a secondary and once there are accounts; admin.js catches it.
CreateAdmin(h) ==
    /\ play = "admin" /\ h \in todo /\ Up(h)
    /\ admin' = (admin \/ primary = h)
    /\ Through(h)
    /\ UNCHANGED <<files, running, initiated, primary, users, notified, done, stale, faults>>

\* The client asks the first host which the primary is, and authenticates.
CanLogIn == Up(First) /\ primary # NoHost /\ admin

\* Slip: users.js ends with quit().
UsersAnyway ==
    /\ play = "users" /\ playing # {}
    /\ users' = IF CanLogIn THEN wanted ELSE users
    /\ done' = (playing = Hosts)
    /\ Stop
    /\ UNCHANGED <<files, running, initiated, primary, admin, notified, stale, faults>>

\* run_once.  users.js quits with the number of its errors.
Users ==
    /\ play = "users" /\ playing # {} /\ CanLogIn
    /\ users' = wanted
    /\ done' = (playing = Hosts)
    /\ Stop
    /\ UNCHANGED <<files, running, initiated, primary, admin, notified, stale, faults>>

UsersFail ==
    /\ play = "users" /\ playing # {} /\ ~CanLogIn
    /\ Stop /\ Lose(playing)
    /\ UNCHANGED <<files, replicaSet, done, faults>>

\* The play goes on with the other hosts.
Drop(h) ==
    /\ IF playing = {h} THEN Stop
       ELSE playing' = playing \ {h} /\ todo' = todo \ {h} /\ UNCHANGED play
    /\ Lose({h})

\* A host fails before a task has any effect on it.
HostFails(h) ==
    /\ play \in PerHost /\ h \in todo /\ faults < MaxFaults
    /\ faults' = faults + 1
    /\ Drop(h)
    /\ UNCHANGED <<files, replicaSet, done>>

Interrupted ==
    /\ play # "idle" /\ faults < MaxFaults
    /\ faults' = faults + 1
    /\ Stop /\ Lose(playing)
    /\ UNCHANGED <<files, replicaSet, done>>

\* run_once: the first host's mongod does not run.
Unreachable ==
    /\ play = "initiate" /\ playing # {} /\ ~Up(First)
    /\ Stop /\ Lose(playing)
    /\ UNCHANGED <<files, replicaSet, done, faults>>

\* "Create admin account" fails on the hosts whose mongod does not run.
AdminUnreachable(h) ==
    /\ play = "admin" /\ h \in todo /\ ~Up(h)
    /\ Drop(h)
    /\ UNCHANGED <<files, replicaSet, done, faults>>

\* mongod dies, in a play or between two; the next play starts it.
Dies(h) ==
    /\ Up(h) /\ faults < MaxFaults
    /\ faults' = faults + 1
    /\ running' = [running EXCEPT ![h] = Off]
    /\ primary' = IF primary = h THEN NoHost ELSE primary
    /\ done' = FALSE
    /\ UNCHANGED <<files, initiated, admin, users, notified, play, playing, todo, stale>>

Reconfigure ==
    /\ play = "idle" /\ wanted < MaxConf
    /\ wanted' = wanted + 1
    /\ done' = FALSE
    /\ UNCHANGED <<conf, replicaSet, notified, play, playing, todo, stale, faults>>

\* What the controller and mongod get to by themselves.
MongoProgress ==
    \/ MongoPlay \/ NextTask \/ Initiate \/ Users \/ UsersFail \/ Unreachable
    \/ \E h \in Hosts :
          \/ Write(h) \/ EnsureStarted(h) \/ Flush(h)
          \/ CreateAdmin(h) \/ AdminUnreachable(h)

MongoNext ==
    \/ MongoProgress \/ Interrupted \/ Reconfigure \/ StepDown
    \/ \E h \in Hosts : HostFails(h) \/ Dies(h) \/ Elect(h)

MongoSpec == MongoInit /\ [][MongoNext]_mongoVars

----------------------------------------------------------------------------
(* Correctness.                                                            *)

\* A play that ended on every host has provisioned the set: the administrator and
\* the users that the inventory describes are there, although the task that creates
\* the administrator passes over its errors; and each mongod that runs has read the
\* files on its disk.  This leaves open the mongod whose notification an earlier play
\* lost, since no later play makes up for it, and the one that died after its task.
DoneMeansProvisioned ==
    done => /\ initiated /\ admin /\ users = wanted
            /\ \A h \in Hosts : Up(h) => running[h] = conf[h] \/ h \in stale

\* Plays that are repeated until one ends provision the set, whichever member
\* is elected and whenever, unless a notification was lost.
Provisioned == <>(done \/ stale # {})
=============================================================================
