---------------------------- MODULE Hosts_proofs ----------------------------
(***************************************************************************)
(* What the machines of the roles keep, for every value of their           *)
(* constants: each machine has an inductive invariant, which says how far  *)
(* the tasks, the modules or the parts have come and what that has left    *)
(* behind; the property of its run follows from it.                        *)
(***************************************************************************)
EXTENDS MongoReplicaSet, LibvirtProvision, HostctlActions, VersionOrder, TLAPS

----------------------------------------------------------------------------
(* The mongodb role.                                                       *)

\* A mongod that runs with other files than those on its disk is to be restarted, or
\* was forgotten.
OthersAreNotified ==
    \A h \in Hosts : Up(h) => running[h] = conf[h] \/ h \in notified \/ h \in stale

\* The hosts that are through with "flush" have no notification left.
TasksBehind ==
    \A h \in playing :
        /\ play = "flush" /\ h \notin todo => h \notin notified
        /\ play \in {"initiate", "admin", "users"} => h \notin notified

MongoInv ==
    /\ MongoTypeOK
    /\ OthersAreNotified
    /\ TasksBehind
    /\ play # "idle" => ~done
    /\ admin => initiated
    /\ DoneMeansProvisioned

Readable == [Files -> 0..MaxConf]

\* No file is as those of a mongod that does not run.
LEMMA FilesAreNotOff == \A c \in Readable : c # Off
BY MongoAssumption DEF Readable, Off, Files

LEMMA MongoInitInv == MongoInit => MongoInv
<1> SUFFICES ASSUME MongoInit PROVE MongoInv
  OBVIOUS
<1>1. conf \in [Hosts -> [Files -> 0..MaxConf]]
  BY MongoAssumption DEF MongoInit, Blank
<1>2. wanted \in 1..MaxConf /\ users \in 0..MaxConf /\ faults \in 0..MaxFaults
  BY MongoAssumption DEF MongoInit
<1>3. MongoTypeOK
  BY <1>1, <1>2 DEF MongoInit, MongoTypeOK
<1> QED
  BY <1>3 DEF MongoInit, MongoInv, OthersAreNotified, TasksBehind, DoneMeansProvisioned, Up

\* The play has no notification left when it ends: without that, the type is not inductive.
LEMMA MongoTypeInductive == MongoInv /\ [MongoNext]_mongoVars => MongoTypeOK'
<1> SUFFICES ASSUME MongoTypeOK, TasksBehind, [MongoNext]_mongoVars
             PROVE  MongoTypeOK'
  BY DEF MongoInv
<1>0. Off' = Off /\ Blank' = Blank
  BY DEF Off, Files, Blank
<1> USE MongoAssumption, <1>0 DEF replicaSet, files, Stop, Lose, Through, Drop
<1>1. CASE UNCHANGED mongoVars
  BY <1>1 DEF mongoVars, MongoTypeOK, Off
<1>2. CASE MongoPlay
  BY <1>2 DEF MongoPlay, MongoTypeOK, PerHost
<1>3. CASE NextTask
  BY <1>3 DEF NextTask, MongoTypeOK, PerHost, Follows
<1>4. CASE Initiate
  BY <1>4 DEF Initiate, MongoTypeOK, PerHost
<1>5. CASE Users
  <2>1. users' \in 0..MaxConf /\ done' \in BOOLEAN
    BY <1>5 DEF Users, MongoTypeOK, CanLogIn
  <2>2. primary' \in Hosts \cup {NoHost} /\ (primary' # NoHost => initiated')
    BY <1>5 DEF Users, MongoTypeOK, CanLogIn
  <2>3. notified' = {}
    BY <1>5 DEF Users, MongoTypeOK, CanLogIn, TasksBehind
  <2>4. playing' = {} /\ todo' = {} /\ play' = "idle"
    BY <1>5 DEF Users
  <2> QED
    BY <1>5, <2>1, <2>2, <2>3, <2>4 DEF Users, MongoTypeOK, PerHost
<1>6. CASE UsersFail
  BY <1>6 DEF UsersFail, MongoTypeOK, PerHost
<1>7. CASE Unreachable
  BY <1>7 DEF Unreachable, MongoTypeOK, PerHost
<1>8. CASE Interrupted
  BY <1>8 DEF Interrupted, MongoTypeOK, PerHost
<1>9. CASE Reconfigure
  <2>1. wanted' \in 1..MaxConf
    BY <1>9 DEF Reconfigure, MongoTypeOK
  <2> QED
    BY <1>9, <2>1 DEF Reconfigure, MongoTypeOK
<1>10. CASE StepDown
  BY <1>10 DEF StepDown, MongoTypeOK, PerHost
<1>11. ASSUME NEW h \in Hosts, Write(h) PROVE MongoTypeOK'
  <2>1. conf' \in [Hosts -> Readable]
    BY <1>11 DEF Write, MongoTypeOK, Readable
  <2> QED
    BY <1>11, <2>1 DEF Write, MongoTypeOK, PerHost, Readable
<1>12. ASSUME NEW h \in Hosts, EnsureStarted(h) PROVE MongoTypeOK'
  BY <1>12 DEF EnsureStarted, Boot, MongoTypeOK, PerHost
<1>13. ASSUME NEW h \in Hosts, Flush(h) PROVE MongoTypeOK'
  BY <1>13 DEF Flush, Boot, MongoTypeOK, PerHost
<1>14. ASSUME NEW h \in Hosts, CreateAdmin(h) PROVE MongoTypeOK'
  BY <1>14 DEF CreateAdmin, MongoTypeOK, PerHost
<1>15. ASSUME NEW h \in Hosts, HostFails(h) PROVE MongoTypeOK'
  BY <1>15 DEF HostFails, MongoTypeOK, PerHost
<1>16. ASSUME NEW h \in Hosts, Dies(h) PROVE MongoTypeOK'
  <2>1. faults' \in 0..MaxFaults
    BY <1>16 DEF Dies, MongoTypeOK
  <2>2. running' \in [Hosts -> [Files -> 0..MaxConf] \cup {Off}]
    BY <1>16 DEF Dies, MongoTypeOK
  <2> QED
    BY <1>16, <2>1, <2>2 DEF Dies, MongoTypeOK
<1>17. ASSUME NEW h \in Hosts, Elect(h) PROVE MongoTypeOK'
  BY <1>17 DEF Elect, MongoTypeOK, PerHost
<1>18. ASSUME NEW h \in Hosts, AdminUnreachable(h) PROVE MongoTypeOK'
  BY <1>18 DEF AdminUnreachable, MongoTypeOK, PerHost
<1> QED
  BY <1>1, <1>2, <1>3, <1>4, <1>5, <1>6, <1>7, <1>8, <1>9, <1>10, <1>11, <1>12, <1>13, <1>14,
     <1>15, <1>16, <1>17, <1>18
  DEF MongoNext, MongoProgress

LEMMA MongoNextInv == MongoInv /\ [MongoNext]_mongoVars => MongoInv'
<1> SUFFICES ASSUME MongoInv, [MongoNext]_mongoVars
             PROVE  MongoInv'
  OBVIOUS
<1>0. MongoTypeOK'
  BY MongoTypeInductive
<1>a. \A c \in Readable : c # Off
  BY FilesAreNotOff
<1>b. conf \in [Hosts -> Readable] /\ running \in [Hosts -> Readable \cup {Off}]
  BY DEF MongoInv, MongoTypeOK, Readable
<1>c. Off' = Off
  BY DEF Off, Files
<1> HIDE DEF Readable, Off
<1> USE MongoAssumption, <1>0, <1>c
    DEF replicaSet, files, Stop, Lose, Through, Drop, MongoInv, OthersAreNotified, TasksBehind,
        DoneMeansProvisioned, Up
<1>1. CASE UNCHANGED mongoVars
  BY <1>1 DEF mongoVars
<1>2. CASE MongoPlay
  BY <1>2 DEF MongoPlay
<1>3. CASE NextTask
  BY <1>3 DEF NextTask, MongoTypeOK, PerHost, Follows
<1>4. CASE Initiate
  BY <1>4 DEF Initiate, MongoTypeOK
<1>5. CASE Users
  BY <1>5 DEF Users, MongoTypeOK, CanLogIn
<1>6. CASE UsersFail
  BY <1>6 DEF UsersFail, MongoTypeOK
<1>7. CASE Unreachable
  BY <1>7 DEF Unreachable, MongoTypeOK
<1>8. CASE Interrupted
  BY <1>8 DEF Interrupted, MongoTypeOK
<1>9. CASE Reconfigure
  BY <1>9 DEF Reconfigure, MongoTypeOK
<1>10. CASE StepDown
  BY <1>10 DEF StepDown, MongoTypeOK
<1>11. ASSUME NEW h \in Hosts, Write(h) PROVE MongoInv'
  <2>1. \A g \in Hosts : g # h => conf'[g] = conf[g]
    BY <1>11, <1>b DEF Write
  <2>2. conf[h][play] = wanted => conf'[h] = conf[h]
    BY <1>11, <1>b DEF Write, Readable
  <2>3. h \in playing
    BY <1>11 DEF Write, MongoTypeOK
  <2> QED
    BY <1>11, <2>1, <2>2, <2>3 DEF Write, Files
<1>12. ASSUME NEW h \in Hosts, EnsureStarted(h) PROVE MongoInv'
  BY <1>12, <1>a, <1>b DEF EnsureStarted, Boot, MongoTypeOK
<1>13. ASSUME NEW h \in Hosts, Flush(h) PROVE MongoInv'
  BY <1>13, <1>a, <1>b DEF Flush, Boot, MongoTypeOK
<1>14. ASSUME NEW h \in Hosts, CreateAdmin(h) PROVE MongoInv'
  BY <1>14 DEF CreateAdmin, MongoTypeOK
<1>15. ASSUME NEW h \in Hosts, HostFails(h) PROVE MongoInv'
  BY <1>15 DEF HostFails, MongoTypeOK
<1>16. ASSUME NEW h \in Hosts, Dies(h) PROVE MongoInv'
  BY <1>16, <1>b DEF Dies, MongoTypeOK
<1>17. ASSUME NEW h \in Hosts, Elect(h) PROVE MongoInv'
  BY <1>17 DEF Elect, MongoTypeOK
<1>18. ASSUME NEW h \in Hosts, AdminUnreachable(h) PROVE MongoInv'
  BY <1>18 DEF AdminUnreachable, MongoTypeOK
<1> QED
  BY <1>1, <1>2, <1>3, <1>4, <1>5, <1>6, <1>7, <1>8, <1>9, <1>10, <1>11, <1>12, <1>13, <1>14,
     <1>15, <1>16, <1>17, <1>18
  DEF MongoNext, MongoProgress

\* Whatever the hosts, the failures and the elections, a play that ended has provisioned the
\* replica set (provision.yml), and each mongod that runs has read the files on its disk
\* unless its notification was lost.
THEOREM PlaysProvision == MongoSpec => []DoneMeansProvisioned
<1>1. MongoInit => MongoInv
  BY MongoInitInv
<1>2. MongoInv /\ [MongoNext]_mongoVars => MongoInv'
  BY MongoNextInv
<1>3. MongoInv => DoneMeansProvisioned
  BY DEF MongoInv
<1> QED
  BY <1>1, <1>2, <1>3, PTL DEF MongoSpec

----------------------------------------------------------------------------
(* The kvm role.                                                           *)

\* A network is started only once it is defined and marked for autostart.
StartedLast ==
    \A b \in Nets : /\ net[b].active => net[b].autostart
                    /\ net[b].autostart => net[b].defined

\* What the looped tasks have done for the items that they are through with: what
\* net-info did not find is described, defined, marked and started, in that order ...
AbsentAreMade ==
    \A n \in DOMAIN Bridges : absent[Bridges[n]] =>
        /\ (at = "copy" /\ n < nth) \/ at = "define" => Bridges[n] \in xml
        /\ (at = "define" /\ n < nth) \/ at \in {"autostart", "start", "remove"} =>
               net[Bridges[n]].defined
        /\ (at = "autostart" /\ n < nth) \/ at \in {"start", "remove"} =>
               net[Bridges[n]].autostart
        /\ (at = "start" /\ n < nth) \/ at = "remove" => net[Bridges[n]].active

\* ... and what it did find is up, unless a play stopped before it was started.
FoundAreUp ==
    /\ \A n \in DOMAIN Bridges :
          (at = "info" /\ n < nth) \/ at = "copy" =>
              absent[Bridges[n]] = ~net[Bridges[n]].defined
    /\ at \in {"idle", "undefine", "destroy", "info", "copy"} =>
           \A b \in Nets \ cut : net[b].defined => net[b].active
    /\ at \in {"define", "autostart", "start", "remove"} =>
           \A b \in Nets \ cut : ~absent[b] => net[b].active
    /\ at \notin Looped \cup {"idle", "undefine", "destroy"} =>
           \A b \in Nets \ cut : net[b].active

\* The pool's description is there beside a secret only where a play stopped between
\* the definition of the secret and the removal of the description.
DescriptionIsRemoved ==
    /\ at \in {"pool.xml", "secret.xml", "secret-define"} => secret = "none"
    /\ at \in {"set-value", "rm", "pool-info", "pool-define"} => secret # "none"
    /\ at \notin {"set-value", "rm"} /\ "pool" \in xml /\ secret # "none" => "secret" \in cut
    /\ PoolNeedsABreak

LibvirtInv ==
    /\ LibvirtTypeOK
    /\ StartedLast
    /\ AbsentAreMade
    /\ FoundAreUp
    /\ DescriptionIsRemoved

\* No task is there twice.
LEMMA TasksDiffer ==
    ASSUME NEW m \in 1..18, NEW n \in 1..18, Tasks[m] = Tasks[n]
    PROVE  m = n
BY DEF Tasks

LEMMA AfterIs ==
    ASSUME NEW n \in 1..17
    PROVE  After(Tasks[n]) = Tasks[n + 1]
<1>1. DOMAIN Tasks = 1..18
  BY DEF Tasks
<1>2. Index(Tasks[n]) = n
  <2>1. \A m \in 1..18 : Tasks[m] = Tasks[n] => m = n
    BY TasksDiffer
  <2> QED
    BY <1>1, <2>1 DEF Index
<1>3. Tasks[n] # "pool-start"
  BY DEF Tasks
<1> QED
  BY <1>2, <1>3 DEF After

\* The order of the tasks.
LEMMA InOrder ==
    /\ After("undefine") = "destroy"
    /\ After("destroy") = "info"
    /\ After("info") = "copy"
    /\ After("copy") = "define"
    /\ After("define") = "autostart"
    /\ After("autostart") = "start"
    /\ After("start") = "remove"
    /\ After("remove") = "secret-list"
    /\ After("secret-list") = "pool.xml"
    /\ After("pool.xml") = "secret.xml"
    /\ After("secret.xml") = "secret-define"
    /\ After("secret-define") = "set-value"
    /\ After("set-value") = "rm"
    /\ After("rm") = "pool-info"
    /\ After("pool-info") = "pool-define"
    /\ After("pool-define") = "pool-autostart"
    /\ After("pool-autostart") = "pool-start"
    /\ After("pool-start") = "idle"
<1>1. \A n \in 1..17 : After(Tasks[n]) = Tasks[n + 1]
  BY AfterIs
<1> HIDE DEF After
<1>2. Tasks[1] = "undefine"
  BY DEF Tasks
<1>3. Tasks[2] = "destroy"
  BY DEF Tasks
<1>4. Tasks[3] = "info"
  BY DEF Tasks
<1>5. Tasks[4] = "copy"
  BY DEF Tasks
<1>6. Tasks[5] = "define"
  BY DEF Tasks
<1>7. Tasks[6] = "autostart"
  BY DEF Tasks
<1>8. Tasks[7] = "start"
  BY DEF Tasks
<1>9. Tasks[8] = "remove"
  BY DEF Tasks
<1>10. Tasks[9] = "secret-list"
  BY DEF Tasks
<1>11. Tasks[10] = "pool.xml"
  BY DEF Tasks
<1>12. Tasks[11] = "secret.xml"
  BY DEF Tasks
<1>13. Tasks[12] = "secret-define"
  BY DEF Tasks
<1>14. Tasks[13] = "set-value"
  BY DEF Tasks
<1>15. Tasks[14] = "rm"
  BY DEF Tasks
<1>16. Tasks[15] = "pool-info"
  BY DEF Tasks
<1>17. Tasks[16] = "pool-define"
  BY DEF Tasks
<1>18. Tasks[17] = "pool-autostart"
  BY DEF Tasks
<1>19. Tasks[18] = "pool-start"
  BY DEF Tasks
<1>20. After("pool-start") = "idle"
  BY DEF After
<1> QED
  BY <1>1, <1>2, <1>3, <1>4, <1>5, <1>6, <1>7, <1>8, <1>9, <1>10, <1>11, <1>12, <1>13, <1>14,
     <1>15, <1>16, <1>17, <1>18, <1>19, <1>20

LEMMA TaskNames ==
    {Tasks[n] : n \in DOMAIN Tasks} =
        {"undefine", "destroy", "info", "copy", "define", "autostart", "start",
         "remove", "secret-list", "pool.xml", "secret.xml", "secret-define",
         "set-value", "rm", "pool-info", "pool-define", "pool-autostart",
         "pool-start"}
BY DEF Tasks

LEMMA BridgesFacts ==
    /\ Len(Bridges) \in Nat /\ Len(Bridges) >= 1 /\ DOMAIN Bridges = 1..Len(Bridges)
    /\ \A n \in DOMAIN Bridges : Bridges[n] \in Nets
    /\ \A b \in Nets : \E n \in DOMAIN Bridges : Bridges[n] = b
    /\ "pool" \notin Nets /\ "secret" \notin Nets
BY LibvirtAssumption DEF Nets

Flags == {"defined", "autostart", "active"}

\* The loop goes on, or the next task begins.
LEMMA OnwardGoes ==
    ASSUME LibvirtTypeOK, GoOn(at)
    PROVE  \/ nth' \in DOMAIN Bridges /\ nth' = nth + 1 /\ at' = at /\ at \in Looped
           \/ nth' = 1 /\ at' = After(at) /\ (at \in Looped => nth = Len(Bridges))
BY BridgesFacts DEF GoOn, LibvirtTypeOK

LEMMA OnwardTyped ==
    ASSUME LibvirtTypeOK, at # "idle", GoOn(at)
    PROVE  /\ nth' \in DOMAIN Bridges
           /\ at' \in {Tasks[n] : n \in DOMAIN Tasks} \cup {"idle"}
<1>1. nth' \in DOMAIN Bridges
  BY OnwardGoes, BridgesFacts
<1>2. at \in {Tasks[n] : n \in DOMAIN Tasks} \cup {"idle"}
  BY DEF LibvirtTypeOK
<1>3. After(at) \in {Tasks[n] : n \in DOMAIN Tasks} \cup {"idle"}
  BY <1>2, TaskNames, InOrder
<1> QED
  BY OnwardGoes, <1>1, <1>2, <1>3

\* The same, where a step is known to leave the rest as it should be.
LEMMA LibvirtTypeGoesOn ==
    ASSUME LibvirtTypeOK,
           \/ at # "idle" /\ GoOn(at)
           \/ Fail
           \/ at' \in {"undefine", "pool.xml", "pool-info", "pool-define", "idle"}
                  /\ nth' = nth
           \/ UNCHANGED <<at, nth>>,
           absent' \in [Nets -> BOOLEAN], undefined' \in BOOLEAN,
           default' \in Defaults, secret' \in {"none", "empty", "valued"},
           net' \in [Nets -> [Flags -> BOOLEAN]], rbdPool' \in [Flags -> BOOLEAN],
           xml' \subseteq Nets \cup {"pool", "secret"}, cut' \subseteq Nets \cup {"secret"},
           breaks' \in 0..MaxBreaks
    PROVE  LibvirtTypeOK'
<1>1. DOMAIN Nothing = Flags
  BY DEF Nothing, Flags
<1>2. nth' \in DOMAIN Bridges /\ at' \in {Tasks[n] : n \in DOMAIN Tasks} \cup {"idle"}
  <2>1. CASE at # "idle" /\ GoOn(at)
    BY <2>1, OnwardTyped
  <2>2. CASE Fail
    BY <2>2, BridgesFacts DEF Fail
  <2>3. CASE at' \in {"undefine", "pool.xml", "pool-info", "pool-define", "idle"} /\ nth' = nth
    BY <2>3, TaskNames DEF LibvirtTypeOK
  <2>4. CASE UNCHANGED <<at, nth>>
    BY <2>4 DEF LibvirtTypeOK
  <2> QED
    BY <2>1, <2>2, <2>3, <2>4
<1> QED
  BY <1>1, <1>2 DEF LibvirtTypeOK

LEMMA LibvirtTypes ==
    LibvirtTypeOK =>
        /\ nth \in DOMAIN Bridges /\ Bridge \in Nets
        /\ absent \in [Nets -> BOOLEAN] /\ undefined \in BOOLEAN
        /\ default \in Defaults /\ secret \in {"none", "empty", "valued"}
        /\ net \in [Nets -> [Flags -> BOOLEAN]] /\ rbdPool \in [Flags -> BOOLEAN]
        /\ xml \subseteq Nets \cup {"pool", "secret"} /\ cut \subseteq Nets \cup {"secret"}
        /\ breaks \in 0..MaxBreaks
<1>1. DOMAIN Nothing = Flags
  BY DEF Nothing, Flags
<1> QED
  BY <1>1, BridgesFacts DEF LibvirtTypeOK, Bridge

LEMMA LibvirtTypeInductive == LibvirtTypeOK /\ [LibvirtNext]_libvirtVars => LibvirtTypeOK'
<1> SUFFICES ASSUME LibvirtTypeOK, [LibvirtNext]_libvirtVars
             PROVE  LibvirtTypeOK'
  OBVIOUS
<1> DEFINE Moves == \/ at # "idle" /\ GoOn(at)
                    \/ Fail
                    \/ at' \in {"undefine", "pool.xml", "pool-info", "pool-define", "idle"} /\ nth' = nth
                    \/ UNCHANGED <<at, nth>>
<1> USE LibvirtTypes DEF networks, storage
<1>0. CASE UNCHANGED libvirtVars
  BY <1>0, LibvirtTypeGoesOn DEF libvirtVars
<1>1. CASE LibvirtPlay
  <2>1. Moves
    BY <1>1 DEF LibvirtPlay
  <2> QED
    BY <1>1, <2>1, LibvirtTypeGoesOn DEF LibvirtPlay
<1>2. CASE Undefine
  <2>1. Moves
    BY <1>2 DEF Undefine
  <2>2. default' \in Defaults /\ undefined' \in BOOLEAN
    BY <1>2, LibvirtAssumption, BridgesFacts DEF Undefine, Flags, Defaults
  <2> QED
    BY <1>2, <2>1, <2>2, LibvirtTypeGoesOn DEF Undefine
<1>3. CASE Destroy
  <2>1. Moves
    BY <1>3 DEF Destroy
  <2>2. default' \in Defaults
    BY <1>3, LibvirtAssumption, BridgesFacts DEF Destroy, Flags, Defaults
  <2> QED
    BY <1>3, <2>1, <2>2, LibvirtTypeGoesOn DEF Destroy
<1>4. CASE Info
  <2>1. Moves
    BY <1>4 DEF Info
  <2>2. absent' \in [Nets -> BOOLEAN]
    BY <1>4, LibvirtAssumption, BridgesFacts DEF Info, Flags, Defaults
  <2> QED
    BY <1>4, <2>1, <2>2, LibvirtTypeGoesOn DEF Info
<1>5. CASE Copy
  <2>1. Moves
    BY <1>5 DEF Copy
  <2>2. xml' \subseteq Nets \cup {"pool", "secret"}
    BY <1>5, LibvirtAssumption, BridgesFacts DEF Copy, Flags, Defaults
  <2> QED
    BY <1>5, <2>1, <2>2, LibvirtTypeGoesOn DEF Copy
<1>6. CASE Define
  <2>1. Moves
    BY <1>6 DEF Define
  <2>2. net' \in [Nets -> [Flags -> BOOLEAN]]
    <3>1. CASE net' = net
      BY <3>1
    <3>2. CASE net' = [net EXCEPT ![Bridge].defined = @ \/ absent[Bridge]]
      BY <3>2 DEF Flags
    <3> QED
      BY <1>6, <3>1, <3>2 DEF Define
  <2> QED
    BY <1>6, <2>1, <2>2, LibvirtTypeGoesOn DEF Define
<1>7. CASE Autostart
  <2>1. Moves
    BY <1>7 DEF Autostart
  <2>2. net' \in [Nets -> [Flags -> BOOLEAN]]
    BY <1>7, LibvirtAssumption, BridgesFacts DEF Autostart, Flags, Defaults
  <2> QED
    BY <1>7, <2>1, <2>2, LibvirtTypeGoesOn DEF Autostart
<1>8. CASE StartNet
  <2>1. Moves
    BY <1>8 DEF StartNet
  <2>2. net' \in [Nets -> [Flags -> BOOLEAN]]
    BY <1>8, LibvirtAssumption, BridgesFacts DEF StartNet, Flags, Defaults
  <2> QED
    BY <1>8, <2>1, <2>2, LibvirtTypeGoesOn DEF StartNet
<1>9. CASE Remove
  <2>1. Moves
    BY <1>9 DEF Remove
  <2>2. xml' \subseteq Nets \cup {"pool", "secret"}
    BY <1>9, LibvirtAssumption, BridgesFacts DEF Remove, Flags, Defaults
  <2> QED
    BY <1>9, <2>1, <2>2, LibvirtTypeGoesOn DEF Remove
<1>10. CASE SecretList
  <2>1. Moves
    BY <1>10 DEF SecretList
  <2> QED
    BY <1>10, <2>1, LibvirtTypeGoesOn DEF SecretList
<1>11. CASE WriteXml
  <2>1. Moves
    BY <1>11 DEF WriteXml
  <2>2. xml' \subseteq Nets \cup {"pool", "secret"}
    BY <1>11, LibvirtAssumption, BridgesFacts DEF WriteXml, Flags, Defaults
  <2> QED
    BY <1>11, <2>1, <2>2, LibvirtTypeGoesOn DEF WriteXml
<1>12. CASE Secret
  <2>1. Moves
    BY <1>12 DEF Secret
  <2>2. secret' \in {"none", "empty", "valued"}
    BY <1>12, LibvirtAssumption, BridgesFacts DEF Secret, Flags, Defaults
  <2> QED
    BY <1>12, <2>1, <2>2, LibvirtTypeGoesOn DEF Secret
<1>13. CASE Rm
  <2>1. Moves
    BY <1>13 DEF Rm
  <2>2. xml' \subseteq Nets \cup {"pool", "secret"}
    BY <1>13, LibvirtAssumption, BridgesFacts DEF Rm, Flags, Defaults
  <2> QED
    BY <1>13, <2>1, <2>2, LibvirtTypeGoesOn DEF Rm
<1>14. CASE PoolInfo
  <2>1. Moves
    BY <1>14 DEF PoolInfo
  <2> QED
    BY <1>14, <2>1, LibvirtTypeGoesOn DEF PoolInfo
<1>15. CASE PoolDefine
  <2>1. Moves
    BY <1>15 DEF PoolDefine
  <2>2. rbdPool' \in [Flags -> BOOLEAN]
    BY ZenonT(60), <1>15, LibvirtAssumption, BridgesFacts DEF PoolDefine, Flags, Defaults
  <2> QED
    BY <1>15, <2>1, <2>2, LibvirtTypeGoesOn DEF PoolDefine
<1>16. CASE PoolAutostart
  <2>1. Moves
    BY <1>16 DEF PoolAutostart
  <2>2. rbdPool' \in [Flags -> BOOLEAN]
    BY <1>16, LibvirtAssumption, BridgesFacts DEF PoolAutostart, Flags, Defaults
  <2> QED
    BY <1>16, <2>1, <2>2, LibvirtTypeGoesOn DEF PoolAutostart
<1>17. CASE PoolStart
  <2>1. Moves
    BY <1>17 DEF PoolStart
  <2>2. rbdPool' \in [Flags -> BOOLEAN]
    BY ZenonT(60), <1>17, LibvirtAssumption, BridgesFacts DEF PoolStart, Flags, Defaults
  <2> QED
    BY <1>17, <2>1, <2>2, LibvirtTypeGoesOn DEF PoolStart
<1>18. CASE Break
  <2>1. Moves
    BY <1>18 DEF Break
  <2>2. breaks' \in 0..MaxBreaks /\ cut' \subseteq Nets \cup {"secret"}
    BY <1>18, LibvirtAssumption, BridgesFacts DEF Break, Flags, Defaults
  <2> QED
    BY <1>18, <2>1, <2>2, LibvirtTypeGoesOn DEF Break
<1>19. CASE Reboot
  <2>1. Moves
    BY <1>19 DEF Reboot
  <2>2. \A b \in Nets : [net[b] EXCEPT !.active = net[b].autostart] \in [Flags -> BOOLEAN]
    BY DEF Flags
  <2>3. net' \in [Nets -> [Flags -> BOOLEAN]]
    BY <1>19, <2>2 DEF Reboot
  <2>4. rbdPool' \in [Flags -> BOOLEAN] /\ default' \in Defaults
    BY <1>19 DEF Reboot, Flags, Defaults
  <2> QED
    BY <1>19, <2>1, <2>3, <2>4, LibvirtTypeGoesOn DEF Reboot
<1> QED
  BY <1>0, <1>1, <1>2, <1>3, <1>4, <1>5, <1>6, <1>7, <1>8, <1>9, <1>10, <1>11, <1>12, <1>13, <1>14,
     <1>15, <1>16, <1>17, <1>18, <1>19 DEF LibvirtNext, LibvirtProgress

LEMMA LibvirtInitInv == LibvirtInit => LibvirtInv
<1> SUFFICES ASSUME LibvirtInit PROVE LibvirtInv
  OBVIOUS
<1>1. Nothing \in [Flags -> BOOLEAN] /\ DOMAIN Nothing = Flags
  <2>1. DOMAIN Nothing = Flags /\ Nothing = [f \in DOMAIN Nothing |-> Nothing[f]]
    BY DEF Nothing, Flags
  <2>2. Nothing.defined = FALSE /\ Nothing.autostart = FALSE /\ Nothing.active = FALSE
    BY DEF Nothing
  <2>3. \A f \in Flags : Nothing[f] = FALSE
    BY <2>2 DEF Flags
  <2> QED
    BY <2>1, <2>3
<1>2. 1 \in DOMAIN Bridges /\ 0 \in 0..MaxBreaks
  BY BridgesFacts, LibvirtAssumption
<1>3. LibvirtTypeOK
  BY <1>1, <1>2 DEF LibvirtInit, LibvirtTypeOK, Defaults
<1>4. \A b \in Nets : net[b] = Nothing
  BY DEF LibvirtInit
<1>5. ~Nothing.active /\ ~Nothing.autostart /\ ~Nothing.defined
  BY DEF Nothing
<1> HIDE DEF Nothing
<1> QED
  BY <1>3, <1>4, <1>5 DEF LibvirtInit, LibvirtInv, StartedLast, AbsentAreMade, FoundAreUp,
     DescriptionIsRemoved, PoolNeedsABreak, Looped

LEMMA LibvirtNextInv == LibvirtInv /\ [LibvirtNext]_libvirtVars => LibvirtInv'
<1> SUFFICES ASSUME LibvirtInv, [LibvirtNext]_libvirtVars
             PROVE  LibvirtInv'
  OBVIOUS
<1>t. LibvirtTypeOK'
  BY LibvirtTypeInductive DEF LibvirtInv
<1>u. LibvirtTypeOK
  BY DEF LibvirtInv
<1>v. Bridge = Bridges[nth]
  BY DEF Bridge
<1>w. \A a \in Looped \cup {"undefine", "destroy", "pool.xml", "secret.xml", "secret-define",
                            "set-value", "rm", "pool-define", "pool-autostart", "pool-start"} :
        at = a /\ GoOn(at) =>
           \/ nth' = nth + 1 /\ at' = a /\ a \in Looped
           \/ nth' = 1 /\ at' = After(a) /\ (a \in Looped => nth = Len(Bridges))
  BY <1>u, OnwardGoes
<1> USE <1>t, LibvirtTypes, BridgesFacts, InOrder, <1>v, <1>w
    DEF networks, storage, Fail, LibvirtInv, StartedLast, AbsentAreMade, FoundAreUp,
        DescriptionIsRemoved, PoolNeedsABreak, Looped
<1> HIDE DEF GoOn, After, Bridge
<1>0. CASE UNCHANGED libvirtVars
  BY <1>0 DEF libvirtVars
<1>1. CASE LibvirtPlay
  BY <1>1 DEF LibvirtPlay
<1>2. CASE Undefine
  BY <1>2 DEF Undefine
<1>3. CASE Destroy
  BY <1>3 DEF Destroy
<1>4. CASE Info
  <2>1. absent'[Bridge] = ~net[Bridge].defined /\ \A b \in Nets : b # Bridge => absent'[b] = absent[b]
    BY <1>4 DEF Info
  <2>2. at = "info" /\ UNCHANGED <<net, xml, secret, rbdPool, cut>>
    BY <1>4 DEF Info
  <2>3. (nth' = nth + 1 /\ at' = "info") \/ (nth' = 1 /\ at' = "copy" /\ nth = Len(Bridges))
    BY <1>4 DEF Info
  <2> QED
    BY <2>1, <2>2, <2>3
<1>5. CASE Copy
  BY <1>5 DEF Copy
<1>6. CASE Define
  <2>1. at = "define" /\ UNCHANGED <<absent, xml, secret, rbdPool, cut>>
    BY <1>6 DEF Define
  <2>2. absent[Bridge] => Bridge \in xml
    BY <2>1
  <2>3. GoOn(at) /\ net' = [net EXCEPT ![Bridge].defined = @ \/ absent[Bridge]]
    BY <1>6, <2>2 DEF Define
  <2>4. /\ net'[Bridge].defined = (net[Bridge].defined \/ absent[Bridge])
        /\ net'[Bridge].active = net[Bridge].active
        /\ net'[Bridge].autostart = net[Bridge].autostart
        /\ \A b \in Nets : b # Bridge => net'[b] = net[b]
    BY <2>3 DEF Flags
  <2>5. \/ nth' = nth + 1 /\ at' = "define"
        \/ nth' = 1 /\ at' = "autostart" /\ nth = Len(Bridges)
    BY <2>1, <2>3
  <2>a. StartedLast'
    BY <2>1, <2>4, <2>5
  <2>b. AbsentAreMade'
    BY <2>1, <2>4, <2>5
  <2>c. FoundAreUp'
    BY <2>1, <2>4, <2>5
  <2>d. DescriptionIsRemoved'
    BY <2>1, <2>4, <2>5
  <2> QED
    BY <2>a, <2>b, <2>c, <2>d
<1>7. CASE Autostart
  <2>1. /\ net'[Bridge].autostart = (net[Bridge].autostart \/ absent[Bridge])
        /\ net'[Bridge].active = net[Bridge].active /\ net'[Bridge].defined = net[Bridge].defined
        /\ \A b \in Nets : b # Bridge => net'[b] = net[b]
    BY <1>7 DEF Autostart, Flags
  <2>2. at = "autostart" /\ UNCHANGED <<absent, xml, secret, rbdPool, cut>>
    BY <1>7 DEF Autostart
  <2>3. \/ nth' = nth + 1 /\ at' = "autostart"
        \/ nth' = 1 /\ at' = "start" /\ nth = Len(Bridges)
    BY <1>7 DEF Autostart
  <2>a. StartedLast'
    BY <2>1, <2>2, <2>3
  <2>b. AbsentAreMade'
    BY <2>1, <2>2, <2>3
  <2>c. FoundAreUp'
    BY <2>1, <2>2, <2>3
  <2>d. DescriptionIsRemoved'
    BY <2>1, <2>2, <2>3
  <2> QED
    BY <2>a, <2>b, <2>c, <2>d
<1>8. CASE StartNet
  <2>1. /\ net'[Bridge].active = (net[Bridge].active \/ absent[Bridge])
        /\ net'[Bridge].autostart = net[Bridge].autostart /\ net'[Bridge].defined = net[Bridge].defined
        /\ \A b \in Nets : b # Bridge => net'[b] = net[b]
    BY <1>8 DEF StartNet, Flags
  <2>2. at = "start" /\ UNCHANGED <<absent, xml, secret, rbdPool, cut>>
    BY <1>8 DEF StartNet
  <2>3. \/ nth' = nth + 1 /\ at' = "start"
        \/ nth' = 1 /\ at' = "remove" /\ nth = Len(Bridges)
    BY <1>8 DEF StartNet
  <2>a. StartedLast'
    BY <2>1, <2>2, <2>3
  <2>b. AbsentAreMade'
    BY <2>1, <2>2, <2>3
  <2>c. FoundAreUp'
    BY <2>1, <2>2, <2>3
  <2>d. DescriptionIsRemoved'
    BY <2>1, <2>2, <2>3
  <2> QED
    BY <2>a, <2>b, <2>c, <2>d
<1>9. CASE Remove
  BY <1>9 DEF Remove
<1>10. CASE SecretList
  BY <1>10 DEF SecretList
<1>11. CASE WriteXml
  BY <1>11 DEF WriteXml
<1>12. CASE Secret
  BY <1>12 DEF Secret
<1>13. CASE Rm
  BY <1>13 DEF Rm
<1>14. CASE PoolInfo
  BY <1>14 DEF PoolInfo
<1>15. CASE PoolDefine
  BY <1>15 DEF PoolDefine
<1>16. CASE PoolAutostart
  BY <1>16 DEF PoolAutostart
<1>17. CASE PoolStart
  <2>1. rbdPool'.defined = rbdPool.defined
    BY <1>17 DEF PoolStart, Flags
  <2>2. at = "pool-start" /\ at' = "idle" /\ UNCHANGED <<absent, net, xml, secret, cut>>
    BY <1>17 DEF PoolStart
  <2> QED
    BY <2>1, <2>2
<1>18. CASE Break
  BY <1>18 DEF Break
<1>19. CASE Reboot
  <2>1. \A b \in Nets : /\ net'[b].active = net[b].autostart
                        /\ net'[b].autostart = net[b].autostart
                        /\ net'[b].defined = net[b].defined
    BY <1>19 DEF Reboot, Flags
  <2>2. rbdPool'.defined = rbdPool.defined
    BY <1>19 DEF Reboot, Flags
  <2>3. at = "idle" /\ at' = "idle" /\ xml' = {} /\ UNCHANGED <<absent, secret, cut>>
    BY <1>19 DEF Reboot
  <2> QED
    BY <2>1, <2>2, <2>3
<1> QED
  BY <1>0, <1>1, <1>2, <1>3, <1>4, <1>5, <1>6, <1>7, <1>8, <1>9, <1>10, <1>11, <1>12, <1>13, <1>14,
     <1>15, <1>16, <1>17, <1>18, <1>19 DEF LibvirtNext, LibvirtProgress

\* Whatever the bridges, the breaks and the reboots: past the tasks on networks every bridge's
\* network is up, now and after a reboot, unless a play stopped between its definition and its
\* start (network.yml), and the pool is defined only after a play that stopped midway (rbd.yml).
THEOREM StopsDecide == LibvirtSpec => []BreaksDecide
<1>1. LibvirtInit => LibvirtInv
  BY LibvirtInitInv
<1>2. LibvirtInv /\ [LibvirtNext]_libvirtVars => LibvirtInv'
  BY LibvirtNextInv
<1>3. LibvirtInv => BreaksDecide
  BY DEF LibvirtInv, BreaksDecide, NetworksAreUp, FoundAreUp, StartedLast, DescriptionIsRemoved,
         Looped
<1> QED
  BY <1>1, <1>2, <1>3, PTL DEF LibvirtSpec

----------------------------------------------------------------------------
(* hostctl's commands.                                                     *)

InRange(n) == Modules[n] \in PriorityMin..PriorityMax

\* The modules that the command being executed is through with, or called last.
Passed(n) ==
    /\ InRange(n)
    /\ \/ Cmd = "stop" /\ Modules[n] > prio
       \/ Cmd = "start" /\ Modules[n] < prio
       \/ Modules[n] = prio /\ (n < module \/ (n = module /\ doing = "wait"))

Was(c, n) == \E i \in DOMAIN served[c] : served[c][i] = n

\* What a command has called: what it passed while it is executed, what is in range when it
\* was, and nothing before that.
CallsAreThosePassed ==
    /\ \A c \in {"stop", "start"} :
          IF cmds # <<>> /\ c = Cmd THEN \A n \in Ids : Was(c, n) <=> Passed(n)
          ELSE served[c] = <<>> \/ \A n \in Ids : Was(c, n) <=> InRange(n)
    /\ cmds = <<"stop", "start">> => served["start"] = <<>>

CalledOnce ==
    \A c \in {"stop", "start"} :
        \A i, j \in DOMAIN served[c] : served[c][i] = served[c][j] => i = j

\* What was displayed of a start stays true, a start that has not had its effect was
\* displayed as timed-out or is being waited for, and nothing is displayed of a start before
\* it was called.
StartsSoFar ==
    /\ \A n \in Ids :
          /\ told["start"][n] = "started" => service[n] = "up"
          /\ told["start"][n] = "refused" => service[n] = "down"
          /\ service[n] \in {"starting", "hung"} =>
                told["start"][n] = "timedout" \/ (doing = "wait" /\ n = module)
          /\ told["start"][n] # "nothing" => Was("start", n)
          /\ told["start"][n] # "nothing" /\ cmds # <<>> => Cmd = "start"
    /\ doing = "wait" => service[module] \in {"up", "starting", "hung"}

ActionsInv ==
    /\ ActionsTypeOK
    /\ ended <=> cmds = <<>>
    /\ doing = "wait" => /\ cmds # <<>> /\ Cmd = "start"
                         /\ module \in Ids /\ Modules[module] = prio
    /\ CallsAreThosePassed
    /\ CalledOnce
    /\ ByPriority
    /\ StartsSoFar

LEMMA ModulesFacts ==
    /\ Len(Modules) \in Nat /\ Ids = 1..Len(Modules)
    /\ \A n \in Ids : Modules[n] \in Int
    /\ PriorityMin \in Int /\ PriorityMax \in Int /\ PriorityMin =< PriorityMax /\ Timeout \in Nat
BY ActionsAssumption DEF Ids

\* The commands that are left to execute.
LEMMA CmdsAre ==
    ASSUME ActionsTypeOK, cmds # <<>>
    PROVE  /\ Cmd \in {"stop", "start"} /\ Tail(cmds) \in CmdLines \cup {<<>>}
           /\ Cmd = "start" => cmds = <<"start">> /\ Tail(cmds) = <<>>
           /\ Cmd = "stop" => \/ cmds = <<"stop">> /\ Tail(cmds) = <<>>
                              \/ /\ cmds = <<"stop", "start">> /\ Tail(cmds) = <<"start">>
                                 /\ Head(Tail(cmds)) = "start"
<1>1. cmds \in CmdLines
  BY DEF ActionsTypeOK
<1>2. CASE cmds = <<"stop">>
  BY <1>2 DEF Cmd, CmdLines
<1>3. CASE cmds = <<"start">>
  BY <1>3 DEF Cmd, CmdLines
<1>4. CASE cmds = <<"stop", "start">>
  BY <1>4 DEF Cmd, CmdLines
<1> QED
  BY <1>1, <1>2, <1>3, <1>4 DEF CmdLines

LEMMA OrderIs ==
    /\ Order("stop").from = PriorityMax /\ Order("stop").to = PriorityMin /\ Order("stop").by = 0 - 1
    /\ Order("start").from = PriorityMin /\ Order("start").to = PriorityMax /\ Order("start").by = 1
BY DEF Order, Reversed

\* A module that is called is the last of those that the command called.
LEMMA ServeAppends ==
    ASSUME ActionsTypeOK, cmds # <<>>, module \in Ids, Serve
    PROVE  /\ served' \in [{"stop", "start"} -> Seq(Ids)]
           /\ \A c \in {"stop", "start"} : c # Cmd => served'[c] = served[c]
           /\ Len(served[Cmd]) \in Nat /\ DOMAIN served[Cmd] = 1..Len(served[Cmd])
           /\ DOMAIN served'[Cmd] = 1..Len(served[Cmd]) + 1
           /\ \A i \in 1..Len(served[Cmd]) : served'[Cmd][i] = served[Cmd][i]
           /\ served'[Cmd][Len(served[Cmd]) + 1] = module
<1>1. Cmd \in {"stop", "start"} /\ served \in [{"stop", "start"} -> Seq(Ids)]
  BY CmdsAre DEF ActionsTypeOK
<1>2. Append(served[Cmd], module) \in Seq(Ids)
  BY <1>1
<1>3. /\ served'[Cmd] = Append(served[Cmd], module)
      /\ served' \in [{"stop", "start"} -> Seq(Ids)]
      /\ \A c \in {"stop", "start"} : c # Cmd => served'[c] = served[c]
  BY <1>1, <1>2 DEF Serve
<1>4. served[Cmd] \in Seq(Ids)
  BY <1>1
<1> QED
  BY <1>3, <1>4

\* Passing on to a module that was just called keeps the order and the count of the calls.
LEMMA CallKeeps ==
    ASSUME ActionsInv, Called, Serve, cmds' = cmds, prio' = prio,
           \/ module' = module + 1 /\ doing' = "look"
           \/ module' = module /\ doing' = "wait"
    PROVE  CallsAreThosePassed' /\ CalledOnce' /\ ByPriority'
<1> DEFINE L == Len(served[Cmd])
<1>1. /\ cmds # <<>> /\ Cmd' = Cmd /\ Cmd \in {"stop", "start"} /\ doing = "look"
      /\ module \in Ids /\ Modules[module] = prio /\ prio \in PriorityMin..PriorityMax
  BY CmdsAre DEF ActionsInv, ActionsTypeOK, Called, Looking, Cmd
<1>2. /\ \A c \in {"stop", "start"} : c # Cmd => served'[c] = served[c]
      /\ L \in Nat /\ DOMAIN served[Cmd] = 1..L /\ DOMAIN served'[Cmd] = 1..L + 1
      /\ \A i \in 1..L : served'[Cmd][i] = served[Cmd][i]
      /\ served'[Cmd][L + 1] = module
  BY <1>1, ServeAppends DEF ActionsInv
<1> HIDE DEF L
<1>3. \A n \in Ids : Was(Cmd, n)' <=> (Was(Cmd, n) \/ n = module)
  BY <1>1, <1>2 DEF Was
<1>4. \A n \in Ids : Passed(n)' <=> (Passed(n) \/ n = module)
  BY <1>1, ModulesFacts DEF Passed, InRange
<1>5. \A n \in Ids : Was(Cmd, n) <=> Passed(n)
  BY <1>1 DEF ActionsInv, CallsAreThosePassed
<1>6. ~Passed(module)
  BY <1>1, ModulesFacts DEF Passed
<1>7. CallsAreThosePassed'
  <2>1. \A n \in Ids : Was(Cmd, n)' <=> Passed(n)'
    BY <1>3, <1>4, <1>5
  <2>2. \A c \in {"stop", "start"}, n \in Ids : c # Cmd => (Was(c, n)' <=> Was(c, n))
    BY <1>2 DEF Was
  <2>3. cmds = <<"stop", "start">> => Cmd = "stop"
    BY DEF Cmd
  <2> QED
    BY <1>1, <1>2, <2>1, <2>2, <2>3 DEF ActionsInv, CallsAreThosePassed, InRange
<1>8. CalledOnce'
  <2>1. \A i \in 1..L : served[Cmd][i] # module
    BY <1>1, <1>2, <1>5, <1>6 DEF Was
  <2> QED
    BY <1>1, <1>2, <2>1 DEF ActionsInv, CalledOnce
<1>9. ByPriority'
  <2>1. \A i \in 1..L : /\ served[Cmd][i] \in Ids
                        /\ Cmd = "stop" => Modules[served[Cmd][i]] >= prio
                        /\ Cmd = "start" => Modules[served[Cmd][i]] =< prio
    <3>1. \A i \in 1..L : served[Cmd][i] \in Ids
      BY <1>1, <1>2 DEF ActionsInv, ActionsTypeOK
    <3>2. \A i \in 1..L : Passed(served[Cmd][i])
      BY <1>2, <1>5, <3>1 DEF Was
    <3> QED
      BY <1>1, <3>1, <3>2, ModulesFacts DEF Passed
  <2>2. CASE Cmd = "stop"
    <3>1. \A i, j \in 1..L + 1 : i < j =>
            Modules[served'["stop"][i]] >= Modules[served'["stop"][j]]
      <4> TAKE i, j \in 1..L + 1
      <4> HAVE i < j
      <4>1. i \in 1..L
        BY <1>2
      <4>2. CASE j = L + 1
        BY <1>1, <1>2, <2>1, <2>2, <4>1, <4>2
      <4>3. CASE j \in 1..L
        BY <1>2, <2>2, <4>1, <4>3 DEF ActionsInv, ByPriority
      <4> QED
        BY <1>2, <4>2, <4>3
    <3>2. served'["start"] = served["start"]
      BY <1>2, <2>2
    <3> QED
      BY <1>2, <2>2, <3>1, <3>2 DEF ActionsInv, ByPriority
  <2>3. CASE Cmd = "start"
    <3>1. \A i, j \in 1..L + 1 : i < j =>
            Modules[served'["start"][i]] =< Modules[served'["start"][j]]
      <4> TAKE i, j \in 1..L + 1
      <4> HAVE i < j
      <4>1. i \in 1..L
        BY <1>2
      <4>2. CASE j = L + 1
        BY <1>1, <1>2, <2>1, <2>3, <4>1, <4>2
      <4>3. CASE j \in 1..L
        BY <1>2, <2>3, <4>1, <4>3 DEF ActionsInv, ByPriority
      <4> QED
        BY <1>2, <4>2, <4>3
    <3>2. served'["stop"] = served["stop"]
      BY <1>2, <2>3
    <3> QED
      BY <1>2, <2>3, <3>1, <3>2 DEF ActionsInv, ByPriority
  <2> QED
    BY <1>1, <2>2, <2>3
<1> QED
  BY <1>7, <1>8, <1>9

LEMMA NotYetCalled ==
    ASSUME ActionsInv, Called
    PROVE  ~Was(Cmd, module)
<1>1. /\ cmds # <<>> /\ Cmd \in {"stop", "start"} /\ doing = "look"
      /\ module \in Ids /\ Modules[module] = prio /\ prio \in PriorityMin..PriorityMax
  BY CmdsAre DEF ActionsInv, ActionsTypeOK, Called, Looking
<1>2. ~Passed(module)
  BY <1>1, ModulesFacts DEF Passed
<1> QED
  BY <1>1, <1>2 DEF ActionsInv, CallsAreThosePassed

LEMMA TellWrites ==
    ASSUME ActionsTypeOK, cmds # <<>>, module \in Ids, NEW message \in Messages, Tell(message)
    PROVE  /\ told' \in [{"stop", "start"} -> [Ids -> Messages]]
           /\ \A c \in {"stop", "start"} : c # Cmd => told'[c] = told[c]
           /\ \A n \in Ids : n # module => told'[Cmd][n] = told[Cmd][n]
           /\ told'[Cmd][module] = message
<1>1. Cmd \in {"stop", "start"} /\ told \in [{"stop", "start"} -> [Ids -> Messages]]
  BY CmdsAre DEF ActionsTypeOK
<1> HIDE DEF Messages
<1>2. told[Cmd] \in [Ids -> Messages]
  BY <1>1
<1>3. [told[Cmd] EXCEPT ![module] = message] \in [Ids -> Messages]
  BY <1>2
<1>4. told' = [told EXCEPT ![Cmd] = [told[Cmd] EXCEPT ![module] = message]]
  BY DEF Tell
<1> QED
  BY <1>1, <1>2, <1>3, <1>4

\* Nothing is called, and what is passed stays the same.
LEMMA PassingKeeps ==
    ASSUME ActionsInv, served' = served, cmds' = cmds,
           cmds # <<>> => \A n \in Ids : Passed(n)' <=> Passed(n)
    PROVE  CallsAreThosePassed' /\ CalledOnce' /\ ByPriority'
<1>1. Cmd' = Cmd /\ \A c \in {"stop", "start"}, n \in Ids : Was(c, n)' <=> Was(c, n)
  BY DEF Was, Cmd
<1> QED
  BY <1>1 DEF ActionsInv, CallsAreThosePassed, CalledOnce, ByPriority, InRange

\* Nothing is displayed, and no service changes.
LEMMA StartsStay ==
    ASSUME ActionsInv, doing = "look", doing' = "look",
           told' = told, service' = service, served' = served,
           cmds' # <<>> => cmds # <<>> /\ Cmd' \in {Cmd, "start"}
    PROVE  StartsSoFar'
<1>1. \A n \in Ids : Was("start", n)' <=> Was("start", n)
  BY DEF Was
<1> QED
  BY <1>1 DEF ActionsInv, StartsSoFar

LEMMA ActionsInitInv == ActionsInit => ActionsInv
<1> SUFFICES ASSUME ActionsInit PROVE ActionsInv
  OBVIOUS
<1>1. cmds[1] \in {"stop", "start"} /\ cmds # <<>> /\ Cmd = cmds[1]
  BY DEF ActionsInit, CmdLines, Cmd
<1>2. /\ Cmd = "stop" => prio = PriorityMax
      /\ Cmd = "start" => prio = PriorityMin
  BY <1>1, OrderIs DEF ActionsInit
<1>3. served["stop"] = <<>> /\ served["start"] = <<>> /\ <<>> \in Seq(Ids)
  BY DEF ActionsInit
<1>4. ActionsTypeOK
  <2>1. prio \in PriorityMin..PriorityMax /\ module \in 1..Len(Modules) + 1 /\ timer \in 0..Timeout
    BY <1>1, <1>2, ModulesFacts DEF ActionsInit
  <2>2. served \in [{"stop", "start"} -> Seq(Ids)]
    BY <1>3 DEF ActionsInit
  <2> QED
    BY <2>1, <2>2 DEF ActionsInit, ActionsTypeOK, States, Messages
<1>5. \A c \in {"stop", "start"}, n \in Ids : ~Was(c, n)
  BY <1>3 DEF Was
<1>6. \A n \in Ids : ~Passed(n)
  BY <1>1, <1>2, ModulesFacts DEF ActionsInit, Passed, InRange
<1>7. CallsAreThosePassed
  BY <1>1, <1>3, <1>5, <1>6 DEF CallsAreThosePassed
<1> QED
  BY <1>1, <1>3, <1>4, <1>7
  DEF ActionsInit, ActionsInv, CalledOnce, ByPriority, StartsSoFar

LEMMA ActionsNextInv == ActionsInv /\ [ActionsNext]_actionVars => ActionsInv'
<1> SUFFICES ASSUME ActionsInv, [ActionsNext]_actionVars
             PROVE  ActionsInv'
  OBVIOUS
<1>a. ActionsTypeOK /\ (cmds # <<>> => Cmd \in {"stop", "start"})
  BY CmdsAre DEF ActionsInv
<1> DEFINE Rest == CallsAreThosePassed' /\ CalledOnce' /\ ByPriority'
<1>0. CASE UNCHANGED actionVars
  <2>1. Rest
    BY <1>0, PassingKeeps DEF actionVars, Passed, InRange, Cmd
  <2> QED
    BY <1>0, <2>1 DEF actionVars, ActionsInv, ActionsTypeOK, StartsSoFar, Was, Cmd
<1>1. CASE Skip
  <2>1. \A n \in Ids : Passed(n)' <=> Passed(n)
    BY <1>1, <1>a, ModulesFacts DEF Skip, NextModule, Looking, Passed, InRange, Cmd, ActionsTypeOK
  <2>2. Rest
    BY <1>1, <2>1, PassingKeeps DEF Skip, NextModule
  <2>3. module' \in 1..Len(Modules) + 1 /\ timer' \in 0..Timeout
    BY <1>1, ModulesFacts DEF Skip, NextModule, Looking
  <2>4. StartsSoFar'
    BY <1>1, StartsStay DEF Skip, NextModule, Looking, Cmd
  <2> QED
    BY <1>1, <2>2, <2>3, <2>4 DEF Skip, NextModule, Looking, ActionsInv, ActionsTypeOK
<1>2. CASE NextPriority
  <2>1. module' = 1 /\ 1 \in 1..Len(Modules) + 1 /\ doing = "look" /\ doing' = "look"
    BY <1>2, ModulesFacts DEF NextPriority, ActionsInv, ActionsTypeOK
  <2>2. cmds # <<>> /\ Cmd' = Cmd /\ module = Len(Modules) + 1 /\ prio \in PriorityMin..PriorityMax
    BY <1>2, <1>a DEF NextPriority, Cmd, ActionsTypeOK
  <2>3. \/ Cmd = "stop" /\ prio # PriorityMin /\ prio' = prio + (0 - 1)
        \/ Cmd = "start" /\ prio # PriorityMax /\ prio' = prio + 1
    <3>1. CASE Cmd = "stop"
      BY <1>2, <3>1, OrderIs DEF NextPriority
    <3>2. CASE Cmd = "start"
      BY <1>2, <3>2, OrderIs DEF NextPriority
    <3> QED
      BY <1>a, <2>2, <3>1, <3>2
  <2>4. prio' \in PriorityMin..PriorityMax
    BY <2>2, <2>3, ModulesFacts
  <2>5. \A n \in Ids : Passed(n)' <=> Passed(n)
    <3> SUFFICES ASSUME NEW n \in Ids PROVE Passed(n)' <=> Passed(n)
      OBVIOUS
    <3>1. Modules[n] \in Int /\ n \in Nat /\ n >= 1 /\ n < module
      BY <2>2, ModulesFacts
    <3> QED
      BY <2>1, <2>2, <2>3, <3>1, ModulesFacts DEF Passed, InRange
  <2>6. Rest
    BY <1>2, <2>5, PassingKeeps DEF NextPriority
  <2>7. StartsSoFar'
    BY <1>2, <2>1, <2>2, StartsStay DEF NextPriority
  <2> QED
    BY <1>2, <2>1, <2>4, <2>6, <2>7 DEF NextPriority, ActionsInv, ActionsTypeOK
<1>3. CASE NextCmd
  <2>1. cmds # <<>> /\ cmds' = Tail(cmds) /\ served' = served /\ doing = "look"
    BY <1>3, ModulesFacts DEF NextCmd, ActionsInv, ActionsTypeOK
  <2>2. \A n \in Ids : Passed(n) <=> InRange(n)
    <3>1. (Cmd = "stop" /\ prio = PriorityMin) \/ (Cmd = "start" /\ prio = PriorityMax)
      <4>1. CASE Cmd = "stop"
        BY <1>3, <4>1, OrderIs DEF NextCmd
      <4>2. CASE Cmd = "start"
        BY <1>3, <4>2, OrderIs DEF NextCmd
      <4> QED
        BY <1>a, <2>1, <4>1, <4>2
    <3>2. \A n \in Ids : n < module
      BY <1>3, ModulesFacts DEF NextCmd
    <3> QED
      BY <3>1, <3>2, ModulesFacts DEF Passed, InRange
  <2>3. CASE cmds' = <<>>
    <3>1. CallsAreThosePassed'
      BY <2>1, <2>2, <2>3 DEF ActionsInv, CallsAreThosePassed, InRange, Was
    <3>2. StartsSoFar'
      BY <1>3, <2>1, <2>3, StartsStay DEF NextCmd
    <3> QED
      BY <1>3, <2>1, <2>3, <3>1, <3>2
      DEF NextCmd, ActionsInv, ActionsTypeOK, CalledOnce, ByPriority
  <2>4. CASE cmds' # <<>>
    <3>1. cmds = <<"stop", "start">> /\ cmds' = <<"start">> /\ Cmd = "stop" /\ Cmd' = "start"
      BY <2>1, <2>4, <1>a, CmdsAre DEF Cmd
    <3>2. prio' = PriorityMin /\ module' = 1 /\ doing' = "look" /\ ended' = ended
      BY <1>3, <2>1, <2>4, <3>1, OrderIs DEF NextCmd, Cmd
    <3>3. served["start"] = <<>>
      BY <3>1 DEF ActionsInv, CallsAreThosePassed
    <3>4. \A n \in Ids : ~Passed(n)'
      BY <3>1, <3>2, ModulesFacts DEF Passed, InRange
    <3>5. \A n \in Ids : ~Was("start", n)' /\ (Was("stop", n)' <=> Was("stop", n))
      BY <2>1, <3>3 DEF Was
    <3>6. CallsAreThosePassed'
      <4>1. \A n \in Ids : Was("stop", n) <=> InRange(n)
        BY <2>1, <2>2, <3>1 DEF ActionsInv, CallsAreThosePassed
      <4>2. cmds' # <<"stop", "start">> /\ cmds' # <<>>
        BY <3>1
      <4> QED
        BY <3>1, <3>4, <3>5, <4>1, <4>2 DEF CallsAreThosePassed, InRange
    <3>7. ActionsTypeOK'
      <4>1. prio' \in PriorityMin..PriorityMax /\ module' \in 1..Len(Modules) + 1
        BY <3>2, ModulesFacts
      <4> QED
        BY <1>3, <3>1, <3>2, <4>1 DEF NextCmd, ActionsInv, ActionsTypeOK, CmdLines
    <3> QED
      BY <1>3, <2>1, <3>1, <3>2, <3>6, <3>7
      DEF NextCmd, ActionsInv, StartsSoFar, Was, CalledOnce, ByPriority
  <2> QED
    BY <2>3, <2>4
<1>4. CASE Wait
  <2>1. \A n \in Ids : Passed(n)' <=> Passed(n)
    BY <1>4 DEF Wait, Passed, InRange, Cmd
  <2>2. Rest
    BY <1>4, <2>1, PassingKeeps DEF Wait
  <2>3. timer' \in 0..Timeout
    BY <1>4, ModulesFacts DEF Wait, ActionsInv, ActionsTypeOK
  <2> QED
    BY <1>4, <2>2, <2>3 DEF Wait, ActionsInv, ActionsTypeOK, StartsSoFar, Was, Cmd
<1>5. CASE Waited
  <2>1. module \in Ids /\ Modules[module] = prio /\ cmds # <<>>
    BY <1>5 DEF Waited, ActionsInv
  <2>2. \A n \in Ids : Passed(n)' <=> Passed(n)
    BY <1>5, <2>1, ModulesFacts DEF Waited, NextModule, Passed, InRange, Cmd
  <2>3. Rest
    BY <1>5, <2>2, PassingKeeps DEF Waited, NextModule
  <2>4. module' \in 1..Len(Modules) + 1 /\ timer' \in 0..Timeout
    BY <1>5, <2>1, ModulesFacts DEF Waited, NextModule, ActionsInv, ActionsTypeOK
  <2>5. /\ doing = "wait" /\ Cmd = "start" /\ Cmd' = Cmd /\ cmds' = cmds /\ service' = service
        /\ Passed(module) /\ doing' = "look" /\ Tell(IF Answers THEN "started" ELSE "timedout")
    BY <1>5, <2>1 DEF Waited, NextModule, ActionsInv, Passed, InRange, ActionsTypeOK, Cmd
  <2>6. /\ told' \in [{"stop", "start"} -> [Ids -> Messages]]
        /\ \A n \in Ids : n # module => told'["start"][n] = told["start"][n]
        /\ told'["start"][module] = IF Answers THEN "started" ELSE "timedout"
    BY <2>1, <2>5, TellWrites DEF ActionsInv, Messages
  <2>7. \A n \in Ids : Was("start", n)' <=> Was("start", n)
    BY <1>5 DEF Waited, Was
  <2>8. Was("start", module)
    BY <2>1, <2>5 DEF ActionsInv, CallsAreThosePassed
  <2>9. StartsSoFar'
    BY <2>1, <2>5, <2>6, <2>7, <2>8 DEF Answers, ActionsInv, StartsSoFar
  <2> QED
    BY <1>5, <2>1, <2>3, <2>4, <2>6, <2>9 DEF Waited, NextModule, ActionsInv, ActionsTypeOK
<1>6. ASSUME NEW outcome \in {"down", "stopping", "failed"}, StopService(outcome)
      PROVE  ActionsInv'
  <2>1. /\ Called /\ Serve /\ Cmd = "stop" /\ cmds # <<>> /\ module \in Ids /\ doing = "look"
        /\ cmds' = cmds /\ prio' = prio /\ module' = module + 1 /\ doing' = "look"
        /\ Tell("stopped")
    BY <1>6 DEF StopService, NextModule, Called, Looking
  <2>2. Rest
    BY <2>1, CallKeeps
  <2>3. served' \in [{"stop", "start"} -> Seq(Ids)] /\ served'["start"] = served["start"]
    BY <2>1, <1>a, ServeAppends
  <2>4. /\ service' \in [Ids -> States]
        /\ \A n \in Ids : service'[n] \in {"starting", "hung"} => service'[n] = service[n]
    BY <1>6, <2>1 DEF StopService, ActionsInv, ActionsTypeOK, States
  <2>5. /\ told' \in [{"stop", "start"} -> [Ids -> Messages]]
        /\ told'["start"] = told["start"]
    BY <2>1, TellWrites DEF ActionsInv, Messages
  <2>6. module' \in 1..Len(Modules) + 1 /\ timer' \in 0..Timeout
    BY <1>6, <2>1, ModulesFacts DEF StopService, NextModule
  <2>7. \A n \in Ids : told["start"][n] = "nothing"
    BY <2>1 DEF ActionsInv, StartsSoFar
  <2>8. StartsSoFar'
    BY <2>1, <2>4, <2>5, <2>7 DEF ActionsInv, StartsSoFar
  <2> QED
    BY <1>6, <2>1, <2>2, <2>3, <2>4, <2>5, <2>6, <2>8
    DEF StopService, NextModule, ActionsInv, ActionsTypeOK
<1>7. ASSUME NEW outcome \in {"up", "starting", "hung", "failed"}, StartService(outcome)
      PROVE  ActionsInv'
  <2>1. /\ Called /\ Serve /\ Cmd = "start" /\ cmds # <<>> /\ module \in Ids /\ doing = "look"
        /\ cmds' = cmds /\ Cmd' = Cmd /\ prio' = prio /\ Modules[module] = prio
        /\ ended' = ended
    BY <1>7 DEF StartService, NextModule, Called, Looking, Cmd
  <2>2. told["start"][module] = "nothing" /\ service[module] \notin {"starting", "hung"}
    BY <2>1, NotYetCalled DEF ActionsInv, StartsSoFar
  <2>3. \/ /\ module' = module + 1 /\ doing' = "look" /\ timer' = 0 /\ service' = service
           /\ \/ Answers /\ Tell("already")
              \/ ~Answers /\ Tell("refused")
        \/ /\ module' = module /\ doing' = "wait" /\ timer' = timer /\ told' = told
           /\ service' = [service EXCEPT ![module] = outcome] /\ outcome # "failed"
    BY <1>7 DEF StartService, NextModule
  <2>4. Rest
    BY <2>1, <2>3, CallKeeps
  <2>5. /\ served' \in [{"stop", "start"} -> Seq(Ids)]
        /\ \A n \in Ids : Was("start", n) \/ n = module => Was("start", n)'
    <3> DEFINE L == Len(served["start"])
    <3>1. /\ served' \in [{"stop", "start"} -> Seq(Ids)]
          /\ L \in Nat /\ DOMAIN served["start"] = 1..L /\ DOMAIN served'["start"] = 1..L + 1
          /\ \A i \in 1..L : served'["start"][i] = served["start"][i]
          /\ served'["start"][L + 1] = module
      BY <2>1, <1>a, ServeAppends
    <3> HIDE DEF L
    <3>2. L + 1 \in DOMAIN served'["start"] /\ \A i \in 1..L : i \in DOMAIN served'["start"]
      BY <3>1
    <3> QED
      BY <3>1, <3>2 DEF Was
  <2>6. /\ told' \in [{"stop", "start"} -> [Ids -> Messages]]
        /\ \A n \in Ids : n # module => told'["start"][n] = told["start"][n]
        /\ doing' = "look" => told'["start"][module] = IF Answers THEN "already" ELSE "refused"
        /\ doing' = "wait" => told'["start"][module] = "nothing"
    <3>1. CASE told' = told /\ doing' = "wait"
      BY <2>2, <3>1 DEF ActionsInv, ActionsTypeOK
    <3>2. CASE Answers /\ Tell("already") /\ doing' = "look"
      BY <2>1, <3>2, TellWrites DEF ActionsInv, Messages
    <3>3. CASE ~Answers /\ Tell("refused") /\ doing' = "look"
      BY <2>1, <3>3, TellWrites DEF ActionsInv, Messages
    <3> QED
      BY <2>3, <3>1, <3>2, <3>3
  <2>7. /\ module' \in 1..Len(Modules) + 1 /\ timer' \in 0..Timeout
        /\ service' \in [Ids -> States]
        /\ \A n \in Ids : n # module => service'[n] = service[n]
        /\ doing' = "look" => service'[module] = service[module]
        /\ doing' = "wait" => service'[module] \in {"up", "starting", "hung"} /\ module' = module
    <3>1. timer \in 0..Timeout /\ 0 \in 0..Timeout
      BY ModulesFacts DEF ActionsInv, ActionsTypeOK
    <3>2. module \in 1..Len(Modules) + 1 /\ module + 1 \in 1..Len(Modules) + 1
      BY <2>1, ModulesFacts
    <3>3. service \in [Ids -> States]
      BY DEF ActionsInv, ActionsTypeOK
    <3>4. outcome # "failed" => [service EXCEPT ![module] = outcome] \in [Ids -> States]
      BY <3>3 DEF States
    <3> QED
      BY <2>1, <2>3, <3>1, <3>2, <3>3, <3>4
  <2>8. service[module] \in {"up", "stopping", "down"} /\ (~Answers => service[module] = "down")
    BY <2>1, <2>2 DEF ActionsInv, ActionsTypeOK, States, Answers
  <2>9. StartsSoFar'
    <3>1. ASSUME NEW n \in Ids, n # module
          PROVE  /\ told'["start"][n] = "started" => service'[n] = "up"
                 /\ told'["start"][n] = "refused" => service'[n] = "down"
                 /\ service'[n] \in {"starting", "hung"} => told'["start"][n] = "timedout"
                 /\ told'["start"][n] # "nothing" => Was("start", n)'
      <4>1. /\ told'["start"][n] = told["start"][n] /\ service'[n] = service[n]
            /\ ~(doing = "wait" /\ n = module)
            /\ Was("start", n) => Was("start", n)'
        BY <2>1, <2>5, <2>6, <2>7, <3>1
      <4> QED
        BY <4>1 DEF ActionsInv, StartsSoFar
    <3>2. ASSUME NEW n \in Ids, n = module
          PROVE  /\ told'["start"][n] = "started" => service'[n] = "up"
                 /\ told'["start"][n] = "refused" => service'[n] = "down"
                 /\ service'[n] \in {"starting", "hung"} => doing' = "wait" /\ module' = n
                 /\ Was("start", n)'
      <4>1. doing' \in {"look", "wait"}
        BY <2>3
      <4>2. CASE doing' = "look"
        BY <2>1, <2>5, <2>6, <2>7, <2>8, <3>2, <4>2
      <4>3. CASE doing' = "wait"
        BY <2>1, <2>5, <2>6, <2>7, <3>2, <4>3
      <4> QED
        BY <4>1, <4>2, <4>3
    <3>3. doing' = "wait" => service'[module'] \in {"up", "starting", "hung"}
      BY <2>7
    <3> QED
      BY <2>1, <3>1, <3>2, <3>3 DEF StartsSoFar
  <2> QED
    BY <2>1, <2>3, <2>4, <2>5, <2>6, <2>7, <2>9, <1>a DEF ActionsInv, ActionsTypeOK, Cmd
<1>8. ASSUME NEW n \in Ids, Settle(n)
      PROVE  ActionsInv'
  <2>1. \A m \in Ids : Passed(m)' <=> Passed(m)
    BY <1>8 DEF Settle, Passed, InRange, Cmd
  <2>2. Rest
    BY <1>8, <2>1, PassingKeeps DEF Settle
  <2>3. /\ service' \in [Ids -> States]
        /\ \A m \in Ids : service'[m] \in {"starting", "hung"} => service'[m] = service[m]
    BY <1>8 DEF Settle, ActionsInv, ActionsTypeOK, States
  <2>4. /\ \A m \in Ids : Was("start", m)' <=> Was("start", m)
        /\ Cmd' = Cmd /\ cmds' = cmds /\ told' = told /\ doing' = doing /\ module' = module
    BY <1>8 DEF Settle, Was, Cmd
  <2>6. /\ \A m \in Ids : m # n => service'[m] = service[m]
        /\ service'[n] = IF service[n] = "stopping" THEN "down" ELSE "up"
        /\ service[n] \in {"starting", "stopping"}
        /\ doing = "wait" => module \in Ids
    BY <1>8 DEF Settle, ActionsInv, ActionsTypeOK
  <2>5. StartsSoFar'
    BY <1>8, <2>3, <2>4, <2>6 DEF Settle, ActionsInv, ActionsTypeOK, StartsSoFar, States
  <2> QED
    BY <1>8, <2>2, <2>3, <2>5 DEF Settle, ActionsInv, ActionsTypeOK, Cmd
<1> QED
  BY <1>0, <1>1, <1>2, <1>3, <1>4, <1>5, <1>6, <1>7, <1>8 DEF ActionsNext, ActionsProgress

LEMMA ActionsInvImplies == ActionsInv => OrdersAreServed
<1> SUFFICES ASSUME ActionsInv PROVE OrdersAreServed
  OBVIOUS
<1>1. EachServedOnce
  <2> SUFFICES ASSUME ended, NEW n \in Ids, NEW c \in {"stop", "start"}
               PROVE  LET calls == {i \in DOMAIN served[c] : served[c][i] = n} IN
                      IF Modules[n] \in PriorityMin..PriorityMax /\ served[c] # <<>>
                      THEN \E i \in calls : calls = {i} ELSE calls = {}
    BY DEF EachServedOnce
  <2>1. served[c] = <<>> \/ (Was(c, n) <=> InRange(n))
    BY DEF ActionsInv, CallsAreThosePassed
  <2>2. CASE Was(c, n) /\ InRange(n) /\ served[c] # <<>>
    <3>1. PICK i \in DOMAIN served[c] : served[c][i] = n
      BY <2>2 DEF Was
    <3>2. {j \in DOMAIN served[c] : served[c][j] = n} = {i}
      BY <3>1 DEF ActionsInv, CalledOnce
    <3> QED
      BY <2>2, <3>1, <3>2 DEF InRange
  <2>3. CASE ~Was(c, n) /\ (served[c] = <<>> \/ ~InRange(n))
    BY <2>3 DEF Was, InRange
  <2>4. served[c] = <<>> => ~Was(c, n)
    BY DEF Was
  <2> QED
    BY <2>1, <2>2, <2>3, <2>4
<1>2. StartsAreReported
  <2>1. ended => doing # "wait"
    BY DEF ActionsInv
  <2> QED
    BY <2>1 DEF ActionsInv, StartsSoFar, StartsAreReported
<1> QED
  BY <1>1, <1>2 DEF OrdersAreServed, ActionsInv

\* Whatever the modules, their priorities and what the services do: a command calls every module
\* in range once, by priority, stopping what depends on others first and starting it last
\* (modulesCmd), and what is displayed of a start is true at the end (startService).
THEOREM ServedByPriority == ActionsSpec => []OrdersAreServed
<1>1. ActionsInit => ActionsInv
  BY ActionsInitInv
<1>2. ActionsInv /\ [ActionsNext]_actionVars => ActionsInv'
  BY ActionsNextInv
<1>3. ActionsInv => OrdersAreServed
  BY ActionsInvImplies
<1> QED
  BY <1>1, <1>2, <1>3, PTL DEF ActionsSpec

----------------------------------------------------------------------------
(* version_ge.                                                             *)

\* The rounds that the loop made.
Rounds == Len(v1) - Len(left1)

\* While the loop goes on, what is left of each version is what follows on the parts that
\* it compared, and those are the same.
EqualSoFar ==
    /\ Rounds \in Nat
    /\ Len(left1) = Len(v1) - Rounds /\ Len(left2) = Len(v2) - Rounds
    /\ \A n \in 1..Len(left1) : left1[n] = v1[Rounds + n]
    /\ \A n \in 1..Len(left2) : left2[n] = v2[Rounds + n]
    /\ \A n \in 1..Rounds : v1[n] = v2[n]

VersionInv ==
    /\ VersionTypeOK
    /\ result = Pending => EqualSoFar
    /\ ResultIsTheOrder

LEMMA VersionsAre ==
    ASSUME NEW v
    PROVE  v \in Versions <=> v \in Seq(Parts) /\ Len(v) =< MaxLength
<1>1. ASSUME v \in Versions PROVE v \in Seq(Parts) /\ Len(v) =< MaxLength
  <2>1. PICK n \in 0..MaxLength : v \in [1..n -> Parts]
    BY <1>1 DEF Versions
  <2>2. v \in Seq(Parts) /\ Len(v) = n
    BY <2>1, VersionAssumption
  <2> QED
    BY <2>1, <2>2, VersionAssumption
<1>2. ASSUME v \in Seq(Parts), Len(v) =< MaxLength PROVE v \in Versions
  <2>1. Len(v) \in 0..MaxLength /\ v \in [1..Len(v) -> Parts]
    BY <1>2, VersionAssumption
  <2> QED
    BY <2>1 DEF Versions
<1> QED
  BY <1>1, <1>2

LEMMA VersionTypes ==
    VersionTypeOK =>
        /\ v1 \in Seq(Parts) /\ v2 \in Seq(Parts) /\ left1 \in Seq(Parts) /\ left2 \in Seq(Parts)
        /\ Len(v1) \in Nat /\ Len(v2) \in Nat /\ Len(left1) \in Nat /\ Len(left2) \in Nat
        /\ DOMAIN v1 = 1..Len(v1) /\ DOMAIN v2 = 1..Len(v2)
        /\ \A n \in DOMAIN v1 : v1[n] \in Nat
        /\ \A n \in DOMAIN v2 : v2[n] \in Nat
<1> SUFFICES ASSUME VersionTypeOK
             PROVE  /\ v1 \in Seq(Parts) /\ v2 \in Seq(Parts) /\ left1 \in Seq(Parts) /\ left2 \in Seq(Parts)
                    /\ Len(v1) \in Nat /\ Len(v2) \in Nat /\ Len(left1) \in Nat /\ Len(left2) \in Nat
                    /\ DOMAIN v1 = 1..Len(v1) /\ DOMAIN v2 = 1..Len(v2)
                    /\ \A n \in DOMAIN v1 : v1[n] \in Nat
                    /\ \A n \in DOMAIN v2 : v2[n] \in Nat
  OBVIOUS
<1>1. v1 \in Seq(Parts) /\ v2 \in Seq(Parts) /\ left1 \in Seq(Parts) /\ left2 \in Seq(Parts)
  BY VersionsAre DEF VersionTypeOK
<1>2. /\ Len(v1) \in Nat /\ Len(v2) \in Nat /\ Len(left1) \in Nat /\ Len(left2) \in Nat
      /\ DOMAIN v1 = 1..Len(v1) /\ DOMAIN v2 = 1..Len(v2)
  BY <1>1
<1>3. (\A n \in DOMAIN v1 : v1[n] \in Parts) /\ (\A n \in DOMAIN v2 : v2[n] \in Parts)
  BY <1>1
<1> QED
  BY <1>1, <1>2, <1>3, VersionAssumption

LEMMA VersionTypeInductive == VersionTypeOK /\ [VersionNext]_versionVars => VersionTypeOK'
<1> SUFFICES ASSUME VersionTypeOK, [VersionNext]_versionVars
             PROVE  VersionTypeOK'
  OBVIOUS
<1>1. CASE UNCHANGED versionVars
  BY <1>1 DEF versionVars, VersionTypeOK
<1>2. CASE Split
  <2>1. \A v \in Versions : v # <<>> => Tail(v) \in Versions
    <3> SUFFICES ASSUME NEW v \in Versions, v # <<>> PROVE Tail(v) \in Versions
      OBVIOUS
    <3>1. v \in Seq(Parts) /\ Len(v) =< MaxLength
      BY VersionsAre
    <3>2. Tail(v) \in Seq(Parts) /\ Len(Tail(v)) =< MaxLength
      BY <3>1, VersionAssumption
    <3> QED
      BY <3>2, VersionsAre
  <2> HIDE DEF Versions
  <2> QED
    BY ZenonT(60), <1>2, <2>1 DEF Split, VersionTypeOK, Pending
<1>3. CASE Same
  BY <1>3 DEF Same, VersionTypeOK, Pending
<1> QED
  BY <1>1, <1>2, <1>3 DEF VersionNext

\* The part that decides is the only one that CHOOSE can find.
LEMMA FirstDifference ==
    ASSUME VersionTypeOK, NEW k \in 1..Len(v1), k =< Len(v2), v1[k] # v2[k],
           \A m \in 1..k - 1 : v1[m] = v2[m]
    PROVE  /\ DiffersAt = k
           /\ v1 # v2 /\ ~IsPrefix(v1, v2) /\ ~IsPrefix(v2, v1)
<1>1. k \in DOMAIN v1 /\ k \in DOMAIN v2 /\ DOMAIN v1 = 1..Len(v1) /\ Len(v1) \in Nat
  BY VersionTypes
<1>2. \A n \in DOMAIN v1 : v1[n] # v2[n] /\ (\A m \in 1..n - 1 : v1[m] = v2[m]) => n = k
  <2> SUFFICES ASSUME NEW n \in 1..Len(v1), v1[n] # v2[n], \A m \in 1..n - 1 : v1[m] = v2[m]
               PROVE  n = k
    BY <1>1
  <2>1. ~(n < k) /\ ~(k < n)
    BY <1>1
  <2> QED
    BY <1>1, <2>1
<1>3. ~IsPrefix(v1, v2) /\ ~IsPrefix(v2, v1)
  BY <1>1 DEF IsPrefix
<1> QED
  BY <1>1, <1>2, <1>3 DEF DiffersAt

LEMMA VersionNextInv == VersionInv /\ [VersionNext]_versionVars => VersionInv'
<1> SUFFICES ASSUME VersionInv, [VersionNext]_versionVars
             PROVE  VersionInv'
  OBVIOUS
<1>t. VersionTypeOK /\ VersionTypeOK'
  BY VersionTypeInductive DEF VersionInv
<1>1. CASE UNCHANGED versionVars
  BY <1>1 DEF versionVars, VersionInv, VersionTypeOK, EqualSoFar, Rounds, ResultIsTheOrder, IsPrefix,
             DiffersAt, OnlyZeros
<1>2. CASE Split
  <2>1. result = Pending /\ EqualSoFar /\ v1' = v1 /\ v2' = v2
    BY <1>2 DEF Split, VersionInv
  <2>2. CASE left1 = <<>>
    <3>1. result' = 21 /\ Len(left1) = 0 /\ Len(left2) > 0
      BY <1>2, <1>t, <2>2, VersionTypes DEF Split
    <3>2. Len(v1) < Len(v2) /\ IsPrefix(v1, v2) /\ ~IsPrefix(v2, v1) /\ v1 # v2
      BY <1>t, <2>1, <3>1, VersionTypes DEF EqualSoFar, IsPrefix
    <3> QED
      BY <1>t, <2>1, <3>1, <3>2 DEF VersionInv, ResultIsTheOrder, IsPrefix, Pending, Below, Above
  <2>3. CASE left1 # <<>> /\ left2 = <<>>
    <3>1. result' = 11 /\ Len(left1) > 0 /\ Len(left2) = 0
      BY <1>2, <1>t, <2>3, VersionTypes DEF Split
    <3>2. Len(v2) < Len(v1) /\ IsPrefix(v2, v1) /\ ~IsPrefix(v1, v2) /\ v1 # v2
      BY <1>t, <2>1, <3>1, VersionTypes DEF EqualSoFar, IsPrefix
    <3> QED
      BY <1>t, <2>1, <3>1, <3>2 DEF VersionInv, ResultIsTheOrder, IsPrefix, Pending, Below, Above
  <2>4. CASE left1 # <<>> /\ left2 # <<>>
    <3> DEFINE k == Rounds + 1
    <3>1. Len(left1) > 0 /\ Len(left2) > 0 /\ k \in 1..Len(v1) /\ k =< Len(v2) /\ k \in Nat
      BY <1>t, <2>1, <2>4, VersionTypes DEF EqualSoFar
    <3>2. Head(left1) = v1[k] /\ Head(left2) = v2[k] /\ v1[k] \in Nat /\ v2[k] \in Nat
      <4>1. Head(left1) = left1[1] /\ Head(left2) = left2[1]
        BY <1>t, <2>4, VersionTypes
      <4> QED
        BY <1>t, <2>1, <3>1, <4>1, VersionTypes DEF EqualSoFar
    <3>3. \A m \in 1..k - 1 : v1[m] = v2[m]
      BY <2>1 DEF EqualSoFar
    <3>4. CASE v1[k] = v2[k]
      <4>1. result' = Pending /\ left1' = Tail(left1) /\ left2' = Tail(left2)
        BY <1>2, <2>1, <2>4, <3>2, <3>4 DEF Split
      <4>2. /\ Len(Tail(left1)) = Len(left1) - 1 /\ Len(Tail(left2)) = Len(left2) - 1
            /\ \A n \in 1..Len(left1) - 1 : Tail(left1)[n] = left1[n + 1]
            /\ \A n \in 1..Len(left2) - 1 : Tail(left2)[n] = left2[n + 1]
        BY <1>t, <2>4, VersionTypes
      <4>3. Rounds' = k
        <5>1. Len(left1') = Len(left1) - 1 /\ Len(left1) \in Nat /\ Len(v1) \in Nat
          BY <1>t, <4>1, <4>2, VersionTypes
        <5> QED
          BY <2>1, <5>1 DEF Rounds
      <4> HIDE DEF k
      <4>4. \A n \in 1..k : v1[n] = v2[n]
        BY <3>1, <3>3, <3>4
      <4>5. /\ Len(left1) - 1 = Len(v1) - k /\ Len(left2) - 1 = Len(v2) - k
            /\ \A n \in 1..Len(left1) - 1 : left1[n + 1] = v1[k + n]
            /\ \A n \in 1..Len(left2) - 1 : left2[n + 1] = v2[k + n]
        BY <1>t, <2>1, VersionTypes DEF EqualSoFar, k
      <4>6. EqualSoFar'
        BY <2>1, <3>1, <4>1, <4>2, <4>3, <4>4, <4>5 DEF EqualSoFar
      <4> QED
        BY <1>t, <4>1, <4>6 DEF VersionInv, ResultIsTheOrder
    <3>5. CASE v1[k] # v2[k]
      <4>1. result' = IF v1[k] < v2[k] THEN 20 ELSE 10
        BY <1>2, <2>1, <2>4, <3>2, <3>5 DEF Split
      <4> HIDE DEF k
      <4>2. DiffersAt = k /\ v1 # v2 /\ ~IsPrefix(v1, v2) /\ ~IsPrefix(v2, v1)
        BY <1>t, <3>1, <3>3, <3>5, FirstDifference
      <4>3. result' \in {10, 20}
        BY <4>1
      <4>4. DiffersAt' = k /\ v1' # v2' /\ ~IsPrefix(v1', v2') /\ ~IsPrefix(v2', v1')
        BY <2>1, <4>2 DEF DiffersAt
      <4>5. result' = IF v1'[k] < v2'[k] THEN 20 ELSE 10
        BY <2>1, <4>1
      <4>6. result' # Pending
        BY <4>3 DEF Pending
      <4>7. result' \in Below \cup Above
        BY <4>3 DEF Below, Above
      <4>8. ResultIsTheOrder'
        BY <4>4, <4>5, <4>7 DEF ResultIsTheOrder
      <4> QED
        BY <1>t, <4>6, <4>8 DEF VersionInv, Pending
    <3> QED
      BY <3>4, <3>5
  <2> QED
    BY <2>2, <2>3, <2>4
<1>3. CASE Same
  <2>1. result = Pending /\ EqualSoFar /\ UNCHANGED <<v1, v2>> /\ result' = 0
    BY <1>3 DEF Same, VersionInv
  <2>2. Len(v1) = Len(v2) /\ \A n \in 1..Len(v1) : v1[n] = v2[n]
    BY <1>3, <1>t, <2>1, VersionTypes DEF Same, EqualSoFar
  <2>3. v1 = v2
    <3>1. v1 \in [1..Len(v1) -> Parts] /\ v2 \in [1..Len(v1) -> Parts]
      BY <1>t, <2>2, VersionTypes
    <3> QED
      BY <2>2, <3>1
  <2> QED
    BY <1>t, <2>1, <2>3 DEF VersionInv, ResultIsTheOrder, Pending, Below, Above
<1> QED
  BY <1>1, <1>2, <1>3 DEF VersionNext

LEMMA VersionInitInv == VersionInit => VersionInv
<1> SUFFICES ASSUME VersionInit PROVE VersionInv
  OBVIOUS
<1>1. VersionTypeOK
  BY DEF VersionInit, VersionTypeOK
<1>2. Rounds = 0
  BY <1>1, VersionTypes DEF VersionInit, Rounds
<1>3. EqualSoFar
  BY <1>1, <1>2, VersionTypes DEF VersionInit, EqualSoFar
<1> QED
  BY <1>1, <1>3 DEF VersionInit, VersionInv, ResultIsTheOrder

\* Whatever the versions: version_ge answers by the first part that differs, the same versions are
\* equal, and one that the other begins with is never the higher of the two.
THEOREM VersionsAreOrdered == VersionSpec => []ResultIsTheOrder
<1>1. VersionInit => VersionInv
  BY VersionInitInv
<1>2. VersionInv /\ [VersionNext]_versionVars => VersionInv'
  BY VersionNextInv
<1>3. VersionInv => ResultIsTheOrder
  BY DEF VersionInv
<1> QED
  BY <1>1, <1>2, <1>3, PTL DEF VersionSpec

----------------------------------------------------------------------------
(* The types.                                                              *)

\* The machines of the roles keep their types: the bounds of their loops are never left, a
\* primary is a member of a set that was initiated, and who is notified takes part in the play.
THEOREM HostsAreTyped ==
    /\ MongoSpec => []MongoTypeOK
    /\ LibvirtSpec => []LibvirtTypeOK
    /\ ActionsSpec => []ActionsTypeOK
    /\ VersionSpec => []VersionTypeOK
<1>1. MongoSpec => []MongoTypeOK
  <2>1. MongoInv => MongoTypeOK
    BY DEF MongoInv
  <2> QED
    BY <2>1, MongoInitInv, MongoNextInv, PTL DEF MongoSpec
<1>2. LibvirtSpec => []LibvirtTypeOK
  <2>1. LibvirtInv => LibvirtTypeOK
    BY DEF LibvirtInv
  <2> QED
    BY <2>1, LibvirtInitInv, LibvirtNextInv, PTL DEF LibvirtSpec
<1>3. ActionsSpec => []ActionsTypeOK
  <2>1. ActionsInv => ActionsTypeOK
    BY DEF ActionsInv
  <2> QED
    BY <2>1, ActionsInitInv, ActionsNextInv, PTL DEF ActionsSpec
<1>4. VersionSpec => []VersionTypeOK
  <2>1. VersionInv => VersionTypeOK
    BY DEF VersionInv
  <2> QED
    BY <2>1, VersionInitInv, VersionNextInv, PTL DEF VersionSpec
<1> QED
  BY <1>1, <1>2, <1>3, <1>4
=============================================================================
