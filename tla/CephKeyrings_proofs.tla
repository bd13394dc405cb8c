------------------------ MODULE CephKeyrings_proofs -------------------------
(***************************************************************************)
(* Proofs about CephKeyrings, for any inventory and any number of hosts    *)
(* that fail, join and get reinstalled, plays and bootstraps: what the     *)
(* role does is safe as long as the first host of the inventory is a       *)
(* monitor that founded the cluster and never loses its keyrings.          *)
(***************************************************************************)
EXTENDS CephKeyrings, TLAPS

Leader == Inventory[1]

LeaderIsSafe == Inventory # <<>> /\ Leader \in (Founders \cap Monitors) \ Unlucky

\* What the controller holds of a keyring: in plain, else encrypted.
Held == Copied(sops, plain, Len(Files))

\* The tasks at which the current key is on the controller for sure.
Deploying == {"sops", "plain", "mkfs", "admin"}

Whole(keyrings) == \A f \in File : keyrings[f] = fresh

\* The first host never leaves a play; todo holds hosts that execute the task.
PlayInv ==
    /\ Leader \in members
    /\ IF task = "idle" THEN playing = {} ELSE Leader \in playing
    /\ task # "admin" => todo \subseteq Monitors
    /\ task = "admin" => todo \cap Monitors = {}
    /\ task = "fetch" => Blank(Leader)

Encrypted(h) == \A f \in File : sops[f] # NoKey => key[h][f] = sops[f]

\* The controller holds all of the current keyrings, and no others.
Backed == ~Blank(Leader) \/ task \in Deploying => Whole(Held)

\* No monitor store without keyrings on the first host.
Founded == \A h \in Hosts : mon[h] # NoKey => mon[h] = fresh /\ ~Blank(Leader)

\* What the loops have brought to a monitor so far.
Handed(h) ==
    /\ task = "sops" /\ h \notin todo => Encrypted(h)
    /\ task = "plain" => Encrypted(h) \/ h \notin todo
    /\ task = "plain" /\ h \notin todo => Whole(key[h])
    /\ task \in {"mkfs", "admin"} => Whole(key[h])

KeyInv == Backed /\ Founded /\ \A h \in playing \cap Monitors : Handed(h)

TypeInv == KeyringsTypeOK /\ (task = "fetch" => fresh > 0)

IInv == TypeInv /\ PlayInv /\ KeyInv

----------------------------------------------------------------------------
LEMMA FileNames == File = {"bootstrap", "admin", "secret"} /\ Len(Files) = 3
  BY DEF File, Files, Range

LEMMA CopiedAll ==
    ASSUME NEW dst, NEW src, NEW f \in File
    PROVE  Copied(dst, src, Len(Files))[f] =
              IF src[f] # NoKey THEN src[f] ELSE dst[f]
  BY FileNames DEF Copied, Files

LEMMA CopiedType ==
    ASSUME NEW dst \in Keyrings, NEW src \in Keyrings, NEW n
    PROVE  Copied(dst, src, n) \in Keyrings
  BY DEF Copied, Keyrings

LEMMA LeaderGoesFirst ==
    ASSUME LeaderIsSafe, Leader \in playing
    PROVE  First = Leader
  <1> DEFINE P(n) == /\ Inventory[n] \in playing
                     /\ \A m \in 1..n - 1 : Inventory[m] \notin playing
  <1>1. 1 \in DOMAIN Inventory /\ DOMAIN Inventory \subseteq Nat \ {0}
    BY InventoryAssumption DEF LeaderIsSafe
  <1>2. P(1)
    BY DEF Leader
  <1>3. ASSUME NEW n \in DOMAIN Inventory, P(n)
        PROVE  n = 1
    BY <1>1, <1>3 DEF Leader
  <1> QED
    BY <1>1, <1>2, <1>3 DEF First, Leader

----------------------------------------------------------------------------
(* Types.                                                                  *)

LEMMA InitType == KeyringsInit => TypeInv
  BY InventoryAssumption, FileNames
     DEF KeyringsInit, TypeInv, KeyringsTypeOK, Keyrings, Key, Nothing

\* Groups of actions, by what they leave alone.
Copies(h) == Deploy(h) \/ \E n \in 0..Len(Files) - 1 : DeployBreaks(h, n)

Fetches == Fetch \/ \E n \in 0..Len(Files) - 1 : FetchBreaks(n)

Ends == PlayEnds \/ Interrupted

LEMMA NextCases ==
    ASSUME KeyringsNext
    PROVE  \/ Play \/ NextTask \/ Bootstrap \/ SkipBootstrap \/ Fetches \/ Ends
           \/ \E h \in Hosts :
                 \/ Stat(h) \/ Copies(h) \/ Mkfs(h) \/ CopyAdmin(h) \/ HostFails(h)
                 \/ Join(h) \/ Reboot(h) \/ Reinstall(h)
           \/ \E kept \in BOOLEAN : Encrypt(kept)
  BY DEF KeyringsNext, Copies, Fetches, Ends

LEMMA GoToType ==
    ASSUME KeyringsTypeOK, NEW t \in Tasks, GoTo(t)
    PROVE  /\ task' \in Tasks \cup {"idle"}
           /\ todo' \subseteq playing' /\ playing' \subseteq members
  BY DEF KeyringsTypeOK, GoTo, Executing

\* A loop step of one host, whatever becomes of that host.
LEMMA HostStepType ==
    ASSUME KeyringsTypeOK, NEW h, Through(h) \/ Fails(h) \/ Stop
    PROVE  /\ task' \in Tasks \cup {"idle"} /\ (task' # "fetch" \/ task' = task)
           /\ todo' \subseteq playing' /\ playing' \subseteq members
           /\ completed' = completed
  BY DEF KeyringsTypeOK, Through, Fails, Stop

LEMMA TypeInductive == TypeInv /\ [KeyringsNext]_keyringsVars => TypeInv'
  <1> SUFFICES ASSUME TypeInv, [KeyringsNext]_keyringsVars PROVE TypeInv'
    OBVIOUS
  <1> USE DEF TypeInv, KeyringsTypeOK
  <1>1. CASE UNCHANGED keyringsVars
    BY <1>1 DEF keyringsVars
  <1>2. CASE Play
    BY <1>2 DEF Play, Tasks
  <1>3. CASE NextTask
    <2>1. Follows[task] \in Tasks \ {"fetch"}
      BY <1>3 DEF NextTask, Follows, Tasks
    <2>2. GoTo(Follows[task]) /\ task' # "fetch"
      BY <1>3, <2>1 DEF NextTask, GoTo
    <2> QED
      BY <1>3, <2>1, <2>2, GoToType DEF NextTask
  <1>4. CASE Bootstrap
    <2>1. fresh + 1 \in 1..MaxKeys /\ fresh + 1 > 0
      BY <1>4, InventoryAssumption DEF Bootstrap
    <2>2. First \in Hosts
      BY <1>4, InventoryAssumption DEF Bootstrap
    <2>3. [key[First] EXCEPT !["secret"] = fresh + 1] \in Keyrings
      BY <2>1, <2>2, FileNames DEF Keyrings, Key
    <2>4. key' = [key EXCEPT ![First] = [@ EXCEPT !["secret"] = fresh + 1]]
      BY <1>4 DEF Bootstrap
    <2>5. key' \in [Hosts -> Keyrings]
      BY <2>3, <2>4
    <2>6. GoTo("fetch") /\ "fetch" \in Tasks
      BY <1>4 DEF Bootstrap, Tasks
    <2> QED
      BY <1>4, <2>1, <2>5, <2>6, GoToType DEF Bootstrap
  <1>5. CASE SkipBootstrap
    <2>1. GoTo("sops") /\ "sops" \in Tasks /\ task' # "fetch"
      BY <1>5 DEF SkipBootstrap, Tasks, GoTo
    <2> QED
      BY <1>5, <2>1, GoToType DEF SkipBootstrap
  <1>6. CASE Fetches
    <2>1. [f \in File |-> fresh] \in Keyrings
      BY <1>6 DEF Fetches, Fetch, FetchBreaks, Keyrings, Key
    <2>2. plain' \in Keyrings
      BY <1>6, <2>1, CopiedType DEF Fetches, Fetch, FetchBreaks
    <2>3. CASE Fetch
      <3>1. GoTo("sops") /\ "sops" \in Tasks /\ task' # "fetch"
        BY <2>3 DEF Fetch, Tasks, GoTo
      <3> QED
        BY <2>2, <2>3, <3>1, GoToType DEF Fetch
    <2>4. CASE \E n \in 0..Len(Files) - 1 : FetchBreaks(n)
      BY <2>2, <2>4 DEF FetchBreaks, Stop
    <2> QED
      BY <1>6, <2>3, <2>4 DEF Fetches
  <1>7. CASE Ends
    BY <1>7 DEF Ends, PlayEnds, Interrupted, Stop
  <1>8. ASSUME NEW h \in Hosts, Stat(h) \/ HostFails(h)
        PROVE  TypeInv'
    BY <1>8, HostStepType DEF Stat, HostFails
  <1>9. ASSUME NEW h \in Hosts, Copies(h)
        PROVE  TypeInv'
    <2>1. Source \in Keyrings
      BY DEF Source
    <2>2. PICK n : key' = [key EXCEPT ![h] = Copied(@, Source, n)]
      BY <1>9 DEF Copies, Deploy, DeployBreaks
    <2>3. key' \in [Hosts -> Keyrings]
      BY <2>1, <2>2, CopiedType
    <2>4. Through(h) \/ Fails(h) \/ Stop
      BY <1>9 DEF Copies, Deploy, DeployBreaks
    <2> QED
      BY <1>9, <2>3, <2>4, HostStepType DEF Copies, Deploy, DeployBreaks
  <1>10. ASSUME NEW h \in Hosts, Mkfs(h)
         PROVE  TypeInv'
    <2>1. key[h]["secret"] \in Key
      BY FileNames DEF Keyrings
    <2>2. mon' \in [Hosts -> Key]
      BY <1>10, <2>1 DEF Mkfs
    <2>3. Through(h) \/ Fails(h)
      BY <1>10 DEF Mkfs
    <2> QED
      BY <1>10, <2>2, <2>3, HostStepType DEF Mkfs
  <1>11. ASSUME NEW h \in Hosts, CopyAdmin(h)
         PROVE  TypeInv'
    <2>1. plain["admin"] \in Key
      BY FileNames DEF Keyrings
    <2>2. [key[h] EXCEPT !["admin"] = plain["admin"]] \in Keyrings
      BY <2>1 DEF Keyrings
    <2>3. key' \in [Hosts -> Keyrings]
      BY <1>11, <2>2 DEF CopyAdmin
    <2>4. Through(h) \/ Fails(h)
      BY <1>11 DEF CopyAdmin
    <2> QED
      BY <1>11, <2>3, <2>4, HostStepType DEF CopyAdmin
  <1>12. ASSUME NEW h \in Hosts, Join(h)
         PROVE  TypeInv'
    BY <1>12 DEF Join
  <1>13. ASSUME NEW h \in Hosts, Reboot(h) \/ Reinstall(h)
         PROVE  TypeInv'
    <2>1. Nothing \in Keyrings /\ NoKey \in Key
      BY DEF Nothing, Keyrings, Key
    <2>2. [key[h] EXCEPT !["secret"] = NoKey] \in Keyrings
      BY <2>1 DEF Keyrings
    <2>3. key' \in [Hosts -> Keyrings] /\ mon' \in [Hosts -> Key]
      BY <1>13, <2>1, <2>2 DEF Reboot, Reinstall
    <2> QED
      BY <1>13, <2>3 DEF Reboot, Reinstall
  <1>14. ASSUME NEW kept \in BOOLEAN, Encrypt(kept)
         PROVE  TypeInv'
    <2>1. Nothing \in Keyrings
      BY DEF Nothing, Keyrings, Key
    <2>2. sops' \in Keyrings /\ plain' \in Keyrings
      BY <1>14, <2>1, CopiedType DEF Encrypt
    <2> QED
      BY <1>14, <2>2 DEF Encrypt
  <1> QED
    BY <1>1, <1>2, <1>3, <1>4, <1>5, <1>6, <1>7, <1>8, <1>9, <1>10, <1>11,
       <1>12, <1>13, <1>14, NextCases

\* Every reachable state is well typed.
THEOREM KeyringTypes == KeyringsSpec => []KeyringsTypeOK
  <1>1. TypeInv => KeyringsTypeOK
    BY DEF TypeInv
  <1> QED
    BY InitType, TypeInductive, <1>1, PTL DEF KeyringsSpec

----------------------------------------------------------------------------
(* Plays: the first host takes part in them from beginning to end.         *)

LEMMA LeaderFacts ==
    ASSUME LeaderIsSafe
    PROVE  /\ Leader \in Hosts /\ Leader \in Monitors /\ Leader \in Founders
           /\ Leader \notin Unlucky
  BY InventoryAssumption DEF LeaderIsSafe, Hosts, Range, Leader

LEMMA CopiedKeeps ==
    ASSUME NEW dst, NEW src, NEW n, NEW f \in File, dst[f] # NoKey
    PROVE  Copied(dst, src, n)[f] # NoKey
  BY DEF Copied

\* Copying onto any host takes no keyring away from any host.
LEMMA CopiesKeepBlank ==
    ASSUME KeyringsTypeOK, NEW h \in Hosts, Copies(h), NEW g \in Hosts, ~Blank(g)
    PROVE  ~Blank(g)'
  <1>1. PICK n : key' = [key EXCEPT ![h] = Copied(@, Source, n)]
    BY DEF Copies, Deploy, DeployBreaks
  <1>2. PICK f \in {"bootstrap", "admin"} : key[g][f] # NoKey
    BY DEF Blank
  <1>3. key'[g][f] # NoKey
    BY <1>1, <1>2, CopiedKeeps, FileNames DEF KeyringsTypeOK
  <1> QED
    BY <1>2, <1>3 DEF Blank

LEMMA GoToPlay ==
    ASSUME PlayInv, KeyringsTypeOK, task # "idle", NEW t \in Tasks, GoTo(t), UNCHANGED members
    PROVE  /\ (Leader \in members)'
           /\ (IF task = "idle" THEN playing = {} ELSE Leader \in playing)'
           /\ (task # "admin" => todo \subseteq Monitors)'
           /\ (task = "admin" => todo \cap Monitors = {})'
  BY DEF PlayInv, GoTo, Executing, Tasks

LEMMA HostStepPlay ==
    ASSUME PlayInv, KeyringsTypeOK, task # "idle", task # "fetch", NEW h,
           Through(h) \/ (h # Leader /\ Fails(h)) \/ Stop, UNCHANGED members
    PROVE  PlayInv'
  BY DEF PlayInv, KeyringsTypeOK, Through, Fails, Stop

LEMMA InitPlay == ASSUME LeaderIsSafe, KeyringsInit PROVE PlayInv
  BY LeaderFacts, FileNames DEF KeyringsInit, PlayInv, Blank, Nothing

LEMMA PlayInductive ==
    ASSUME LeaderIsSafe, TypeInv, PlayInv, KeyInv, [KeyringsNext]_keyringsVars
    PROVE  PlayInv'
  <1> USE DEF TypeInv
  <1>1. CASE UNCHANGED keyringsVars
    BY <1>1 DEF keyringsVars, PlayInv, Blank
  <1>2. CASE Play
    BY <1>2 DEF Play, PlayInv
  <1>3. CASE NextTask
    <2>1. Follows[task] \in Tasks \ {"fetch"}
      BY <1>3 DEF NextTask, Follows, Tasks
    <2>2. GoTo(Follows[task]) /\ task # "idle" /\ task' # "fetch"
      BY <1>3, <2>1 DEF NextTask, GoTo, Follows
    <2> QED
      BY <1>3, <2>1, <2>2, GoToPlay DEF NextTask, PlayInv
  <1>4. CASE Bootstrap
    <2>1. First = Leader
      BY <1>4, LeaderGoesFirst DEF Bootstrap, PlayInv
    <2>2. Blank(Leader)'
      BY <1>4, <2>1, LeaderFacts, FileNames DEF Bootstrap, Blank, KeyringsTypeOK, Keyrings
    <2>3. GoTo("fetch") /\ "fetch" \in Tasks /\ task # "idle"
      BY <1>4 DEF Bootstrap, Tasks
    <2> QED
      BY <1>4, <2>2, <2>3, GoToPlay DEF Bootstrap, PlayInv
  <1>5. CASE SkipBootstrap
    <2>1. GoTo("sops") /\ "sops" \in Tasks /\ task # "idle" /\ task' # "fetch"
      BY <1>5 DEF SkipBootstrap, Tasks, GoTo
    <2> QED
      BY <1>5, <2>1, GoToPlay DEF SkipBootstrap, PlayInv
  <1>6. CASE Fetches
    <2>1. CASE Fetch
      <3>1. GoTo("sops") /\ "sops" \in Tasks /\ task # "idle" /\ task' # "fetch"
        BY <2>1 DEF Fetch, Tasks, GoTo
      <3> QED
        BY <2>1, <3>1, GoToPlay DEF Fetch, PlayInv
    <2>2. CASE \E n \in 0..Len(Files) - 1 : FetchBreaks(n)
      BY <2>2 DEF FetchBreaks, Stop, PlayInv
    <2> QED
      BY <1>6, <2>1, <2>2 DEF Fetches
  <1>7. CASE Ends
    BY <1>7 DEF Ends, PlayEnds, Interrupted, Stop, PlayInv
  <1>8. ASSUME NEW h \in Hosts, Stat(h) \/ HostFails(h)
        PROVE  PlayInv'
    <2>1. task # "idle" /\ task # "fetch"
      BY <1>8 DEF Stat, HostFails, PlayInv, KeyringsTypeOK
    <2>2. Through(h) \/ (h # Leader /\ Fails(h))
      BY <1>8, LeaderFacts DEF Stat, HostFails
    <2> QED
      BY <1>8, <2>1, <2>2, HostStepPlay DEF Stat, HostFails
  <1>9. ASSUME NEW h \in Hosts, Copies(h)
        PROVE  PlayInv'
    <2>1. task # "idle" /\ task # "fetch" /\ UNCHANGED members
      BY <1>9 DEF Copies, Deploy, DeployBreaks
    <2>2. Through(h) \/ (h # Leader /\ Fails(h)) \/ Stop
      BY <1>9, LeaderFacts DEF Copies, Deploy, DeployBreaks
    <2> QED
      BY <2>1, <2>2, HostStepPlay
  <1>10. ASSUME NEW h \in Hosts, Mkfs(h)
         PROVE  PlayInv'
    <2>1. Whole(key[h])
      BY <1>10 DEF Mkfs, PlayInv, KeyInv, Handed, KeyringsTypeOK
    <2>2. key[h]["secret"] # NoKey
      BY <2>1, InventoryAssumption, FileNames DEF Whole, KeyringsTypeOK
    <2>3. Through(h) /\ task = "mkfs" /\ UNCHANGED members
      BY <1>10, <2>2 DEF Mkfs
    <2> QED
      BY <2>3, HostStepPlay
  <1>11. ASSUME NEW h \in Hosts, CopyAdmin(h)
         PROVE  PlayInv'
    <2>1. h # Leader
      BY <1>11, LeaderFacts DEF CopyAdmin, PlayInv
    <2> QED
      BY <1>11, <2>1, HostStepPlay DEF CopyAdmin
  <1>12. ASSUME NEW h \in Hosts, Join(h)
         PROVE  PlayInv'
    BY <1>12 DEF Join, PlayInv
  <1>13. ASSUME NEW h \in Hosts, Reboot(h) \/ Reinstall(h)
         PROVE  PlayInv'
    BY <1>13 DEF Reboot, Reinstall, PlayInv
  <1>14. ASSUME NEW kept \in BOOLEAN, Encrypt(kept)
         PROVE  PlayInv'
    BY <1>14 DEF Encrypt, PlayInv
  <1> QED
    BY <1>1, <1>2, <1>3, <1>4, <1>5, <1>6, <1>7, <1>8, <1>9, <1>10, <1>11,
       <1>12, <1>13, <1>14, NextCases

----------------------------------------------------------------------------
(* Keys: what the first host and the controller hold is the current key.   *)

LEMMA NoKeyIsNoNumber == KeyringsTypeOK => fresh # NoKey
  BY InventoryAssumption DEF KeyringsTypeOK

LEMMA HeldIs ==
    ASSUME NEW f \in File
    PROVE  Held[f] = IF plain[f] # NoKey THEN plain[f] ELSE sops[f]
  BY CopiedAll DEF Held

\* Where nobody is handed a keyring nothing is asked of the hosts.
LEMMA Elsewhere ==
    ASSUME task' \notin {"sops", "plain", "mkfs", "admin"}
    PROVE  (\A h \in playing \cap Monitors : Handed(h))'
  BY DEF Handed

\* A monitor that stays in the play and got nothing new.
LEMMA HandedStays ==
    ASSUME NEW h, Handed(h), key'[h] = key[h], UNCHANGED <<sops, fresh, task>>,
           h \in todo <=> h \in todo'
    PROVE  Handed(h)'
  BY DEF Handed, Encrypted, Whole

LEMMA InitKeys == ASSUME LeaderIsSafe, KeyringsInit PROVE KeyInv
  BY LeaderFacts, FileNames
     DEF KeyringsInit, KeyInv, Backed, Founded, Handed, Blank, Nothing, Deploying

\* Deploying the encrypted keyrings.
LEMMA DeploySops ==
    ASSUME KeyringsTypeOK, NEW h \in Hosts, task = "sops", Deploy(h)
    PROVE  Encrypted(h)' /\ task' = "sops"
  <1>1. key'[h] = Copied(key[h], sops, Len(Files)) /\ sops' = sops /\ task' = task
    BY DEF Deploy, Source, KeyringsTypeOK, Through
  <1> QED
    BY <1>1, CopiedAll DEF Encrypted

\* Deploying those in plain on top of them.
LEMMA DeployPlain ==
    ASSUME KeyringsTypeOK, Whole(Held), NEW h \in Hosts, Encrypted(h),
           task = "plain", Deploy(h)
    PROVE  Whole(key[h])' /\ task' = "plain"
  <1>1. /\ key'[h] = Copied(key[h], plain, Len(Files))
        /\ fresh' = fresh /\ task' = task
    BY DEF Deploy, Source, KeyringsTypeOK, Through
  <1>2. ASSUME NEW f \in File
        PROVE  key'[h][f] = fresh
    <2>1. key'[h][f] = IF plain[f] # NoKey THEN plain[f] ELSE key[h][f]
      BY <1>1, CopiedAll
    <2>2. Held[f] = fresh /\ fresh # NoKey
      BY NoKeyIsNoNumber DEF Whole
    <2> QED
      BY <2>1, <2>2, HeldIs DEF Encrypted
  <1> QED
    BY <1>1, <1>2 DEF Whole

LEMMA KeyInductive ==
    ASSUME LeaderIsSafe, TypeInv, PlayInv, KeyInv, [KeyringsNext]_keyringsVars
    PROVE  KeyInv'
  <1> USE DEF TypeInv
  <1>1. CASE UNCHANGED keyringsVars
    BY <1>1 DEF keyringsVars, KeyInv, Backed, Founded, Handed, Encrypted, Whole, Held, Blank
  <1>2. CASE Play
    <2>1. task' = "stat" /\ UNCHANGED <<key, mon, plain, sops, fresh>>
      BY <1>2 DEF Play
    <2> QED
      BY <2>1, Elsewhere DEF KeyInv, Backed, Founded, Deploying, Blank, Whole, Held
  <1>3. CASE NextTask
    <2>1. UNCHANGED <<key, mon, plain, sops, fresh, playing>> /\ todo = {}
      BY <1>3 DEF NextTask, GoTo
    <2>2. \/ task = "stat" /\ task' = "bootstrap"
          \/ task = "sops" /\ task' = "plain"
          \/ task = "plain" /\ task' = "mkfs"
          \/ task = "mkfs" /\ task' = "admin"
      BY <1>3 DEF NextTask, GoTo, Follows
    <2>3. Backed' /\ Founded'
      BY <2>1, <2>2 DEF KeyInv, Backed, Founded, Deploying, Blank, Whole, Held
    <2>4. ASSUME NEW h \in playing \cap Monitors
          PROVE  Handed(h)'
      <3>1. task' = "plain" => h \in todo'
        BY <1>3 DEF NextTask, GoTo, Executing
      <3> QED
        BY <2>1, <2>2, <3>1 DEF KeyInv, Handed, Encrypted, Whole
    <2> QED
      BY <2>1, <2>3, <2>4 DEF KeyInv
  <1>4. CASE Bootstrap
    <2>1. First = Leader /\ Blank(Leader)
      BY <1>4, LeaderGoesFirst DEF Bootstrap, PlayInv
    <2>2. Blank(Leader)'
      BY <1>4, <2>1, LeaderFacts, FileNames DEF Bootstrap, Blank, KeyringsTypeOK, Keyrings
    <2>3. \A h \in Hosts : mon'[h] = NoKey
      BY <1>4, <2>1 DEF Bootstrap, KeyInv, Founded
    <2>4. task' = "fetch"
      BY <1>4 DEF Bootstrap, GoTo
    <2> QED
      BY <2>2, <2>3, <2>4, Elsewhere DEF KeyInv, Backed, Founded, Deploying
  <1>5. CASE SkipBootstrap
    <2>1. ~Blank(Leader)
      BY <1>5, LeaderGoesFirst, LeaderFacts DEF SkipBootstrap, PlayInv
    <2>2. UNCHANGED <<key, mon, plain, sops, fresh, playing>> /\ task' = "sops"
      BY <1>5 DEF SkipBootstrap, GoTo
    <2>3. \A h \in playing \cap Monitors : h \in todo'
      BY <1>5 DEF SkipBootstrap, GoTo, Executing
    <2> QED
      BY <2>1, <2>2, <2>3
         DEF KeyInv, Backed, Founded, Handed, Deploying, Blank, Whole, Held
  <1>6. CASE Fetches
    <2>1. Blank(Leader) /\ UNCHANGED <<key, mon, sops, fresh>>
      BY <1>6 DEF Fetches, Fetch, FetchBreaks, PlayInv
    <2>2. Founded' /\ Blank(Leader)'
      BY <2>1 DEF KeyInv, Founded, Blank
    <2>3. CASE Fetch
      <3>1. task' = "sops" /\ \A h \in playing' \cap Monitors : h \in todo'
        BY <2>3 DEF Fetch, GoTo, Executing
      <3>2. ASSUME NEW f \in File
            PROVE  plain'[f] = fresh
        BY <2>3, CopiedAll, NoKeyIsNoNumber DEF Fetch
      <3>3. Whole(Held)'
        <4>1. ASSUME NEW f \in File
              PROVE  Held'[f] = fresh
          <5>1. Held'[f] = IF plain'[f] # NoKey THEN plain'[f] ELSE sops'[f]
            BY CopiedAll DEF Held
          <5> QED
            BY <3>2, <5>1, NoKeyIsNoNumber
        <4> QED
          BY <2>1, <4>1 DEF Whole
      <3> QED
        BY <2>2, <3>1, <3>3 DEF KeyInv, Backed, Handed
    <2>4. CASE \E n \in 0..Len(Files) - 1 : FetchBreaks(n)
      <3>1. task' = "idle"
        BY <2>4 DEF FetchBreaks, Stop
      <3> QED
        BY <2>2, <3>1, Elsewhere DEF KeyInv, Backed, Deploying
    <2> QED
      BY <1>6, <2>3, <2>4 DEF Fetches
  <1>7. CASE Ends
    <2>1. task' = "idle" /\ UNCHANGED <<key, mon, plain, sops, fresh>>
      BY <1>7 DEF Ends, PlayEnds, Interrupted, Stop
    <2> QED
      BY <2>1, Elsewhere DEF KeyInv, Backed, Founded, Deploying, Blank, Whole, Held
  <1>8. ASSUME NEW h \in Hosts, Stat(h) \/ HostFails(h)
        PROVE  KeyInv'
    <2>1. UNCHANGED <<key, mon, plain, sops, fresh, task>>
      BY <1>8 DEF Stat, HostFails, Through, Fails
    <2>2. Backed' /\ Founded'
      BY <2>1 DEF KeyInv, Backed, Founded, Blank, Whole, Held
    <2>3. ASSUME NEW g \in playing' \cap Monitors
          PROVE  Handed(g)'
      <3>1. CASE Stat(h)
        BY <2>1, <3>1 DEF Stat, Handed
      <3>2. CASE HostFails(h)
        BY <2>1, <3>2, HandedStays DEF HostFails, Fails, KeyInv
      <3> QED
        BY <1>8, <3>1, <3>2
    <2> QED
      BY <2>2, <2>3 DEF KeyInv
  <1>9. ASSUME NEW h \in Hosts, Copies(h)
        PROVE  KeyInv'
    <2>1. UNCHANGED <<mon, plain, sops, fresh>> /\ task \in {"sops", "plain"}
      BY <1>9 DEF Copies, Deploy, DeployBreaks
    <2>2. Whole(Held)'
      BY <2>1 DEF KeyInv, Backed, Deploying, Whole, Held
    <2>3. Founded'
      BY <1>9, <2>1, LeaderFacts, CopiesKeepBlank DEF KeyInv, Founded
    <2>4. \A g \in Hosts \ {h} : key'[g] = key[g]
      BY <1>9 DEF Copies, Deploy, DeployBreaks, KeyringsTypeOK
    <2>5. playing \subseteq Hosts
      BY DEF KeyringsTypeOK
    <2>6. CASE Deploy(h)
      <3>1. /\ task' = task /\ playing' = playing /\ todo' = todo \ {h}
            /\ h \in todo
        BY <2>6 DEF Deploy, Through
      <3>2. ASSUME NEW g \in playing \cap Monitors, g # h
            PROVE  Handed(g)'
        BY <2>1, <2>4, <2>5, <3>1, <3>2, HandedStays DEF KeyInv
      <3>3. ASSUME h \in playing \cap Monitors
            PROVE  Handed(h)'
        <4>1. CASE task = "sops"
          BY <2>6, <3>1, <4>1, DeploySops DEF Handed
        <4>2. CASE task = "plain"
          <5>1. Encrypted(h) /\ Whole(Held)
            BY <3>1, <3>3, <4>2 DEF KeyInv, Handed, Backed, Deploying
          <5> QED
            BY <2>6, <3>1, <4>2, <5>1, DeployPlain DEF Handed
        <4> QED
          BY <2>1, <4>1, <4>2
      <3> QED
        BY <2>2, <2>3, <3>1, <3>2, <3>3 DEF KeyInv, Backed
    <2>7. ASSUME NEW n \in 0..Len(Files) - 1, DeployBreaks(h, n), Fails(h)
          PROVE  KeyInv'
      <3>1. ASSUME NEW g \in playing' \cap Monitors
            PROVE  Handed(g)'
        BY <2>1, <2>4, <2>5, <2>7, HandedStays DEF KeyInv, Fails
      <3> QED
        BY <2>2, <2>3, <3>1 DEF KeyInv, Backed
    <2>8. ASSUME NEW n \in 0..Len(Files) - 1, DeployBreaks(h, n), Stop
          PROVE  KeyInv'
      BY <2>2, <2>3, <2>8, Elsewhere DEF KeyInv, Backed, Stop
    <2> QED
      BY <1>9, <2>6, <2>7, <2>8 DEF Copies, DeployBreaks
  <1>10. ASSUME NEW h \in Hosts, Mkfs(h)
         PROVE  KeyInv'
    <2>1. /\ UNCHANGED <<key, plain, sops, fresh, task>> /\ task = "mkfs"
          /\ playing' \subseteq playing
      BY <1>10 DEF Mkfs, Through, Fails
    <2>2. Whole(key[h]) /\ Whole(key[Leader])
      BY <1>10, LeaderFacts DEF Mkfs, PlayInv, KeyInv, Handed, KeyringsTypeOK
    <2>3. key[h]["secret"] = fresh /\ ~Blank(Leader)
      BY <2>2, NoKeyIsNoNumber, FileNames DEF Whole, Blank
    <2>4. Founded'
      BY <1>10, <2>1, <2>3 DEF Mkfs, KeyInv, Founded, Blank, KeyringsTypeOK
    <2>5. Backed'
      BY <2>1 DEF KeyInv, Backed, Blank, Whole, Held
    <2>6. ASSUME NEW g \in playing' \cap Monitors
          PROVE  Handed(g)'
      BY <2>1 DEF KeyInv, Handed, Whole
    <2> QED
      BY <2>4, <2>5, <2>6 DEF KeyInv
  <1>11. ASSUME NEW h \in Hosts, CopyAdmin(h)
         PROVE  KeyInv'
    <2>1. /\ UNCHANGED <<mon, plain, sops, fresh, task>> /\ task = "admin"
          /\ playing' \subseteq playing
      BY <1>11 DEF CopyAdmin, Through, Fails
    <2>2. h \notin Monitors
      BY <1>11 DEF CopyAdmin, PlayInv
    <2>3. \A g \in Hosts \cap Monitors : key'[g] = key[g]
      BY <1>11, <2>2 DEF CopyAdmin, KeyringsTypeOK
    <2>4. Backed' /\ Founded'
      BY <2>1, <2>3, LeaderFacts DEF KeyInv, Backed, Founded, Blank, Whole, Held
    <2>5. ASSUME NEW g \in playing' \cap Monitors
          PROVE  Handed(g)'
      BY <2>1, <2>3 DEF KeyInv, Handed, Whole, KeyringsTypeOK
    <2> QED
      BY <2>4, <2>5 DEF KeyInv
  <1>12. ASSUME NEW h \in Hosts, Join(h)
         PROVE  KeyInv'
    <2>1. task' = "idle" /\ UNCHANGED <<key, mon, plain, sops, fresh>>
      BY <1>12 DEF Join
    <2> QED
      BY <2>1, Elsewhere DEF KeyInv, Backed, Founded, Deploying, Blank, Whole, Held
  <1>13. ASSUME NEW h \in Hosts, Reboot(h) \/ Reinstall(h)
         PROVE  KeyInv'
    <2>1. task' = "idle" /\ UNCHANGED <<plain, sops, fresh>>
      BY <1>13 DEF Reboot, Reinstall
    <2>2. Blank(Leader)' = Blank(Leader)
      <3>1. key'[Leader]["bootstrap"] = key[Leader]["bootstrap"]
        BY <1>13, LeaderFacts, FileNames DEF Reboot, Reinstall, KeyringsTypeOK, Keyrings
      <3>2. key'[Leader]["admin"] = key[Leader]["admin"]
        BY <1>13, LeaderFacts, FileNames DEF Reboot, Reinstall, KeyringsTypeOK, Keyrings
      <3> QED
        BY <3>1, <3>2 DEF Blank
    <2>3. \A g \in Hosts : mon'[g] \in {mon[g], NoKey}
      BY <1>13 DEF Reboot, Reinstall, KeyringsTypeOK
    <2> QED
      BY <2>1, <2>2, <2>3, Elsewhere DEF KeyInv, Backed, Founded, Deploying, Whole, Held
  <1>14. ASSUME NEW kept \in BOOLEAN, Encrypt(kept)
         PROVE  KeyInv'
    <2>1. task' = "idle" /\ UNCHANGED <<key, mon, fresh>>
      BY <1>14 DEF Encrypt
    <2>2. ASSUME NEW f \in File
          PROVE  Held'[f] = Held[f]
      <3>1. sops'[f] = IF plain[f] # NoKey THEN plain[f] ELSE sops[f]
        BY <1>14, CopiedAll DEF Encrypt
      <3>2. plain'[f] \in {plain[f], NoKey}
        BY <1>14 DEF Encrypt, Nothing
      <3>3. Held'[f] = IF plain'[f] # NoKey THEN plain'[f] ELSE sops'[f]
        BY CopiedAll DEF Held
      <3> QED
        BY <3>1, <3>2, <3>3, HeldIs
    <2> QED
      BY <2>1, <2>2, Elsewhere DEF KeyInv, Backed, Founded, Deploying, Blank, Whole
  <1> QED
    BY <1>1, <1>2, <1>3, <1>4, <1>5, <1>6, <1>7, <1>8, <1>9, <1>10, <1>11,
       <1>12, <1>13, <1>14, NextCases

LEMMA KeyringInvariance == ASSUME LeaderIsSafe PROVE KeyringsSpec => []IInv
  <1>1. KeyringsInit => IInv
    BY InitType, InitPlay, InitKeys DEF IInv
  <1>2. IInv /\ [KeyringsNext]_keyringsVars => IInv'
    BY TypeInductive, PlayInductive, KeyInductive DEF IInv
  <1> QED
    BY <1>1, <1>2, PTL DEF KeyringsSpec

\* The monitors share one key as long as the first host of the inventory is a
\* founding monitor that never fails a task and never loses its keyrings,
\* whatever happens to the other hosts and wherever plays are interrupted.
THEOREM OneKeyWhileLeaderIsSafe == ASSUME LeaderIsSafe PROVE KeyringsSpec => []OneClusterKey
  <1>1. IInv => OneClusterKey
    BY DEF IInv, TypeInv, KeyringsTypeOK, KeyInv, Founded, OneClusterKey
  <1> QED
    BY <1>1, KeyringInvariance, PTL

\* And the controller keeps the keyrings that a further monitor needs.
THEOREM KeysKeptWhileLeaderIsSafe ==
    ASSUME LeaderIsSafe PROVE KeyringsSpec => []ClusterKeyIsKept
  <1>1. IInv => ClusterKeyIsKept
    BY DEF IInv, TypeInv, KeyringsTypeOK, KeyInv, Founded, Backed, Whole, Held,
           ClusterKeyIsKept
  <1> QED
    BY <1>1, KeyringInvariance, PTL

----------------------------------------------------------------------------
(* The admin keyring on the hosts that a play completed on.                *)

\* No host is through while a play runs; the copies that the last task has made so far, and
\* those on the hosts that were through, are the current keyring.
AdminInv ==
    /\ completed # {} => task = "idle"
    /\ \A h \in completed : key[h]["admin"] = fresh
    /\ task = "admin" => \A h \in (playing \ Monitors) \ todo : key[h]["admin"] = fresh

LEMMA AdminInductive ==
    ASSUME LeaderIsSafe, IInv, AdminInv, [KeyringsNext]_keyringsVars
    PROVE  AdminInv'
  <1> USE DEF IInv, TypeInv
  <1>1. CASE UNCHANGED keyringsVars
    BY <1>1 DEF keyringsVars, AdminInv
  <1>2. CASE Play
    BY <1>2 DEF Play, AdminInv
  <1>3. CASE NextTask
    <2>1. completed = {} /\ completed' = {} /\ task' \in DOMAIN Follows \cup {"bootstrap", "admin"}
      BY <1>3 DEF NextTask, GoTo, Follows, AdminInv
    <2>2. task' = "admin" => playing' \ Monitors = todo'
      BY <1>3 DEF NextTask, GoTo, Executing
    <2> QED
      BY <2>1, <2>2 DEF AdminInv
  <1>4. CASE Bootstrap \/ SkipBootstrap \/ Fetches
    <2>1. task # "idle" /\ completed' = completed /\ task' # "admin"
      BY <1>4 DEF Bootstrap, SkipBootstrap, Fetches, Fetch, FetchBreaks, GoTo, Stop
    <2> QED
      BY <2>1 DEF AdminInv
  <1>5. CASE Interrupted
    <2>1. task # "idle" /\ completed' = completed /\ task' # "admin"
      BY <1>5 DEF Interrupted, Stop
    <2> QED
      BY <2>1 DEF AdminInv
  <1>6. CASE PlayEnds
    <2>1. /\ completed' = playing /\ task' = "idle" /\ task # "idle"
          /\ UNCHANGED <<key, fresh>>
      BY <1>6 DEF PlayEnds
    <2>2. task = "admin" /\ todo = {}
      BY <1>6, <2>1 DEF PlayEnds, PlayInv
    <2>3. ASSUME NEW h \in playing
          PROVE  key[h]["admin"] = fresh
      <3>1. CASE h \in Monitors
        BY <2>2, <3>1, FileNames DEF KeyInv, Handed, Whole
      <3>2. CASE h \notin Monitors
        BY <2>2, <3>2 DEF AdminInv
      <3> QED
        BY <3>1, <3>2
    <2> QED
      BY <2>1, <2>3 DEF AdminInv
  <1>7. ASSUME NEW h \in Hosts, Stat(h) \/ HostFails(h) \/ Mkfs(h)
        PROVE  AdminInv'
    <2>1. /\ task # "idle" /\ UNCHANGED <<key, fresh, task, completed>>
          /\ \/ todo' = todo \ {h} /\ task # "admin"
             \/ todo' = todo \ {h} /\ playing' = playing \ {h}
      <3>1. CASE Stat(h) \/ Mkfs(h)
        BY <3>1 DEF Stat, Mkfs, Through, Fails
      <3>2. CASE HostFails(h)
        <4>1. h \in playing
          BY <3>2 DEF HostFails, KeyringsTypeOK
        <4> QED
          BY <3>2, <4>1 DEF HostFails, Fails, PlayInv
      <3> QED
        BY <1>7, <3>1, <3>2
    <2> QED
      BY <2>1 DEF AdminInv
  <1>8. ASSUME NEW h \in Hosts, Copies(h)
        PROVE  AdminInv'
    <2>1. task # "idle" /\ completed' = completed /\ task' # "admin"
      BY <1>8 DEF Copies, Deploy, DeployBreaks, Through, Fails, Stop
    <2> QED
      BY <2>1 DEF AdminInv
  <1>9. ASSUME NEW h \in Hosts, CopyAdmin(h)
        PROVE  AdminInv'
    <2>1. /\ task = "admin" /\ h \in todo
          /\ UNCHANGED <<fresh, task, completed>> /\ todo' = todo \ {h}
      BY <1>9 DEF CopyAdmin, Through, Fails
    <2>2. plain["admin"] # NoKey => plain["admin"] = fresh
      <3>1. Held["admin"] = fresh
        BY <2>1, FileNames DEF KeyInv, Backed, Deploying, Whole
      <3> QED
        BY <3>1, HeldIs, FileNames
    <2>3. CASE plain["admin"] = NoKey
      BY <1>9, <2>1, <2>3 DEF CopyAdmin, Fails, AdminInv
    <2>4. CASE plain["admin"] # NoKey
      <3>1. key' = [key EXCEPT ![h]["admin"] = plain["admin"]] /\ playing' = playing
        BY <1>9, <2>4 DEF CopyAdmin, Through
      <3>2. key'[h]["admin"] = fresh /\ \A g \in Hosts \ {h} : key'[g] = key[g]
        BY <2>2, <2>4, <3>1, FileNames DEF KeyringsTypeOK, Keyrings
      <3>3. playing \subseteq Hosts /\ completed = {}
        BY <2>1 DEF KeyringsTypeOK, AdminInv
      <3> QED
        BY <2>1, <3>1, <3>2, <3>3 DEF AdminInv
    <2> QED
      BY <2>3, <2>4
  <1>10. ASSUME NEW h \in Hosts, Join(h)
         PROVE  AdminInv'
    BY <1>10 DEF Join, AdminInv
  <1>11. ASSUME NEW h \in Hosts, Reboot(h) \/ Reinstall(h)
         PROVE  AdminInv'
    <2>1. task = "idle" /\ task' = "idle" /\ fresh' = fresh /\ completed' \subseteq completed
      BY <1>11 DEF Reboot, Reinstall
    <2>2. \A g \in completed' : key'[g]["admin"] = key[g]["admin"]
      BY <1>11, FileNames DEF Reboot, Reinstall, KeyringsTypeOK, Keyrings
    <2> QED
      BY <2>1, <2>2 DEF AdminInv
  <1>12. ASSUME NEW kept \in BOOLEAN, Encrypt(kept)
         PROVE  AdminInv'
    BY <1>12 DEF Encrypt, AdminInv
  <1> QED
    BY <1>1, <1>2, <1>3, <1>4, <1>5, <1>6, <1>7, <1>8, <1>9, <1>10, <1>11,
       <1>12, NextCases DEF Ends

\* A host that a play completed on can talk to every monitor as admin, under the same
\* condition, whoever joined, failed or was reinstalled since.
THEOREM AdminKnownWhileLeaderIsSafe ==
    ASSUME LeaderIsSafe PROVE KeyringsSpec => []AdminIsKnown
  <1>1. KeyringsInit => AdminInv
    BY DEF KeyringsInit, AdminInv
  <1>2. IInv /\ AdminInv /\ [KeyringsNext]_keyringsVars => AdminInv'
    BY AdminInductive
  <1>3. IInv /\ AdminInv => AdminIsKnown
    BY DEF IInv, TypeInv, KeyringsTypeOK, KeyInv, Founded, AdminInv, AdminIsKnown
  <1> QED
    BY <1>1, <1>2, <1>3, KeyringInvariance, PTL DEF KeyringsSpec
=============================================================================
