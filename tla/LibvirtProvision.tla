-------------------------- MODULE LibvirtProvision --------------------------
(***************************************************************************)
(* What the kvm role gives to libvirt on a host: a network per bridge      *)
(* (roles/kvm/tasks/network.yml) and the RBD secret and storage pool       *)
(* (rbd.yml).  Each block of tasks hangs on a `virsh` query made before    *)
(* it, and reads files that are written before and removed after it.  The  *)
(* play may stop between any two steps and the host may reboot; libvirt is *)
(* external.                                                               *)
(***************************************************************************)
EXTENDS Naturals, Sequences

CONSTANTS
    Bridges,   \* the bridges, in the order of the loops
    MaxBreaks  \* bound: plays that stop midway

VARIABLES
    at,        \* the task
    nth,       \* the bridge of the task's loop
    absent,    \* absent[b]: net-info did not find the network of bridge b
    undefined, \* net-undefine default succeeded
    default,   \* libvirt's default network; "transient" is active and not defined
    net,       \* net[b]: what libvirt has of the network of bridge b
    xml,       \* the temporary files there are
    secret,    \* the secret: "none", "empty" or "valued"
    rbdPool,   \* what libvirt has of the pool
    cut,       \* history: what a play that stopped left half done
    breaks

libvirtVars == <<at, nth, absent, undefined, default, net, xml, secret, rbdPool, cut, breaks>>

Nets == {Bridges[n] : n \in DOMAIN Bridges}

\* The loops have items, and the files of networks have names of their own.
ASSUME LibvirtAssumption ==
    /\ Bridges \in Seq(Nets) /\ Bridges # <<>>
    /\ Nets \cap {"pool", "secret"} = {}
    /\ MaxBreaks \in Nat

Bridge == Bridges[nth]
Defaults == {"none", "defined", "active", "transient"}
Nothing == [defined |-> FALSE, autostart |-> FALSE, active |-> FALSE]

\* The tasks, in order.
Tasks == <<"undefine", "destroy", "info", "copy", "define", "autostart", "start", "remove",
           "secret-list", "pool.xml", "secret.xml", "secret-define", "set-value", "rm",
           "pool-info", "pool-define", "pool-autostart", "pool-start">>
Looped == {"info", "copy", "define", "autostart", "start", "remove"}
Index(t) == CHOOSE n \in DOMAIN Tasks : Tasks[n] = t
After(t) == IF t = "pool-start" THEN "idle" ELSE Tasks[Index(t) + 1]

LibvirtTypeOK ==
    /\ at \in {Tasks[n] : n \in DOMAIN Tasks} \cup {"idle"}
    /\ nth \in DOMAIN Bridges /\ absent \in [Nets -> BOOLEAN] /\ undefined \in BOOLEAN
    /\ default \in Defaults /\ secret \in {"none", "empty", "valued"}
    /\ net \in [Nets -> [DOMAIN Nothing -> BOOLEAN]] /\ rbdPool \in [DOMAIN Nothing -> BOOLEAN]
    /\ xml \subseteq Nets \cup {"pool", "secret"} /\ cut \subseteq Nets \cup {"secret"}
    /\ breaks \in 0..MaxBreaks

LibvirtInit ==
    /\ at = "idle" /\ nth = 1 /\ absent = [b \in Nets |-> FALSE] /\ undefined = FALSE
    /\ default \in {"none", "defined", "active"}
    /\ net = [b \in Nets |-> Nothing] /\ xml = {} /\ secret = "none" /\ rbdPool = Nothing
    /\ cut = {} /\ breaks = 0

networks == <<absent, undefined, default, net>>
storage == <<secret, rbdPool>>

LibvirtPlay ==
    /\ at = "idle" /\ at' = "undefine"
    /\ UNCHANGED <<nth, networks, storage, xml, cut, breaks>>

\* Slip: the loop goes one past its end.
OnwardPast(t) ==
    IF t \in Looped /\ nth =< Len(Bridges)
    THEN nth' = nth + 1 /\ at' = t
    ELSE nth' = 1 /\ at' = After(t)

\* The next item of the task's loop, or the next task.
GoOn(t) ==
    IF t \in Looped /\ nth < Len(Bridges)
    THEN nth' = nth + 1 /\ at' = t
    ELSE nth' = 1 /\ at' = After(t)

Fail == at' = "idle" /\ nth' = 1

\* virsh net-undefine default: 0 or 1, neither of which fails the task.
Undefine ==
    /\ at = "undefine"
    /\ undefined' = (default = "defined" \/ default = "active")
    /\ default' = CASE default = "defined" -> "none"
                    [] default = "active" -> "transient"
                    [] OTHER -> default
    /\ GoOn(at)
    /\ UNCHANGED <<absent, net, storage, xml, cut, breaks>>

\* virsh net-destroy default: a failure fails the task if net-undefine succeeded.
Destroy ==
    /\ at = "destroy"
    /\ default' = "none"
    /\ IF default = "none" /\ undefined THEN Fail ELSE GoOn(at)
    /\ UNCHANGED <<absent, undefined, net, storage, xml, cut, breaks>>

Info ==
    /\ at = "info"
    /\ absent' = [absent EXCEPT ![Bridge] = ~net[Bridge].defined]
    /\ GoOn(at)
    /\ UNCHANGED <<undefined, default, net, storage, xml, cut, breaks>>

Copy ==
    /\ at = "copy"
    /\ xml' = IF absent[Bridge] THEN xml \cup {Bridge} ELSE xml
    /\ GoOn(at)
    /\ UNCHANGED <<networks, storage, cut, breaks>>

Define ==
    /\ at = "define"
    /\ IF absent[Bridge] /\ Bridge \notin xml THEN Fail /\ UNCHANGED net
       ELSE GoOn(at) /\ net' = [net EXCEPT ![Bridge].defined = @ \/ absent[Bridge]]
    /\ UNCHANGED <<absent, undefined, default, storage, xml, cut, breaks>>

Autostart ==
    /\ at = "autostart"
    /\ net' = [net EXCEPT ![Bridge].autostart = @ \/ absent[Bridge]]
    /\ GoOn(at)
    /\ UNCHANGED <<absent, undefined, default, storage, xml, cut, breaks>>

\* Slip: a network is started unless its autostart is set.
StartOthers ==
    /\ at = "start"
    /\ net' = [net EXCEPT ![Bridge].active = @ \/ ~net[Bridge].autostart]
    /\ GoOn(at)
    /\ UNCHANGED <<absent, undefined, default, storage, xml, cut, breaks>>

StartNet ==
    /\ at = "start"
    /\ net' = [net EXCEPT ![Bridge].active = @ \/ absent[Bridge]]
    /\ GoOn(at)
    /\ UNCHANGED <<absent, undefined, default, storage, xml, cut, breaks>>

Remove ==
    /\ at = "remove"
    /\ xml' = IF absent[Bridge] THEN xml \ {Bridge} ELSE xml
    /\ GoOn(at)
    /\ UNCHANGED <<networks, storage, cut, breaks>>

\* virsh secret-list | grep, and `when` of the block.
SecretList ==
    /\ at = "secret-list"
    /\ at' = IF secret = "none" THEN "pool.xml" ELSE "pool-info"
    /\ UNCHANGED <<nth, networks, storage, xml, cut, breaks>>

WriteXml ==
    /\ at \in {"pool.xml", "secret.xml"}
    /\ xml' = xml \cup {IF at = "pool.xml" THEN "pool" ELSE "secret"}
    /\ GoOn(at)
    /\ UNCHANGED <<networks, storage, cut, breaks>>

Secret ==
    /\ at \in {"secret-define", "set-value"}
    /\ secret' = IF at = "set-value" THEN "valued" ELSE "empty"
    /\ GoOn(at)
    /\ UNCHANGED <<networks, rbdPool, xml, cut, breaks>>

Rm ==
    /\ at = "rm"
    /\ xml' = xml \ {"pool", "secret"}
    /\ GoOn(at)
    /\ UNCHANGED <<networks, storage, cut, breaks>>

PoolInfo ==
    /\ at = "pool-info"
    /\ at' = IF rbdPool.defined THEN "idle" ELSE "pool-define"
    /\ UNCHANGED <<nth, networks, storage, xml, cut, breaks>>

PoolDefine ==
    /\ at = "pool-define"
    /\ IF "pool" \in xml THEN GoOn(at) /\ rbdPool' = [rbdPool EXCEPT !.defined = TRUE]
       ELSE Fail /\ UNCHANGED rbdPool
    /\ UNCHANGED <<networks, secret, xml, cut, breaks>>

PoolAutostart ==
    /\ at = "pool-autostart"
    /\ rbdPool' = [rbdPool EXCEPT !.autostart = TRUE]
    /\ GoOn(at)
    /\ UNCHANGED <<networks, secret, xml, cut, breaks>>

\* libvirt opens the pool with the secret's value.
PoolStart ==
    /\ at = "pool-start"
    /\ IF secret = "valued" THEN GoOn(at) /\ rbdPool' = [rbdPool EXCEPT !.active = TRUE]
       ELSE Fail /\ UNCHANGED rbdPool
    /\ UNCHANGED <<networks, secret, xml, cut, breaks>>

\* The play stops before the next step.
Break ==
    /\ at # "idle" /\ breaks < MaxBreaks
    /\ breaks' = breaks + 1
    /\ Fail
    /\ cut' = cut \cup {b \in Nets : net[b].defined /\ ~net[b].active}
                  \cup (IF at \in {"set-value", "rm"} THEN {"secret"} ELSE {})
    /\ UNCHANGED <<networks, storage, xml>>

\* libvirt starts what is marked so; /tmp is emptied.
Reboot ==
    /\ at = "idle"
    /\ net' = [b \in Nets |-> [net[b] EXCEPT !.active = net[b].autostart]]
    /\ rbdPool' = [rbdPool EXCEPT !.active = rbdPool.autostart /\ secret = "valued"]
    /\ default' = IF default \in {"none", "transient"} THEN "none" ELSE "active"
    /\ xml' = {}
    /\ UNCHANGED <<at, nth, absent, undefined, secret, cut, breaks>>

LibvirtProgress ==
    \/ LibvirtPlay \/ Undefine \/ Destroy
    \/ Info \/ Copy \/ Define \/ Autostart \/ StartNet \/ Remove
    \/ SecretList \/ WriteXml \/ Secret \/ Rm
    \/ PoolInfo \/ PoolDefine \/ PoolAutostart \/ PoolStart

LibvirtNext == LibvirtProgress \/ Break \/ Reboot

LibvirtSpec == LibvirtInit /\ [][LibvirtNext]_libvirtVars

----------------------------------------------------------------------------
(* Correctness.                                                            *)

\* Past the tasks on networks, every bridge has a network that is active now
\* and after a reboot, unless a play stopped between its definition and its
\* start: that network is then found by net-info and left alone.
NetworksAreUp ==
    at \in {"secret-list", "pool-info"} =>
        \A b \in Nets \ cut : net[b].active /\ net[b].autostart
\* The pool is never defined by a role whose plays all go through: its
\* description is removed before it is defined.
PoolNeedsABreak == rbdPool.defined => "secret" \in cut

\* Where a play stopped decides what libvirt is left with, and nothing else does.
BreaksDecide == NetworksAreUp /\ PoolNeedsABreak

\* Whatever became of libvirt's default network, some later play gets past it.
NetworksAreReached == <>(at = "info")
=============================================================================
