--------------------------- MODULE ResourceKinds ---------------------------
(***************************************************************************)
(* What each module of plugins/modules/ declares about its resource kind:  *)
(*   parents    the kinds looked up by _create, in order                   *)
(*   refs       the kinds of resource_arg_maps, in order                   *)
(*   mode       what an empty list argument does: "always" fails, "given"  *)
(*              fails only if something was asked for, "never" fails       *)
(*   scope      "everywhere": the object is looked up among all of its     *)
(*              kind; "parent": among its parent's, a missing parent being *)
(*              a missing object; "parentOrFail": a missing parent fails   *)
(*   immutable, mutable, uncompared                                        *)
(*              the scalar arguments declared immutable=True, False, and   *)
(*              those that say neither: used by _create only               *)
(*   required   the arguments declared required=True, the name and the     *)
(*              parents aside: every task of the kind gives those          *)
(***************************************************************************)
EXTENDS Sequences

LOCAL Common == [parents |-> <<>>, refs |-> <<>>, mode |-> "given",
                 scope |-> "everywhere", immutable |-> {},
                 mutable |-> {"description"}, uncompared |-> {},
                 required |-> {}]

region == [Common EXCEPT !.mutable = @ \cup {"domain"},
    !.required = {"domain"}]

zone == [Common EXCEPT !.parents = <<"region">>]

agent == [Common EXCEPT !.immutable = {"type"},
    !.required = {"type"}]

kaktus == [Common EXCEPT !.parents = <<"zone">>, !.refs = <<"agent">>,
    !.mutable = @ \cup {"overcommit_cpu_ratio", "overcommit_memory_ratio"},
    !.required = {"agents"}]

\* kiwi brings a _find_agents of its own, without strict.
kiwi == [Common EXCEPT !.parents = <<"region">>, !.refs = <<"agent">>,
    !.mode = "never"]

pool == [Common EXCEPT !.parents = <<"region">>, !.refs = <<"agent">>,
    !.immutable = {"pool"},
    !.mutable = @ \cup {"ceph_address", "ceph_port", "ceph_secret_uuid"},
    !.required = {"pool", "agents"}]

nfs == [Common EXCEPT !.parents = <<"region">>,
    !.mutable = @ \cup {"fs", "backends", "port"}, !.uncompared = {"server"},
    !.required = {"server"}]

template == [Common EXCEPT !.parents = <<"pool">>, !.immutable = {"source"},
    !.mutable = @ \cup {"os"},
    !.required = {"source"}]

user == [Common EXCEPT !.immutable = {"email"},
    !.mutable = @ \cup {"role", "notifications"},
    !.required = {"email", "role"}]

team == [Common EXCEPT !.refs = <<"user">>,
    !.required = {"users"}]

project == [Common EXCEPT !.refs = <<"team", "region">>, !.mode = "always",
    !.immutable = {"root_password", "bootstrap_user", "bootstrap_pubkey"},
    !.mutable = @ \cup {"domain"}, !.uncompared = {"subnet_size"},
    !.required = {"teams", "regions"}]

vnet == [Common EXCEPT !.parents = <<"region">>, !.immutable = {"interface"},
    !.mutable = @ \cup {"vlan", "private"},
    !.required = {"interface"}]

subnet == [Common EXCEPT !.parents = <<"vnet">>, !.immutable = {"cidr"},
    !.mutable = @ \cup {"gateway", "dns", "extra_routes", "application"},
    !.required = {"cidr", "gateway"}]

adapter == [Common EXCEPT !.parents = <<"subnet">>,
    !.mutable = @ \cup {"mac", "reserved"}]

volume == [Common EXCEPT !.parents = <<"project", "region">>,
    !.immutable = {"type", "size"},
    !.required = {"type", "size"}]

instance == [Common EXCEPT !.parents = <<"project", "zone">>,
    !.refs = <<"adapter", "volume">>, !.mode = "never",
    !.immutable = {"memory", "vcpus"},
    !.required = {"memory", "vcpus"}]

kompute == [Common EXCEPT !.parents = <<"project", "zone">>,
    !.immutable = {"memory", "vcpus", "disk"}, !.mutable = @ \cup {"data_disk"},
    !.required = {"memory", "vcpus", "disk"}]

konvey == [Common EXCEPT !.parents = <<"project", "zone">>,
    !.mutable = @ \cup {"failover", "endpoints"},
    !.required = {"endpoints"}]

kylo == [Common EXCEPT !.parents = <<"project", "region">>,
    !.mutable = @ \cup {"access", "protocols"}]

kawaii == [Common EXCEPT !.parents = <<"project", "region">>]

kawaii_ipsec == [Common EXCEPT !.parents = <<"kawaii">>,
    !.scope = "parentOrFail", !.immutable = {"remote_ip", "remote_subnet"},
    !.mutable = @ \cup
       {"pre_shared_key", "dpd_timeout_action", "dpd_timeout", "start_action",
        "rekey_time", "phase1_lifetime", "phase1_dh_group_number",
        "phase1_integrity_algorithm", "phase1_encryption_algorithm",
        "phase2_lifetime", "phase2_dh_group_number",
        "phase2_integrity_algorithm", "phase2_encryption_algorithm"},
    !.required =
       {"remote_ip", "remote_subnet", "pre_shared_key", "phase1_dh_group_number",
        "phase1_integrity_algorithm", "phase1_encryption_algorithm",
        "phase2_dh_group_number", "phase2_integrity_algorithm",
        "phase2_encryption_algorithm"}]

\* A task of record names either a project or a region.
project_record == [Common EXCEPT !.parents = <<"project">>, !.scope = "parent",
    !.mutable = @ \cup {"addresses"},
    !.required = {"addresses"}]

region_record == [project_record EXCEPT !.parents = <<"region">>]

Catalog == [
    region |-> region, zone |-> zone, agent |-> agent, kaktus |-> kaktus,
    kiwi |-> kiwi, pool |-> pool, nfs |-> nfs, template |-> template,
    user |-> user, team |-> team, project |-> project, vnet |-> vnet,
    subnet |-> subnet, adapter |-> adapter, volume |-> volume,
    instance |-> instance, kompute |-> kompute, konvey |-> konvey,
    kylo |-> kylo, kawaii |-> kawaii, kawaii_ipsec |-> kawaii_ipsec,
    project_record |-> project_record, region_record |-> region_record]
=============================================================================
