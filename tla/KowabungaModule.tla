-------------------------- MODULE KowabungaModule --------------------------
(***************************************************************************)
(* The reconciler behind every Ansible module of the collection            *)
(* (plugins/module_utils/kowabunga.py and the run() of plugins/modules/).  *)
(*                                                                         *)
(* A run of a module is one task of a playbook.  It resolves the names it  *)
(* was given, looks its object up, decides what to do and makes at most    *)
(* one mutating call.  Every call to the orchestrator is a step of its     *)
(* own, so other runs (other forks, other operators) interleave with it.   *)
(* The orchestrator's store is external and is modelled from how the runs  *)
(* use it: calls list, read, create, update and delete objects by ID.      *)
(***************************************************************************)
EXTENDS Naturals, Sequences, FiniteSets

CONSTANTS
    Runs,        \* processes executing tasks, each one task at a time
    Kinds,       \* the resource kinds of this instance
    Declared,    \* Declared[k]: what k's module declares (see ResourceKinds)
    Fields,      \* the scalar attributes of this instance
    Names,       \* resource names
    Values,      \* values of scalar attributes
    None,        \* an attribute that is not given
    Requests,    \* the tasks that runs may be given
    Initial,     \* the objects there at the start, by ID
    MaxStarts,   \* bound: tasks a process executes, retries included
    Overlap,     \* TRUE: tasks run concurrently; FALSE: one after the other
    Faults,      \* TRUE: any call may fail, and an answer may get lost
    StableOrder  \* TRUE: listings are in creation order; FALSE: in any order

Address == Names \cup Nat    \* "name (or ID)"

Declaration == [parents: Seq(Kinds), refs: Seq(Kinds),
                mode: {"always", "given", "never"},
                scope: {"everywhere", "parent", "parentOrFail"},
                immutable: SUBSET STRING, mutable: SUBSET STRING,
                uncompared: SUBSET STRING, required: SUBSET STRING]

Request == [kind: Kinds, name: Address, state: {"present", "absent"},
            check: BOOLEAN, fields: [Fields -> Values \cup {None}],
            refs: Seq(SUBSET Address), parents: Seq(Address),
            omitted: SUBSET STRING]  \* required arguments it does not give

Object == [kind: Kinds, name: Address, fields: [Fields -> Values \cup {None}],
           refs: Seq(Seq(Nat)), parents: Seq(Nat)]

ASSUME InstanceAssumption ==
    /\ Fields \subseteq STRING
    /\ Declared \in [Kinds -> Declaration]
    /\ \A k \in Kinds : Declared[k].scope # "everywhere" =>
                          Len(Declared[k].parents) = 1
    /\ \A k \in Kinds : Declared[k].immutable \cap Declared[k].mutable = {}
    /\ Overlap \in BOOLEAN /\ Faults \in BOOLEAN /\ StableOrder \in BOOLEAN
    /\ MaxStarts \in Nat
    /\ Initial \in Seq(Object)

ASSUME RequestsAssumption ==
    /\ Requests \subseteq Request
    /\ Requests # {}
    /\ \A q \in Requests :
          /\ Len(q.refs) = Len(Declared[q.kind].refs)
          /\ Len(q.parents) = Len(Declared[q.kind].parents)
          /\ \A f \in Fields :
                q.fields[f] # None =>
                   \/ f \in Declared[q.kind].immutable
                   \/ f \in Declared[q.kind].mutable
                   \/ f \in Declared[q.kind].uncompared

NoId == 0

VARIABLES
    object,  \* object[i]: the object with ID i, its last content once deleted
    live,    \* the IDs that exist now
    witness, \* history: witness[i] is the listing i's creator based itself on
    run      \* run[r]: the local state of process r

vars == <<object, live, witness, run>>

Goals == {"refs", "scope", "self", "parents"}

RunState ==
    [step: {"idle", "args", "list", "read", "decide", "apply", "done"},
     req: Requests,
     goal: Goals,              \* what the current list/read loop looks for
     todo: SUBSET Nat,         \* IDs listed and not yet read
     ids: Seq(Nat),            \* matches so far of the current list argument
     refs: Seq(Seq(Nat)),      \* list arguments resolved so far
     scope: Nat,               \* the parent the own lookup is limited to
     seen: SUBSET Nat,         \* IDs the own lookup listed
     target: Nat,              \* the object found, or NoId
     copy: Object,             \* its content as it was read
     parents: Seq(Nat),        \* parents found so far for the mutating call
     verdict: {"none", "ok", "failed"},
     changed: BOOLEAN,
     effects: Nat,             \* history: mutating calls that took effect
     starts: Nat]

TypeOK ==
    /\ object \in Seq(Object)
    /\ live \subseteq DOMAIN object
    /\ witness \in Seq(SUBSET Nat)
    /\ Len(witness) = Len(object)
    /\ run \in [Runs -> RunState]

----------------------------------------------------------------------------
(* The loops over a listing: "for id in list(): r = read(id); if name in   *)
(* [r.id, r.name]".                                                        *)

Declares(u) == Declared[u.req.kind]

\* Slip: an ID is taken for granted where the task gives a name.
MatchesById(i, o, a) == a = i

Matches(i, o, a) == a = i \/ a = o.name

SoughtKind(u) ==
    CASE u.goal = "refs"    -> Declares(u).refs[Len(u.refs) + 1]
      [] u.goal = "scope"   -> Declares(u).parents[1]
      [] u.goal = "self"    -> u.req.kind
      [] u.goal = "parents" -> Declares(u).parents[Len(u.parents) + 1]

SoughtNames(u) ==
    CASE u.goal = "refs"    -> u.req.refs[Len(u.refs) + 1]
      [] u.goal = "scope"   -> {u.req.parents[1]}
      [] u.goal = "self"    -> {u.req.name}
      [] u.goal = "parents" -> {u.req.parents[Len(u.parents) + 1]}

Scoped(u) == u.goal = "self" /\ Declares(u).scope # "everywhere"

Listing(u) == {i \in live : /\ object[i].kind = SoughtKind(u)
                            /\ Scoped(u) => object[i].parents = <<u.scope>>}

Hits(u, i) == {a \in SoughtNames(u) : Matches(i, object[i], a)}

IsNext(u, i) == i \in u.todo /\ (StableOrder => \A j \in u.todo : i <= j)

----------------------------------------------------------------------------
(* _build_kwargs, _build_update and _will_change on local data.            *)

\* The loop that follows the resolution of u.refs: the next list argument,
\* else the parent of a scoped kind, else the object itself.
Onward(u) ==
    [u EXCEPT !.step = "list",
              !.ids = <<>>,
              !.goal = IF Len(u.refs) < Len(Declares(u).refs) THEN "refs"
                       ELSE IF Declares(u).scope = "everywhere" THEN "self"
                       ELSE "scope"]

Conflicts(q, o) ==
    \/ q.name # o.name
    \/ \E f \in Declared[q.kind].immutable \cap Fields :
          q.fields[f] \notin {None, o.fields[f]}

\* Slip: an argument that is not given erases the attribute.
MergedWithNone(q, refs, o) ==
    [o EXCEPT !.refs = refs,
              !.fields = [f \in Fields |-> IF f \in Declared[q.kind].mutable
                                           THEN q.fields[f] ELSE o.fields[f]]]

Merged(q, refs, o) ==
    [o EXCEPT !.refs = refs,
              !.fields = [f \in Fields |->
                  IF f \in Declared[q.kind].mutable /\ q.fields[f] # None
                  THEN q.fields[f] ELSE o.fields[f]]]

Differs(u) == Merged(u.req, u.refs, u.copy) # u.copy

Found(u) == u.target # NoId

Clashes(u) == u.req.state = "present" /\ Found(u) /\ Conflicts(u.req, u.copy)

WillChange(u) == IF u.req.state = "absent" THEN Found(u)
                 ELSE Found(u) => Differs(u)

NeedsParents(u) ==
    Declares(u).parents # <<>> /\ (~Found(u) \/ Declares(u).scope = "parentOrFail")

----------------------------------------------------------------------------
Fresh(q, n) ==
    [step |-> "args", req |-> q, goal |-> "self", todo |-> {}, ids |-> <<>>,
     refs |-> <<>>, scope |-> NoId, seen |-> {}, target |-> NoId,
     copy |-> [kind |-> q.kind, name |-> q.name, fields |-> q.fields,
               refs |-> <<>>, parents |-> <<>>],
     parents |-> <<>>, verdict |-> "none", changed |-> FALSE, effects |-> 0,
     starts |-> n]

Set(r, u) == run' = [run EXCEPT ![r] = u]

\* fail_json and exit_json end the process: what is local to it is gone.
Ended(u) == [Fresh(u.req, u.starts) EXCEPT !.step = "done",
                                           !.effects = u.effects]

Failed(u) == [Ended(u) EXCEPT !.verdict = "failed"]

Exit(u, changed) == [Ended(u) EXCEPT !.verdict = "ok", !.changed = changed]

Local(r, u) == Set(r, u) /\ UNCHANGED <<object, live, witness>>

Idle(r) == run[r].step \in {"idle", "done"}

Init ==
    /\ object = Initial
    /\ live = DOMAIN Initial
    /\ witness = [i \in DOMAIN Initial |-> {}]
    /\ LET q == CHOOSE q \in Requests : TRUE
       IN  run = [r \in Runs |-> [Fresh(q, 0) EXCEPT !.step = "idle"]]

\* A process is handed its next task, or the same one again.
Start(r, q) ==
    /\ Idle(r)
    /\ run[r].starts < MaxStarts
    /\ Overlap \/ \A s \in Runs : Idle(s)
    /\ Local(r, Fresh(q, run[r].starts + 1))

\* AnsibleModule refuses a task that lacks an argument declared required=True,
\* whatever its state.
Validate(r) ==
    LET u == run[r] IN
    /\ u.step = "args"
    /\ Local(r, IF u.req.omitted \cap Declares(u).required # {} THEN Failed(u)
                ELSE Onward(u))

\* _find_agents and its like answer an argument that is not given with [].
SkipRefs(r) ==
    LET u == run[r] IN
    /\ u.step = "list" /\ u.goal = "refs"
    /\ SoughtNames(u) = {}
    /\ Declares(u).mode # "always"
    /\ Local(r, Onward([u EXCEPT !.refs = Append(@, <<>>)]))

List(r) ==
    LET u == run[r] IN
    /\ u.step = "list"
    /\ u.goal = "refs" =>
          SoughtNames(u) # {} \/ Declares(u).mode = "always"
    /\ Scoped(u) => u.scope \in live
    /\ Local(r, [u EXCEPT !.step = "read",
                          !.todo = Listing(u),
                          !.seen = IF u.goal = "self" THEN Listing(u) ELSE @])

\* The parent of a scoped kind disappeared before its children were listed.
ListGone(r) ==
    /\ run[r].step = "list"
    /\ Scoped(run[r]) /\ run[r].scope \notin live
    /\ Local(r, Failed(run[r]))

\* An object disappeared between the listing and its read: 404.
ReadGone(r, i) ==
    /\ run[r].step = "read"
    /\ IsNext(run[r], i)
    /\ i \notin live
    /\ Local(r, Failed(run[r]))

\* Slip: the loop reads the same object again.
ReadOtherAgain(r, i) ==
    LET u == run[r] IN
    /\ u.step = "read"
    /\ IsNext(u, i)
    /\ i \in live
    /\ Hits(u, i) = {}
    /\ Local(r, u)

ReadOther(r, i) ==
    LET u == run[r] IN
    /\ u.step = "read"
    /\ IsNext(u, i)
    /\ i \in live
    /\ Hits(u, i) = {}
    /\ Local(r, [u EXCEPT !.todo = @ \ {i}])

\* _find_resources_by_name appends the ID once per argument that matches.
ReadRef(r, i) ==
    LET u == run[r] IN
    /\ u.step = "read" /\ u.goal = "refs"
    /\ IsNext(u, i)
    /\ i \in live
    /\ Hits(u, i) # {}
    /\ Local(r, [u EXCEPT !.todo = @ \ {i},
                          !.ids = @ \o [n \in 1..Cardinality(Hits(u, i)) |-> i]])

RefsEnd(r) ==
    LET u == run[r] IN
    /\ u.step = "read" /\ u.goal = "refs" /\ u.todo = {}
    /\ Local(r, IF u.ids = <<>> /\ Declares(u).mode # "never" THEN Failed(u)
                ELSE Onward([u EXCEPT !.refs = Append(@, u.ids)]))

\* _find_resource_by_name and its variants stop at the first match.
ReadHit(r, i) ==
    LET u == run[r] IN
    /\ u.step = "read" /\ u.goal # "refs"
    /\ IsNext(u, i)
    /\ i \in live
    /\ Hits(u, i) # {}
    /\ Local(r,
         CASE u.goal = "scope" ->
                [u EXCEPT !.step = "list", !.goal = "self", !.todo = {},
                          !.scope = i]
           [] u.goal = "self" ->
                [u EXCEPT !.step = "decide", !.todo = {}, !.target = i,
                          !.copy = object[i]]
           [] u.goal = "parents" ->
                [u EXCEPT !.parents = Append(@, i), !.todo = {},
                          !.step = IF Len(u.parents) + 1 < Len(Declares(u).parents)
                                   THEN "list" ELSE "apply"])

\* Slip: the first object that does not match ends the search.
NotFoundEarly(r) ==
    LET u == run[r] IN
    /\ u.step = "read" /\ u.goal # "refs"
    /\ Local(r, IF \/ u.goal = "self"
                   \/ u.goal = "scope" /\ Declares(u).scope = "parent"
                THEN [u EXCEPT !.step = "decide", !.todo = {}]
                ELSE Failed(u))

NotFound(r) ==
    LET u == run[r] IN
    /\ u.step = "read" /\ u.goal # "refs" /\ u.todo = {}
    /\ Local(r, IF \/ u.goal = "self"
                   \/ u.goal = "scope" /\ Declares(u).scope = "parent"
                THEN [u EXCEPT !.step = "decide"]
                ELSE Failed(u))

----------------------------------------------------------------------------
(* run(), once the object is looked up.                                    *)

\* "Cannot update parameters": also in check mode.
Conflict(r) ==
    /\ run[r].step = "decide"
    /\ Clashes(run[r])
    /\ Local(r, Failed(run[r]))

Predict(r) ==
    /\ run[r].step = "decide" /\ run[r].req.check
    /\ ~Clashes(run[r])
    /\ Local(r, Exit(run[r], WillChange(run[r])))

\* Slip: "changed" without a call.
LeaveAloneChanged(r) ==
    /\ run[r].step = "decide" /\ ~run[r].req.check
    /\ ~Clashes(run[r])
    /\ ~WillChange(run[r])
    /\ Local(r, Exit(run[r], TRUE))

LeaveAlone(r) ==
    /\ run[r].step = "decide" /\ ~run[r].req.check
    /\ ~Clashes(run[r])
    /\ ~WillChange(run[r])
    /\ Local(r, Exit(run[r], FALSE))

\* Slip: check mode is not looked at.
PrepareAnyway(r) ==
    LET u == run[r] IN
    /\ u.step = "decide"
    /\ ~Clashes(u)
    /\ WillChange(u)
    /\ Local(r, IF NeedsParents(u)
                THEN [u EXCEPT !.step = "list", !.goal = "parents"]
                ELSE [u EXCEPT !.step = "apply"])

Prepare(r) ==
    LET u == run[r] IN
    /\ u.step = "decide" /\ ~u.req.check
    /\ ~Clashes(u)
    /\ WillChange(u)
    /\ Local(r, IF NeedsParents(u)
                THEN [u EXCEPT !.step = "list", !.goal = "parents"]
                ELSE [u EXCEPT !.step = "apply"])

----------------------------------------------------------------------------
(* The mutating call.  Its answer may get lost: the run then fails though  *)
(* the call took effect.                                                   *)

Effective(r, lost) ==
    /\ lost => Faults
    /\ LET u == [run[r] EXCEPT !.effects = @ + 1]
       IN  Set(r, IF lost THEN Failed(u) ELSE Exit(u, TRUE))

Owned(u) == Declares(u).scope = "parentOrFail" => u.copy.parents = u.parents

\* Slip: the parents as they were named, not the IDs that were found.
WantedUnresolved(u) ==
    [kind |-> u.req.kind, name |-> u.req.name, fields |-> u.req.fields,
     refs |-> u.refs, parents |-> u.req.parents]

Wanted(u) == [kind |-> u.req.kind, name |-> u.req.name, fields |-> u.req.fields,
              refs |-> u.refs, parents |-> u.parents]

Create(r, lost) ==
    LET u == run[r] IN
    /\ u.step = "apply" /\ ~Found(u)
    /\ \A n \in DOMAIN u.parents : u.parents[n] \in live
    /\ object' = Append(object, Wanted(u))
    /\ live' = live \cup {Len(object) + 1}
    /\ witness' = Append(witness, u.seen)
    /\ Effective(r, lost)

\* Slip: what the task gives replaces the object.
UpdateAfresh(r, lost) ==
    LET u == run[r] IN
    /\ u.step = "apply" /\ Found(u) /\ u.req.state = "present"
    /\ u.target \in live /\ Owned(u)
    /\ object' = [object EXCEPT ![u.target] = Wanted(u)]
    /\ UNCHANGED <<live, witness>>
    /\ Effective(r, lost)

\* The whole object goes back as it was read, with the attributes merged in.
Update(r, lost) ==
    LET u == run[r] IN
    /\ u.step = "apply" /\ Found(u) /\ u.req.state = "present"
    /\ u.target \in live /\ Owned(u)
    /\ object' = [object EXCEPT ![u.target] = Merged(u.req, u.refs, u.copy)]
    /\ UNCHANGED <<live, witness>>
    /\ Effective(r, lost)

Delete(r, lost) ==
    LET u == run[r] IN
    /\ u.step = "apply" /\ Found(u) /\ u.req.state = "absent"
    /\ u.target \in live /\ Owned(u)
    /\ live' = live \ {u.target}
    /\ UNCHANGED <<object, witness>>
    /\ Effective(r, lost)

\* The object, or the parent it is created under, is no longer there.
Rejected(r) ==
    LET u == run[r] IN
    /\ u.step = "apply"
    /\ IF Found(u) THEN u.target \notin live \/ ~Owned(u)
       ELSE \E n \in DOMAIN u.parents : u.parents[n] \notin live
    /\ Local(r, Failed(u))

\* A call fails without any effect (__call__ turns OpenApiException into
\* fail_json).
Fault(r) ==
    /\ Faults
    /\ run[r].step \in {"list", "read", "apply"}
    /\ run[r].step = "read" => run[r].todo # {}
    /\ Local(r, Failed(run[r]))

----------------------------------------------------------------------------
Progress(r) ==
    \/ Validate(r) \/ SkipRefs(r) \/ List(r) \/ ListGone(r)
    \/ \E i \in run[r].todo :
          ReadGone(r, i) \/ ReadOther(r, i) \/ ReadRef(r, i) \/ ReadHit(r, i)
    \/ RefsEnd(r) \/ NotFound(r)
    \/ Conflict(r) \/ Predict(r) \/ LeaveAlone(r) \/ Prepare(r)
    \/ \E lost \in BOOLEAN : Create(r, lost) \/ Update(r, lost) \/ Delete(r, lost)
    \/ Rejected(r)

Next == \E r \in Runs : \/ \E q \in Requests : Start(r, q)
                        \/ Progress(r)
                        \/ Fault(r)

Spec == Init /\ [][Next]_vars

\* A started module is a process of its own that runs until it exits, and the
\* client's calls return.  Nothing makes an operator start one.
FairSpec == Spec /\ \A r \in Runs : WF_vars(Progress(r))

----------------------------------------------------------------------------
(* Correctness.                                                            *)

\* An object is only ever created by a run that listed every rival of that
\* name which existed before, read it and found it different: two objects of
\* one name are always the work of two runs neither of which could see the
\* other's (the check-then-create of _read and _create).
NoBlindDuplicate ==
    \A j \in DOMAIN object : \A i \in witness[j] :
        /\ object[i].kind = object[j].kind
        /\ ~Matches(i, object[i], object[j].name)

\* Whatever other runs do in between, an object is changed or deleted only by
\* a run that is not in check mode, was asked for that state, and named that
\* object: the target found at lookup is still the right one at the call.
OnlyTheNamedObject ==
    [][\A i \in DOMAIN object :
         object'[i] # object[i] \/ (i \in live /\ i \notin live') =>
            \E r \in Runs : LET q == run[r].req IN
               /\ run'[r].effects > run[r].effects
               /\ ~q.check
               /\ q.kind = object[i].kind
               /\ Matches(i, object[i], q.name)
               /\ q.state = IF i \in live' THEN "present" ELSE "absent"]_vars

SameIdentity(o, p) ==
    /\ o.kind = p.kind
    /\ o.name = p.name
    /\ o.parents = p.parents
    /\ \A f \in Declared[p.kind].immutable \cap Fields :
          o.fields[f] = p.fields[f]

\* Writing a whole object back never alters what "cannot be updated": its
\* name, its owner and its immutable attributes, however old the copy is.
IdentityForLife ==
    [][\A i \in DOMAIN object : SameIdentity(object'[i], object[i])]_vars

\* What a task reports is what it did: "changed" means exactly one mutating
\* call took effect, "ok" without it none, and a failed task left a change
\* behind only if an answer was lost.
ReportIsTrue ==
    \A r \in Runs : LET u == run[r] IN
        /\ u.step # "done" => u.effects = 0
        /\ u.verdict = "ok" => u.effects = IF u.changed /\ ~u.req.check THEN 1 ELSE 0
        /\ u.verdict = "failed" => u.effects = 0 \/ (Faults /\ u.effects = 1)

\* Every task that is started ends, whatever the other runs do to the objects
\* it is looking through.
EveryTaskEnds == \A r \in Runs : ~Idle(r) ~> Idle(r)

\* Tasks one after the other: names stay unique within a kind (a scope, for a
\* scoped kind), also across failed tasks, lost answers and retries.
NamesStayUnique ==
    ~Overlap => \A i, j \in live :
        /\ object[i].kind = object[j].kind
        /\ object[i].name = object[j].name
        /\ Declared[object[i].kind].scope = "everywhere"
           \/ object[i].parents = object[j].parents
        => i = j

\* An update touches only what its task gives: "Update resource object from
\* provided kwargs parameters" (kowabunga.py).
UngivenIsUntouched ==
    [][\A i \in DOMAIN object, r \in Runs :
         object'[i] # object[i] /\ run'[r].effects > run[r].effects =>
            \A n \in DOMAIN object[i].refs :
               run[r].req.refs[n] = {} => object'[i].refs[n] = object[i].refs[n]]_vars

\* A task written like the EXAMPLES of a module's documentation succeeds when
\* the parents it names exist and no call fails.
DocumentedTasksSucceed == \A r \in Runs : run[r].verdict # "failed"
=============================================================================
