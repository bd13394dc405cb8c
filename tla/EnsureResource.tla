--------------------------- MODULE EnsureResource ---------------------------
(***************************************************************************)
(* What a task of the collection promises when tasks run one after the     *)
(* other: "the resource should be present (or absent)", in one atomic      *)
(* step on the orchestrator's store.  No listing, no read and no copy: the *)
(* outcome is stated over the store as it is.  KowabungaModule implements  *)
(* it when tasks do not overlap and listings keep their order.             *)
(*                                                                         *)
(* A list attribute is here the set of the objects it refers to.           *)
(***************************************************************************)
EXTENDS Naturals, Sequences

CONSTANTS Runs, Declared, Fields, None, Requests, Initial, Faults

VARIABLES
    object,  \* as in KowabungaModule, list attributes as sets
    live,
    task     \* task[r]: what r works on, or its report

vars == <<object, live, task>>

Named(i, a) == a = i \/ a = object[i].name

Candidates(k, a) == {i \in live : object[i].kind = k /\ Named(i, a)}

\* The first one in creation order, or 0.
First(S) == IF S = {} THEN 0 ELSE CHOOSE i \in S : \A j \in S : i <= j

Owners(q) ==
    [n \in DOMAIN q.parents |->
        First(Candidates(Declared[q.kind].parents[n], q.parents[n]))]

Scoped(q) == Declared[q.kind].scope # "everywhere"

Target(q) ==
    First({i \in Candidates(q.kind, q.name) :
              Scoped(q) => object[i].parents = Owners(q)})

Referred(q) ==
    [n \in DOMAIN q.refs |->
        UNION {Candidates(Declared[q.kind].refs[n], a) : a \in q.refs[n]}]

Unresolved(q) ==
    \E n \in DOMAIN q.refs :
        /\ Referred(q)[n] = {}
        /\ \/ Declared[q.kind].mode = "always"
           \/ Declared[q.kind].mode = "given" /\ q.refs[n] # {}

Orphaned(q) == \E n \in DOMAIN q.parents : Owners(q)[n] = 0

Given(q, kindOfField) ==
    {f \in Fields \cap Declared[q.kind][kindOfField] : q.fields[f] # None}

\* The object already is what the task asks for.
Conforms(q, o) ==
    /\ o.refs = Referred(q)
    /\ \A f \in Given(q, "mutable") : o.fields[f] = q.fields[f]

Satisfied(q) ==
    IF q.state = "absent" THEN Target(q) = 0
    ELSE Target(q) # 0 /\ Conforms(q, object[Target(q)])

\* The task asks for another name or immutable attribute than there is.
Forbidden(q) ==
    /\ q.state = "present" /\ Target(q) # 0
    /\ LET o == object[Target(q)] IN
       \/ o.name # q.name
       \/ \E f \in Given(q, "immutable") : o.fields[f] # q.fields[f]

Impossible(q) ==
    \/ q.omitted \cap Declared[q.kind].required # {}
    \/ Unresolved(q)
    \/ Declared[q.kind].scope = "parentOrFail" /\ Orphaned(q)
    \/ Forbidden(q)
    \/ /\ ~q.check /\ ~Satisfied(q)
       /\ Target(q) = 0 /\ Orphaned(q)

Apply(q) ==
    LET t == Target(q) IN
    IF q.state = "absent" THEN live' = live \ {t} /\ object' = object
    ELSE IF t = 0
    THEN /\ live' = live \cup {Len(object) + 1}
         /\ object' = Append(object,
              [kind |-> q.kind, name |-> q.name, fields |-> q.fields,
               refs |-> Referred(q), parents |-> Owners(q)])
    ELSE /\ live' = live
         /\ object' = [object EXCEPT ![t].refs = Referred(q),
               ![t].fields = [f \in Fields |->
                   IF f \in Given(q, "mutable") THEN q.fields[f] ELSE @[f]]]

Report(r, verdict, changed) ==
    task' = [task EXCEPT ![r].phase = "idle", ![r].verdict = verdict,
                         ![r].changed = changed]

Init ==
    /\ object = Initial
    /\ live = DOMAIN Initial
    /\ \E q \in Requests :
          task = [r \in Runs |-> [phase |-> "idle", req |-> q,
                                  verdict |-> "none", changed |-> FALSE]]

Begin(r, q) ==
    /\ \A s \in Runs : task[s].phase = "idle"
    /\ task' = [task EXCEPT ![r] = [phase |-> "busy", req |-> q,
                                    verdict |-> "none", changed |-> FALSE]]
    /\ UNCHANGED <<object, live>>

\* The report says "changed" exactly when the request was not satisfied; a
\* check-mode run says it of a store it leaves alone.
Succeed(r) ==
    LET q == task[r].req IN
    /\ task[r].phase = "busy" /\ ~Impossible(q)
    /\ IF q.check \/ Satisfied(q) THEN UNCHANGED <<object, live>> ELSE Apply(q)
    /\ Report(r, "ok", ~Satisfied(q))

Refuse(r) ==
    /\ task[r].phase = "busy" /\ Impossible(task[r].req)
    /\ UNCHANGED <<object, live>>
    /\ Report(r, "failed", FALSE)

\* A fault strikes before the effect, or its answer gets lost after it.
Break(r) ==
    LET q == task[r].req IN
    /\ Faults
    /\ task[r].phase = "busy"
    /\ \/ UNCHANGED <<object, live>>
       \/ ~Impossible(q) /\ ~q.check /\ ~Satisfied(q) /\ Apply(q)
    /\ Report(r, "failed", FALSE)

Next == \E r \in Runs : \/ \E q \in Requests : Begin(r, q)
                        \/ Succeed(r) \/ Refuse(r) \/ Break(r)

Spec == Init /\ [][Next]_vars
=============================================================================
