------------------------------ MODULE MCTasks ------------------------------
(***************************************************************************)
(* Tasks and stores from which the MC modules of KowabungaModule pick.     *)
(***************************************************************************)
EXTENDS KowabungaRefinement, ResourceKinds

CONSTANTS a1, a2, p1, r1, k1, t1, i1, j1, z1

MCFields == {"description", "type", "subnet_size"}

MCKinds == DOMAIN Catalog

MCNames == {a1, a2, p1, r1, k1, t1, i1, j1, z1}

NoFields == [f \in MCFields |-> None]

Described(v) == [NoFields EXCEPT !["description"] = v]

Typed(v) == [NoFields EXCEPT !["type"] = v]

Present(k, n, fields, refs, parents) ==
    [kind |-> k, name |-> n, state |-> "present", check |-> FALSE,
     fields |-> fields, refs |-> refs, parents |-> parents, omitted |-> {}]

Absent(k, n, refs, parents) ==
    [Present(k, n, NoFields, refs, parents) EXCEPT !.state = "absent"]

Without(arguments, q) == [q EXCEPT !.omitted = arguments]

Checked(q) == [q EXCEPT !.check = TRUE]

Thing(k, n, fields, refs, parents) ==
    [kind |-> k, name |-> n, fields |-> fields, refs |-> refs, parents |-> parents]
=============================================================================
