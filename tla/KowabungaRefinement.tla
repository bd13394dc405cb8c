------------------------ MODULE KowabungaRefinement ------------------------
(***************************************************************************)
(* Tasks that run one after the other implement EnsureResource: the many   *)
(* calls of a run collapse into one atomic step, at its mutating call or   *)
(* at its exit.                                                            *)
(***************************************************************************)
EXTENDS KowabungaModule

\* What the promise is made for.  Tasks come one after the other, and listings
\* keep their order.
OneAfterAnother == ~Overlap /\ StableOrder

Ascending(s) == \A m, n \in DOMAIN s : m < n => s[m] < s[n]

\* A list gives names, or a single ID: one that gives an object by its name and
\* by its ID is written with that object twice.
ListsByName ==
    \A q \in Requests : \A n \in DOMAIN q.refs :
        \A a, b \in q.refs[n] : a \in Nat => b = a

\* Objects there at the start look as if tasks had made them: lists in the
\* order of creation, and owners that have an ID.
TidyStart ==
    \A i \in DOMAIN Initial :
        /\ \A n \in DOMAIN Initial[i].refs : Ascending(Initial[i].refs[n])
        /\ \A n \in DOMAIN Initial[i].parents : Initial[i].parents[n] # NoId

\* No two of them have one name, in a kind or in a scope.
UniqueStart ==
    \A i, j \in DOMAIN Initial :
        /\ Initial[i].kind = Initial[j].kind
        /\ Initial[i].name = Initial[j].name
        /\ Declared[Initial[i].kind].scope = "everywhere"
           \/ Initial[i].parents = Initial[j].parents
        => i = j

----------------------------------------------------------------------------
\* The order of a list attribute is not part of the promise.
AsSets(o) == [o EXCEPT !.refs = [n \in DOMAIN o.refs |->
                {o.refs[n][m] : m \in DOMAIN o.refs[n]}]]

Ensure == INSTANCE EnsureResource WITH
    object <- [i \in DOMAIN object |-> AsSets(object[i])],
    Initial <- [i \in DOMAIN Initial |-> AsSets(Initial[i])],
    task <- [r \in Runs |-> [phase |-> IF Idle(r) THEN "idle" ELSE "busy",
                             req |-> run[r].req,
                             verdict |-> run[r].verdict,
                             changed |-> run[r].changed]]

\* Every task has the effect and the report that its request calls for on the
\* store as it is: a second run of it changes nothing, a check-mode run says
\* what the real one would do, and a failed one leaves nothing half done.
ImplementsEnsure == Ensure!Spec
=============================================================================
