---------------------------- MODULE MitogenPush ----------------------------
(***************************************************************************)
(* PushFileService of mitogen/service.py: a small file is pushed from the  *)
(* controller down the tree of contexts, once over each stream, to the     *)
(* contexts that are about to need it; get() blocks a task until the file  *)
(* is there.  Calls of one context are run by several workers of its pool, *)
(* so the calls of one stream may be run in another order than they came.  *)
(***************************************************************************)
EXTENDS Naturals, Sequences, FiniteSets, FiniteSetsExt, Functions

CONSTANTS
    Root, Contexts, Parent,
    Targets,        \* the contexts that propagate_to() is called for
    Getters         \* those where get() is called

VARIABLES
    asked,      \* targets that propagate_to() was called for
    cache,      \* contexts that have the file
    waiters,    \* waiters[n]: targets of the calls that wait for it
    sent,       \* _sent_by_stream: the contexts it was sent to, over their parent's stream
    calls,      \* calls[n]: on their way to n, or with a worker of n
    sending,    \* sending[n]: targets that a worker of n looks up in sent
    getting     \* getting[n]: where get() in n is

pushVars == <<asked, cache, waiters, sent, calls, sending, getting>>

PushTypeOK ==
    /\ asked \subseteq Targets /\ cache \subseteq Contexts /\ sent \subseteq Contexts \ {Root}
    /\ waiters \in [Contexts -> SUBSET Targets] /\ sending \in [Contexts -> SUBSET Targets]
    /\ \A n \in Contexts : calls[n] \subseteq [kind : {"store", "forward"}, for : Targets]
    /\ getting \in [Contexts -> {"no", "waits", "has"}]

Init ==
    /\ asked = {} /\ cache = {} /\ sent = {}
    /\ waiters = [n \in Contexts |-> {}] /\ sending = waiters /\ calls = waiters
    /\ getting = [n \in Contexts |-> "no"]

\* stream_by_id(): the child of n that t is reached by.
RECURSIVE ChildTo(_, _)
ChildTo(n, t) == IF Parent[t] = n THEN t ELSE ChildTo(n, Parent[t])

\* propagate_to(), in the controller.
PropagateTo(t) ==
    /\ t \in Targets \ asked /\ asked' = asked \cup {t}
    /\ cache' = cache \cup {Root} /\ sending' = [sending EXCEPT ![Root] = @ \cup {t}]
    /\ UNCHANGED <<waiters, sent, calls, getting>>

Call(kind, t) == [kind |-> kind, for |-> t]

\* _forward(): without the service's lock, so that a worker which looked before another
\* added the stream sends the file too.
Forward(n, t) ==
    LET child == ChildTo(n, t) IN
    /\ t \in sending[n] /\ sending' = [sending EXCEPT ![n] = @ \ {t}]
    /\ \/ /\ child \in sent /\ UNCHANGED sent
          /\ calls' = [calls EXCEPT ![child] = @ \cup (IF child = t THEN {} ELSE {Call("forward", t)})]
       \/ calls' = [calls EXCEPT ![child] = @ \cup {Call("store", t)}] /\ sent' = sent \cup {child}
    /\ UNCHANGED <<asked, cache, waiters, getting>>

\* store_and_forward(): the waiters are taken with the lock, and called.
StoreAndForward(n, t) ==
    /\ Call("store", t) \in calls[n] /\ calls' = [calls EXCEPT ![n] = @ \ {Call("store", t)}]
    /\ cache' = cache \cup {n} /\ waiters' = [waiters EXCEPT ![n] = {}]
    /\ sending' = [sending EXCEPT ![n] = @ \cup waiters[n] \cup ({t} \ {n})]
    /\ getting' = [getting EXCEPT ![n] = IF @ = "waits" THEN "has" ELSE @]
    /\ UNCHANGED <<asked, sent>>

\* Slip: a call that comes before the file is not kept.
ForwardNow(n, t) ==
    /\ Call("forward", t) \in calls[n] /\ calls' = [calls EXCEPT ![n] = @ \ {Call("forward", t)}]
    /\ sending' = [sending EXCEPT ![n] = IF n \in cache THEN @ \cup {t} ELSE @]
    /\ UNCHANGED <<asked, cache, waiters, sent, getting>>

\* forward(): the test and the wait are one, with the lock.
ForwardCall(n, t) ==
    /\ Call("forward", t) \in calls[n] /\ calls' = [calls EXCEPT ![n] = @ \ {Call("forward", t)}]
    /\ IF n \in cache
       THEN sending' = [sending EXCEPT ![n] = @ \cup {t}] /\ UNCHANGED waiters
       ELSE waiters' = [waiters EXCEPT ![n] = @ \cup {t}] /\ UNCHANGED sending
    /\ UNCHANGED <<asked, cache, sent, getting>>

\* get(), by a task of the context.
Get(n) ==
    /\ n \in Getters /\ getting[n] = "no"
    /\ getting' = [getting EXCEPT ![n] = IF n \in cache THEN "has" ELSE "waits"]
    /\ UNCHANGED <<asked, cache, waiters, sent, calls, sending>>

Progress(n) == \E t \in Targets : Forward(n, t) \/ StoreAndForward(n, t) \/ ForwardCall(n, t)
Next == (\E t \in Targets : PropagateTo(t)) \/ \E n \in Contexts : Progress(n) \/ Get(n)
Fairness == WF_pushVars(\E n \in Contexts : Progress(n))
Spec == Init /\ [][Next]_pushVars

----------------------------------------------------------------------------
(* Properties.                                                             *)

\* A file that is pushed to a context gets there, over whichever streams it was sent
\* before and in whatever order the workers run the calls, and get() returns
\* (service.py:712-735, 800-836).
PushedArrives ==
    []<>(\A t \in asked : t \in cache /\ getting[t] # "waits")
=============================================================================
