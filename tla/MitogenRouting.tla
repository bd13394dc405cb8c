--------------------------- MODULE MitogenRouting ---------------------------
(***************************************************************************)
(* Router._async_route of mitogen/core.py and RouteMonitor of              *)
(* mitogen/parent.py, in a tree of contexts: calls and their replies go    *)
(* from stream to stream, while contexts appear, and go with what they     *)
(* have not read.  A step is the broker thread of one context that handles *)
(* one message, or the end of one stream.  Processes and connections are   *)
(* external.                                                               *)
(***************************************************************************)
EXTENDS Naturals, Sequences, FiniteSets, SequencesExt, Functions

CONSTANTS
    Root, Contexts, Parent,   \* Parent: every context but the root has one
    Upgraded,                 \* those with a parent.Router, and so a RouteMonitor
    Later,                    \* the contexts that are started while others run
    Calls, Caller, Callee

Nowhere == "nowhere"
Children(n) == {m \in DOMAIN Parent : Parent[m] = n}

\* d is m or below it: it is in every set with m and the children of its members.
Under(m, d) ==
    \A S \in SUBSET Contexts : m \in S /\ (\A x \in S : Children(x) \subseteq S) => d \in S

\* A tree, of which the root has children when it starts, and the others get theirs.
ASSUME RoutingAssumption ==
    /\ IsFiniteSet(Contexts) /\ Root \in Contexts /\ Nowhere \notin Contexts
    /\ Parent \in [Contexts \ {Root} -> Upgraded] /\ Upgraded \subseteq Contexts
    /\ \A d \in Contexts : Under(Root, d)
    /\ Later \subseteq DOMAIN Parent /\ DOMAIN Parent \ Later \subseteq Children(Root)
    /\ Caller \in [Calls -> Contexts] /\ Callee \in [Calls -> Contexts]
    /\ \A k \in Calls : Caller[k] # Callee[k]

VARIABLES
    present,   \* the contexts that run
    joined,    \* the streams: <<n, m>> while n has its stream to m
    cut,       \* the streams, of both ends, whose connection was lost
    flight,    \* flight[<<n, m>>]: what n sent to m, and m did not read
    route,     \* route[n]: Router._stream_by_id, without the parent's own entry
    below,     \* below[<<n, m>>]: RouteMonitor._routes_by_stream
    egress,    \* egress[<<n, m>>]: the stream's egress_ids
    calling,
    unidirectional

routingVars == <<present, joined, cut, flight, route, below, egress, calling, unidirectional>>

Links == {l \in Contexts \X Contexts : l[2] \in Children(l[1]) \/ l[1] \in Children(l[2])}
ParentOf(n) == IF n = Root THEN Root ELSE Parent[n]
HasParent(n) == n # Root /\ <<n, Parent[n]>> \in joined
Messages == [kind : {"call", "reply", "dead", "add", "del"}, dst : Contexts, src : Contexts,
             about : Contexts \cup Calls]

RoutingTypeOK ==
    /\ present \subseteq Contexts /\ joined \subseteq Links /\ cut \subseteq Links
    /\ unidirectional \in BOOLEAN
    /\ flight \in [Links -> Seq(Messages)]
    /\ DOMAIN route = Contexts
    /\ \A n \in Contexts : DOMAIN route[n] \subseteq Contexts /\ Range(route[n]) \subseteq Contexts
    /\ below \in [Links -> SUBSET Contexts] /\ egress \in [Links -> SUBSET Contexts]
    /\ calling \in [Calls -> {"never", "before", "waiting", "answered"}]

\* The first contexts are connected to the root; some of the calls are to be made.
RoutingInit ==
    LET first == Contexts \ Later IN
    /\ present = first
    /\ joined = {l \in Links : l[1] \in first /\ l[2] \in first}
    /\ cut = {} /\ flight = [l \in Links |-> <<>>]
    /\ route = [n \in Contexts |-> [d \in Children(n) \cap first |-> d]]
    /\ below = [l \in Links |-> IF l[2] \in Children(l[1]) \cap first THEN {l[2]} ELSE {}]
    /\ egress = [l \in Links |-> {}]
    /\ calling \in [Calls -> {"never", "before"}]
    /\ unidirectional \in BOOLEAN

----------------------------------------------------------------------------
(* The tables.                                                             *)

\* stream_by_id(): the stream to the parent stands for what is not known.
StreamById(n, d) ==
    IF d \in DOMAIN route[n] THEN route[n][d] ELSE IF HasParent(n) THEN Parent[n] ELSE Nowhere

\* The stream for a message from src, which came from `in`, or from here.  What came
\* from the parent for a context that is gone is not returned to it.
OutStream(n, d, src, in) ==
    IF d \in DOMAIN route[n] THEN route[n][d]
    ELSE IF HasParent(n) /\ (in = n \/ StreamById(n, src) # Parent[n]) THEN Parent[n]
    ELSE Nowhere

\* A peer that has lost the connection, or does not run, gets nothing.
Reaches(l) == <<l[2], l[1]>> \in joined /\ l \notin cut /\ l[2] \in present

\* n writes sends[m] to each m, while `q` is in flight.
Sent(n, q, sends) ==
    [l \in Links |-> IF l[1] = n /\ Reaches(l) THEN q[l] \o sends[l[2]] ELSE q[l]]

Message(kind, dst, src, about) == [kind |-> kind, dst |-> dst, src |-> src, about |-> about]
Only(m, msg) == [x \in Contexts |-> IF x = m THEN <<msg>> ELSE <<>>]

\* RouteMonitor._propagate_up(), for each of a set of contexts.
Up(n, kind, ids) ==
    [m \in Contexts |-> IF HasParent(n) /\ m = Parent[n]
                        THEN SetToSeq({Message(kind, m, n, d) : d \in ids}) ELSE <<>>]

\* RouteMonitor._propagate_down(): the streams that a message for it ever came from.
Down(n, ids) ==
    [m \in Contexts |-> IF m \in Children(n) /\ <<n, m>> \in joined
                        THEN SetToSeq({Message("del", m, n, d) : d \in ids \cap egress[<<n, m>>]})
                        ELSE <<>>]

\* The "disconnect" of contexts: whoever waits for a reply of theirs gets a dead message.
Fired(n, ids) ==
    [k \in Calls |-> IF calling[k] = "waiting" /\ Caller[k] = n /\ Callee[k] \in ids
                     THEN "answered" ELSE calling[k]]
Replied(k) == [calling EXCEPT ![k] = "answered"]

----------------------------------------------------------------------------
(* Messages.                                                               *)

\* Only messages between a stream of this context's parents and another pass.
Forbidden(n, in, onto) == unidirectional /\ in # n /\ ParentOf(n) \notin {in, onto}

\* Context.send_async(), and the route() it defers: a handle for the reply, with the
\* callee as its respondent.  Without a stream the call is dead at once.
SendCall(k) ==
    LET n == Caller[k]
        onto == OutStream(n, Callee[k], n, n) IN
    /\ calling[k] = "before" /\ n \in present
    /\ calling' = [calling EXCEPT ![k] = IF onto = Nowhere THEN "answered" ELSE "waiting"]
    /\ flight' = Sent(n, flight, Only(onto, Message("call", Callee[k], n, k)))
    /\ UNCHANGED <<present, joined, cut, route, below, egress, unidirectional>>

\* n's broker reads the next message of its stream to m.
Reads(n, m) == n \in present /\ <<n, m>> \in joined /\ flight[<<m, n>>] # <<>>
Read(n, m) == Head(flight[<<m, n>>])
Unread(n, m) == [flight EXCEPT ![<<m, n>>] = Tail(@)]

\* The reverse path check: the message came where one to its sender would go.
Verified(n, m) == StreamById(n, Read(n, m).src) = m
Seen(n, m) == egress' = [egress EXCEPT ![<<n, m>>] = @ \cup {Read(n, m).dst}]

\* A reply, or a dead message in its place, for this context.
TakeReply(n, m) ==
    LET msg == Read(n, m) IN
    /\ Reads(n, m) /\ Verified(n, m) /\ msg.dst = n /\ msg.kind \in {"reply", "dead"}
    /\ calling' = Replied(msg.about)
    /\ flight' = Unread(n, m) /\ Seen(n, m)
    /\ UNCHANGED <<present, joined, cut, route, below, unidirectional>>

\* What n answers to a message from `src`: it takes the route of its own messages.
ReplyTo(n, kind, src, k) == Only(OutStream(n, src, n, n), Message(kind, src, n, k))

HandleCall(n, m) ==
    LET msg == Read(n, m) IN
    /\ Reads(n, m) /\ Verified(n, m) /\ msg.dst = n /\ msg.kind = "call"
    /\ flight' = Sent(n, Unread(n, m), ReplyTo(n, "reply", msg.src, msg.about))
    /\ Seen(n, m)
    /\ UNCHANGED <<present, joined, cut, route, below, calling, unidirectional>>

\* The stream that a verified message goes on to.
Onward(n, m) ==
    LET msg == Read(n, m)
        onto == OutStream(n, msg.dst, msg.src, m) IN
    IF ~Verified(n, m) \/ (onto # Nowhere /\ Forbidden(n, m, onto)) THEN Nowhere ELSE onto

Forward(n, m) ==
    /\ Reads(n, m) /\ Read(n, m).dst # n /\ Onward(n, m) # Nowhere
    /\ flight' = Sent(n, Unread(n, m), Only(Onward(n, m), Read(n, m)))
    /\ Seen(n, m)
    /\ UNCHANGED <<present, joined, cut, route, below, calling, unidirectional>>

\* Slip: without a word to the sender.
BounceQuietly(n, m) ==
    /\ Reads(n, m) /\ ~(Verified(n, m) /\ Read(n, m).dst = n) /\ Onward(n, m) = Nowhere
    /\ flight' = Unread(n, m) /\ Seen(n, m)
    /\ UNCHANGED <<present, joined, cut, route, below, calling, unidirectional>>

\* No route, or none that is allowed: _maybe_send_dead().  What was not verified is
\* dropped.
Bounce(n, m) ==
    LET msg == Read(n, m) IN
    /\ Reads(n, m) /\ ~(Verified(n, m) /\ msg.dst = n) /\ Onward(n, m) = Nowhere
    /\ flight' = IF Verified(n, m) /\ msg.kind = "call"
                 THEN Sent(n, Unread(n, m), ReplyTo(n, "dead", msg.src, msg.about)) ELSE Unread(n, m)
    /\ IF Verified(n, m) THEN Seen(n, m) ELSE UNCHANGED egress
    /\ UNCHANGED <<present, joined, cut, route, below, calling, unidirectional>>

----------------------------------------------------------------------------
(* Routes.                                                                 *)

\* _on_add_route(): from a child, of a context that it did not know.
AddRoute(n, m) ==
    LET d == Read(n, m).about
        known == d \in DOMAIN route[n] IN
    /\ Reads(n, m) /\ Verified(n, m) /\ Read(n, m).kind = "add"
    /\ below' = IF known THEN below ELSE [below EXCEPT ![<<n, m>>] = @ \cup {d}]
    /\ route' = IF known THEN route
                ELSE [route EXCEPT ![n] = [e \in DOMAIN @ \cup {d} |-> IF e = d THEN m ELSE @[e]]]
    /\ flight' = IF known THEN Unread(n, m) ELSE Sent(n, Unread(n, m), Up(n, "add", {d}))
    /\ Seen(n, m)
    /\ UNCHANGED <<present, joined, cut, calling, unidirectional>>

\* _on_del_route(), the RouteMonitor's, or the stub of a context that is not upgraded.
DelRoute(n, m) ==
    LET d == Read(n, m).about
        goes == StreamById(n, d) = m IN
    /\ Reads(n, m) /\ Verified(n, m) /\ Read(n, m).kind = "del"
    /\ IF n \in Upgraded /\ goes
       THEN /\ below' = [below EXCEPT ![<<n, m>>] = @ \ {d}]
            /\ route' = [route EXCEPT ![n] = Restrict(@, DOMAIN @ \ {d})]
            /\ LET sent == Sent(n, Unread(n, m), Down(n, {d}))
               IN flight' = IF m = ParentOf(n) THEN sent ELSE Sent(n, sent, Up(n, "del", {d}))
       ELSE flight' = Unread(n, m) /\ UNCHANGED <<below, route>>
    /\ calling' = IF goes \/ n \notin Upgraded THEN Fired(n, {d}) ELSE calling
    /\ Seen(n, m)
    /\ UNCHANGED <<present, joined, cut, unidirectional>>

\* A child finished its bootstrap: register() and notice_stream().
Attach(m) ==
    LET n == Parent[m] IN
    /\ m \in Later \ present /\ n \in present /\ <<n, m>> \notin cut
    /\ present' = present \cup {m}
    /\ joined' = joined \cup {<<n, m>>, <<m, n>>}
    /\ route' = [route EXCEPT ![n] = [e \in DOMAIN @ \cup {m} |-> IF e = m THEN m ELSE @[e]]]
    /\ below' = [below EXCEPT ![<<n, m>>] = {m}]
    /\ flight' = Sent(n, flight, Up(n, "add", {m}))
    /\ UNCHANGED <<cut, egress, calling, unidirectional>>

\* A process ends, as one does that lost its parent; a connection is lost.
Departs(n) ==
    /\ n \in present
    /\ present' = present \ {n} /\ joined' = {l \in joined : l[1] # n}
    /\ cut' = cut \cup {l \in Links : n \in {l[1], l[2]}}
    /\ UNCHANGED <<flight, route, below, egress, calling, unidirectional>>

Cut(n) ==
    /\ n \in present /\ <<n, Parent[n]>> \notin cut
    /\ cut' = cut \cup {<<n, Parent[n]>>, <<Parent[n], n>>}
    /\ UNCHANGED <<present, joined, flight, route, below, egress, calling, unidirectional>>

Severed(n, m) == n \in present /\ <<n, m>> \in joined /\ <<n, m>> \in cut

\* Stream.on_disconnect() of a child's stream, after an empty read or a failed write:
\* Router's listener, and then RouteMonitor's.
StreamLost(n, m) ==
    LET ids == below[<<n, m>>] IN
    /\ Severed(n, m) /\ m \in Children(n)
    /\ joined' = joined \ {<<n, m>>}
    /\ route' = [route EXCEPT ![n] = Restrict(@, {d \in DOMAIN @ : @[d] # m /\ d \notin ids})]
    /\ below' = [below EXCEPT ![<<n, m>>] = {}]
    /\ flight' = [Sent(n, Sent(n, flight, Up(n, "del", ids)), Down(n, ids)) EXCEPT ![<<m, n>>] = <<>>]
    /\ calling' = Fired(n, ids)
    /\ UNCHANGED <<present, cut, egress, unidirectional>>

Handle(n, m) ==
    \/ TakeReply(n, m) \/ HandleCall(n, m) \/ Forward(n, m) \/ Bounce(n, m)
    \/ AddRoute(n, m) \/ DelRoute(n, m) \/ StreamLost(n, m)

RoutingNext ==
    \/ \E k \in Calls : SendCall(k)
    \/ \E l \in Links : Handle(l[1], l[2])
    \/ \E n \in Contexts \ {Root} : Attach(n) \/ Departs(n) \/ Cut(n)

RoutingSpec == RoutingInit /\ [][RoutingNext]_routingVars

----------------------------------------------------------------------------
(* Correctness.                                                            *)

\* Every message was read and every lost stream noticed.
Quiet == \A l \in Links :
    l \in joined /\ l[1] \in present => flight[<<l[2], l[1]>>] = <<>> /\ ~Severed(l[1], l[2])

\* A call ends with a reply or with a dead message, wherever on its way, or on its
\* reply's way, a context went, and in whatever order that became known: nobody is
\* left waiting once everything was read.
CallsAreAnswered == Quiet => \A k \in Calls : calling[k] = "waiting" => Caller[k] \notin present

\* Then each context routes to the contexts that run below it, by the right child,
\* and to no other.
RoutesAreTheTree ==
    Quiet => \A n \in Upgraded \cap present :
        /\ DOMAIN route[n] = {d \in present \ {n} : Under(n, d)}
        /\ \A d \in DOMAIN route[n] : route[n][d] \in Children(n) /\ Under(route[n][d], d)

\* What the contexts that are left know of each other and of their calls comes right.
RoutingSettles == CallsAreAnswered /\ RoutesAreTheTree
=============================================================================
