-------------------------- MODULE MitogenContexts --------------------------
(***************************************************************************)
(* ContextService of ansible_mitogen/services.py and the Connection that   *)
(* asks it for contexts, ansible_mitogen/connection.py.  One connection is *)
(* made for each hop of a stack and shared by whoever asks for the same    *)
(* hop; a list per login context bounds how many become contexts live, and *)
(* makes room by ending one that nobody has a reference to.  The service's *)
(* tables are read under its lock in some places and without in others:    *)
(* each stretch of code that another thread can interrupt is a step.       *)
(* Contexts may be lost at any time: the broker then forgets them.         *)
(***************************************************************************)
EXTENDS Naturals, Sequences, FiniteSets, FiniteSetsExt, SequencesExt, Functions

CONSTANTS
    Clients,          \* Ansible's tasks, each with a Connection
    Stack,            \* Stack[k]: its hops; a second hop is a become method
    MaxContexts,      \* bound: contexts that are ever made
    MaxInterpreters,  \* ContextService.max_interpreters
    MaxConnects           \* bound: how often a client connects

ASSUME ContextAssumption == IsFiniteSet(Clients) /\ MaxContexts \in Nat

VARIABLES
    service,    \* the tables of ContextService, see Empty
    get,        \* get[k]: where k's request is, its hop and its via, the context it
                \* makes, the waiters it answered, and what was put in its latch
    gets,
    made,       \* number of contexts made
    living,
    heard,      \* contexts with a listener for "disconnect"
    dropped     \* clients whose latch was thrown away

contextVars == <<service, get, gets, made, living, heard, dropped>>

NoContext == 0
Failed == MaxContexts + 1
Ids == 1..MaxContexts
Empty == [response |-> <<>>, latches |-> <<>>, refs |-> <<>>, key |-> <<>>, via |-> <<>>, lru |-> <<>>]
NoRequest == [at |-> "idle", hop |-> 1, via |-> NoContext, new |-> NoContext, count |-> 0, answer |-> NoContext]
Connecting == {"create", "recycle", "prepare", "register", "produce", "fail"}
StepOf(k) == get[k].at
Key(k) == <<Stack[k][get[k].hop], get[k].via>>

ContextTypeOK ==
    /\ DOMAIN service.refs \cup DOMAIN service.key \cup DOMAIN service.via \cup living \cup heard \subseteq 1..made
    /\ \A key \in DOMAIN service.response : service.response[key] \in 1..made
    /\ \A k \in Clients : /\ StepOf(k) \in Connecting \cup {"idle", "ask", "record", "count", "wait", "held"}
                          /\ get[k].answer \in 0..Failed /\ get[k].new \in 0..made
    /\ dropped \subseteq Clients

ContextInit ==
    /\ service = Empty /\ get = [k \in Clients |-> NoRequest] /\ gets = [k \in Clients |-> 0]
    /\ made = 0 /\ living = {} /\ heard = {} /\ dropped = {}

----------------------------------------------------------------------------
(* The tables.                                                             *)

Drop(f, xs) == Restrict(f, DOMAIN f \ xs)
With(f, x, v) == [y \in DOMAIN f \cup {x} |-> IF y = x THEN v ELSE f[y]]
WaitersOf(s, key) == IF key \in DOMAIN s.latches THEN s.latches[key] ELSE {}

\* _forget_context_unlocked() of each: with what waits for the contexts' keys.  It leaves
\* a context in the list of the one it was reached by.
KeysOf(s, cs) == {s.key[c] : c \in cs \cap DOMAIN s.key}
ForgetContexts(s, cs) ==
    LET those == cs \cap DOMAIN s.key IN
    [response |-> Drop(s.response, KeysOf(s, cs)), latches |-> Drop(s.latches, KeysOf(s, cs)),
     key |-> Drop(s.key, those), refs |-> Drop(s.refs, those), via |-> Drop(s.via, those),
     lru |-> Drop(s.lru, those)]
Forgotten(s, cs) == UNION {WaitersOf(s, key) : key \in KeysOf(s, cs)}

\* _shutdown_unlocked(): `room` is the context that takes its place, or NoContext.
Replaced(list, c, room) ==
    IF list = <<>> THEN list
    ELSE SelectSeq(list, LAMBDA x : x # c) \o (IF room = NoContext THEN <<>> ELSE <<room>>)
Shutdown(s, c, room) ==
    ForgetContexts([s EXCEPT !.lru = [v \in DOMAIN @ |->
                       IF c \in DOMAIN s.via /\ s.via[c] = v THEN Replaced(@[v], c, room) ELSE @[v]]], {c})

\* _update_lru_unlocked(): the list's last context that counts no reference is ended.
\* A context of the list that has no count at all, because its connection is not ready
\* or it was forgotten, is a KeyError.
Known(s, c, v) == [s EXCEPT !.via = With(@, c, v),
                            !.lru = IF v \in DOMAIN @ THEN @ ELSE With(@, v, <<>>)]
Candidates(s, list) ==
    {i \in DOMAIN list : list[i] \notin DOMAIN s.refs \/ (list[i] \in DOMAIN s.refs /\ s.refs[list[i]] = 0)}

----------------------------------------------------------------------------
(* get().                                                                  *)

GoesTo(k, step) == get' = [get EXCEPT ![k].at = step]
\* An exception of the service is the answer to the client's call.
Rethrow(k) == get' = [get EXCEPT ![k] = NoRequest]

\* Connection._connect().
Connect(k) ==
    /\ StepOf(k) = "idle" /\ gets[k] < MaxConnects
    /\ gets' = [gets EXCEPT ![k] = @ + 1] /\ GoesTo(k, "ask") /\ dropped' = dropped \ {k}
    /\ UNCHANGED <<service, made, living, heard>>

AnswerWith(k, c) == get' = [get EXCEPT ![k].answer = c, ![k].at = "wait"]
Listed(k) == [service EXCEPT !.latches = With(@, Key(k), WaitersOf(service, Key(k)) \cup {k})]
FirstToAsk(k) == WaitersOf(service, Key(k)) = {}

\* Slip: the count is left to the client.
AskUncounted(k) ==
    /\ StepOf(k) = "ask"
    /\ IF Key(k) \in DOMAIN service.response
       THEN AnswerWith(k, service.response[Key(k)]) /\ UNCHANGED service
       ELSE service' = Listed(k) /\ GoesTo(k, IF FirstToAsk(k) THEN "create" ELSE "wait")
    /\ UNCHANGED <<gets, made, living, heard, dropped>>

\* _wait_or_start(), under the lock.  A response whose context was forgotten raises.
Ask(k) ==
    LET c == service.response[Key(k)] IN
    /\ StepOf(k) = "ask"
    /\ IF Key(k) \notin DOMAIN service.response
       THEN service' = Listed(k) /\ GoesTo(k, IF FirstToAsk(k) THEN "create" ELSE "wait")
       ELSE IF c \in DOMAIN service.refs
       THEN service' = [service EXCEPT !.refs[c] = @ + 1] /\ AnswerWith(k, c)
       ELSE Rethrow(k) /\ UNCHANGED service
    /\ UNCHANGED <<gets, made, living, heard, dropped>>

\* _connect(): the Router's method makes a context, or raises.
Create(k) ==
    /\ StepOf(k) = "create"
    /\ \/ /\ made < MaxContexts /\ get[k].via \in living \cup {NoContext}
          /\ made' = made + 1 /\ living' = living \cup {made'}
          /\ get' = [get EXCEPT ![k].new = made', ![k].at = IF get[k].via = NoContext THEN "prepare" ELSE "recycle"]
       \/ GoesTo(k, "fail") /\ UNCHANGED <<made, living>>
    /\ UNCHANGED <<service, gets, heard, dropped>>

\* _update_lru().
Recycle(k) ==
    LET s == Known(service, get[k].new, get[k].via)
        list == s.lru[get[k].via]
        free == Candidates(s, list)
        last == list[Max(free)] IN
    /\ StepOf(k) = "recycle"
    /\ IF Len(list) < MaxInterpreters \/ free = {}
       THEN /\ service' = [s EXCEPT !.lru[get[k].via] =
                              IF Len(list) < MaxInterpreters THEN Append(@, get[k].new) ELSE @]
            /\ GoesTo(k, "prepare") /\ UNCHANGED dropped
       ELSE IF last \notin DOMAIN s.refs THEN service' = s /\ GoesTo(k, "fail") /\ UNCHANGED dropped
       ELSE /\ service' = Shutdown(s, last, get[k].new) /\ GoesTo(k, "prepare")
            /\ dropped' = dropped \cup Forgotten(s, {last})
    /\ UNCHANGED <<gets, made, living, heard>>

\* The listener, and the call of init_child(), which a lost context does not answer.
Prepare(k) ==
    /\ StepOf(k) = "prepare"
    /\ heard' = heard \cup {get[k].new}
    /\ GoesTo(k, IF get[k].new \in living THEN "register" ELSE "fail")
    /\ UNCHANGED <<service, gets, made, living, dropped>>

\* The context's key and count are set without the lock.
Register(k) ==
    /\ StepOf(k) = "register"
    /\ service' = [service EXCEPT !.key = With(@, get[k].new, Key(k)), !.refs = With(@, get[k].new, 0)]
    /\ GoesTo(k, "produce")
    /\ UNCHANGED <<gets, made, living, heard, dropped>>

\* _produce_response(): whoever waits for the key is answered.  When the list is gone,
\* the handler of the KeyError does not find it either.
Told(ks, v, k, step) ==
    get' = [j \in Clients |->
              [get[j] EXCEPT !.answer = IF j \in ks THEN v ELSE @,
                             !.count = IF j = k THEN Cardinality(ks) ELSE @,
                             !.at = IF j = k THEN step ELSE @]]
ProduceResponse(k, v, step) ==
    /\ IF Key(k) \in DOMAIN service.latches
       THEN /\ service' = [service EXCEPT !.latches = Drop(@, {Key(k)})]
            /\ Told(WaitersOf(service, Key(k)), v, k, step)
       ELSE Rethrow(k) /\ UNCHANGED service
    /\ UNCHANGED <<gets, made, living, heard, dropped>>
Produce(k) == StepOf(k) = "produce" /\ ProduceResponse(k, get[k].new, "record")

\* Without the lock, after the waiters have their answer.
Record(k) ==
    /\ StepOf(k) = "record"
    /\ service' = [service EXCEPT !.response = With(@, Key(k), get[k].new)]
    /\ GoesTo(k, "count")
    /\ UNCHANGED <<gets, made, living, heard, dropped>>

CountWaiters(k) ==
    /\ StepOf(k) = "count"
    /\ IF get[k].new \in DOMAIN service.refs
       THEN service' = [service EXCEPT !.refs[get[k].new] = @ + get[k].count] /\ GoesTo(k, "wait")
       ELSE GoesTo(k, "fail") /\ UNCHANGED service
    /\ UNCHANGED <<gets, made, living, heard, dropped>>

\* The handler of an exception: whoever waits for the key gets it.
AnswerFailure(k) == StepOf(k) = "fail" /\ ProduceResponse(k, Failed, "wait")

\* The latch has an answer: the next hop, or the reply to the client.
Answered(k) ==
    LET c == get[k].answer IN
    /\ StepOf(k) = "wait" /\ c # NoContext
    /\ IF c = Failed THEN Rethrow(k)
       ELSE IF get[k].hop < Len(Stack[k])
       THEN get' = [get EXCEPT ![k] = [NoRequest EXCEPT !.at = "ask", !.hop = get[k].hop + 1, !.via = c]]
       ELSE get' = [get EXCEPT ![k] = [NoRequest EXCEPT !.at = "held", !.answer = c]]
    /\ UNCHANGED <<service, gets, made, living, heard, dropped>>

----------------------------------------------------------------------------
(* put(), reset() and the loss of contexts.                                *)

Returned(s, c) == IF c \in DOMAIN s.refs /\ s.refs[c] > 0 THEN [s EXCEPT !.refs[c] = @ - 1] ELSE s

\* _put_connection(): only the last hop's reference is returned.
PutConnection(k) ==
    /\ StepOf(k) = "held"
    /\ service' = Returned(service, get[k].answer) /\ Rethrow(k)
    /\ UNCHANGED <<gets, made, living, heard, dropped>>

\* reset(), by a call that failed or by a play: close(), and the context of the stack,
\* its become method left out, is shut down if the service has it.
Reset(k) ==
    LET s == IF StepOf(k) = "held" THEN Returned(service, get[k].answer) ELSE service
        login == <<Stack[k][1], NoContext>> IN
    /\ StepOf(k) \in {"idle", "held"} /\ gets[k] > 0
    /\ IF login \in DOMAIN s.response
       THEN /\ service' = Shutdown(s, s.response[login], NoContext)
            /\ dropped' = dropped \cup Forgotten(s, {s.response[login]})
       ELSE service' = s /\ UNCHANGED dropped
    /\ Rethrow(k)
    /\ UNCHANGED <<gets, made, living, heard>>

\* _on_context_disconnect(), if the context has the listener yet.  Those that were reached by
\* it are lost too, each in its turn: a callback takes the lock for itself.
OnContextDisconnect(c) ==
    /\ c \in living /\ living' = living \ {c}
    /\ service' = ForgetContexts(service, {c} \cap heard)
    /\ dropped' = dropped \cup Forgotten(service, {c} \cap heard)
    /\ UNCHANGED <<get, gets, made, heard>>

GetProgress(k) ==
    \/ Ask(k) \/ Create(k) \/ Recycle(k) \/ Prepare(k) \/ Register(k) \/ Produce(k) \/ Record(k)
    \/ CountWaiters(k) \/ AnswerFailure(k) \/ Answered(k)

ContextNext ==
    \/ \E k \in Clients : Connect(k) \/ GetProgress(k) \/ PutConnection(k) \/ Reset(k)
    \/ \E c \in Ids : OnContextDisconnect(c)

ContextSpec == ContextInit /\ [][ContextNext]_contextVars

----------------------------------------------------------------------------
(* Properties.                                                             *)

\* A context's count covers whoever has it, or soon will, so that the list does not end a
\* context in use.  Those that were answered just now, and are counted afterwards
\* (services.py:452-458), are the exception: the answer comes before the count.
Holders(c) ==
    {k \in Clients : \/ get[k].answer = c /\ StepOf(k) \in {"wait", "held"}
                     \/ get[k].via = c /\ StepOf(k) \in Connecting \cup {"ask"}}
Counting(c) == {k \in Clients : StepOf(k) \in {"record", "count"} /\ get[k].new = c}
Uncounted(c) == IF Counting(c) = {} THEN 0 ELSE get[CHOOSE k \in Counting(c) : TRUE].count
CountsCoverHolders ==
    \A c \in DOMAIN service.refs : Cardinality(Holders(c)) <= service.refs[c] + Uncounted(c)

\* A request waits only while another makes the connection it asks for, and has its place
\* in the list (services.py:442-460).  The loss or the end of a context throws away who
\* waits for the same key: nothing else does.
WaitsForAConnection ==
    \A k \in Clients :
        (StepOf(k) = "wait" /\ get[k].answer = NoContext /\ k \notin dropped) =>
            /\ k \in WaitersOf(service, Key(k))
            /\ \E j \in Clients : j # k /\ StepOf(j) \in Connecting /\ Key(j) = Key(k)

\* Contexts in use stay, and who waits for one gets one, but for these cases.
ContextsAreKept == CountsCoverHolders /\ WaitsForAConnection
=============================================================================
