---------------------------- MODULE MitogenCalls ----------------------------
(***************************************************************************)
(* Function calls: CallChain of mitogen/parent.py in the context that      *)
(* calls, Dispatcher of mitogen/core.py in the one that is called.  Calls  *)
(* are sent without waiting for answers; when a call of a pipelined chain  *)
(* raises, the dispatcher keeps the error under the chain's name, and      *)
(* answers the chain's later calls with it until it is told to forget.     *)
(* Chains that are not pipelined all have the name NoChain.                *)
(***************************************************************************)
EXTENDS Naturals, Sequences, SequencesExt, FiniteSetsExt, Functions

CONSTANTS
    Chains, Pipelined,
    Plans       \* Plans[c]: sequences of calls that a program may make, [what, reply]

VARIABLES
    plan,       \* plan[c]: the calls that the program will make on the chain c
    issued,     \* issued[c]: how many it made
    answers,    \* answers[c][i]
    out, callBox, \* messages on their way, and those in the dispatcher's receiver
    back,       \* replies
    errors,     \* _error_by_chain_id
    executed,   \* <<c, i>> of the calls whose function ran
    callee      \* "up", "closing" or "gone"

callVars == <<plan, issued, answers, out, callBox, back, errors, executed, callee>>

\* What becomes of a call: a message the dispatcher cannot make a call of (a function that
\* is not there, arguments that could not be pickled), and results that cannot be pickled.
Outcomes == {"returns", "raises", "unparsed", "unsendable", "forget"}
NoChain == "None"
\* Chains have names of their own.
ASSUME CallsAssumption ==
    /\ NoChain \notin Pipelined
    /\ \A c \in Chains : Plans[c] \subseteq Seq([what : Outcomes, reply : BOOLEAN])

Name(c) == IF c \in Pipelined THEN c ELSE NoChain
Value(i) == [kind |-> "value", of |-> i]
Error(c, i) == [kind |-> "error", of |-> <<c, i>>]
Dead == [kind |-> "dead", of |-> 0]
Pending == [kind |-> "pending", of |-> 0]

CallTypeOK ==
    /\ \A c \in Chains : issued[c] \in 0..Len(plan[c]) /\ DOMAIN answers[c] = DOMAIN plan[c]
    /\ IsInjective(out \o callBox)
    /\ DOMAIN errors \subseteq Pipelined
    /\ callee \in {"up", "closing", "gone"}

CallInit ==
    /\ plan \in [Chains -> UNION Range(Plans)] /\ \A c \in Chains : plan[c] \in Plans[c]
    /\ issued = [c \in Chains |-> 0] /\ answers = [c \in Chains |-> [i \in DOMAIN plan[c] |-> Pending]]
    /\ out = <<>> /\ callBox = <<>> /\ back = <<>>
    /\ errors = <<>> /\ executed = {} /\ callee = "up"

----------------------------------------------------------------------------
(* The caller.                                                             *)

\* CallChain.call(), call_async() and call_no_reply(), and reset(), where the chain without
\* its name asks to forget it.  A context that is gone has no route: the router answers.
Issue(c) ==
    /\ issued[c] < Len(plan[c])
    /\ issued' = [issued EXCEPT ![c] = @ + 1]
    /\ IF callee = "gone"
       THEN answers' = [answers EXCEPT ![c][issued[c] + 1] = IF plan[c][issued[c] + 1].reply THEN Dead ELSE @]
       ELSE UNCHANGED answers
    /\ out' = IF callee = "gone" THEN out ELSE Append(out, <<c, issued[c] + 1>>)
    /\ UNCHANGED <<plan, callBox, back, errors, executed, callee>>

ReceiveAnswer ==
    /\ back # <<>>
    /\ answers' = [answers EXCEPT ![Head(back).call[1]][Head(back).call[2]] = Head(back).answer]
    /\ back' = Tail(back)
    /\ UNCHANGED <<plan, issued, out, callBox, errors, executed, callee>>

\* Router._on_respondent_disconnect(): receivers of calls that have no answer get a dead
\* message; what was still on the stream is lost.
Lose ==
    /\ callee # "gone"
    /\ callee' = "gone" /\ out' = <<>> /\ callBox' = <<>> /\ back' = <<>>
    /\ answers' = [c \in Chains |-> [i \in DOMAIN plan[c] |->
                    IF i <= issued[c] /\ plan[c][i].reply /\ answers[c][i] = Pending THEN Dead ELSE answers[c][i]]]
    /\ UNCHANGED <<plan, issued, errors, executed>>

----------------------------------------------------------------------------
(* The dispatcher.                                                         *)

Deliver ==
    /\ callee = "up" /\ out # <<>>
    /\ callBox' = Append(callBox, Head(out)) /\ out' = Tail(out)
    /\ UNCHANGED <<plan, issued, answers, back, errors, executed, callee>>

\* What _dispatch_one() returns for a call: it fails before its chain is known, for its
\* chain, or by itself.
Result(c, i) ==
    CASE plan[c][i].what = "unparsed" -> Error(c, i)
      [] plan[c][i].what # "unparsed" /\ Name(c) \in DOMAIN errors -> errors[Name(c)]
      [] OTHER -> IF plan[c][i].what = "returns" THEN Value(i) ELSE Error(c, i)
\* Slip: the error is kept whatever the chain's name.
KeepsAnyway(c, i) == plan[c][i].what = "raises"
\* The error is kept when the function raised it and the chain has a name.
Keeps(c, i) == plan[c][i].what = "raises" /\ c \in Pipelined
RecordsError(c, i) == Keeps(c, i) /\ Name(c) \notin DOMAIN errors
Reply(c, i) == IF plan[c][i].reply THEN Append(back, [call |-> <<c, i>>, answer |-> Result(c, i)]) ELSE back
Runs(c, i) == plan[c][i].what # "unparsed" /\ Name(c) \notin DOMAIN errors

Dispatch ==
    /\ callee = "up" /\ callBox # <<>>
    /\ LET c == Head(callBox)[1]
           i == Head(callBox)[2] IN
       /\ plan[c][i].what # "forget"
       /\ callBox' = Tail(callBox) /\ back' = Reply(c, i)
       /\ errors' = IF RecordsError(c, i)
                    THEN [n \in DOMAIN errors \cup {Name(c)} |-> IF n = Name(c) THEN Error(c, i) ELSE errors[n]]
                    ELSE errors
       /\ executed' = IF Runs(c, i) THEN executed \cup {<<c, i>>} ELSE executed
    /\ UNCHANGED <<plan, issued, answers, out, callee>>

\* Dispatcher.forget_chain().
Forget ==
    /\ callee = "up" /\ callBox # <<>> /\ plan[Head(callBox)[1]][Head(callBox)[2]].what = "forget"
    /\ errors' = Restrict(errors, DOMAIN errors \ {Name(Head(callBox)[1])}) /\ callBox' = Tail(callBox)
    /\ UNCHANGED <<plan, issued, answers, out, back, executed, callee>>

\* The broker shuts down: the receiver is closed, with what it holds.
CloseCallee ==
    /\ callee = "up"
    /\ callee' = "closing" /\ callBox' = <<>>
    /\ UNCHANGED <<plan, issued, answers, out, back, errors, executed>>

CallNext ==
    \/ \E c \in Chains : Issue(c)
    \/ ReceiveAnswer \/ Lose \/ Deliver \/ Dispatch \/ Forget \/ CloseCallee
CallSpec == CallInit /\ [][CallNext]_callVars

----------------------------------------------------------------------------

\* The calls of c before its i-th that raise, since it was last reset.
Raised(c, i) ==
    {j \in 1..(i - 1) : plan[c][j].what = "raises" /\ \A k \in j..(i - 1) : plan[c][k].what # "forget"}
Cancelled(c, i) == c \in Pipelined /\ Raised(c, i) # {}
Promised(c, i) ==
    IF Cancelled(c, i) /\ plan[c][i].what # "unparsed" THEN Error(c, Min(Raised(c, i)))
    ELSE IF plan[c][i].what = "returns" THEN Value(i) ELSE Error(c, i)

\* Those that could not be parsed.
NotParsed(c, i) ==
    {j \in 1..(i - 1) : plan[c][j].what = "unparsed" /\ \A k \in j..(i - 1) : plan[c][k].what # "forget"}

\* An exception of a function cancels the later calls of its pipelined chain, and no other's:
\* a function runs only if none before it in its chain has raised since the chain was reset,
\* and a call is answered with what it returned or raised, with the error its chain failed
\* with first, or with a dead message.  Whether a call that could not be parsed cancels the
\* calls after it is left open here, and is the question of ErrorsCancelTheChain.
ChainStopsAtError ==
    /\ \A e \in executed : ~Cancelled(e[1], e[2])
    /\ \A c \in Chains : \A i \in DOMAIN plan[c] :
           answers[c][i] \in {Pending, Dead, Promised(c, i)}
                             \cup IF c \in Pipelined THEN {Error(c, j) : j \in NotParsed(c, i)} ELSE {}

\* What the docs of CallChain say: after an exception during a call of a pipelined chain no
\* further call executes until the chain is reset.  A call whose function cannot be imported
\* or found is answered with an exception like any other, but _dispatch_one() has no chain to
\* keep it for.
ErrorsCancelTheChain ==
    \A e \in executed : e[1] \in Pipelined => Raised(e[1], e[2]) \cup NotParsed(e[1], e[2]) = {}
=============================================================================
