------------------------------ MODULE MCCalls -------------------------------
(***************************************************************************)
(* A pipelined chain and one that is not, whose programs name functions    *)
(* that are not there.                                                     *)
(***************************************************************************)
EXTENDS MitogenCalls, TLC

Does(w) == [what |-> w, reply |-> TRUE]
Casts(w) == [what |-> w, reply |-> FALSE]
MCPlans ==
    "a" :> {<<Casts("unparsed"), Does("returns")>>, <<Casts("raises"), Does("unparsed"), Does("returns")>>}
    @@ "b" :> {<<Does("unparsed"), Does("returns")>>}
=============================================================================
