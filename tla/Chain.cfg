SPECIFICATION CallSpec
CONSTANTS
    Chains = {"a", "b"}
    Pipelined = {"a"}
    Plans <- MCPlans
INVARIANTS ErrorsCancelTheChain
CHECK_DEADLOCK FALSE
