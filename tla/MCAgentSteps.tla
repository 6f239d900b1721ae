---------------------------- MODULE MCAgentSteps ----------------------------
EXTENDS AgentSteps, TLC

CONSTANTS kv, semantic

\* Two object types of the source: the heaviest and the lightest.
MCWeight == [o \in Objects |-> IF o = semantic THEN 75 ELSE 100]

\* A far step that needs more than a near one.
MCObjectSets == {{semantic}, {kv, semantic}}

Symmetric == Permutations(Steps) \cup Permutations(Workflows) \cup Permutations(Agents)
=============================================================================
