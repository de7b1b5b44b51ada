--------------------------- MODULE MCAgentDriver ---------------------------
EXTENDS AgentDriver, TLC
Symmetry == Permutations(Message)
=============================================================================
