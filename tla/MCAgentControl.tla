--------------------------- MODULE MCAgentControl ---------------------------
\* A small instance of AgentControl: two overlapping tool calls.
EXTENDS AgentControl, TLC

CONSTANTS c1, c2, root, t1, t2, t3, p1, rootPath

MCCallers == {c1, c2}
MCThreads == {root, t1, t2, t3}
MCPaths == {p1}
MCResumable == {t1}
Symmetry == Permutations(MCCallers)
=============================================================================
