------------------------ MODULE MCPatchTransaction ------------------------
\* PatchTransaction on small instances: two transactions, two payloads.
EXTENDS PatchTransaction, TLC

Symmetry == Permutations(Txns) \cup Permutations(Payloads)
=============================================================================
