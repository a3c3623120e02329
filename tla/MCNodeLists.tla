------------------------------ MODULE MCNodeLists ------------------------------
\* Instances of NodeLists for TLC.
EXTENDS NodeLists, TLC

\* Addresses are interchangeable.
Addresses == Permutations(Nodes)
==============================================================================
