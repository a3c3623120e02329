-------------------------------- MODULE MCHsNode --------------------------------
\* Instances of HsNode for TLC: blocks of three samples, fades shorter than a
\* block, as long as two of them, and longer by a part of one.
EXTENDS HsNode
==============================================================================
