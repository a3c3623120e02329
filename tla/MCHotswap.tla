------------------------------- MODULE MCHotswap -------------------------------
\* Instances of Hotswap for TLC: three patches are enough for one that sounds,
\* one that fades out and one under construction; a fade may be shorter than a
\* block, longer than one, and change its length half way.
EXTENDS Hotswap
==============================================================================
