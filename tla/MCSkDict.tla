-------------------------------- MODULE MCSkDict --------------------------------
\* Instances of SkDict for TLC: three keys in one chain and one in another.
EXTENDS SkDict, TLC

CONSTANTS k1, k2, k3, k4    \* keys

MCHash == (k1 :> 0 @@ k2 :> 0 @@ k3 :> 0 @@ k4 :> 1)
==============================================================================
