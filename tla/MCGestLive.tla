------------------------------ MODULE MCGestLive ------------------------------
\* Instances of GestLive for TLC.
EXTENDS GestLive
==============================================================================
