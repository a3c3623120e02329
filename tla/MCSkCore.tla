------------------------------- MODULE MCSkCore -------------------------------
EXTENDS SkCore
==============================================================================
