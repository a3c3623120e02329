------------------------------ MODULE MCGraforge ------------------------------
\* Instance of Graforge for TLC: three buffers and four slots are enough
\* for a buffer to be shared, held while shared, released and handed out again.
EXTENDS Graforge
==============================================================================
