------------------------------ MODULE DoubleBuffer ------------------------------
(***************************************************************************)
(* What gestlive promises about its two gesture machines: programs are     *)
(* written to the one at the back, nothing is written between the signal   *)
(* to swap and the swap, and the swap brings the program to the front in   *)
(* one piece and leaves a blank machine behind.                            *)
(***************************************************************************)
CONSTANTS
    Programs,
    Blank       \* a machine just booted, no member of Programs

VARIABLES
    front,      \* the program of the machine that is read
    back,       \* the program of the machine that is written
    signalled   \* whether the swap has been asked for
vars == <<front, back, signalled>>

Init == front = Blank /\ back = Blank /\ signalled = FALSE

Write(p) == ~signalled /\ back' = p /\ UNCHANGED <<front, signalled>>

Signal == signalled' = TRUE /\ UNCHANGED <<front, back>>

Unlock == signalled' = FALSE /\ UNCHANGED <<front, back>>

Swap == signalled /\ front' = back /\ back' = Blank /\ signalled' = FALSE

Next == (\E p \in Programs : Write(p)) \/ Signal \/ Unlock \/ Swap

Spec == Init /\ [][Next]_vars
==============================================================================
