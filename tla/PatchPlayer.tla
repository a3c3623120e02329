------------------------------ MODULE PatchPlayer ------------------------------
(***************************************************************************)
(* What hotswapping promises a live coder (doc/mnort.org): a patch handed  *)
(* over starts to sound in place of the one that sounds now, the old patch *)
(* goes away, possibly after a fade, and only then is the next one taken.  *)
(* No patch is lost and no patch sounds that was not asked for.            *)
(***************************************************************************)
CONSTANTS
    Patches,
    NoPatch     \* silence, no member of Patches

VARIABLES
    playing,    \* the patch heard
    fading,     \* the patch it replaced, until that is freed
    requested   \* the patch to come
vars == <<playing, fading, requested>>

Init == playing = NoPatch /\ fading = NoPatch /\ requested = NoPatch

Request(p) ==
    /\ requested = NoPatch /\ fading = NoPatch /\ p # playing
    /\ requested' = p
    /\ UNCHANGED <<playing, fading>>

Switch ==
    /\ requested # NoPatch /\ fading = NoPatch
    /\ playing' = requested /\ fading' = playing /\ requested' = NoPatch

\* A player that renders block by block may drop the old patch at once.
Cut ==
    /\ requested # NoPatch /\ fading = NoPatch
    /\ playing' = requested /\ requested' = NoPatch
    /\ UNCHANGED fading

Retire ==
    /\ fading # NoPatch
    /\ fading' = NoPatch
    /\ UNCHANGED <<playing, requested>>

Next == (\E p \in Patches : Request(p)) \/ Switch \/ Cut \/ Retire

Spec == Init /\ [][Next]_vars
==============================================================================
