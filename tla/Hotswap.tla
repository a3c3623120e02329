-------------------------------- MODULE Hotswap --------------------------------
(***************************************************************************)
(* The hotswapper (core/hotswap.org) as mnort uses it: a control thread,   *)
(* which runs the scripts the server receives, builds a patch and asks for *)
(* a swap, while the JACK thread (util/mnort/rt.c) renders.  The two share *)
(* the mno_hotswap struct with neither lock nor atomic, so a control       *)
(* command is cut into its accesses to shared fields, and the audio        *)
(* callback into the steps between which a field may change.               *)
(*                                                                         *)
(* A patch stands for the list of nodes the control thread built.  A       *)
(* subpatch remembers the list and its length separately, because the two  *)
(* are saved one after the other.                                          *)
(***************************************************************************)
EXTENDS Integers

CONSTANTS
    Patches,    \* node lists; a freed one may be built again
    NoPatch,    \* an empty list, or silence in a block
    BlkSize,    \* samples of a block (64)
    CfSizes,    \* crossfade lengths, in samples (16384 unless hscfsz says otherwise)
    Waits       \* the commands a script issues only when the last swap is over

ASSUME NoPatchAssumption == NoPatch \notin Patches
ASSUME BlkSizeAssumption == BlkSize \in Nat \ {0}
ASSUME CfSizesAssumption == CfSizes # {} /\ CfSizes \subseteq Nat \ {0}
ASSUME WaitsAssumption == Waits \subseteq {"hsout", "hsswp", "hscf"}

VARIABLES
    hs,         \* the scalar fields of mno_hotswap
    cab,        \* the two mno_cables
    heap,       \* whether the nodes of a patch are allocated
    target,     \* the mno_cable the out node of a patch writes to
    audio,      \* where the JACK thread is
    ctl         \* where the control thread is, and what it is building
vars == <<hs, cab, heap, target, audio, ctl>>

Cabs == {0, 1}
CrossfadeStates == {"none", "standby", "compute", "done"}

\* mno_hotswap_init.  nodes is left uninitialised there, which a count of 0
\* makes up for.
Init ==
    /\ \E size \in CfSizes :
          hs = [read |-> 0, write |-> 1, please_swap |-> FALSE, play |-> TRUE,
                cfstate |-> "standby", cfcnt |-> 0, cfsz |-> size, count |-> 0]
    /\ cab = [c \in Cabs |-> [in |-> NoPatch, nodes |-> NoPatch,
                              nnodes |-> NoPatch, blk |-> NoPatch]]
    /\ heap = [p \in Patches |-> "free"]
    /\ target = [p \in Patches |-> 0]
    /\ audio = "idle"
    /\ ctl = [pc |-> "ready", patch |-> NoPatch, cab |-> 0]

------------------------------------------------------------------------------
(* The control thread.                                                      *)

\* The last swap is over: its fade has ended and the old patch is freed.  No
\* command tells a script so; it has to let enough time pass.
SwapOver == ~hs.please_swap /\ hs.cfstate \in {"none", "standby"}

Ready == ctl.pc = "ready"
Waited(command) == command \in Waits => SwapOver

\* hsout, as the last node of patch p.
HsOut(p) ==
    /\ Ready /\ ctl.patch = NoPatch /\ heap[p] = "free" /\ Waited("hsout")
    /\ heap' = [heap EXCEPT ![p] = "live"]
    /\ ctl' = [pc |-> "out", patch |-> p, cab |-> hs.write]
    /\ UNCHANGED <<hs, cab, target, audio>>

HsOutConnect ==
    /\ ctl.pc = "out"
    /\ cab' = [cab EXCEPT ![ctl.cab].in = ctl.patch]
    /\ target' = [target EXCEPT ![ctl.patch] = ctl.cab]
    /\ ctl' = [ctl EXCEPT !.pc = "ready"]
    /\ UNCHANGED <<hs, heap, audio>>

\* Mutant of HsSwp: it asks before it saves.
HsSwpAskFirst ==
    /\ Ready /\ ctl.patch # NoPatch /\ Waited("hsswp")
    /\ hs' = [hs EXCEPT !.please_swap = TRUE]
    /\ cab' = [cab EXCEPT ![hs.write].nodes = ctl.patch]
    /\ ctl' = [ctl EXCEPT !.pc = "saving", !.cab = hs.write]
    /\ UNCHANGED <<heap, target, audio>>

\* hsswp: save the nodes, then their number and the pointer list, and ask.
HsSwp ==
    /\ Ready /\ ctl.patch # NoPatch /\ Waited("hsswp")
    /\ cab' = [cab EXCEPT ![hs.write].nodes = ctl.patch]
    /\ ctl' = [ctl EXCEPT !.pc = "saving", !.cab = hs.write]
    /\ UNCHANGED <<hs, heap, target, audio>>

SaveNumber ==
    /\ ctl.pc = "saving"
    /\ cab' = [cab EXCEPT ![ctl.cab].nnodes = ctl.patch]
    /\ ctl' = [ctl EXCEPT !.pc = "saved"]
    /\ UNCHANGED <<hs, heap, target, audio>>

PleaseSwap ==
    /\ ctl.pc = "saved"
    /\ hs' = [hs EXCEPT !.please_swap = TRUE]
    /\ ctl' = [ctl EXCEPT !.pc = "ready", !.patch = NoPatch]
    /\ UNCHANGED <<cab, heap, target, audio>>

SetHs(h) == hs' = h /\ UNCHANGED <<cab, heap, target, audio>>

PlayTog == Ready /\ SetHs([hs EXCEPT !.play = ~@]) /\ UNCHANGED ctl

CfSize(size) == Ready /\ SetHs([hs EXCEPT !.cfsz = size]) /\ UNCHANGED ctl

CrossfadeOn ==
    /\ Ready /\ Waited("hscf")
    /\ SetHs([hs EXCEPT !.cfstate = "standby"])
    /\ UNCHANGED ctl

\* hscf 0 tests the state and then sets it.
CrossfadeOff ==
    /\ Ready /\ Waited("hscf")
    /\ hs.cfstate = "standby"
    /\ ctl' = [ctl EXCEPT !.pc = "disable"]
    /\ UNCHANGED <<hs, cab, heap, target, audio>>

CrossfadeOffSet ==
    /\ ctl.pc = "disable"
    /\ SetHs([hs EXCEPT !.cfstate = "none"])
    /\ ctl' = [ctl EXCEPT !.pc = "ready"]

Control ==
    \/ \E p \in Patches : HsOut(p)
    \/ HsOutConnect \/ HsSwp \/ SaveNumber \/ PleaseSwap
    \/ PlayTog \/ \E size \in CfSizes : CfSize(size)
    \/ CrossfadeOn \/ CrossfadeOff \/ CrossfadeOffSet

------------------------------------------------------------------------------
(* The audio thread.                                                        *)

At(pc) == audio = pc /\ UNCHANGED <<target, ctl>>
Goto(pc) == audio' = pc

\* The cable that is not read: tmp in mno_hotswap_compute.
Deck == 1 - hs.read

Nodes(c) == IF cab[c].nnodes = NoPatch THEN {} ELSE {cab[c].nodes}

\* gf_subpatch_destroy and gf_subpatch_free.
Dispose(c) ==
    /\ heap' = [p \in Patches |-> IF p \in Nodes(c) THEN "free" ELSE heap[p]]
    /\ cab' = [cab EXCEPT ![c].nnodes = NoPatch]

\* gf_subpatch_compute: the out node copies what its cable carries.
Compute(c) ==
    cab' = [d \in Cabs |->
              IF \E p \in Nodes(c) : target[p] = d
              THEN [cab[d] EXCEPT !.blk = cab[d].in] ELSE cab[d]]

\* jack_process; while paused it renders silence and touches nothing.
Callback ==
    /\ At("idle") /\ hs.play
    /\ Goto("sample")
    /\ UNCHANGED <<hs, cab, heap>>

\* mno_hotswap_compute runs once a block.
Sample ==
    /\ At("sample")
    /\ Goto(IF hs.count # 0 THEN "mix"
            ELSE IF hs.cfstate = "done" THEN "reap" ELSE "check")
    /\ UNCHANGED <<hs, cab, heap>>

\* Mutant of Reap: the faded patch is not freed.
ReapNothing == At("reap") /\ Goto("standby") /\ UNCHANGED <<hs, cab, heap>>

Reap ==
    /\ At("reap")
    /\ Dispose(hs.write)
    /\ Goto("standby")
    /\ UNCHANGED hs

Standby ==
    /\ At("standby")
    /\ hs' = [hs EXCEPT !.cfstate = "standby"]
    /\ Goto("check")
    /\ UNCHANGED <<cab, heap>>

\* Mutant of Check: swaps with a crossfade only.
CheckCrossfading ==
    /\ At("check")
    /\ Goto(IF hs.please_swap /\ hs.cfstate = "standby" THEN "read" ELSE "play")
    /\ UNCHANGED <<hs, cab, heap>>

Check ==
    /\ At("check")
    /\ Goto(IF hs.please_swap THEN "read" ELSE "play")
    /\ UNCHANGED <<hs, cab, heap>>

\* Mutant of SwapRead: please_swap is cleared too early.
SwapReadAndClear ==
    /\ At("read")
    /\ hs' = [hs EXCEPT !.read = hs.write, !.please_swap = FALSE]
    /\ Goto("write")
    /\ UNCHANGED <<cab, heap>>

\* The two pointers trade places one after the other; until the second is
\* assigned both point to the cable that is now read.
SwapRead ==
    /\ At("read")
    /\ hs' = [hs EXCEPT !.read = hs.write]
    /\ Goto("write")
    /\ UNCHANGED <<cab, heap>>

SwapWrite ==
    /\ At("write")
    /\ hs' = [hs EXCEPT !.write = Deck]
    /\ Goto("retire")
    /\ UNCHANGED <<cab, heap>>

\* Mutant of Retire: frees the old patch even when it is to fade out.
RetireAlways == At("retire") /\ Dispose(hs.write) /\ Goto("fade") /\ UNCHANGED hs

\* Without a crossfade the old patch is freed at once.
Retire ==
    /\ At("retire")
    /\ IF hs.cfstate = "none" THEN Dispose(hs.write) ELSE UNCHANGED <<cab, heap>>
    /\ Goto("fade")
    /\ UNCHANGED hs

Fade ==
    /\ At("fade")
    /\ hs' = IF hs.cfstate = "standby"
             THEN [hs EXCEPT !.cfstate = "compute", !.cfcnt = 0] ELSE hs
    /\ Goto("clear")
    /\ UNCHANGED <<cab, heap>>

Clear ==
    /\ At("clear")
    /\ hs' = [hs EXCEPT !.please_swap = FALSE]
    /\ Goto("play")
    /\ UNCHANGED <<cab, heap>>

Play ==
    /\ At("play")
    /\ Compute(hs.read)
    /\ Goto("fadeout")
    /\ UNCHANGED <<hs, heap>>

FadeOut ==
    /\ At("fadeout")
    /\ IF hs.cfstate = "compute" THEN Compute(hs.write) ELSE UNCHANGED cab
    /\ Goto("mix")
    /\ UNCHANGED <<hs, heap>>

\* Mutant of Mix: the samples of a fade are not counted.
MixUncounted ==
    /\ At("mix")
    /\ Goto(IF hs.cfstate = "compute" /\ hs.cfcnt + 1 >= hs.cfsz THEN "end" ELSE "next")
    /\ UNCHANGED <<hs, cab, heap>>

\* One sample of mno_hotswap_render.  The fade ends in a step of its own.
Mix ==
    /\ At("mix")
    /\ hs' = IF hs.cfstate = "compute" THEN [hs EXCEPT !.cfcnt = @ + 1] ELSE hs
    /\ Goto(IF hs.cfstate = "compute" /\ hs.cfcnt + 1 >= hs.cfsz THEN "end" ELSE "next")
    /\ UNCHANGED <<cab, heap>>

FadeEnd ==
    /\ At("end")
    /\ hs' = [hs EXCEPT !.cfstate = "done"]
    /\ Goto("next")
    /\ UNCHANGED <<cab, heap>>

\* A callback ends after any number of samples.
NextSample ==
    /\ At("next")
    /\ hs' = [hs EXCEPT !.count = (@ + 1) % BlkSize]
    /\ \E pc \in {"sample", "idle"} : Goto(pc)
    /\ UNCHANGED <<cab, heap>>

Audio ==
    \/ Callback \/ Sample
    \/ Reap \/ Standby \/ Check \/ SwapRead \/ SwapWrite \/ Retire \/ Fade \/ Clear
    \/ Play \/ FadeOut \/ Mix \/ FadeEnd \/ NextSample

Next == Control \/ Audio

\* JACK calls back for as long as the client is open; a script need not do
\* anything.
Spec == Init /\ [][Next]_vars /\ WF_vars(Audio)

------------------------------------------------------------------------------
(* The shared struct has its types, its two pointers point to different     *)
(* cables but for the moment they trade places, and the counters stay       *)
(* within their block and their fade.                                       *)
TypeOK ==
    /\ hs \in [read : Cabs, write : Cabs, please_swap : BOOLEAN, play : BOOLEAN,
               cfstate : CrossfadeStates, cfcnt : Nat, cfsz : CfSizes,
               count : 0 .. BlkSize - 1]
    /\ hs.read # hs.write \/ audio = "write"
    /\ \A c \in Cabs : {cab[c].in, cab[c].nodes, cab[c].nnodes, cab[c].blk}
                       \subseteq Patches \cup {NoPatch}
    /\ heap \in [Patches -> {"free", "live"}]
    /\ target \in [Patches -> Cabs]

\* The cable whose subpatch the next step of the audio thread walks.
Walked ==
    {c \in Cabs :
        \/ audio = "play" /\ c = hs.read
        \/ audio = "reap" /\ c = hs.write
        \/ audio = "retire" /\ hs.cfstate = "none" /\ c = hs.write
        \/ audio = "fadeout" /\ hs.cfstate = "compute" /\ c = hs.write}

(* A subpatch the audio thread walks is whole: the control thread is not    *)
(* half way through saving another one there, and its nodes have not been   *)
(* freed, nor those of the cable its out node reads through.                *)
WalkedIsWhole ==
    \A c \in Walked :
        /\ ctl.pc = "saving" => c # ctl.cab
        /\ \A p \in Nodes(c) :
              /\ heap[p] = "live"
              /\ cab[target[p]].in # NoPatch => heap[cab[target[p]].in] = "live"

Sounds(c) == cab[c].blk = cab[c].nnodes

(* What is mixed is the current block of the patch that was asked for and,  *)
(* during a fade, of the patch it replaces: no stale block and no block of  *)
(* a patch still being built.                                               *)
MixHearsItsPatches ==
    audio = "mix" => Sounds(hs.read) /\ (hs.cfstate = "compute" => Sounds(hs.write))

(* doc/mnort.org: a new patch is built in the background.  It is not heard  *)
(* before its script has asked for the swap.                                *)
BuiltInBackground ==
    audio = "mix" /\ ctl.patch # NoPatch =>
        /\ cab[hs.read].blk # ctl.patch
        /\ hs.cfstate = "compute" => cab[hs.write].blk # ctl.patch

(* A patch that was handed over is on one of the cables until it is freed:  *)
(* the slot it sits in is not overwritten.                                  *)
NoLeak ==
    \A p \in Patches : heap[p] = "live" =>
        p = ctl.patch \/ \E c \in Cabs : cab[c].nnodes = p

(* hotswap.org: the crossfade is disabled from CROSSFADE_STANDBY only.      *)
DisableOnlyFromStandby ==
    [][hs'.cfstate = "none" => hs.cfstate \in {"none", "standby"}]_vars

Swapping == audio \in {"write", "retire", "fade", "clear"}

Playing == cab[hs.read].nnodes
Fading ==
    IF hs.cfstate \in {"compute", "done"} \/ Swapping THEN cab[Deck].nnodes ELSE NoPatch
Requested ==
    IF hs.please_swap /\ ~Swapping THEN cab[Deck].nnodes ELSE NoPatch

Player == INSTANCE PatchPlayer
          WITH playing <- Playing, fading <- Fading, requested <- Requested

(* To a script that waits for the last swap to be over, the hotswapper is   *)
(* the player of PatchPlayer.                                               *)
ImplementsPlayer == Player!Spec

(* Unless playback stays paused, a patch that was asked for is heard...     *)
RequestHeard ==
    <>[]hs.play =>
        \A p \in Patches : (Requested = p) ~> (audio = "mix" /\ cab[hs.read].blk = p)

(* ... and the patch it replaces is freed, with a crossfade or without.     *)
ReplacedFreed ==
    <>[]hs.play => \A p \in Patches : (Fading = p) ~> (heap[p] = "free")
==============================================================================
