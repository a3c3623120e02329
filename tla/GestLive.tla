-------------------------------- MODULE GestLive --------------------------------
(***************************************************************************)
(* gestlive (lib/gestvm/gestlive.org): two gesture machines, one that the  *)
(* patch that plays evaluates and one that a script writes the next        *)
(* gestures to.  They trade places on the audio thread, in a node of the   *)
(* new patch (the swapper), the first time that patch computes a block: so *)
(* this module composes gestlive with Hotswap, whose threads are its own.  *)
(*                                                                         *)
(* A program is named by the patch it was written for.                     *)
(***************************************************************************)
EXTENDS Hotswap

VARIABLES
    gl,         \* the fields of gestlive; init[m] is node[m].init
    ram,        \* the program in each machine, NoPatch when it is blank
    gest,       \* what the nodes of a patch point to: its machine, its swapper's data
    script,     \* the live-coding script: its patch, the machine it got, how far it is
    swp         \* where the swapper node is, and which node data it has
glVars == <<gl, ram, gest, script, swp>>
allVars == <<vars, glVars>>

Machines == {0, 1}
NoMachine == 2

Unbound == [mach |-> NoMachine, node |-> NoMachine]
NoScript == [pc |-> "none", patch |-> NoPatch, mach |-> NoMachine]
NoSwapper == [pc |-> "off", node |-> NoMachine]

\* gestlive_new: the first machine written is the first one read.
GlInit ==
    /\ gl = [read |-> 1, write |-> 0, please_swap |-> FALSE,
             init |-> [m \in Machines |-> FALSE]]
    /\ ram = [m \in Machines |-> NoPatch]
    /\ gest = [p \in Patches |-> Unbound]
    /\ script = NoScript
    /\ swp = NoSwapper

------------------------------------------------------------------------------
(* The control thread: the gestlive commands of a script, in the order of   *)
(* gestlive.org, then the commands of Hotswap.                              *)

ScriptAt(pc) == Ready /\ script.pc = pc /\ UNCHANGED <<vars, swp>>
ScriptTo(pc) == script' = [script EXCEPT !.pc = pc]

\* Mutant of GlGet: hands the machine out while a swap is signalled.
GlGetAnyway(p) ==
    /\ ScriptAt("none") /\ ctl.patch = NoPatch /\ heap[p] = "free" /\ SwapOver
    /\ script' = [pc |-> "got", patch |-> p, mach |-> gl.write]
    /\ UNCHANGED <<gl, ram, gest>>

\* glget, for the patch p that the script is going to build; it fails, and
\* the script with it, while a swap is signalled.
GlGet(p) ==
    /\ ScriptAt("none") /\ ctl.patch = NoPatch /\ heap[p] = "free" /\ SwapOver
    /\ ~gl.please_swap
    /\ script' = [pc |-> "got", patch |-> p, mach |-> gl.write]
    /\ UNCHANGED <<gl, ram, gest>>

\* gestvmload writes the program to the machine the script got.
GestVmLoad ==
    /\ ScriptAt("got") /\ ScriptTo("loaded")
    /\ ram' = [ram EXCEPT ![script.mach] = script.patch]
    /\ UNCHANGED <<gl, gest>>

\* gestvmnode keeps a pointer to the machine.
GestVmNode ==
    /\ ScriptAt("loaded") /\ ScriptTo("bound")
    /\ gest' = [gest EXCEPT ![script.patch].mach = script.mach]
    /\ UNCHANGED <<gl, ram>>

GlSwapper ==
    /\ ScriptAt("bound") /\ ScriptTo("swapper")
    /\ gl' = [gl EXCEPT !.init[gl.write] = TRUE]
    /\ gest' = [gest EXCEPT ![script.patch].node = gl.write]
    /\ UNCHANGED ram

\* gldone signals the swap; hsswp comes after it.
GlDone ==
    /\ ScriptAt("swapper") /\ ScriptTo("done")
    /\ gl' = [gl EXCEPT !.please_swap = TRUE]
    /\ UNCHANGED <<ram, gest>>

\* A script that fails before hsout, and whose nodes are then cleared away
\* (pclear); what it did to gestlive stays.
Fail ==
    /\ Ready /\ ctl.patch = NoPatch /\ script.pc # "none"
    /\ script' = NoScript
    /\ gest' = [gest EXCEPT ![script.patch] = Unbound]
    /\ UNCHANGED <<vars, gl, ram, swp>>

\* Some patch's swapper has not run to its end.
Pending ==
    \/ swp.pc # "off"
    \/ \E p \in Patches : heap[p] = "live" /\ gest[p].node # NoMachine
                           /\ gl.init[gest[p].node]

\* glreset, for a swap that was signalled and that no patch will do.
GlReset ==
    /\ ScriptAt("none") /\ ctl.patch = NoPatch /\ SwapOver /\ ~Pending
    /\ gl' = [gl EXCEPT !.please_swap = FALSE]
    /\ UNCHANGED <<ram, gest, script>>

\* The commands of Hotswap, of which hsout is the last node of the script's
\* patch, or of one built without gestlive.
OutNode(p) ==
    /\ HsOut(p)
    /\ script.patch \in {NoPatch, p} /\ script.pc \in {"none", "swapper", "done"}
    /\ gest' = IF script.patch = p THEN gest ELSE [gest EXCEPT ![p] = Unbound]
    /\ UNCHANGED <<gl, ram, script, swp>>

SavePatch == HsSwp /\ script.pc \in {"none", "done"} /\ UNCHANGED glVars

AskForSwap == PleaseSwap /\ script' = NoScript /\ UNCHANGED <<gl, ram, gest, swp>>

OtherCommand ==
    /\ \/ HsOutConnect \/ SaveNumber \/ PlayTog \/ \E size \in CfSizes : CfSize(size)
       \/ CrossfadeOn \/ CrossfadeOff \/ CrossfadeOffSet
    /\ UNCHANGED glVars

GlControl ==
    \/ \E p \in Patches : GlGet(p) \/ OutNode(p)
    \/ GestVmLoad \/ GestVmNode \/ GlSwapper \/ GlDone \/ Fail \/ GlReset
    \/ SavePatch \/ AskForSwap \/ OtherCommand

------------------------------------------------------------------------------
(* The audio thread: the callback of Hotswap, and the swapper node inside a *)
(* subpatch it computes.                                                    *)

\* The cable whose subpatch the next step of the callback computes.
Computed ==
    CASE audio = "play" -> {hs.read}
      [] audio = "fadeout" /\ hs.cfstate = "compute" -> {hs.write}
      [] OTHER -> {}

\* The data of the swapper nodes in it whose flag is set.
Armed == {gest[p].node : p \in UNION {Nodes(c) : c \in Computed}}
         \cap {m \in Machines : gl.init[m]}

Render ==
    /\ swp.pc = "off" /\ Audio
    /\ swp' = IF Armed = {} THEN NoSwapper
              ELSE [pc |-> "init", node |-> CHOOSE m \in Armed : TRUE]
    /\ UNCHANGED <<gl, ram, gest, script>>

Swapper(pc, next) ==
    /\ swp.pc = pc
    /\ swp' = IF next = "off" THEN NoSwapper ELSE [swp EXCEPT !.pc = next]
    /\ UNCHANGED <<vars, gest, script>>

\* swapper_compute, and the test in gestlive_update.
SwapperInit ==
    /\ Swapper("init", IF gl.please_swap THEN "swap" ELSE "off")
    /\ gl' = [gl EXCEPT !.init[swp.node] = FALSE]
    /\ UNCHANGED ram

\* Mutant of UpdateSwap: please_swap is cleared before the machine is blank.
UpdateSwapAndUnlock ==
    /\ Swapper("swap", "boot")
    /\ gl' = [gl EXCEPT !.read = gl.write, !.write = gl.read, !.please_swap = FALSE]
    /\ UNCHANGED ram

UpdateSwap ==
    /\ Swapper("swap", "boot")
    /\ gl' = [gl EXCEPT !.read = gl.write, !.write = gl.read]
    /\ UNCHANGED ram

\* Mutant of UpdateBoot: boots the machine that is read.
UpdateBootRead ==
    /\ Swapper("boot", "unlock")
    /\ ram' = [ram EXCEPT ![gl.read] = NoPatch]
    /\ UNCHANGED gl

\* gestvm_uxn_init on the machine that is now written.
UpdateBoot ==
    /\ Swapper("boot", "unlock")
    /\ ram' = [ram EXCEPT ![gl.write] = NoPatch]
    /\ UNCHANGED gl

\* Mutant of UpdateDone: the signal is not taken back.
UpdateDoneSignalled == Swapper("unlock", "off") /\ UNCHANGED <<gl, ram>>

UpdateDone ==
    /\ Swapper("unlock", "off")
    /\ gl' = [gl EXCEPT !.please_swap = FALSE]
    /\ UNCHANGED ram

GlAudio == Render \/ SwapperInit \/ UpdateSwap \/ UpdateBoot \/ UpdateDone

GlSpec ==
    /\ Init /\ GlInit
    /\ [][GlControl \/ GlAudio]_allVars
    /\ WF_allVars(GlAudio)

------------------------------------------------------------------------------
(* The fields have their types, and the two machines have different roles.  *)
GlTypeOK ==
    /\ gl \in [read : Machines, write : Machines, please_swap : BOOLEAN,
               init : [Machines -> BOOLEAN]]
    /\ gl.read # gl.write
    /\ ram \in [Machines -> Patches \cup {NoPatch}]
    /\ gest \in [Patches -> [mach : Machines \cup {NoMachine},
                             node : Machines \cup {NoMachine}]]
    /\ script.pc \in {"none", "got", "loaded", "bound", "swapper", "done"}
    /\ swp.pc \in {"off", "init", "swap", "boot", "unlock"}

InPlace(c) ==
    \A p \in Nodes(c) : gest[p].mach # NoMachine => ram[gest[p].mach] = p

(* Whenever the patch that plays is computed, the machine its gestures run  *)
(* on holds the program that was written for it: no later script wrote over *)
(* it and no swap blanked it.                                               *)
ProgramInPlace == audio = "play" => InPlace(hs.read)

(* The machine a script has been given is used by no patch on either cable. *)
WriterOnDeck ==
    script.mach # NoMachine =>
        \A c \in Cabs : \A p \in Nodes(c) : p # script.patch =>
            gest[p].mach # script.mach

Updating == swp.pc \in {"boot", "unlock"}

Machinery == INSTANCE DoubleBuffer
             WITH Programs <- Patches, Blank <- NoPatch,
                  front <- ram[gl.read],
                  back <- IF swp.pc = "boot" THEN NoPatch ELSE ram[gl.write],
                  signalled <- gl.please_swap /\ ~Updating

(* To the scripts, gestlive_update's four steps are one exchange of the     *)
(* buffers of DoubleBuffer.                                                 *)
ImplementsDoubleBuffer == Machinery!Spec

(* Unless playback stays paused, the gestures of a patch that was asked for *)
(* get to the machine that is read, and gestlive is unlocked again.         *)
GestureSwapped ==
    <>[]hs.play =>
        \A p \in Patches :
            (Requested = p /\ gest[p].node # NoMachine)
              ~> (gl.read = gest[p].mach /\ ~gl.please_swap)
==============================================================================
