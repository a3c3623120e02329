----------------------------- MODULE HotswapProofs -----------------------------
(***************************************************************************)
(* What a script gets that waits for the last swap to be over before it    *)
(* builds a patch, asks for a swap or turns the crossfade on or off: for   *)
(* every set of patches, every block size and every length of a fade, no   *)
(* interleaving of its commands with the JACK thread breaks a promise of   *)
(* the hotswapper.                                                         *)
(* The two gesture machines follow: under the same discipline a patch      *)
(* computes its gestures on the machine that was written for it, a script  *)
(* is given a machine that nobody uses, and the four steps of              *)
(* gestlive_update are one exchange of two buffers.                        *)
(***************************************************************************)
EXTENDS GestLive, TLAPS

Disciplined == Waits = {"hsout", "hsswp", "hscf"}

USE NoPatchAssumption, BlkSizeAssumption, CfSizesAssumption

ControlPcs == {"ready", "out", "saving", "saved", "disable"}
AudioPcs ==
    {"idle", "sample", "reap", "standby", "check", "read", "write", "retire", "fade",
     "clear", "play", "fadeout", "mix", "end", "next"}

Cables ==
    [in : Patches \cup {NoPatch}, nodes : Patches \cup {NoPatch},
     nnodes : Patches \cup {NoPatch}, blk : Patches \cup {NoPatch}]

\* TypeOK, and where each thread is.
Typed ==
    /\ TypeOK
    /\ cab \in [Cabs -> Cables]
    /\ audio \in AudioPcs
    /\ ctl \in [pc : ControlPcs, patch : Patches \cup {NoPatch}, cab : Cabs]

\* The control thread is in the middle of nothing but between two swaps, and
\* then it works on the cable that is not read.
Building ==
    /\ ctl.pc # "ready" \/ ctl.patch # NoPatch => SwapOver
    /\ ctl.pc \in {"out", "saving", "saved"} => ctl.patch # NoPatch /\ ctl.cab = Deck
    /\ ctl.pc = "disable" => hs.cfstate = "standby"

\* Where the audio thread is when a swap or a fade is under way.
Stages ==
    /\ audio \in {"read", "write", "retire", "fade"} =>
          hs.please_swap /\ hs.cfstate \in {"none", "standby"}
    /\ audio = "clear" => hs.please_swap /\ hs.cfstate \in {"none", "compute"}
    /\ hs.please_swap /\ hs.cfstate \in {"compute", "done"} => audio = "clear"
    /\ audio \in {"reap", "standby"} => hs.cfstate = "done"
    /\ audio = "end" => hs.cfstate = "compute"
    /\ audio = "write" <=> hs.read = hs.write

\* A cable that holds a patch holds the whole of it and nobody else's.
Owned(c) ==
    cab[c].nnodes # NoPatch =>
        LET p == cab[c].nnodes
        IN  /\ cab[c].nodes = p /\ cab[c].in = p
            /\ heap[p] = "live" /\ target[p] = c

\* The cable that is not read has been emptied and not been filled again.
DeckFree ==
    \/ SwapOver /\ ctl.pc # "saved"
    \/ audio \in {"fade", "clear"} /\ hs.cfstate = "none"
    \/ audio = "standby"

Contents ==
    /\ \A c \in Cabs : Owned(c)
    /\ cab[0].nnodes = cab[1].nnodes => cab[0].nnodes = NoPatch
    /\ DeckFree => cab[Deck].nnodes = NoPatch
    /\ hs.please_swap /\ ~Swapping => cab[Deck].nnodes # NoPatch

\* The patch under construction.
Construction ==
    ctl.patch # NoPatch =>
        /\ heap[ctl.patch] = "live" /\ cab[hs.read].nnodes # ctl.patch
        /\ ctl.pc # "out" => cab[Deck].in = ctl.patch /\ target[ctl.patch] = Deck
        /\ ctl.pc \in {"saving", "saved"} => cab[Deck].nodes = ctl.patch
        /\ ctl.pc = "saved" => cab[Deck].nnodes = ctl.patch

\* A cable that never held a patch carries silence.
Quiet(c) == cab[c].nnodes = NoPatch => cab[c].blk = NoPatch

\* The blocks of this period have been computed.
Rendered ==
    \/ audio \in {"mix", "end", "next"}
    \/ audio \in {"idle", "sample"} /\ hs.count # 0

Blocks ==
    /\ Quiet(hs.read)
    /\ \/ hs.cfstate = "compute"
       \/ audio \in {"write", "retire", "fade"} /\ hs.cfstate = "standby"
       => Quiet(Deck)
    /\ audio = "fadeout" \/ Rendered => Sounds(hs.read)
    /\ Rendered /\ hs.cfstate = "compute" => Sounds(hs.write)

\* The inductive invariant.
Inv == Typed /\ Building /\ Stages /\ Contents /\ Construction /\ Blocks /\ NoLeak

------------------------------------------------------------------------------
(* Types, which hold of any script.                                         *)

(* The start is well typed.                                                 *)
LEMMA TypedInit == Init => Typed
  BY DEF Init, Typed, TypeOK, Cables, Cabs, CrossfadeStates, AudioPcs, ControlPcs

(* A command keeps the types.                                               *)
LEMMA TypedControl ==
    ASSUME Typed, Control
    PROVE  Typed'
<1> USE DEF Typed, TypeOK, Cabs
<1>1. ASSUME NEW p \in Patches, HsOut(p)  PROVE Typed'
  BY <1>1 DEF HsOut, Ready, ControlPcs
<1>2. CASE HsOutConnect
  <2>1. cab' \in [Cabs -> Cables]
    BY <1>2 DEF HsOutConnect, Cables
  <2>2. ctl' \in [pc : ControlPcs, patch : Patches \cup {NoPatch}, cab : Cabs]
    BY <1>2 DEF HsOutConnect, ControlPcs
  <2>3. target' \in [Patches -> Cabs]
    BY <1>2 DEF HsOutConnect
  <2>4. \A c \in Cabs : {cab'[c].in, cab'[c].nodes, cab'[c].nnodes, cab'[c].blk}
                       \subseteq Patches \cup {NoPatch}
    BY <2>1 DEF Cables
  <2>5. UNCHANGED <<hs, heap, audio>>
    BY <1>2 DEF HsOutConnect
  <2> QED
    BY <2>1, <2>2, <2>3, <2>4, <2>5
<1>3. CASE HsSwp
  <2>1. cab' \in [Cabs -> Cables]
    BY <1>3 DEF HsSwp, Cables
  <2>2. ctl' \in [pc : ControlPcs, patch : Patches \cup {NoPatch}, cab : Cabs]
    BY <1>3 DEF HsSwp, ControlPcs
  <2>3. target' \in [Patches -> Cabs]
    BY <1>3 DEF HsSwp
  <2>4. \A c \in Cabs : {cab'[c].in, cab'[c].nodes, cab'[c].nnodes, cab'[c].blk}
                       \subseteq Patches \cup {NoPatch}
    BY <2>1 DEF Cables
  <2>5. UNCHANGED <<hs, heap, audio>>
    BY <1>3 DEF HsSwp
  <2> QED
    BY <2>1, <2>2, <2>3, <2>4, <2>5
<1>4. CASE SaveNumber
  BY <1>4 DEF SaveNumber, Cables, ControlPcs
<1>5. CASE PleaseSwap
  BY <1>5 DEF PleaseSwap, ControlPcs
<1>6. CASE PlayTog
  BY <1>6 DEF PlayTog, SetHs
<1>7. ASSUME NEW size \in CfSizes, CfSize(size)  PROVE Typed'
  BY <1>7 DEF CfSize, SetHs
<1>8. CASE CrossfadeOn
  BY <1>8 DEF CrossfadeOn, SetHs, CrossfadeStates
<1>9. CASE CrossfadeOff
  BY <1>9 DEF CrossfadeOff, ControlPcs
<1>10. CASE CrossfadeOffSet
  BY <1>10 DEF CrossfadeOffSet, SetHs, CrossfadeStates, ControlPcs
<1> QED
  BY <1>1, <1>2, <1>3, <1>4, <1>5, <1>6, <1>7, <1>8, <1>9, <1>10 DEF Control

(* A step of the JACK thread keeps the types.                               *)
LEMMA TypedAudio ==
    ASSUME Typed, Audio
    PROVE  Typed'
<1> USE DEF Typed, TypeOK, Cabs
<1>1. CASE Callback
  BY <1>1 DEF Callback, At, Goto, AudioPcs
<1>2. CASE Sample
  BY <1>2 DEF Sample, At, Goto, AudioPcs
<1>3. CASE Reap
  BY <1>3 DEF Reap, At, Goto, AudioPcs, Dispose, Nodes, Cables
<1>4. CASE Standby
  BY <1>4 DEF Standby, At, Goto, AudioPcs, CrossfadeStates
<1>5. CASE Check
  BY <1>5 DEF Check, At, Goto, AudioPcs
<1>6. CASE SwapRead
  BY <1>6 DEF SwapRead, At, Goto, AudioPcs
<1>7. CASE SwapWrite
  BY <1>7 DEF SwapWrite, At, Goto, AudioPcs, Deck
<1>8. CASE Retire
  BY <1>8 DEF Retire, At, Goto, AudioPcs, Dispose, Nodes, Cables
<1>9. CASE Fade
  BY <1>9 DEF Fade, At, Goto, AudioPcs, CrossfadeStates
<1>10. CASE Clear
  BY <1>10 DEF Clear, At, Goto, AudioPcs
<1>11. CASE Play
  BY <1>11 DEF Play, At, Goto, AudioPcs, Compute, Nodes, Cables
<1>12. CASE FadeOut
  BY <1>12 DEF FadeOut, At, Goto, AudioPcs, Compute, Nodes, Cables
<1>13. CASE Mix
  BY <1>13 DEF Mix, At, Goto, AudioPcs
<1>14. CASE FadeEnd
  BY <1>14 DEF FadeEnd, At, Goto, AudioPcs, CrossfadeStates
<1>15. CASE NextSample
  BY <1>15 DEF NextSample, At, Goto, AudioPcs
<1> QED
  BY <1>1, <1>2, <1>3, <1>4, <1>5, <1>6, <1>7, <1>8, <1>9, <1>10, <1>11, <1>12, <1>13,
     <1>14, <1>15 DEF Audio

------------------------------------------------------------------------------
(* The inductive step.                                                      *)

(* A subpatch that is freed takes its own patch with it and nothing else.   *)
LEMMA DisposeFrees ==
    ASSUME Inv, NEW c \in Cabs, Dispose(c)
    PROVE  /\ cab' = [cab EXCEPT ![c].nnodes = NoPatch]
           /\ \A p \in Patches : heap'[p] = IF p = cab[c].nnodes THEN "free" ELSE heap[p]
  BY DEF Inv, Typed, TypeOK, Contents, Owned, Dispose, Nodes

(* A subpatch that is computed writes its own patch to its own cable.       *)
LEMMA ComputeFills ==
    ASSUME Inv, NEW c \in Cabs, Compute(c)
    PROVE  /\ cab' = [cab EXCEPT ![c].blk = cab'[c].blk]
           /\ (Quiet(c) => Sounds(c)')
<1>1. CASE cab[c].nnodes = NoPatch
  BY <1>1 DEF Inv, Typed, Compute, Nodes, Quiet, Sounds, Cables
<1>2. CASE cab[c].nnodes # NoPatch
  <2>1. Nodes(c) = {cab[c].nnodes} /\ target[cab[c].nnodes] = c /\ cab[c].in = cab[c].nnodes
    BY <1>2 DEF Inv, Contents, Owned, Nodes
  <2>2. cab' = [cab EXCEPT ![c].blk = cab[c].nnodes]
    BY <2>1 DEF Inv, Typed, Compute
  <2> QED
    BY <2>2 DEF Inv, Typed, Sounds, Cables
<1> QED
  BY <1>1, <1>2

(* A command of a disciplined script keeps the invariant.                   *)
LEMMA ControlStep ==
    ASSUME Disciplined, Inv, Control
    PROVE  Inv'
<1> Typed'
  BY TypedControl DEF Inv
<1> USE DEF Inv, Typed, TypeOK, Cabs, Deck, Swapping, DeckFree, Owned, Rendered, Sounds,
            SwapOver, Quiet, SetHs, Ready, Waited, Disciplined
<1>1. ASSUME NEW p \in Patches, HsOut(p)  PROVE Inv'
  <2>1. Building' /\ Stages'
    BY <1>1 DEF HsOut, Building, Stages
  <2>2. Contents'
    BY <1>1 DEF HsOut, Building, Stages, Contents, Construction
  <2>3. Construction'
    BY <1>1 DEF HsOut, Building, Stages, Contents, Construction
  <2>4. Blocks'
    BY <1>1 DEF HsOut, Building, Stages, Contents, Blocks
  <2>5. NoLeak'
    BY <1>1 DEF HsOut, Building, Stages, Contents, Construction, NoLeak
  <2> QED
    BY <2>1, <2>2, <2>3, <2>4, <2>5
<1>2. CASE HsOutConnect
  <2>1. Building' /\ Stages'
    BY <1>2 DEF HsOutConnect, Building, Stages
  <2>2. Contents'
    BY <1>2 DEF HsOutConnect, Building, Stages, Contents, Construction
  <2>3. Construction'
    BY <1>2 DEF HsOutConnect, Building, Stages, Contents, Construction
  <2>4. Blocks'
    BY <1>2 DEF HsOutConnect, Building, Stages, Contents, Blocks
  <2>5. NoLeak'
    BY <1>2 DEF HsOutConnect, Building, Stages, Contents, Construction, NoLeak
  <2> QED
    BY <2>1, <2>2, <2>3, <2>4, <2>5
<1>3. CASE HsSwp
  <2>1. Building' /\ Stages'
    BY <1>3 DEF HsSwp, Building, Stages
  <2>2. Contents'
    BY <1>3 DEF HsSwp, Building, Stages, Contents, Construction
  <2>3. Construction'
    BY <1>3 DEF HsSwp, Building, Stages, Contents, Construction
  <2>4. Blocks'
    BY <1>3 DEF HsSwp, Building, Stages, Contents, Blocks
  <2>5. NoLeak'
    BY <1>3 DEF HsSwp, Building, Stages, Contents, Construction, NoLeak
  <2> QED
    BY <2>1, <2>2, <2>3, <2>4, <2>5
<1>4. CASE SaveNumber
  <2>1. Building' /\ Stages'
    BY <1>4 DEF SaveNumber, Building, Stages
  <2>2. Contents'
    BY <1>4 DEF SaveNumber, Building, Stages, Contents, Construction
  <2>3. Construction'
    BY <1>4 DEF SaveNumber, Building, Stages, Contents, Construction
  <2>4. Blocks'
    BY <1>4 DEF SaveNumber, Building, Stages, Contents, Blocks
  <2>5. NoLeak'
    BY <1>4 DEF SaveNumber, Building, Stages, Contents, Construction, NoLeak
  <2> QED
    BY <2>1, <2>2, <2>3, <2>4, <2>5
<1>5. CASE PleaseSwap
  <2>1. Building' /\ Stages'
    BY <1>5 DEF PleaseSwap, Building, Stages
  <2>2. Contents'
    BY <1>5 DEF PleaseSwap, Building, Stages, Contents, Construction
  <2>3. Construction'
    BY <1>5 DEF PleaseSwap, Building, Stages, Contents, Construction
  <2>4. Blocks'
    BY <1>5 DEF PleaseSwap, Building, Stages, Contents, Blocks
  <2>5. NoLeak'
    BY <1>5 DEF PleaseSwap, Building, Stages, Contents, Construction, NoLeak
  <2> QED
    BY <2>1, <2>2, <2>3, <2>4, <2>5
<1>6. CASE PlayTog
  BY <1>6 DEF PlayTog, Building, Stages, Contents, Construction, Blocks, NoLeak
<1>7. ASSUME NEW size \in CfSizes, CfSize(size)  PROVE Inv'
  BY <1>7 DEF CfSize, Building, Stages, Contents, Construction, Blocks, NoLeak
<1>8. CASE CrossfadeOn
  BY <1>8 DEF CrossfadeOn, Building, Stages, Contents, Construction, Blocks, NoLeak
<1>9. CASE CrossfadeOff
  BY <1>9 DEF CrossfadeOff, Building, Stages, Contents, Construction, Blocks, NoLeak
<1>10. CASE CrossfadeOffSet
  BY <1>10 DEF CrossfadeOffSet, Building, Stages, Contents, Construction, Blocks, NoLeak
<1> QED
  BY <1>1, <1>2, <1>3, <1>4, <1>5, <1>6, <1>7, <1>8, <1>9, <1>10 DEF Control

(* A step of the JACK thread keeps the invariant.                           *)
LEMMA AudioStep ==
    ASSUME Disciplined, Inv, Audio
    PROVE  Inv'
<1> Typed'
  BY TypedAudio DEF Inv
<1> USE DEF Inv, Typed, TypeOK, Cabs, Deck, Swapping, DeckFree, Owned, Rendered, Sounds,
            SwapOver, Quiet, At, Goto
<1>1. CASE Callback
  BY <1>1 DEF Callback, Building, Stages, Contents, Construction, Blocks, NoLeak
<1>2. CASE Sample
  BY <1>2 DEF Sample, Building, Stages, Contents, Construction, Blocks, NoLeak
<1>3. CASE Reap
  <2>1. hs.write \in Cabs
    OBVIOUS
  <2>2. /\ cab' = [cab EXCEPT ![hs.write].nnodes = NoPatch]
        /\ \A p \in Patches : heap'[p] = IF p = cab[hs.write].nnodes THEN "free" ELSE heap[p]
    BY <1>3, <2>1, DisposeFrees DEF Reap
  <2>3. \A c \in Cabs : /\ cab'[c].nnodes = IF c = hs.write THEN NoPatch ELSE cab[c].nnodes
                        /\ cab'[c].nodes = cab[c].nodes /\ cab'[c].in = cab[c].in
                        /\ cab'[c].blk = cab[c].blk
    BY <2>1, <2>2 DEF Cables
  <2>4. UNCHANGED <<hs, target, ctl>> /\ audio = "reap" /\ audio' = "standby"
    BY <1>3 DEF Reap
  <2>5. Building' /\ Stages' /\ hs.cfstate = "done" /\ hs.write = Deck
    BY <2>4 DEF Building, Stages
  <2>6. Contents' /\ Construction'
    BY <2>2, <2>3, <2>4, <2>5 DEF Contents, Construction, Building, Stages
  <2>7. NoLeak' /\ Blocks'
    BY <2>2, <2>3, <2>4, <2>5 DEF NoLeak, Blocks
  <2> QED
    BY <2>5, <2>6, <2>7
<1>4. CASE Standby
  BY <1>4 DEF Standby, Building, Stages, Contents, Construction, Blocks, NoLeak
<1>5. CASE Check
  BY <1>5 DEF Check, CrossfadeStates, Building, Stages, Contents, Construction, Blocks,
     NoLeak
<1>6. CASE SwapRead
  <2>1. Building' /\ Stages'
    BY <1>6 DEF SwapRead, Building, Stages
  <2>2. Contents'
    BY <1>6 DEF SwapRead, Building, Stages, Contents, Construction
  <2>3. Construction'
    BY <1>6 DEF SwapRead, Building, Stages, Contents, Construction
  <2>4. Blocks'
    BY <1>6 DEF SwapRead, Building, Stages, Contents, Blocks
  <2>5. NoLeak'
    BY <1>6 DEF SwapRead, Building, Stages, Contents, Construction, NoLeak
  <2> QED
    BY <2>1, <2>2, <2>3, <2>4, <2>5
<1>7. CASE SwapWrite
  BY <1>7 DEF SwapWrite, Building, Stages, Contents, Construction, Blocks, NoLeak
<1>8. CASE Retire
  <2>1. CASE hs.cfstate = "none"
    <3>1. hs.write \in Cabs
      OBVIOUS
    <3>2. /\ cab' = [cab EXCEPT ![hs.write].nnodes = NoPatch]
          /\ \A p \in Patches : heap'[p] = IF p = cab[hs.write].nnodes THEN "free" ELSE heap[p]
      BY <1>8, <2>1, <3>1, DisposeFrees DEF Retire
    <3>3. \A c \in Cabs : /\ cab'[c].nnodes = IF c = hs.write THEN NoPatch ELSE cab[c].nnodes
                          /\ cab'[c].nodes = cab[c].nodes /\ cab'[c].in = cab[c].in
                          /\ cab'[c].blk = cab[c].blk
      BY <3>1, <3>2 DEF Cables
    <3>4. UNCHANGED <<hs, target, ctl>> /\ audio = "retire" /\ audio' = "fade"
      BY <1>8 DEF Retire
    <3>5. Building' /\ Stages' /\ hs.please_swap /\ hs.write = Deck
      BY <2>1, <3>4 DEF Building, Stages
    <3>6. Contents' /\ Construction'
      BY <2>1, <3>2, <3>3, <3>4, <3>5 DEF Contents, Construction, Building
    <3>7. NoLeak' /\ Blocks'
      BY <2>1, <3>2, <3>3, <3>4, <3>5 DEF NoLeak, Blocks
    <3> QED
      BY <3>5, <3>6, <3>7
  <2>2. CASE hs.cfstate # "none"
    BY <1>8, <2>2 DEF Retire, Building, Stages, Contents, Construction, Blocks, NoLeak
  <2> QED
    BY <2>1, <2>2
<1>9. CASE Fade
  BY <1>9 DEF Fade, Building, Stages, Contents, Construction, Blocks, NoLeak
<1>10. CASE Clear
  BY <1>10 DEF Clear, Building, Stages, Contents, Construction, Blocks, NoLeak
<1>11. CASE Play
  <2>1. hs.read \in Cabs
    OBVIOUS
  <2>2. cab' = [cab EXCEPT ![hs.read].blk = cab'[hs.read].blk] /\ (Quiet(hs.read) => Sounds(hs.read)')
    BY <1>11, <2>1, ComputeFills DEF Play
  <2>3. \A c \in Cabs : /\ cab'[c].nnodes = cab[c].nnodes /\ cab'[c].nodes = cab[c].nodes
                        /\ cab'[c].in = cab[c].in
                        /\ c # hs.read => cab'[c] = cab[c]
    BY <2>1, <2>2 DEF Cables
  <2>4. UNCHANGED <<hs, heap, target, ctl>> /\ audio = "play" /\ audio' = "fadeout"
    BY <1>11 DEF Play
  <2>5. Building' /\ Stages'
    BY <2>4 DEF Building, Stages
  <2>6. Contents' /\ Construction' /\ NoLeak'
    BY <2>3, <2>4 DEF Contents, Construction, NoLeak
  <2>7. Blocks'
    BY <2>2, <2>3, <2>4 DEF Blocks, Stages
  <2> QED
    BY <2>5, <2>6, <2>7
<1>12. CASE FadeOut
  <2>1. CASE hs.cfstate = "compute"
    <3>1. hs.write \in Cabs
      OBVIOUS
    <3>2. cab' = [cab EXCEPT ![hs.write].blk = cab'[hs.write].blk] /\ (Quiet(hs.write) => Sounds(hs.write)')
      BY <1>12, <2>1, <3>1, ComputeFills DEF FadeOut
    <3>3. \A c \in Cabs : /\ cab'[c].nnodes = cab[c].nnodes /\ cab'[c].nodes = cab[c].nodes
                          /\ cab'[c].in = cab[c].in
                          /\ c # hs.write => cab'[c] = cab[c]
      BY <3>1, <3>2 DEF Cables
    <3>4. UNCHANGED <<hs, heap, target, ctl>> /\ audio = "fadeout" /\ audio' = "mix"
      BY <1>12 DEF FadeOut
    <3>5. Building' /\ Stages'
      BY <3>4 DEF Building, Stages
    <3>6. Contents' /\ Construction' /\ NoLeak'
      BY <3>3, <3>4 DEF Contents, Construction, NoLeak
    <3>7. Blocks'
      BY <2>1, <3>2, <3>3, <3>4 DEF Blocks, Stages
    <3> QED
      BY <3>5, <3>6, <3>7
  <2>2. CASE hs.cfstate # "compute"
    BY <1>12, <2>2 DEF FadeOut, Building, Stages, Contents, Construction, Blocks, NoLeak
  <2> QED
    BY <2>1, <2>2
<1>13. CASE Mix
  BY <1>13 DEF Mix, Building, Stages, Contents, Construction, Blocks, NoLeak
<1>14. CASE FadeEnd
  BY <1>14 DEF FadeEnd, Building, Stages, Contents, Construction, Blocks, NoLeak
<1>15. CASE NextSample
  BY <1>15 DEF NextSample, Building, Stages, Contents, Construction, Blocks, NoLeak
<1> QED
  BY <1>1, <1>2, <1>3, <1>4, <1>5, <1>6, <1>7, <1>8, <1>9, <1>10, <1>11, <1>12, <1>13,
     <1>14, <1>15 DEF Audio

(* The start satisfies the invariant.                                      *)
LEMMA InvInit == Init => Inv
<1> SUFFICES ASSUME Init PROVE Inv
  OBVIOUS
<1>1. Typed
  BY TypedInit
<1>2. \A c \in Cabs : cab[c].nnodes = NoPatch /\ cab[c].blk = NoPatch
  BY DEF Init
<1> QED
  BY <1>1, <1>2 DEF Init, Inv, Cabs, Deck, SwapOver, Building, Stages, Owned, Contents,
     Construction, Swapping, Quiet, Rendered, Sounds, Blocks, NoLeak

(* A step of either thread keeps it.                                        *)
LEMMA InvStep == Disciplined /\ Inv /\ [Next]_vars => Inv'
<1> SUFFICES ASSUME Disciplined, Inv, [Next]_vars PROVE Inv'
  OBVIOUS
<1>1. CASE Next
  BY <1>1, ControlStep, AudioStep DEF Next
<1>2. CASE UNCHANGED vars
  BY <1>2 DEF vars, Inv, Typed, TypeOK, Deck, SwapOver, Building, Stages, Owned, DeckFree,
     Contents, Construction, Swapping, Quiet, Rendered, Sounds, Blocks, NoLeak
<1> QED
  BY <1>1, <1>2

------------------------------------------------------------------------------
(* What follows from it.                                                    *)

(* Nothing the JACK thread walks is half saved or freed.                    *)
LEMMA InvWhole == Inv => WalkedIsWhole
  BY DEF Inv, Typed, TypeOK, Building, Stages, Contents, Owned, WalkedIsWhole, Walked,
     Nodes,
     Cabs, Deck, SwapOver

(* What is mixed was computed in this period.                               *)
LEMMA InvMix == Inv => MixHearsItsPatches
  BY DEF Inv, Blocks, Rendered, MixHearsItsPatches

(* What is mixed was asked for.                                             *)
LEMMA InvBackground == Inv => BuiltInBackground
<1> SUFFICES ASSUME Inv, audio = "mix", ctl.patch # NoPatch
             PROVE  /\ cab[hs.read].blk # ctl.patch
                    /\ hs.cfstate # "compute"
  BY DEF BuiltInBackground
<1>1. cab[hs.read].blk = cab[hs.read].nnodes
  BY DEF Inv, Blocks, Rendered, Sounds
<1> QED
  BY <1>1 DEF Inv, Building, SwapOver, Construction

(* No step turns the crossfade off in the middle of a fade.                 *)
LEMMA StepDisables ==
    Inv /\ [Next]_vars => [hs'.cfstate = "none" => hs.cfstate \in {"none", "standby"}]_vars
<1> SUFFICES ASSUME Inv, Next, hs'.cfstate = "none"
             PROVE  hs.cfstate \in {"none", "standby"}
  OBVIOUS
<1>1. CASE Control
  BY <1>1 DEF Control, HsOut, HsOutConnect, HsSwp, SaveNumber, PleaseSwap, PlayTog, CfSize,
     CrossfadeOn, CrossfadeOff, CrossfadeOffSet, SetHs, Inv, Typed, TypeOK, Building
<1>2. CASE Audio
  BY <1>2 DEF Audio, Callback, Sample, Reap, Standby, Check, SwapRead, SwapWrite, Retire,
     Fade,
     Clear, Play, FadeOut, Mix, FadeEnd, NextSample, At, Goto, Inv, Typed, TypeOK
<1> QED
  BY <1>1, <1>2 DEF Next

(* The types hold of any script, disciplined or not.                        *)
THEOREM HotswapTyped == Spec => []TypeOK
<1>1. Typed /\ [Next]_vars => Typed'
  <2> SUFFICES ASSUME Typed, [Next]_vars PROVE Typed'
    OBVIOUS
  <2>1. CASE Next
    BY <2>1, TypedControl, TypedAudio DEF Next
  <2>2. CASE UNCHANGED vars
    BY <2>2 DEF vars, Typed, TypeOK
  <2> QED
    BY <2>1, <2>2
<1>2. Typed => TypeOK
  BY DEF Typed
<1> QED
  BY TypedInit, <1>1, <1>2, PTL DEF Spec

(* The invariant, of any behaviour that is safe as the hotswapper's are.    *)
THEOREM HotswapSound == Disciplined /\ Init /\ [][Next]_vars => []Inv
<1>1. Disciplined /\ Init => Disciplined /\ Inv
  BY InvInit
<1>2. (Disciplined /\ Inv) /\ [Next]_vars => (Disciplined /\ Inv)'
  BY InvStep DEF Disciplined
<1> QED
  BY <1>1, <1>2, PTL

(* A subpatch that the JACK thread walks is whole: neither half saved nor   *)
(* freed (mno_hotswap_compute, gf_subpatch_compute).                        *)
THEOREM WalkedWhole == Disciplined /\ Spec => []WalkedIsWhole
  BY HotswapSound, InvWhole, PTL DEF Spec

(* What is mixed are the blocks of the patches that were asked for, of this *)
(* period (mno_hotswap_render).                                             *)
THEOREM MixSound == Disciplined /\ Spec => []MixHearsItsPatches
  BY HotswapSound, InvMix, PTL DEF Spec

(* No patch that was handed over is overwritten before it is freed          *)
(* (mno_hotswap_please).                                                    *)
THEOREM NoneLost == Disciplined /\ Spec => []NoLeak
<1>1. Inv => NoLeak
  BY DEF Inv
<1> QED
  BY HotswapSound, <1>1, PTL DEF Spec

(* A patch is built in the background: the wait before hsout is all that it *)
(* takes, where MCHotswapBuild shows it heard without.                      *)
THEOREM HeardWhenAsked == Disciplined /\ Spec => []BuiltInBackground
  BY HotswapSound, InvBackground, PTL DEF Spec

(* The crossfade is disabled from CROSSFADE_STANDBY only, although hscf 0   *)
(* looks and sets in two steps: the wait before hscf is all that it takes,  *)
(* where MCHotswapDisable shows a fade cut off without.                     *)
THEOREM DisabledFromStandby == Disciplined /\ Spec => DisableOnlyFromStandby
  BY HotswapSound, StepDisables, PTL DEF Spec, DisableOnlyFromStandby

------------------------------------------------------------------------------
(* The refinement.                                                          *)

(* While nothing is swapped the deck cable is no business of the player's.  *)
LEMMA PlayerIdle ==
    /\ Inv /\ SwapOver => ~Swapping /\ Fading = NoPatch /\ Requested = NoPatch
    /\ Inv' /\ SwapOver' => (Fading = NoPatch /\ Requested = NoPatch)'
  BY DEF Inv, Stages, SwapOver, Swapping, Fading, Requested

(* A command is a request or none of the player's business.                 *)
LEMMA ControlPlays ==
    ASSUME Disciplined, Inv, Inv', Control
    PROVE  \/ PleaseSwap /\ Player!Request(ctl.patch) /\ ctl.patch \in Patches
           \/ UNCHANGED Player!vars
<1> USE DEF Player!vars, Fading, Playing, Requested, Swapping, Deck
<1>1. CASE PleaseSwap
  <2>1. /\ hs.please_swap = FALSE /\ hs.cfstate \in {"none", "standby"}
        /\ ctl.patch \in Patches /\ cab[Deck].nnodes = ctl.patch
        /\ cab[hs.read].nnodes # ctl.patch
    BY <1>1 DEF PleaseSwap, Inv, Building, Construction, Typed, TypeOK, SwapOver
  <2>2. /\ hs'.please_swap /\ hs'.cfstate = hs.cfstate /\ hs'.read = hs.read
        /\ UNCHANGED <<cab, audio>>
    BY <1>1 DEF PleaseSwap, Inv, Typed, TypeOK
  <2>3. audio \notin {"write", "retire", "fade", "clear"}
    BY <2>1 DEF Inv, Stages
  <2>4. Player!Request(ctl.patch)
    BY <2>1, <2>2, <2>3 DEF Player!Request
  <2> QED
    BY <1>1, <2>1, <2>4
<1>2. CASE SaveNumber
  <2>1. SwapOver /\ SwapOver' /\ ctl.cab = 1 - hs.read
    BY <1>2 DEF SaveNumber, Inv, Building, SwapOver
  <2>2. hs' = hs /\ audio' = audio /\ cab'[hs.read].nnodes = cab[hs.read].nnodes
    BY <1>2, <2>1 DEF SaveNumber, Inv, Typed, TypeOK, Cabs
  <2> QED
    BY <2>1, <2>2, PlayerIdle
<1>3. ASSUME NEW p \in Patches, HsOut(p)  PROVE UNCHANGED Player!vars
  BY <1>3 DEF HsOut
<1>4. CASE HsOutConnect \/ HsSwp
  <2>1. hs' = hs /\ audio' = audio /\ \A c \in Cabs : cab'[c].nnodes = cab[c].nnodes
    BY <1>4 DEF HsOutConnect, HsSwp, Inv, Typed, Cables
  <2> QED
    BY <2>1 DEF Inv, Typed, TypeOK, Cabs
<1>5. CASE PlayTog \/ (\E size \in CfSizes : CfSize(size)) \/ CrossfadeOff
  BY <1>5 DEF PlayTog, CfSize, CrossfadeOff, SetHs, Inv, Typed, TypeOK
<1>6. CASE CrossfadeOn \/ CrossfadeOffSet
  <2>1. SwapOver /\ SwapOver'
    BY <1>6 DEF CrossfadeOn, CrossfadeOffSet, SetHs, Ready, Waited, Disciplined, SwapOver,
       Inv, Typed, TypeOK, Building
  <2>2. hs'.read = hs.read /\ cab' = cab
    BY <1>6 DEF CrossfadeOn, CrossfadeOffSet, SetHs, Inv, Typed, TypeOK
  <2> QED
    BY <2>1, <2>2, PlayerIdle
<1> QED
  BY <1>1, <1>2, <1>3, <1>4, <1>5, <1>6 DEF Control

(* A step of the JACK thread switches patches, retires one, or is none of   *)
(* the player's business.                                                   *)
LEMMA AudioPlays ==
    ASSUME Inv, Inv', Audio
    PROVE  (SwapRead /\ Player!Switch) \/ Player!Retire \/ UNCHANGED Player!vars
<1> USE DEF Player!vars, Fading, Playing, Requested, Swapping, Deck, At, Goto
<1>1. CASE Callback \/ Sample \/ Check \/ Mix \/ NextSample
  BY <1>1 DEF Callback, Sample, Check, Mix, NextSample, Inv, Typed, TypeOK
<1>2. CASE SwapRead
  <2>1. /\ hs.please_swap /\ hs.cfstate \in {"none", "standby"} /\ audio = "read"
        /\ hs.write = 1 - hs.read /\ hs.read = 1 - hs.write
    BY <1>2 DEF SwapRead, Inv, Typed, TypeOK, Stages, Cabs
  <2>2. cab[1 - hs.read].nnodes # NoPatch
    BY <2>1 DEF Inv, Contents
  <2>3. /\ hs'.please_swap = hs.please_swap /\ hs'.cfstate = hs.cfstate
        /\ hs'.read = hs.write /\ cab' = cab /\ audio' = "write"
    BY <1>2 DEF SwapRead, Inv, Typed, TypeOK
  <2>4. Player!Switch
    BY <2>1, <2>2, <2>3 DEF Player!Switch
  <2> QED
    BY <1>2, <2>4
<1>3. CASE SwapWrite
  BY <1>3 DEF SwapWrite, Inv, Typed, TypeOK
<1>4. CASE Retire
  <2>1. CASE hs.cfstate = "none"
    <3>1. hs.write \in Cabs /\ hs.write = 1 - hs.read
      BY <1>4 DEF Retire, Inv, Typed, TypeOK, Stages, Cabs
    <3>2. cab' = [cab EXCEPT ![hs.write].nnodes = NoPatch]
      BY <1>4, <2>1, <3>1, DisposeFrees DEF Retire
    <3>3. cab'[hs.read].nnodes = cab[hs.read].nnodes /\ cab'[hs.write].nnodes = NoPatch
      BY <3>1, <3>2 DEF Inv, Typed, TypeOK, Cabs, Cables
    <3>4. UNCHANGED hs /\ audio = "retire" /\ audio' = "fade"
      BY <1>4 DEF Retire
    <3> QED
      BY <3>1, <3>3, <3>4 DEF Player!Retire
  <2>2. CASE hs.cfstate # "none"
    BY <1>4, <2>2 DEF Retire
  <2> QED
    BY <2>1, <2>2
<1>5. CASE Fade
  <2>1. /\ hs'.read = hs.read /\ hs'.please_swap = hs.please_swap /\ cab' = cab
        /\ audio = "fade" /\ audio' = "clear"
    BY <1>5 DEF Fade, Inv, Typed, TypeOK
  <2> QED
    BY <2>1
<1>6. CASE Clear
  <2>1. /\ hs'.read = hs.read /\ hs'.cfstate = hs.cfstate /\ hs'.please_swap = FALSE
        /\ cab' = cab /\ audio = "clear" /\ audio' = "play"
    BY <1>6 DEF Clear, Inv, Typed, TypeOK
  <2>2. hs.cfstate = "compute" \/ hs.cfstate = "none"
    BY <2>1 DEF Inv, Stages
  <2>3. hs.cfstate = "none" => cab[Deck].nnodes = NoPatch
    BY <2>1 DEF Inv, Contents, DeckFree
  <2> QED
    BY <2>1, <2>2, <2>3
<1>7. CASE Reap
  <2>1. /\ hs.write \in Cabs /\ hs.write = 1 - hs.read
        /\ hs.cfstate = "done" /\ hs.please_swap = FALSE
    BY <1>7 DEF Reap, Inv, Typed, TypeOK, Stages, Cabs
  <2>2. cab' = [cab EXCEPT ![hs.write].nnodes = NoPatch]
    BY <1>7, <2>1, DisposeFrees DEF Reap
  <2>3. cab'[hs.read].nnodes = cab[hs.read].nnodes /\ cab'[hs.write].nnodes = NoPatch
    BY <2>1, <2>2 DEF Inv, Typed, TypeOK, Cabs, Cables
  <2>4. UNCHANGED hs /\ audio = "reap" /\ audio' = "standby"
    BY <1>7 DEF Reap
  <2> QED
    BY <2>1, <2>3, <2>4 DEF Player!Retire
<1>8. CASE Standby
  <2>1. /\ hs'.read = hs.read /\ hs'.cfstate = "standby" /\ hs'.please_swap = hs.please_swap
        /\ cab' = cab /\ audio = "standby" /\ audio' = "check"
    BY <1>8 DEF Standby, Inv, Typed, TypeOK
  <2>2. hs.cfstate = "done" /\ hs.please_swap = FALSE /\ cab[Deck].nnodes = NoPatch
    BY <2>1 DEF Inv, Typed, TypeOK, Stages, Contents, DeckFree
  <2> QED
    BY <2>1, <2>2
<1>9. CASE Play \/ FadeOut
  <2>1. \A c \in Cabs : cab'[c].nnodes = cab[c].nnodes
    BY <1>9 DEF Play, FadeOut, Compute, Inv, Typed, Cables
  <2>2. UNCHANGED hs /\ audio \notin {"write", "retire", "fade", "clear"}
        /\ audio' \notin {"write", "retire", "fade", "clear"}
    BY <1>9 DEF Play, FadeOut
  <2> QED
    BY <2>1, <2>2 DEF Inv, Typed, TypeOK, Cabs
<1>10. CASE FadeEnd
  BY <1>10 DEF FadeEnd, Inv, Typed, TypeOK, Stages
<1> QED
  BY <1>1, <1>2, <1>3, <1>4, <1>5, <1>6, <1>7, <1>8, <1>9, <1>10 DEF Audio

(* Every step is a step of the player or none.                              *)
LEMMA PlayerStep == Disciplined /\ Inv /\ [Next]_vars => [Player!Next]_(Player!vars)
<1> SUFFICES ASSUME Disciplined, Inv, [Next]_vars
             PROVE  [Player!Next]_(Player!vars)
  OBVIOUS
<1>1. Inv'
  BY InvStep
<1>2. CASE Next
  BY <1>1, <1>2, ControlPlays, AudioPlays DEF Next, Player!Next
<1>3. CASE UNCHANGED vars
  BY <1>3 DEF vars, Player!vars, Playing, Fading, Requested, Swapping, Deck
<1> QED
  BY <1>2, <1>3

(* Nothing plays at first.                                                  *)
LEMMA PlayerInit == Init => Player!Init
  BY DEF Init, Player!Init, Playing, Fading, Requested, Swapping, Deck, Cabs

(* The hotswapper is the player of PatchPlayer: its pointer by pointer swap *)
(* is one switch, and what it keeps from one to the next is never more than *)
(* the patch heard, the one it fades out and the one to come.               *)
THEOREM HotswapIsPlayer == Disciplined /\ Spec => ImplementsPlayer
<1>1. Disciplined /\ Init => Disciplined /\ Inv /\ Player!Init
  BY InvInit, PlayerInit
<1>2. (Disciplined /\ Inv) /\ [Next]_vars => (Disciplined /\ Inv)'
  BY InvStep DEF Disciplined
<1>3. (Disciplined /\ Inv) /\ [Next]_vars => [Player!Next]_(Player!vars)
  BY PlayerStep
<1> QED
  BY <1>1, <1>2, <1>3, PTL DEF Spec, ImplementsPlayer, Player!Spec

-----------------------------------------------------------------------------
(* The gesture machines. *)

ScriptPcs == {"none", "got", "loaded", "bound", "swapper", "done"}
SwapperPcs == {"off", "init", "swap", "boot", "unlock"}
SomeMachine == Machines \cup {NoMachine}

GlTyped ==
    /\ GlTypeOK
    /\ script \in [pc : ScriptPcs, patch : Patches \cup {NoPatch}, mach : SomeMachine]
    /\ swp \in [pc : SwapperPcs, node : SomeMachine]

\* From glget to hsswp no swap is under way, of patches or of machines; the
\* script's machine is the one that is written, and its patch is its own.
Scripting ==
    /\ script.pc = "none" =>
          /\ script = NoScript
          /\ ctl.patch # NoPatch => gest[ctl.patch] = Unbound
    /\ script.pc # "none" =>
          /\ script.patch \in Patches /\ script.mach = gl.write
          /\ SwapOver /\ swp.pc = "off"
          /\ gl.please_swap <=> script.pc = "done"
          /\ ctl.patch = NoPatch => heap[script.patch] = "free"
          /\ ctl.patch # NoPatch =>
                ctl.patch = script.patch /\ script.pc \in {"swapper", "done"}
          /\ script.pc # "got" => ram[gl.write] = script.patch
          /\ script.pc \in {"bound", "swapper", "done"} =>
                gest[script.patch].mach = gl.write
          /\ script.pc \in {"swapper", "done"} =>
                gest[script.patch].node = gl.write /\ gl.init[gl.write]
    /\ ctl.pc \in {"saving", "saved"} => script.pc \in {"none", "done"}

MachineOf(p) == IF p = NoPatch THEN NoMachine ELSE gest[p].mach

\* The patch was written for the machine m, which has its program.
Runs(p, m) == MachineOf(p) = m /\ ram[m] = p

\* The patch has still to bring its machine to the front.
Due(p) == Runs(p, gl.write) /\ gl.init[gl.write] /\ gl.please_swap

\* A patch that plays has not been computed once.
Starting ==
    \/ Swapping \/ audio = "play"
    \/ audio = "fadeout" /\ swp.pc = "init"

SwapperAt ==
    /\ ~gl.init[gl.read]
    /\ swp.pc # "off" => gl.please_swap /\ audio = "fadeout"
    /\ swp.pc \in {"init", "swap"} =>
          /\ swp.node = gl.write /\ MachineOf(Playing) = gl.write
          /\ gl.init[gl.write] <=> swp.pc = "init"

\* A patch with gestures has a swapper, and that the data of its machine.
Bound == \A p \in Patches : heap[p] = "live" => gest[p].mach = gest[p].node

PlayingRuns ==
    \/ MachineOf(Playing) = NoMachine
    \/ Runs(Playing, gl.read)
    \/ Due(Playing) /\ Starting /\ script.pc = "none"
    \/ Runs(Playing, gl.write) /\ swp.pc = "swap"

RequestedRuns ==
    \/ MachineOf(Requested) = NoMachine
    \/ Due(Requested) /\ swp.pc = "off" /\ MachineOf(Playing) # gl.write

\* The swapper of a patch that fades out has done its work.
FadingRuns ==
    MachineOf(Fading) = NoMachine \/ ~gl.init[MachineOf(Fading)]

\* The inductive invariant.
Roles == PlayingRuns /\ RequestedRuns /\ FadingRuns
GlInv == Inv /\ GlTyped /\ Scripting /\ SwapperAt /\ Bound /\ Roles

USE DEF Machines, NoMachine

------------------------------------------------------------------------------
(* What the hotswapper's invariant says of the three patches.               *)

(* They are patches, allocated, and not the one under construction.         *)
LEMMA ThreeLive ==
    ASSUME Inv
    PROVE  \A p \in {Playing, Fading, Requested} :
              p = NoPatch \/ (p \in Patches /\ heap[p] = "live" /\ p # ctl.patch)
<1>1. Deck \in Cabs /\ hs.read \in Cabs
  BY DEF Inv, Typed, TypeOK, Deck, Cabs
<1>2. \A c \in Cabs : cab[c].nnodes \in Patches \cup {NoPatch}
  BY DEF Inv, Typed, Cables
<1>3. \A c \in Cabs : cab[c].nnodes # NoPatch => heap[cab[c].nnodes] = "live"
  BY DEF Inv, Contents, Owned
<1>4. ctl.patch # NoPatch => Fading = NoPatch /\ Requested = NoPatch
  BY PlayerIdle DEF Inv, Building
<1>5. ctl.patch # NoPatch => Playing # ctl.patch
  BY DEF Inv, Construction, Playing
<1>6. ASSUME NEW c \in Cabs, NEW p, p = cab[c].nnodes
      PROVE  p = NoPatch \/ (p \in Patches /\ heap[p] = "live")
  BY <1>2, <1>3, <1>6
<1>7. Playing = NoPatch \/ (Playing \in Patches /\ heap[Playing] = "live")
  BY <1>1, <1>6 DEF Playing
<1>8. Fading = NoPatch \/ (Fading \in Patches /\ heap[Fading] = "live")
  BY <1>1, <1>6 DEF Fading
<1>9. Requested = NoPatch \/ (Requested \in Patches /\ heap[Requested] = "live")
  BY <1>1, <1>6 DEF Requested
<1> QED
  BY <1>4, <1>5, <1>7, <1>8, <1>9

(* A patch on a cable is one of the three or the one under construction.    *)
LEMMA OnCables ==
    ASSUME Inv, NEW c \in Cabs, NEW p \in Nodes(c)
    PROVE  /\ p = cab[c].nnodes /\ p \in Patches /\ heap[p] = "live"
           /\ c = hs.read => p = Playing
           /\ c # hs.read /\ SwapOver => p = ctl.patch
           /\ c # hs.read /\ hs.cfstate = "compute" => p = Fading
<1>1. p = cab[c].nnodes /\ p # NoPatch
  BY DEF Nodes, Inv, Contents, Owned
<1>2. p \in Patches /\ heap[p] = "live"
  BY <1>1 DEF Inv, Typed, Cables, Contents, Owned
<1>3. c # hs.read => c = Deck
  BY DEF Inv, Typed, TypeOK, Deck, Cabs
<1>4. SwapOver /\ c # hs.read => p = ctl.patch
  BY <1>1, <1>3 DEF Inv, Contents, DeckFree, Construction, Building
<1> QED
  BY <1>1, <1>2, <1>3, <1>4 DEF Playing, Fading

------------------------------------------------------------------------------
(* Commands that touch gestlive only.                                       *)

(* Only the patch under construction gets a machine, or loses one.          *)
LEMMA GestureCommand ==
    ASSUME Disciplined, GlInv,
           \/ \E p \in Patches : GlGet(p)
           \/ GestVmLoad \/ GestVmNode \/ GlSwapper \/ GlDone \/ Fail \/ GlReset
    PROVE  GlInv'
<1>1. UNCHANGED <<vars, swp>>
  BY DEF GlGet, GestVmLoad, GestVmNode, GlSwapper, GlDone, Fail, GlReset, ScriptAt
<1>2. Inv' /\ UNCHANGED <<Playing, Fading, Requested, Swapping, SwapOver>>
  BY <1>1, InvStep DEF GlInv, vars, Playing, Fading, Requested, Swapping, Deck, SwapOver
<1>3. \A p \in {Playing, Fading, Requested} :
         p = NoPatch \/ (p \in Patches /\ heap[p] = "live" /\ p # ctl.patch)
  BY ThreeLive DEF GlInv
<1>4. SwapOver => Fading = NoPatch /\ Requested = NoPatch
  BY PlayerIdle DEF GlInv
<1> USE DEF GlInv, GlTyped, GlTypeOK, ScriptPcs, SwapperPcs, SomeMachine, vars, MachineOf,
            Runs, Due, Starting, ScriptAt, ScriptTo, Ready
<1>5. ASSUME NEW p \in Patches, GlGet(p)  PROVE GlInv'
  <2>1. GlTyped'
    BY <1>1, <1>5 DEF GlGet, Scripting, NoScript, Unbound
  <2>2. Scripting'
    BY <1>1, <1>2, <1>5 DEF GlGet, Scripting, SwapperAt, NoScript
  <2>3. SwapperAt' /\ Bound'
    BY <1>1, <1>2, <1>3, <1>5 DEF GlGet, Scripting, SwapperAt, Bound
  <2>4. Roles'
    BY <1>1, <1>2, <1>3, <1>4, <1>5 DEF GlGet, Scripting, SwapperAt, Bound, Roles,
       PlayingRuns,
       RequestedRuns, FadingRuns
  <2> QED
    BY <1>2, <2>1, <2>2, <2>3, <2>4
<1>6. CASE GestVmLoad
  <2>1. GlTyped'
    BY <1>1, <1>6 DEF GestVmLoad, Scripting, NoScript, Unbound
  <2>2. Scripting'
    BY <1>1, <1>2, <1>6 DEF GestVmLoad, Scripting, SwapperAt, NoScript
  <2>3. SwapperAt' /\ Bound'
    BY <1>1, <1>2, <1>3, <1>6 DEF GestVmLoad, Scripting, SwapperAt, Bound
  <2>4. Roles'
    BY <1>1, <1>2, <1>3, <1>4, <1>6 DEF GestVmLoad, Scripting, SwapperAt, Bound, Roles,
       PlayingRuns,
       RequestedRuns, FadingRuns
  <2> QED
    BY <1>2, <2>1, <2>2, <2>3, <2>4
<1>7. CASE GestVmNode
  <2>1. GlTyped'
    BY <1>1, <1>7 DEF GestVmNode, Scripting, NoScript, Unbound
  <2>2. Scripting'
    BY <1>1, <1>2, <1>7 DEF GestVmNode, Scripting, SwapperAt, NoScript
  <2>3. SwapperAt' /\ Bound'
    BY <1>1, <1>2, <1>3, <1>7 DEF GestVmNode, Scripting, SwapperAt, Bound
  <2>4. Roles'
    BY <1>1, <1>2, <1>3, <1>4, <1>7 DEF GestVmNode, Scripting, SwapperAt, Bound, Roles,
       PlayingRuns,
       RequestedRuns, FadingRuns
  <2> QED
    BY <1>2, <2>1, <2>2, <2>3, <2>4
<1>8. CASE GlSwapper
  <2>1. GlTyped'
    BY <1>1, <1>8 DEF GlSwapper, Scripting, NoScript, Unbound
  <2>2. Scripting'
    BY <1>1, <1>2, <1>8 DEF GlSwapper, Scripting, SwapperAt, NoScript
  <2>3. SwapperAt' /\ Bound'
    BY <1>1, <1>2, <1>3, <1>8 DEF GlSwapper, Scripting, SwapperAt, Bound
  <2>4. Roles'
    BY <1>1, <1>2, <1>3, <1>4, <1>8 DEF GlSwapper, Scripting, SwapperAt, Bound, Roles,
       PlayingRuns,
       RequestedRuns, FadingRuns
  <2> QED
    BY <1>2, <2>1, <2>2, <2>3, <2>4
<1>9. CASE GlDone
  <2>1. GlTyped'
    BY <1>1, <1>9 DEF GlDone, Scripting, NoScript, Unbound
  <2>2. Scripting'
    BY <1>1, <1>2, <1>9 DEF GlDone, Scripting, SwapperAt, NoScript
  <2>3. SwapperAt' /\ Bound'
    BY <1>1, <1>2, <1>3, <1>9 DEF GlDone, Scripting, SwapperAt, Bound
  <2>4. Roles'
    BY <1>1, <1>2, <1>3, <1>4, <1>9 DEF GlDone, Scripting, SwapperAt, Bound, Roles,
       PlayingRuns,
       RequestedRuns, FadingRuns
  <2> QED
    BY <1>2, <2>1, <2>2, <2>3, <2>4
<1>10. CASE Fail
  <2>1. GlTyped'
    BY <1>1, <1>10 DEF Fail, Scripting, NoScript, Unbound
  <2>2. Scripting'
    BY <1>1, <1>2, <1>10 DEF Fail, Scripting, SwapperAt, NoScript
  <2>3. SwapperAt' /\ Bound'
    BY <1>1, <1>2, <1>3, <1>10 DEF Fail, Scripting, SwapperAt, Bound
  <2>4. Roles'
    BY <1>1, <1>2, <1>3, <1>4, <1>10 DEF Fail, Scripting, SwapperAt, Bound, Roles,
       PlayingRuns,
       RequestedRuns, FadingRuns
  <2> QED
    BY <1>2, <2>1, <2>2, <2>3, <2>4
<1>11. CASE GlReset
  <2>1. GlTyped'
    BY <1>1, <1>11 DEF GlReset, Pending, Scripting, NoScript, Unbound
  <2>2. Scripting'
    BY <1>1, <1>2, <1>11 DEF GlReset, Pending, Scripting, SwapperAt, NoScript
  <2>3. SwapperAt' /\ Bound'
    BY <1>1, <1>2, <1>3, <1>11 DEF GlReset, Pending, Scripting, SwapperAt, Bound
  <2>4. Roles'
    BY <1>1, <1>2, <1>3, <1>4, <1>11 DEF GlReset, Pending, Scripting, SwapperAt, Bound,
       Roles, PlayingRuns,
       RequestedRuns, FadingRuns
  <2> QED
    BY <1>2, <2>1, <2>2, <2>3, <2>4
<1> QED
  BY <1>5, <1>6, <1>7, <1>8, <1>9, <1>10, <1>11

------------------------------------------------------------------------------
(* Commands of the hotswapper.                                              *)

(* hsout, and the commands between it and the request, leave the three      *)
(* patches and their machines alone.                                        *)
LEMMA HotswapCommand ==
    ASSUME Disciplined, GlInv,
           \/ \E p \in Patches : OutNode(p)
           \/ SavePatch \/ OtherCommand
    PROVE  GlInv'
<1>1. /\ Control /\ ~PleaseSwap /\ ctl.pc # "saved"
      /\ UNCHANGED <<gl, ram, script, swp, audio>>
  BY DEF OutNode, SavePatch, OtherCommand, Control, HsOut, HsSwp, HsOutConnect, SaveNumber,
     PlayTog, CfSize, CrossfadeOn, CrossfadeOff, CrossfadeOffSet, Ready, SetHs, PleaseSwap,
     glVars
<1>2. Inv'
  BY <1>1, InvStep DEF GlInv, Next
<1>3. UNCHANGED <<Playing, Fading, Requested>>
  BY <1>1, <1>2, ControlPlays DEF GlInv, Player!vars
<1>4. UNCHANGED Swapping
  BY <1>1 DEF Swapping
<1>5. \A p \in {Playing, Fading, Requested} :
         p = NoPatch \/ (p \in Patches /\ heap[p] = "live" /\ p # ctl.patch)
  BY ThreeLive DEF GlInv
<1>6. \A p \in Patches : heap[p] = "live" => gest'[p] = gest[p]
  BY DEF OutNode, HsOut, SavePatch, OtherCommand, glVars, GlInv, GlTyped, GlTypeOK
<1>7. \A p \in {Playing, Fading, Requested} : MachineOf(p)' = MachineOf(p)
  BY <1>3, <1>5, <1>6 DEF MachineOf
<1>8. Roles' /\ SwapperAt'
  BY <1>1, <1>3, <1>4, <1>7 DEF GlInv, Roles, PlayingRuns, RequestedRuns, FadingRuns,
     SwapperAt,
     Runs, Due, Starting
<1>9. GlTyped'
  BY <1>1 DEF GlInv, GlTyped, GlTypeOK, OutNode, SavePatch, OtherCommand, glVars, Unbound,
     SomeMachine
<1>10. Bound'
  <2>1. ASSUME NEW p \in Patches, OutNode(p)  PROVE Bound'
    <3>1. /\ heap[p] = "free" /\ script.pc \in {"none", "swapper", "done"}
          /\ script.patch \in {NoPatch, p}
          /\ heap' = [heap EXCEPT ![p] = "live"]
          /\ gest' = IF script.patch = p THEN gest ELSE [gest EXCEPT ![p] = Unbound]
      BY <2>1 DEF OutNode, HsOut
    <3>2. script.patch = p => gest[p].mach = gest[p].node
      BY <3>1, NoPatchAssumption DEF GlInv, Scripting, NoScript
    <3>3. gest'[p].mach = gest'[p].node
      BY <3>1, <3>2 DEF GlInv, GlTyped, GlTypeOK, Unbound
    <3>4. \A q \in Patches : q # p => heap'[q] = heap[q]
      BY <3>1 DEF GlInv, Inv, Typed, TypeOK
    <3> QED
      BY <1>6, <3>3, <3>4 DEF GlInv, Bound
  <2>2. CASE SavePatch \/ OtherCommand
    <3>1. UNCHANGED <<heap, gest>>
      BY <2>2 DEF SavePatch, OtherCommand, HsSwp, HsOutConnect, SaveNumber, PlayTog, CfSize,
         CrossfadeOn, CrossfadeOff, CrossfadeOffSet, SetHs, glVars
    <3> QED
      BY <3>1 DEF GlInv, Bound
  <2> QED
    BY <2>1, <2>2
<1>11. Scripting'
  <2>1. ASSUME NEW p \in Patches, OutNode(p)  PROVE Scripting'
    <3>1. /\ heap[p] = "free" /\ script.pc \in {"none", "swapper", "done"}
          /\ script.patch \in {NoPatch, p} /\ ctl.patch = NoPatch
          /\ ctl'.pc = "out" /\ ctl'.patch = p /\ hs' = hs
          /\ gest' = IF script.patch = p THEN gest ELSE [gest EXCEPT ![p] = Unbound]
      BY <2>1 DEF OutNode, HsOut
    <3>2. CASE script.pc = "none"
      <4>1. gest'[p] = Unbound
        BY <3>1, <3>2, NoPatchAssumption DEF GlInv, GlTyped, GlTypeOK, Scripting, NoScript
      <4> QED
        BY <1>1, <3>1, <3>2, <4>1 DEF GlInv, Scripting
    <3>3. CASE script.pc # "none"
      <4>1. script.patch = p /\ gest' = gest
        BY <3>1, <3>3, NoPatchAssumption DEF GlInv, Scripting
      <4> QED
        BY <1>1, <3>1, <3>3, <4>1, NoPatchAssumption DEF GlInv, Scripting, SwapOver
    <3> QED
      BY <3>2, <3>3
  <2>2. CASE SavePatch
    BY <2>2, <1>1 DEF SavePatch, HsSwp, GlInv, Scripting, SwapOver, glVars, Typed, Inv
  <2>3. CASE OtherCommand
    <3>1. /\ UNCHANGED <<heap, glVars>> /\ ctl'.patch = ctl.patch
          /\ ctl'.pc \in {"saving", "saved"} => ctl.pc \in {"saving", "saved"}
      BY <2>3 DEF OtherCommand, HsOutConnect, SaveNumber, PlayTog, CfSize, CrossfadeOn,
         CrossfadeOff, CrossfadeOffSet, SetHs, Ready, Typed, Inv, GlInv
    <3>2. SwapOver => SwapOver'
      BY <2>3 DEF OtherCommand, HsOutConnect, SaveNumber, PlayTog, CfSize, CrossfadeOn,
         CrossfadeOff, CrossfadeOffSet, SetHs, Typed, TypeOK, Inv, GlInv, SwapOver
    <3> QED
      BY <3>1, <3>2 DEF GlInv, Scripting, glVars
  <2> QED
    BY <2>1, <2>2, <2>3
<1> QED
  BY <1>2, <1>8, <1>9, <1>10, <1>11 DEF GlInv

(* hsswp hands the script's patch over: it is due.                          *)
LEMMA HandOver ==
    ASSUME Disciplined, GlInv, AskForSwap
    PROVE  GlInv'
<1>1. /\ PleaseSwap /\ script' = NoScript /\ UNCHANGED <<gl, ram, gest, swp, heap, audio>>
  BY DEF AskForSwap, PleaseSwap
<1>2. Inv'
  BY <1>1, InvStep DEF GlInv, Next, Control
<1>3. /\ ctl.pc = "saved" /\ ctl.patch \in Patches /\ SwapOver
      /\ hs'.please_swap /\ ctl'.patch = NoPatch /\ ctl'.pc = "ready" /\ ctl'.cab = ctl.cab
  BY <1>1 DEF PleaseSwap, GlInv, Inv, Typed, TypeOK, Building
<1>4. Requested' = ctl.patch /\ UNCHANGED <<Playing, Fading>> /\ Fading = NoPatch
  <2>1. Player!Request(ctl.patch) \/ UNCHANGED Player!vars
    BY <1>1, <1>2, ControlPlays DEF GlInv, Control
  <2>2. Requested = NoPatch /\ Fading = NoPatch
    BY <1>3, PlayerIdle DEF GlInv
  <2>3. hs'.read = hs.read /\ cab' = cab
    BY <1>1 DEF PleaseSwap, GlInv, Inv, Typed, TypeOK
  <2>4. cab[Deck].nnodes = ctl.patch
    BY <1>3, NoPatchAssumption DEF GlInv, Inv, Construction
  <2>5. ~Swapping'
    BY <1>1, <1>3, PlayerIdle DEF GlInv, Swapping
  <2>6. Requested' = ctl.patch
    BY <1>3, <2>3, <2>4, <2>5 DEF Requested, Deck
  <2> QED
    BY <1>3, <2>1, <2>2, <2>6, NoPatchAssumption DEF Player!Request, Player!vars
<1>5. GlTyped' /\ Bound'
  BY <1>1 DEF GlInv, GlTyped, GlTypeOK, NoScript, ScriptPcs, SomeMachine, Bound
<1>6. Scripting'
  BY <1>1, <1>3 DEF Scripting, NoScript
<1>7. Playing = NoPatch \/ Playing \in Patches
  BY ThreeLive DEF GlInv
<1>8. SwapperAt' /\ PlayingRuns' /\ FadingRuns'
  BY <1>1, <1>4 DEF GlInv, SwapperAt, Roles, PlayingRuns, FadingRuns, MachineOf, Runs, Due,
     Starting, Swapping, NoScript
<1>9. RequestedRuns'
  <2>1. CASE script.pc = "none"
    BY <1>1, <1>3, <1>4, <2>1, NoPatchAssumption DEF GlInv, Scripting, RequestedRuns,
       MachineOf,
       Unbound
  <2>2. CASE script.pc # "none"
    <3>1. /\ ctl.patch = script.patch /\ script.pc = "done" /\ swp.pc = "off"
          /\ gest[ctl.patch].mach = gl.write /\ gl.init[gl.write] /\ gl.please_swap
          /\ ram[gl.write] = ctl.patch
      BY <1>3, <2>2, NoPatchAssumption DEF GlInv, Scripting
    <3>2. MachineOf(Playing) # gl.write
      BY <2>2, <3>1 DEF GlInv, GlTyped, GlTypeOK, Roles, PlayingRuns, Runs
    <3> QED
      BY <1>1, <1>3, <1>4, <3>1, <3>2, NoPatchAssumption DEF RequestedRuns, Due, Runs,
         MachineOf
  <2> QED
    BY <2>1, <2>2
<1> QED
  BY <1>2, <1>5, <1>6, <1>8, <1>9 DEF GlInv, Roles

------------------------------------------------------------------------------
(* The audio thread.                                                        *)

(* A block that is computed runs into a set swapper once only: the first    *)
(* time that the patch which is due is computed.                            *)
LEMMA ArmedOnce ==
    ASSUME GlInv, swp.pc = "off"
    PROVE  /\ audio = "play" /\ Due(Playing) => Armed = {gl.write}
           /\ ~(audio = "play" /\ Due(Playing)) => Armed = {}
<1>1. gl.write \in Machines /\ hs.read \in Cabs
  BY DEF GlInv, GlTyped, GlTypeOK, Inv, Typed, TypeOK
<1>2. ASSUME NEW m \in Armed
      PROVE  audio = "play" /\ Due(Playing) /\ m = gl.write
  <2>1. PICK c \in Computed : \E p \in Nodes(c) : m = gest[p].node
    BY DEF Armed
  <2>2. PICK p \in Nodes(c) : m = gest[p].node
    BY <2>1
  <2>3. m \in Machines /\ gl.init[m]
    BY DEF Armed
  <2>4. c \in Cabs
    BY <2>1 DEF Computed, GlInv, Inv, Typed, TypeOK
  <2>5. p \in Patches /\ m = gest[p].mach /\ p # NoPatch
    BY <2>2, <2>4, OnCables, NoPatchAssumption DEF GlInv, Bound
  <2>6. CASE audio = "play"
    <3>1. p = Playing
      BY <2>2, <2>4, <2>6, OnCables DEF Computed, GlInv
    <3>2. MachineOf(Playing) = m
      BY <2>5, <3>1 DEF MachineOf
    <3> QED
      BY <2>3, <2>6, <3>2 DEF GlInv, Roles, PlayingRuns, Runs, Due, SwapperAt
  <2>7. CASE audio # "play"
    <3>1. audio = "fadeout" /\ hs.cfstate = "compute" /\ c = hs.write
      BY <2>1, <2>7 DEF Computed
    <3>2. p = Fading
      BY <2>2, <2>4, <3>1, OnCables DEF GlInv, Inv, Stages
    <3>3. MachineOf(Fading) = m
      BY <2>5, <3>2 DEF MachineOf
    <3> QED
      BY <2>3, <3>3 DEF GlInv, Roles, FadingRuns
  <2> QED
    BY <2>6, <2>7
<1>3. ASSUME audio = "play", Due(Playing)  PROVE gl.write \in Armed
  <2>1. Computed = {hs.read}
    BY <1>3 DEF Computed
  <2>2. Playing # NoPatch /\ gest[Playing].mach = gl.write /\ gl.init[gl.write]
    BY <1>1, <1>3 DEF Due, Runs, MachineOf
  <2>3. Playing \in Patches /\ heap[Playing] = "live"
    BY <2>2, ThreeLive DEF GlInv
  <2>4. gest[Playing].node = gl.write
    BY <2>2, <2>3 DEF GlInv, Bound
  <2>5. Playing \in Nodes(hs.read)
    BY <1>1, <2>2 DEF Nodes, Playing, GlInv, Inv, Contents, Owned
  <2> QED
    BY <1>1, <2>1, <2>2, <2>4, <2>5 DEF Armed
<1> QED
  BY <1>2, <1>3

(* A step of the callback.                                                  *)
LEMMA RenderStep ==
    ASSUME Disciplined, GlInv, Render
    PROVE  GlInv'
<1>1. Audio /\ swp.pc = "off" /\ UNCHANGED <<gl, ram, gest, script>>
  BY DEF Render
<1>2. Inv'
  BY <1>1, InvStep DEF GlInv, Next
<1>3. \/ /\ audio = "play" /\ audio' = "fadeout" /\ Due(Playing)
         /\ swp' = [pc |-> "init", node |-> gl.write]
      \/ swp' = NoSwapper /\ ~(audio = "play" /\ Due(Playing))
  <2>1. audio = "play" => audio' = "fadeout"
    BY <1>1 DEF Audio, Callback, Sample, Reap, Standby, Check, SwapRead, SwapWrite, Retire,
       Fade,
       Clear, Play, FadeOut, Mix, FadeEnd, NextSample, At, Goto
  <2>2. Armed = {gl.write} => (CHOOSE m \in Armed : TRUE) = gl.write
    OBVIOUS
  <2> QED
    BY <1>1, <2>1, <2>2, ArmedOnce DEF Render
<1>4. \/ /\ audio = "read" /\ audio' = "write"
         /\ Requested # NoPatch /\ Playing' = Requested
         /\ Fading' = Playing /\ Requested' = NoPatch
      \/ /\ UNCHANGED <<Playing, Requested>>
         /\ Fading' \in {NoPatch, Fading}
  BY <1>1, <1>2, AudioPlays DEF GlInv, Player!Switch, Player!Retire, Player!vars, SwapRead,
     At,
     Goto
<1>5. \A p \in Patches : heap'[p] = heap[p] \/ heap'[p] = "free"
  BY <1>1 DEF Audio, Callback, Sample, Reap, Standby, Check, SwapRead, SwapWrite, Retire,
     Fade,
     Clear, Play, FadeOut, Mix, FadeEnd, NextSample, Dispose
<1>6. UNCHANGED ctl /\ (SwapOver => SwapOver')
  BY <1>1 DEF Audio, Callback, Sample, Reap, Standby, Check, SwapRead, SwapWrite, Retire,
     Fade,
     Clear, Play, FadeOut, Mix, FadeEnd, NextSample, At, SwapOver, GlInv, Inv, Typed,
     TypeOK,
     Stages
<1>7. Swapping => Swapping' \/ audio' = "play"
  BY <1>1 DEF Audio, Callback, Sample, Reap, Standby, Check, SwapRead, SwapWrite, Retire,
     Fade,
     Clear, Play, FadeOut, Mix, FadeEnd, NextSample, At, Goto, Swapping
<1>8. GlTyped'
  BY <1>1, <1>3 DEF GlInv, GlTyped, GlTypeOK, NoSwapper, SwapperPcs, SomeMachine
<1>9. Scripting'
  <2>1. Due(Playing) /\ audio = "play" => script.pc = "none"
    BY <1>1 DEF GlInv, Roles, PlayingRuns, Due, Runs, GlTyped, GlTypeOK
  <2> QED
    BY <1>1, <1>3, <1>5, <1>6, <2>1 DEF GlInv, Scripting, NoSwapper
<1>10. SwapperAt'
  BY <1>1, <1>3, <1>4 DEF GlInv, SwapperAt, NoSwapper, Due, Runs, MachineOf
<1>11. Bound'
  BY <1>1, <1>5 DEF GlInv, Bound
<1>12. PlayingRuns'
  <2>1. CASE Playing' = Requested /\ audio' = "write"
             /\ Requested # NoPatch
    <3>1. script.pc = "none"
      BY <2>1, PlayerIdle DEF GlInv, Scripting
    <3> QED
      BY <1>1, <2>1, <3>1 DEF GlInv, Roles, RequestedRuns, PlayingRuns, MachineOf, Due,
         Runs,
         Starting, Swapping
  <2>2. CASE UNCHANGED Playing
    BY <1>1, <1>3, <1>7, <2>2 DEF GlInv, Roles, PlayingRuns, MachineOf, Due, Runs, Starting,
       NoSwapper, Swapping
  <2> QED
    BY <1>4, <2>1, <2>2
<1>13. RequestedRuns'
  BY <1>1, <1>3, <1>4 DEF GlInv, Roles, RequestedRuns, MachineOf, Due, Runs, NoSwapper
<1>14. FadingRuns'
  <2>1. audio = "read" =>
           MachineOf(Playing) = NoMachine \/ ~gl.init[MachineOf(Playing)]
    BY <1>1 DEF GlInv, Roles, PlayingRuns, Runs, Starting, Swapping, SwapperAt
  <2> QED
    BY <1>1, <1>4, <2>1 DEF GlInv, Roles, FadingRuns, MachineOf
<1> QED
  BY <1>2, <1>8, <1>9, <1>10, <1>11, <1>12, <1>13, <1>14 DEF GlInv, Roles

(* A step of gestlive_update: while it runs, the patch that plays is the    *)
(* one that it runs for, and nobody else reads or writes a machine.         *)
LEMMA SwapperStep ==
    ASSUME Disciplined, GlInv, SwapperInit \/ UpdateSwap \/ UpdateBoot \/ UpdateDone
    PROVE  GlInv'
<1>1. UNCHANGED <<vars, gest, script>> /\ swp.pc # "off"
  BY DEF SwapperInit, UpdateSwap, UpdateBoot, UpdateDone, Swapper
<1>2. Inv' /\ UNCHANGED <<Playing, Fading, Requested>>
  BY <1>1, InvStep DEF GlInv, vars, Playing, Fading, Requested, Swapping, Deck
<1>3. script.pc = "none" /\ audio = "fadeout" /\ ~Swapping /\ gl.please_swap
  BY <1>1 DEF GlInv, Scripting, SwapperAt, Swapping
<1>4. Scripting'
  BY <1>1, <1>3 DEF GlInv, Scripting, vars
<1>5. Bound'
  BY <1>1 DEF GlInv, Bound, vars
<1>6. RequestedRuns'
  BY <1>1, <1>2 DEF GlInv, Roles, RequestedRuns, MachineOf
<1> USE DEF GlInv, GlTyped, GlTypeOK, SwapperPcs, SomeMachine, NoSwapper, Swapper,
            SwapperAt,
            Roles, PlayingRuns, FadingRuns, MachineOf, Runs, Due, Starting, vars
<1>7. CASE SwapperInit
  <2>1. GlTyped'
    BY <1>1, <1>3, <1>7 DEF SwapperInit
  <2>2. SwapperAt' /\ PlayingRuns' /\ FadingRuns'
    BY <1>1, <1>2, <1>3, <1>7 DEF SwapperInit
  <2> QED
    BY <1>2, <1>4, <1>5, <1>6, <2>1, <2>2
<1>8. CASE UpdateSwap
  <2>1. GlTyped'
    BY <1>1, <1>3, <1>8 DEF UpdateSwap
  <2>2. SwapperAt' /\ PlayingRuns' /\ FadingRuns'
    BY <1>1, <1>2, <1>3, <1>8 DEF UpdateSwap
  <2> QED
    BY <1>2, <1>4, <1>5, <1>6, <2>1, <2>2
<1>9. CASE UpdateBoot
  <2>1. GlTyped'
    BY <1>1, <1>3, <1>9 DEF UpdateBoot
  <2>2. SwapperAt' /\ PlayingRuns' /\ FadingRuns'
    BY <1>1, <1>2, <1>3, <1>9 DEF UpdateBoot
  <2> QED
    BY <1>2, <1>4, <1>5, <1>6, <2>1, <2>2
<1>10. CASE UpdateDone
  <2>1. GlTyped'
    BY <1>1, <1>3, <1>10 DEF UpdateDone
  <2>2. SwapperAt' /\ PlayingRuns' /\ FadingRuns'
    BY <1>1, <1>2, <1>3, <1>10 DEF UpdateDone
  <2> QED
    BY <1>2, <1>4, <1>5, <1>6, <2>1, <2>2
<1> QED
  BY <1>7, <1>8, <1>9, <1>10

------------------------------------------------------------------------------
(* The invariant, and what it gives a script.                               *)

(* At the start no machine has a program.                                   *)
LEMMA GlInvInit == Init /\ GlInit => GlInv
<1> SUFFICES ASSUME Init, GlInit  PROVE GlInv
  OBVIOUS
<1>1. Inv
  BY InvInit
<1>2. GlTyped
  BY DEF GlInit, GlTyped, GlTypeOK, Unbound, NoScript, NoSwapper, ScriptPcs, SwapperPcs,
     SomeMachine
<1>3. Playing = NoPatch /\ Fading = NoPatch /\ Requested = NoPatch
  BY PlayerInit DEF Player!Init
<1>4. Scripting /\ SwapperAt /\ Bound
  BY DEF Init, GlInit, Scripting, SwapperAt, Bound, NoScript, NoSwapper, Unbound
<1>5. Roles
  BY <1>3 DEF Roles, PlayingRuns, RequestedRuns, FadingRuns, MachineOf
<1> QED
  BY <1>1, <1>2, <1>4, <1>5 DEF GlInv

(* Every step keeps it.                                                     *)
LEMMA GlInvStep == Disciplined /\ GlInv /\ [GlControl \/ GlAudio]_allVars => GlInv'
<1> SUFFICES ASSUME Disciplined, GlInv, [GlControl \/ GlAudio]_allVars  PROVE GlInv'
  OBVIOUS
<1>1. CASE GlControl
  BY <1>1, GestureCommand, HotswapCommand, HandOver DEF GlControl
<1>2. CASE GlAudio
  BY <1>2, RenderStep, SwapperStep DEF GlAudio
<1>3. CASE UNCHANGED allVars
  <2>1. Inv' /\ UNCHANGED <<Playing, Fading, Requested>>
    BY <1>3, InvStep DEF allVars, GlInv, vars, Playing, Fading, Requested, Swapping, Deck
  <2>2. GlTyped' /\ Scripting' /\ SwapperAt' /\ Bound'
    BY <1>3, <2>1 DEF allVars, glVars, vars, GlInv, GlTyped, GlTypeOK, Scripting, SwapOver,
       SwapperAt, Bound, MachineOf
  <2>3. Roles'
    BY <1>3, <2>1 DEF allVars, glVars, vars, GlInv, Roles, PlayingRuns, RequestedRuns,
       FadingRuns,
       MachineOf, Runs, Due, Starting, Swapping
  <2> QED
    BY <2>1, <2>2, <2>3 DEF GlInv
<1> QED
  BY <1>1, <1>2, <1>3

(* From glget to the swap of the machines, no interleaving of a disciplined *)
(* script with the JACK thread and the swapper node in it leaves the        *)
(* invariant.                                                               *)
THEOREM GestLiveSound == Disciplined /\ GlSpec => []GlInv
<1>1. Disciplined /\ Init /\ GlInit => Disciplined /\ GlInv
  BY GlInvInit
<1>2. (Disciplined /\ GlInv) /\ [GlControl \/ GlAudio]_allVars => (Disciplined /\ GlInv)'
  BY GlInvStep DEF Disciplined
<1> QED
  BY <1>1, <1>2, PTL DEF GlSpec

(* The fields of gestlive keep their types, and its two pointers point to   *)
(* different machines.                                                      *)
THEOREM GestLiveTyped == Disciplined /\ GlSpec => []GlTypeOK
<1>1. GlInv => GlTypeOK
  BY DEF GlInv, GlTyped
<1> QED
  BY GestLiveSound, <1>1, PTL

(* A patch that plays computes its gestures with the program written for    *)
(* it: gestvmload, gestlive_update and the boot of a machine never touch    *)
(* the one it runs on.                                                      *)
THEOREM ProgramKept == Disciplined /\ GlSpec => []ProgramInPlace
<1>1. ASSUME GlInv  PROVE ProgramInPlace
  <2>1. SUFFICES ASSUME audio = "play", NEW p \in Nodes(hs.read), gest[p].mach # NoMachine
                 PROVE  ram[gest[p].mach] = p
    BY DEF ProgramInPlace, InPlace
  <2>2. p = Playing /\ p # NoPatch
    BY <1>1, <2>1, OnCables, NoPatchAssumption DEF GlInv, Inv, Typed, TypeOK
  <2> QED
    BY <1>1, <2>1, <2>2 DEF GlInv, Roles, PlayingRuns, Runs, Due, MachineOf
<1> QED
  BY GestLiveSound, <1>1, PTL

(* glget hands out a machine that no patch on either cable uses, and no     *)
(* patch comes to use it while the script has it.                           *)
THEOREM WriterUnused == Disciplined /\ GlSpec => []WriterOnDeck
<1>1. ASSUME GlInv  PROVE WriterOnDeck
  <2>1. SUFFICES ASSUME script.mach # NoMachine, NEW c \in Cabs, NEW p \in Nodes(c),
                        p # script.patch
                 PROVE  gest[p].mach # script.mach
    BY DEF WriterOnDeck
  <2>2. /\ script.pc # "none" /\ script.mach = gl.write /\ SwapOver /\ swp.pc = "off"
        /\ ctl.patch # NoPatch => ctl.patch = script.patch
    BY <1>1, <2>1 DEF GlInv, Scripting, NoScript
  <2>3. p = Playing /\ p # NoPatch
    BY <1>1, <2>1, <2>2, OnCables, NoPatchAssumption DEF GlInv
  <2> QED
    BY <1>1, <2>2, <2>3 DEF GlInv, GlTyped, GlTypeOK, Roles, PlayingRuns, Runs, MachineOf
<1> QED
  BY GestLiveSound, <1>1, PTL

(* Every step is a step of the double buffer or none of its business.       *)
LEMMA BufferStep ==
    GlInv /\ [GlControl \/ GlAudio]_allVars => [Machinery!Next]_(Machinery!vars)
<1> SUFFICES ASSUME GlInv, [GlControl \/ GlAudio]_allVars
             PROVE  [Machinery!Next]_(Machinery!vars)
  OBVIOUS
<1> USE DEF Machinery!vars, Updating
<1>1. /\ gl.read \in Machines /\ gl.write \in Machines /\ gl.read # gl.write
      /\ gl.please_swap \in BOOLEAN /\ ram \in [Machines -> Patches \cup {NoPatch}]
      /\ gl \in [read : Machines, write : Machines, please_swap : BOOLEAN,
                 init : [Machines -> BOOLEAN]]
      /\ swp \in [pc : SwapperPcs, node : SomeMachine]
  BY DEF GlInv, GlTyped, GlTypeOK
<1>2. CASE GestVmLoad
  <2>1. /\ script.pc = "got" /\ UNCHANGED <<gl, swp>>
        /\ ram' = [ram EXCEPT ![script.mach] = script.patch]
    BY <1>2 DEF GestVmLoad, ScriptAt
  <2>2. /\ script.patch \in Patches /\ script.mach = gl.write
        /\ swp.pc = "off" /\ ~gl.please_swap
    BY <2>1 DEF GlInv, Scripting
  <2>3. Machinery!Write(script.patch)
    BY <1>1, <2>1, <2>2 DEF Machinery!Write
  <2> QED
    BY <2>2, <2>3 DEF Machinery!Next
<1>3. CASE GlDone
  <2>1. script.pc = "swapper" /\ UNCHANGED <<ram, swp>> /\ swp.pc = "off"
    BY <1>3 DEF GlDone, ScriptAt, GlInv, Scripting
  <2>2. gl'.please_swap /\ gl'.read = gl.read /\ gl'.write = gl.write
    BY <1>1, <1>3 DEF GlDone
  <2>3. Machinery!Signal
    BY <2>1, <2>2 DEF Machinery!Signal
  <2> QED
    BY <2>3 DEF Machinery!Next
<1>4. CASE GlReset
  <2>1. UNCHANGED <<ram, swp>> /\ swp.pc = "off"
    BY <1>4 DEF GlReset, Pending, ScriptAt
  <2>2. ~gl'.please_swap /\ gl'.read = gl.read /\ gl'.write = gl.write
    BY <1>1, <1>4 DEF GlReset
  <2>3. Machinery!Unlock
    BY <2>1, <2>2 DEF Machinery!Unlock
  <2> QED
    BY <2>3 DEF Machinery!Next
<1>5. CASE GlSwapper
  <2>1. UNCHANGED <<ram, swp>>
    BY <1>5 DEF GlSwapper, ScriptAt
  <2>2. UNCHANGED <<gl.read, gl.write, gl.please_swap>>
    BY <1>1, <1>5 DEF GlSwapper
  <2> QED
    BY <2>1, <2>2
<1>6. ASSUME \/ \E p \in Patches : GlGet(p) \/ OutNode(p)
             \/ GestVmNode \/ Fail \/ SavePatch \/ AskForSwap \/ OtherCommand
      PROVE  UNCHANGED Machinery!vars
  <2>1. UNCHANGED <<gl, ram, swp>>
    BY <1>6 DEF GlGet, OutNode, GestVmNode, Fail, SavePatch, AskForSwap, OtherCommand,
       ScriptAt,
       glVars
  <2> QED
    BY <2>1
<1>7. CASE Render
  <2>1. UNCHANGED <<gl, ram>> /\ swp.pc = "off" /\ swp'.pc \in {"off", "init"}
    BY <1>7 DEF Render, NoSwapper
  <2> QED
    BY <2>1
<1>8. CASE SwapperInit
  <2>1. /\ swp.pc = "init" /\ swp'.pc \in {"swap", "off"} /\ UNCHANGED ram
        /\ UNCHANGED <<gl.read, gl.write, gl.please_swap>>
    BY <1>1, <1>8 DEF SwapperInit, Swapper, NoSwapper
  <2> QED
    BY <2>1
<1>9. CASE UpdateSwap
  <2>1. /\ swp.pc = "swap" /\ swp'.pc = "boot" /\ UNCHANGED ram
        /\ gl'.read = gl.write /\ gl'.write = gl.read
    BY <1>1, <1>9 DEF UpdateSwap, Swapper
  <2>2. gl.please_swap
    BY <2>1 DEF GlInv, SwapperAt
  <2>3. Machinery!Swap
    BY <2>1, <2>2 DEF Machinery!Swap
  <2> QED
    BY <2>3 DEF Machinery!Next
<1>10. CASE UpdateBoot
  <2>1. swp.pc = "boot" /\ swp'.pc = "unlock" /\ UNCHANGED gl
    BY <1>1, <1>10 DEF UpdateBoot, Swapper
  <2>2. ram'[gl.read] = ram[gl.read] /\ ram'[gl.write] = NoPatch
    BY <1>1, <1>10 DEF UpdateBoot
  <2> QED
    BY <2>1, <2>2
<1>11. CASE UpdateDone
  <2>1. swp.pc = "unlock" /\ swp'.pc = "off" /\ UNCHANGED ram
    BY <1>11 DEF UpdateDone, Swapper, NoSwapper
  <2>2. ~gl'.please_swap /\ gl'.read = gl.read /\ gl'.write = gl.write
    BY <1>1, <1>11 DEF UpdateDone
  <2> QED
    BY <2>1, <2>2
<1>12. CASE UNCHANGED allVars
  BY <1>12 DEF allVars, glVars
<1> QED
  BY <1>2, <1>3, <1>4, <1>5, <1>6, <1>7, <1>8, <1>9, <1>10, <1>11, <1>12
     DEF GlControl, GlAudio

(* To a script, the four steps in which the JACK thread swaps the machines  *)
(* and boots one are one exchange of two buffers: it sees neither a machine *)
(* in two roles nor a signal taken back before the program is in front.     *)
THEOREM GestLiveIsDoubleBuffer == Disciplined /\ GlSpec => ImplementsDoubleBuffer
<1>1. Init /\ GlInit => Machinery!Init
  BY DEF GlInit, Machinery!Init, NoSwapper, Updating
<1>2. GlInv /\ [GlControl \/ GlAudio]_allVars => [Machinery!Next]_(Machinery!vars)
  BY BufferStep
<1> QED
  BY GestLiveSound, <1>1, <1>2, PTL DEF GlSpec, ImplementsDoubleBuffer, Machinery!Spec
==============================================================================
