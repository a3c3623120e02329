--------------------------------- MODULE HsNode ---------------------------------
(***************************************************************************)
(* The two ways a hotswapper is rendered (core/hotswap.org).  In real time *)
(* mno_hotswap_render computes and mixes sample by sample.  In a patch     *)
(* that is rendered to a file, or inside another patch, an hsnode computes *)
(* the block and counts it in one go, and any number of hsget nodes later  *)
(* mix it from what the hsnode saved.  Here both are given the same        *)
(* commands, between blocks, and each renders its own mno_hotswap.         *)
(*                                                                         *)
(* A cable is the patch whose nodes it holds; a sample names the blocks it *)
(* is mixed from and the gain as a fraction, cnt / size.                   *)
(***************************************************************************)
EXTENDS Integers

CONSTANTS
    Patches,
    NoPatch,    \* an empty cable, or silence
    BlkSize,    \* samples of a block (64)
    CfSizes     \* crossfade lengths that hscfsz may set, in samples

ASSUME NoPatchAssumption == NoPatch \notin Patches
ASSUME BlkSizeAssumption == BlkSize \in Nat \ {0}
ASSUME CfSizesAssumption == CfSizes # {} /\ CfSizes \subseteq Nat \ {0}

VARIABLES
    rt,         \* the mno_hotswap that mno_hotswap_render renders
    node,       \* the one that hsnode and hsget render
    heard,      \* the last block of each
    faded,      \* the samples of the fade under way, or of the last one
    resized     \* whether hscfsz came in the middle of that fade
vars == <<rt, node, heard, faded, resized>>

Samples == 0 .. BlkSize - 1
Silence == [new |-> NoPatch, old |-> NoPatch, cnt |-> 0, size |-> 0]

\* mno_hotswap_init.
NewHotswap(size) ==
    [read |-> NoPatch, write |-> NoPatch, please_swap |-> FALSE, play |-> TRUE,
     cfstate |-> "standby", cfcnt |-> 0, cfsz |-> size,
     pcfcnt |-> 0, pcfstate |-> "standby"]

Init ==
    /\ \E size \in CfSizes : rt = NewHotswap(size) /\ node = NewHotswap(size)
    /\ heard = [rt |-> [n \in Samples |-> Silence], node |-> [n \in Samples |-> Silence]]
    /\ faded = 0 /\ resized = FALSE

------------------------------------------------------------------------------
(* Computing a block.                                                       *)

Reaped(h) ==
    IF h.cfstate = "done" THEN [h EXCEPT !.write = NoPatch, !.cfstate = "standby"] ELSE h

Swapped(h) ==
    LET s == [h EXCEPT !.read = h.write, !.write = h.read, !.please_swap = FALSE]
    IN  CASE h.cfstate = "none" -> [s EXCEPT !.write = NoPatch]
          [] h.cfstate = "standby" -> [s EXCEPT !.cfstate = "compute", !.cfcnt = 0]
          [] OTHER -> s

\* mno_hotswap_compute.
Computed(h) == LET r == Reaped(h) IN IF r.please_swap THEN Swapped(r) ELSE r

Mixed(h, fading, cnt) ==
    IF fading THEN [new |-> h.read, old |-> h.write, cnt |-> cnt, size |-> h.cfsz]
    ELSE [new |-> h.read, old |-> NoPatch, cnt |-> 0, size |-> 0]

\* The fade has gone on for so many samples.
Counted(h, samples) ==
    IF h.cfstate # "compute" THEN h
    ELSE [h EXCEPT !.cfcnt = @ + samples,
                   !.cfstate = IF h.cfcnt + samples >= h.cfsz THEN "done" ELSE @]

\* mno_hotswap_render, for the frames of a block: the hotswapper as each
\* sample finds it.
Frames(h) ==
    LET f[n \in 0 .. BlkSize] ==
            IF n = 0 THEN Computed(h) ELSE Counted(f[n - 1], 1)
    IN  f

\* Mutant of HsCompute: the crossfade state is saved after it was counted on.
HsComputeSaveLast(h) ==
    IF ~h.play THEN h
    ELSE LET c == Counted(Computed(h), BlkSize)
         IN  [c EXCEPT !.pcfstate = c.cfstate, !.pcfcnt = c.cfcnt]

\* hs_compute.
HsCompute(h) ==
    IF ~h.play THEN h
    ELSE LET c == Computed(h)
         IN  Counted([c EXCEPT !.pcfstate = c.cfstate, !.pcfcnt = c.cfcnt], BlkSize)

\* Mutant of HsGet: takes the crossfade state as it is now.
HsGetNow(h) ==
    [n \in Samples |->
       IF ~h.play THEN Silence
       ELSE Mixed(h, h.cfstate = "compute" /\ h.cfcnt + n < h.cfsz, h.cfcnt + n)]

\* hs_get_compute: mixes from the saved count on, until it reaches the length
\* of the fade; that is looked at after a sample, never before the first.
HsGet(h) ==
    [n \in Samples |->
       IF ~h.play THEN Silence
       ELSE Mixed(h, h.pcfstate = "compute" /\ (n = 0 \/ h.pcfcnt + n < h.cfsz),
                  h.pcfcnt + n)]

RtGet(h) ==
    [n \in Samples |->
       IF ~h.play THEN Silence
       ELSE LET g == Frames(h)[n] IN Mixed(g, g.cfstate = "compute", g.cfcnt)]

RtRender(h) == IF h.play THEN Frames(h)[BlkSize] ELSE h

------------------------------------------------------------------------------
(* Commands, between blocks.                                                *)

Over(h) == ~h.please_swap /\ h.cfstate \in {"none", "standby"}

Command(new(_)) == rt' = new(rt) /\ node' = new(node) /\ UNCHANGED heard

\* Mutant of HsSwp: asks while the last patch still fades out.
HsSwpAnyTime(p) ==
    /\ ~node.please_swap /\ p \notin {node.read, node.write}
    /\ Command(LAMBDA h : [h EXCEPT !.write = p, !.please_swap = TRUE])
    /\ UNCHANGED <<faded, resized>>

\* hsout and hsswp of a patch, by a script that lets the last swap finish.
HsSwp(p) ==
    /\ Over(node) /\ p # node.read
    /\ Command(LAMBDA h : [h EXCEPT !.write = p, !.please_swap = TRUE])
    /\ UNCHANGED <<faded, resized>>

HsTog == Command(LAMBDA h : [h EXCEPT !.play = ~@]) /\ UNCHANGED <<faded, resized>>

HsCf(mode) ==
    /\ Over(node)
    /\ Command(LAMBDA h : IF mode THEN [h EXCEPT !.cfstate = "standby"]
                          ELSE IF h.cfstate = "standby" THEN [h EXCEPT !.cfstate = "none"]
                          ELSE h)
    /\ UNCHANGED <<faded, resized>>

HsCfSz(size) ==
    /\ Command(LAMBDA h : [h EXCEPT !.cfsz = size])
    /\ resized' = (resized \/ (node.cfstate \in {"compute", "done"} /\ size # node.cfsz))
    /\ UNCHANGED faded

\* One block of both.  faded counts the samples the hsget mixed.
Block ==
    /\ rt' = RtRender(rt)
    /\ node' = HsCompute(node)
    /\ heard' = [rt |-> RtGet(rt), node |-> HsGet(node')]
    /\ LET starts == node.play /\ node.please_swap
           mixed == {n \in Samples : heard'.node[n].size # 0}
       IN  /\ faded' = (IF starts THEN 0 ELSE faded)
                       + (IF mixed = {} THEN 0
                          ELSE 1 + CHOOSE n \in mixed : \A k \in mixed : k <= n)
           /\ resized' = (resized /\ ~starts)

Next ==
    \/ \E p \in Patches : HsSwp(p)
    \/ HsTog \/ \E mode \in BOOLEAN : HsCf(mode) \/ \E size \in CfSizes : HsCfSz(size)
    \/ Block

\* A file is rendered to its end.
Spec == Init /\ [][Next]_vars /\ WF_vars(Block)

------------------------------------------------------------------------------
CrossfadeStates == {"none", "standby", "compute", "done"}

Hotswaps ==
    [read : Patches \cup {NoPatch}, write : Patches \cup {NoPatch},
     please_swap : BOOLEAN, play : BOOLEAN, cfstate : CrossfadeStates, cfcnt : Nat,
     cfsz : CfSizes, pcfcnt : Nat, pcfstate : CrossfadeStates]

(* Both hotswappers keep their types, and a file's fade is never saved to   *)
(* hsget as one that has ended.                                             *)
TypeOK ==
    /\ rt \in Hotswaps /\ node \in Hotswaps
    /\ node.pcfstate # "done"
    /\ faded \in Nat /\ resized \in BOOLEAN

(* A patch sounds the same in a file as it does live: sample by sample the  *)
(* two renderers mix the same blocks with the same gain, also when a fade   *)
(* ends inside a block or changes its length under way.                     *)
SameMix == heard.rt = heard.node

(* A fade that is left alone mixes each sample with a gain from 0 to less   *)
(* than 1 that grows by one step a sample, from block to block too.         *)
GainGrows ==
    [][Block /\ ~resized' /\ heard'.node[0].size # 0 =>
         /\ heard'.node[0].cnt = IF node.please_swap THEN 0 ELSE faded
         /\ \A n \in Samples : heard'.node[n].size # 0 =>
               /\ heard'.node[n].cnt < node.cfsz
               /\ n > 0 => heard'.node[n].cnt = heard'.node[n - 1].cnt + 1]_vars

Player == INSTANCE PatchPlayer
          WITH playing <- node.read,
               fading <- IF node.please_swap THEN NoPatch ELSE node.write,
               requested <- IF node.please_swap THEN node.write ELSE NoPatch

(* An hsnode is the player of PatchPlayer too.                              *)
ImplementsPlayer == Player!Spec

==============================================================================
