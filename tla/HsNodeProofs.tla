------------------------------ MODULE HsNodeProofs ------------------------------
(***************************************************************************)
(* A patch sounds the same rendered to a file as it does live, for every   *)
(* block size and every length of a fade: the hotswapper counts a fade     *)
(* sample by sample in real time and block by block in an hsnode, and both *)
(* mix the same samples with the same gain.                                *)
(***************************************************************************)
EXTENDS HsNode, WellFoundedInduction, TLAPS

\* What the two have in common at the end of a block.
Alike ==
    /\ rt.read = node.read /\ rt.write = node.write
    /\ rt.please_swap = node.please_swap /\ rt.play = node.play
    /\ rt.cfstate = node.cfstate /\ rt.cfsz = node.cfsz
    /\ node.cfstate = "compute" => rt.cfcnt = node.cfcnt

\* A patch that is asked for waits on a cable that was empty.
Cables ==
    /\ node.please_swap => node.cfstate \in {"none", "standby"} /\ node.write # NoPatch
    /\ Over(node) => node.write = NoPatch

\* The fade has lasted as long as hsget has heard it.
InStep ==
    node.cfstate = "compute" /\ ~resized => faded = node.cfcnt /\ faded < node.cfsz

\* The inductive invariant.
Inv == TypeOK /\ Alike /\ Cables /\ InStep /\ SameMix

------------------------------------------------------------------------------
(* Induction.                                                               *)

(* Every nonempty set of numbers has a least one.                           *)
LEMMA Least ==
    ASSUME NEW T \in SUBSET Nat, T # {}
    PROVE  \E m \in T : \A n \in T : m <= n
<1> DEFINE R == OpToRel(<, Nat)
<1>1. IsWellFoundedOn(R, Nat)
  BY NatLessThanWellFounded
<1>2. \A m, n \in Nat : <<m, n>> \in R <=> m < n
  BY DEF OpToRel
<1> HIDE DEF R
<1>3. PICK m \in T : \A n \in T : <<n, m>> \notin R
  BY <1>1, WFMin
<1>4. \A n \in T : ~ (n < m)
  BY <1>2, <1>3
<1> QED
  BY <1>4

(* A set with 0 and every successor has every number.                       *)
LEMMA Induction ==
    ASSUME NEW T, 0 \in T, \A n \in Nat : n \in T => n + 1 \in T
    PROVE  Nat \subseteq T
<1> SUFFICES ASSUME Nat \ T # {}  PROVE FALSE
  OBVIOUS
<1>1. PICK m \in Nat \ T : \A n \in Nat \ T : m <= n
  BY Least
<1>2. m # 0 /\ m - 1 \in Nat
  BY <1>1
<1>3. m - 1 \in T
  BY <1>1, <1>2
<1> QED
  BY <1>1, <1>2, <1>3

------------------------------------------------------------------------------
(* The samples of a block.                                                  *)

\* c, further into its fade.
Fade(c, cnt, state) == [c EXCEPT !.cfcnt = cnt, !.cfstate = state]

\* The hotswapper n samples into a block that starts with it as c.
After(c, n) ==
    IF c.cfstate # "compute" THEN c
    ELSE IF n = 0 \/ c.cfcnt + n < c.cfsz THEN Fade(c, c.cfcnt + n, "compute")
    ELSE Fade(c, IF c.cfcnt < c.cfsz THEN c.cfsz ELSE c.cfcnt + 1, "done")

(* The lengths of a fade are positive numbers.                              *)
LEMMA Lengths == \A size \in CfSizes : size \in Nat /\ size > 0
  BY CfSizesAssumption

(* Its counter and its state are what a fade changes.                       *)
LEMMA FadeFields ==
    ASSUME NEW c \in Hotswaps, NEW cnt \in Nat, NEW state \in CrossfadeStates
    PROVE  /\ Fade(c, cnt, state) \in Hotswaps
           /\ Fade(c, cnt, state).cfcnt = cnt /\ Fade(c, cnt, state).cfstate = state
           /\ Fade(c, cnt, state).cfsz = c.cfsz
           /\ Fade(c, cnt, state).read = c.read /\ Fade(c, cnt, state).write = c.write
           /\ Fade(c, cnt, state).play = c.play
           /\ Fade(c, cnt, state).please_swap = c.please_swap
  BY DEF Fade, Hotswaps

(* The last of two is what counts.                                          *)
LEMMA FadeTwice ==
    ASSUME NEW c \in Hotswaps, NEW cnt, NEW state, NEW cnt2, NEW state2
    PROVE  /\ Fade(Fade(c, cnt, state), cnt2, state2) = Fade(c, cnt2, state2)
           /\ Fade(c, c.cfcnt, c.cfstate) = c
  BY DEF Fade, Hotswaps

(* Counting is such a step.                                                 *)
LEMMA CountedFades ==
    ASSUME NEW h \in Hotswaps, NEW k \in Nat, h.cfstate = "compute"
    PROVE  Counted(h, k) = Fade(h, h.cfcnt + k,
    IF h.cfcnt + k >= h.cfsz THEN "done" ELSE "compute")
  BY DEF Counted, Fade, Hotswaps

(* It takes a sample at a time to get there.                                *)
LEMMA AfterCounts ==
    ASSUME NEW c \in Hotswaps, NEW n \in Nat
    PROVE  After(c, 0) = c /\ Counted(After(c, n), 1) = After(c, n + 1)
<1>1. c.cfcnt \in Nat /\ c.cfsz \in Nat /\ c.cfsz > 0
  BY Lengths DEF Hotswaps
<1>2. After(c, 0) = c
  BY <1>1, FadeTwice DEF After
<1>3. CASE c.cfstate # "compute"
  BY <1>2, <1>3 DEF After, Counted
<1>4. CASE c.cfstate = "compute" /\ (n = 0 \/ c.cfcnt + n < c.cfsz)
  <2> DEFINE d == After(c, n)
  <2>1. d = Fade(c, c.cfcnt + n, "compute")
    BY <1>4 DEF After
  <2>2. d \in Hotswaps /\ d.cfcnt = c.cfcnt + n /\ d.cfstate = "compute" /\ d.cfsz = c.cfsz
    <3>1. c.cfcnt + n \in Nat /\ "compute" \in CrossfadeStates
      BY <1>1 DEF CrossfadeStates
    <3> QED
      BY <2>1, <3>1, FadeFields
  <2>3. Counted(d, 1)
          = Fade(d, c.cfcnt + n + 1, IF c.cfcnt + n + 1 >= c.cfsz THEN "done" ELSE "compute")
    BY <2>2, CountedFades
  <2>4. Counted(d, 1)
          = Fade(c, c.cfcnt + n + 1, IF c.cfcnt + n + 1 >= c.cfsz THEN "done" ELSE "compute")
    BY <2>1, <2>3, FadeTwice
  <2>5. After(c, n + 1)
          = Fade(c, c.cfcnt + n + 1, IF c.cfcnt + n + 1 >= c.cfsz THEN "done" ELSE "compute")
    <3>1. CASE c.cfcnt + n + 1 < c.cfsz
      BY <1>1, <1>4, <3>1 DEF After
    <3>2. CASE ~(c.cfcnt + n + 1 < c.cfsz)
      <4>1. (IF c.cfcnt < c.cfsz THEN c.cfsz ELSE c.cfcnt + 1) = c.cfcnt + n + 1
        BY <1>1, <1>4, <3>2
      <4> QED
        BY <1>1, <1>4, <3>2, <4>1 DEF After
    <3> QED
      BY <3>1, <3>2
  <2> QED
    BY <1>2, <2>4, <2>5
<1>5. CASE c.cfstate = "compute" /\ ~(n = 0 \/ c.cfcnt + n < c.cfsz)
  <2> DEFINE k == IF c.cfcnt < c.cfsz THEN c.cfsz ELSE c.cfcnt + 1
  <2>1. After(c, n) = Fade(c, k, "done") /\ After(c, n + 1) = Fade(c, k, "done")
    BY <1>1, <1>5 DEF After
  <2>2. Fade(c, k, "done").cfstate = "done"
    <3>1. k \in Nat /\ "done" \in CrossfadeStates
      BY <1>1 DEF CrossfadeStates
    <3> QED
      BY <3>1, FadeFields
  <2> QED
    BY <1>2, <2>1, <2>2 DEF Counted
<1> QED
  BY <1>3, <1>4, <1>5

(* mno_hotswap_render does get there: its loop computes this function.      *)
LEMMA FramesAfter ==
    ASSUME NEW h, Computed(h) \in Hotswaps
    PROVE  \A n \in 0 .. BlkSize : Frames(h)[n] = After(Computed(h), n)
<1> DEFINE c == Computed(h)
           Step(x) == [n \in 0 .. BlkSize |-> IF n = 0 THEN c ELSE Counted(x[n - 1], 1)]
           g == [n \in 0 .. BlkSize |-> After(c, n)]
           f == Frames(h)
           T == {n \in Nat : n <= BlkSize => f[n] = After(c, n)}
<1>1. f = CHOOSE x : x = Step(x)
  BY DEF Frames
<1>2. c \in Hotswaps /\ BlkSize \in Nat
  BY BlkSizeAssumption
<1> HIDE DEF c, f
<1>3. g = Step(g)
  <2>1. ASSUME NEW n \in 0 .. BlkSize  PROVE g[n] = Step(g)[n]
    <3>1. CASE n = 0
      BY <1>2, <3>1, AfterCounts
    <3>2. CASE n # 0
      <4>1. n - 1 \in 0 .. BlkSize /\ n - 1 \in Nat /\ n = (n - 1) + 1
        BY <1>2, <3>2
      <4>2. Counted(After(c, n - 1), 1) = After(c, (n - 1) + 1)
        BY <1>2, <4>1, AfterCounts
      <4> QED
        BY <3>2, <4>1, <4>2
    <3> QED
      BY <3>1, <3>2
  <2> QED
    BY <2>1
<1>4. f = Step(f)
  BY <1>1, <1>3
<1>5. 0 \in T
  BY <1>2, <1>4, AfterCounts
<1>6. ASSUME NEW n \in Nat, n \in T  PROVE n + 1 \in T
  <2>1. CASE n + 1 > BlkSize
    BY <1>2, <2>1
  <2>2. CASE n + 1 <= BlkSize
    <3>1. f[n + 1] = Counted(f[n], 1)
      <4>1. n + 1 \in 0 .. BlkSize /\ n + 1 # 0 /\ (n + 1) - 1 = n
        BY <1>2, <2>2
      <4> QED
        BY <1>4, <4>1
    <3>2. f[n] = After(c, n)
      BY <1>2, <1>6, <2>2
    <3> QED
      BY <1>2, <3>1, <3>2, AfterCounts
  <2> QED
    BY <1>2, <2>1, <2>2
<1> HIDE DEF T
<1>7. Nat \subseteq T
  BY <1>5, <1>6, Induction
<1> QED
  BY <1>7 DEF T, c, f

------------------------------------------------------------------------------
(* A block.                                                                 *)

(* What mno_hotswap_compute does: it reaps a patch that has faded out, or   *)
(* takes the one that is asked for.                                         *)
LEMMA ComputedFields ==
    ASSUME NEW h \in Hotswaps,
           h.please_swap => h.cfstate \in {"none", "standby"},
           NEW c, c = Computed(h)
    PROVE  /\ c \in Hotswaps /\ c.cfstate # "done" /\ ~c.please_swap
           /\ c.play = h.play /\ c.cfsz = h.cfsz
           /\ ~h.please_swap =>
                 /\ c.read = h.read
                 /\ c.write = IF h.cfstate = "done" THEN NoPatch ELSE h.write
                 /\ c.cfstate = IF h.cfstate = "done" THEN "standby" ELSE h.cfstate
                 /\ c.cfcnt = h.cfcnt
           /\ h.please_swap =>
                 /\ c.read = h.write
                 /\ h.cfstate = "none" => c.write = NoPatch /\ c.cfstate = "none"
                 /\ h.cfstate = "standby" =>
                       c.write = h.read /\ c.cfstate = "compute" /\ c.cfcnt = 0
<1> USE DEF Computed, Reaped, Swapped, Hotswaps, CrossfadeStates
<1>1. CASE h.please_swap /\ h.cfstate = "none"
  BY <1>1
<1>2. CASE h.please_swap /\ h.cfstate = "standby"
  BY <1>2
<1>3. CASE ~h.please_swap /\ h.cfstate = "done"
  BY <1>3
<1>4. CASE ~h.please_swap /\ h.cfstate # "done"
  BY <1>4
<1> QED
  BY <1>1, <1>2, <1>3, <1>4

(* So it does the same to both.                                             *)
LEMMA ComputedAlike ==
    ASSUME TypeOK, Alike, Cables, NEW c, c = Computed(rt), NEW d, d = Computed(node)
    PROVE  /\ c.read = d.read /\ c.write = d.write /\ c.please_swap = d.please_swap
           /\ c.play = d.play /\ c.cfstate = d.cfstate /\ c.cfsz = d.cfsz
           /\ d.cfstate = "compute" => c.cfcnt = d.cfcnt
<1>1. /\ rt \in Hotswaps /\ node \in Hotswaps
      /\ rt.please_swap => rt.cfstate \in {"none", "standby"}
      /\ node.please_swap => node.cfstate \in {"none", "standby"}
  BY DEF TypeOK, Alike, Cables
<1>2. /\ c.play = rt.play /\ c.cfsz = rt.cfsz /\ ~c.please_swap
      /\ ~rt.please_swap =>
            /\ c.read = rt.read
            /\ c.write = IF rt.cfstate = "done" THEN NoPatch ELSE rt.write
            /\ c.cfstate = IF rt.cfstate = "done" THEN "standby" ELSE rt.cfstate
            /\ c.cfcnt = rt.cfcnt
      /\ rt.please_swap =>
            /\ c.read = rt.write
            /\ rt.cfstate = "none" => c.write = NoPatch /\ c.cfstate = "none"
            /\ rt.cfstate = "standby" =>
                  c.write = rt.read /\ c.cfstate = "compute" /\ c.cfcnt = 0
  BY <1>1, ComputedFields
<1>3. /\ d.play = node.play /\ d.cfsz = node.cfsz /\ ~d.please_swap
      /\ ~node.please_swap =>
            /\ d.read = node.read
            /\ d.write = IF node.cfstate = "done" THEN NoPatch ELSE node.write
            /\ d.cfstate = IF node.cfstate = "done" THEN "standby" ELSE node.cfstate
            /\ d.cfcnt = node.cfcnt
      /\ node.please_swap =>
            /\ d.read = node.write
            /\ node.cfstate = "none" => d.write = NoPatch /\ d.cfstate = "none"
            /\ node.cfstate = "standby" =>
                  d.write = node.read /\ d.cfstate = "compute" /\ d.cfcnt = 0
  BY <1>1, ComputedFields
<1>4. c.please_swap \in BOOLEAN /\ d.please_swap \in BOOLEAN
  BY <1>1, ComputedFields DEF Hotswaps
<1> QED
  BY <1>1, <1>2, <1>3, <1>4 DEF Alike

(* The end of a block, in either way of rendering it.                       *)
LEMMA BlockEnds ==
    ASSUME TypeOK, Alike, Cables, Block, node.play,
           NEW d, d = Computed(node),
           NEW ended, ended = (d.cfstate = "compute" /\ d.cfcnt + BlkSize >= d.cfsz)
    PROVE  /\ rt' \in Hotswaps /\ node' \in Hotswaps
           /\ rt'.read = d.read /\ rt'.write = d.write /\ rt'.play = d.play
           /\ rt'.please_swap = d.please_swap /\ rt'.cfsz = d.cfsz
           /\ rt'.cfstate = IF ended THEN "done" ELSE d.cfstate
           /\ node'.read = d.read /\ node'.write = d.write /\ node'.play = d.play
           /\ node'.please_swap = d.please_swap /\ node'.cfsz = d.cfsz
           /\ node'.cfstate = IF ended THEN "done" ELSE d.cfstate
           /\ node'.pcfstate = d.cfstate /\ node'.pcfcnt = d.cfcnt
           /\ node'.cfstate = "compute" =>
                 node'.cfcnt = d.cfcnt + BlkSize /\ rt'.cfcnt = d.cfcnt + BlkSize
<1> DEFINE c == Computed(rt)
           e == [d EXCEPT !.pcfstate = d.cfstate, !.pcfcnt = d.cfcnt]
<1>1. /\ rt \in Hotswaps /\ node \in Hotswaps
      /\ rt.please_swap => rt.cfstate \in {"none", "standby"}
      /\ node.please_swap => node.cfstate \in {"none", "standby"}
  BY DEF TypeOK, Alike, Cables
<1>2. c \in Hotswaps /\ d \in Hotswaps /\ d.cfstate # "done"
  BY <1>1, ComputedFields
<1>3. /\ c.read = d.read /\ c.write = d.write /\ c.please_swap = d.please_swap
      /\ c.play = d.play /\ c.cfstate = d.cfstate /\ c.cfsz = d.cfsz
      /\ d.cfstate = "compute" => c.cfcnt = d.cfcnt
  BY ComputedAlike
<1>4. rt' = After(c, BlkSize) /\ node' = Counted(e, BlkSize)
  <2>1. Frames(rt)[BlkSize] = After(c, BlkSize)
    BY <1>2, FramesAfter, BlkSizeAssumption
  <2> QED
    BY <2>1 DEF Block, RtRender, HsCompute, Alike
<1>5. BlkSize \in Nat /\ BlkSize # 0
  BY BlkSizeAssumption
<1>6. /\ e \in Hotswaps /\ e.read = d.read /\ e.write = d.write /\ e.play = d.play
      /\ e.please_swap = d.please_swap /\ e.cfsz = d.cfsz /\ e.cfstate = d.cfstate
      /\ e.cfcnt = d.cfcnt /\ e.pcfstate = d.cfstate /\ e.pcfcnt = d.cfcnt
  BY <1>2 DEF Hotswaps
<1>7. d.cfcnt \in Nat /\ d.cfsz \in Nat /\ d.cfsz > 0
  BY <1>2, Lengths DEF Hotswaps
<1> HIDE DEF c, e
<1>8. CASE d.cfstate # "compute"
  <2>1. rt' = c /\ node' = e
    BY <1>3, <1>4, <1>6, <1>8 DEF After, Counted
  <2> QED
    BY <1>2, <1>3, <1>6, <1>8, <2>1
<1>9. CASE d.cfstate = "compute"
  <2> DEFINE state == IF d.cfcnt + BlkSize >= d.cfsz THEN "done" ELSE "compute"
             cnt == IF d.cfcnt + BlkSize < d.cfsz THEN d.cfcnt + BlkSize
                    ELSE IF d.cfcnt < d.cfsz THEN d.cfsz ELSE d.cfcnt + 1
  <2>1. rt' = Fade(c, cnt, state)
    BY <1>3, <1>4, <1>5, <1>7, <1>9 DEF After
  <2>2. node' = Fade(e, d.cfcnt + BlkSize, state)
    BY <1>4, <1>5, <1>6, <1>9, CountedFades
  <2>3. cnt \in Nat /\ d.cfcnt + BlkSize \in Nat /\ state \in CrossfadeStates
    BY <1>5, <1>7 DEF CrossfadeStates
  <2>4. node'.pcfstate = e.pcfstate /\ node'.pcfcnt = e.pcfcnt
    BY <1>6, <2>2 DEF Fade, Hotswaps
  <2>5. state = "compute" => cnt = d.cfcnt + BlkSize
    BY <1>5, <1>7
  <2>6. state = IF ended THEN "done" ELSE d.cfstate
    BY <1>9
  <2> HIDE DEF cnt, state
  <2>7. /\ rt' \in Hotswaps /\ rt'.cfcnt = cnt /\ rt'.cfstate = state /\ rt'.cfsz = c.cfsz
        /\ rt'.read = c.read /\ rt'.write = c.write
        /\ rt'.play = c.play /\ rt'.please_swap = c.please_swap
    BY <1>2, <2>1, <2>3, FadeFields
  <2>8. /\ node' \in Hotswaps /\ node'.cfcnt = d.cfcnt + BlkSize /\ node'.cfstate = state
        /\ node'.cfsz = e.cfsz /\ node'.read = e.read /\ node'.write = e.write
        /\ node'.play = e.play /\ node'.please_swap = e.please_swap
    BY <1>6, <2>2, <2>3, FadeFields
  <2> QED
    BY <1>3, <1>6, <2>4, <2>5, <2>6, <2>7, <2>8
<1> QED
  BY <1>8, <1>9

(* What is heard of it: the fade goes into a sample until it has lasted as  *)
(* long as it should, and there is one sample of it at least.               *)
LEMMA BlockHeard ==
    ASSUME TypeOK, Alike, Cables, Block, node.play, NEW d, d = Computed(node)
    PROVE  \A n \in Samples :
              /\ heard'.node[n]
                   = Mixed(d, d.cfstate = "compute" /\ (n = 0 \/ d.cfcnt + n < d.cfsz),
                           d.cfcnt + n)
              /\ heard'.rt[n] = heard'.node[n]
<1> DEFINE c == Computed(rt)
<1>1. /\ rt \in Hotswaps /\ node \in Hotswaps /\ rt.play
      /\ rt.please_swap => rt.cfstate \in {"none", "standby"}
      /\ node.please_swap => node.cfstate \in {"none", "standby"}
  BY DEF TypeOK, Alike, Cables
<1>2. c \in Hotswaps /\ d \in Hotswaps /\ d.play = node.play
  BY <1>1, ComputedFields
<1>3. /\ c.read = d.read /\ c.write = d.write /\ c.cfstate = d.cfstate /\ c.cfsz = d.cfsz
      /\ d.cfstate = "compute" => c.cfcnt = d.cfcnt
  BY ComputedAlike
<1>4. /\ node'.read = d.read /\ node'.write = d.write /\ node'.cfsz = d.cfsz
      /\ node'.play /\ node'.pcfstate = d.cfstate /\ node'.pcfcnt = d.cfcnt
  BY <1>2, BlockEnds
<1>5. BlkSize \in Nat /\ c.cfcnt \in Nat /\ c.cfsz \in Nat /\ c.cfsz > 0
  BY <1>2, Lengths, BlkSizeAssumption DEF Hotswaps
<1> SUFFICES ASSUME NEW n \in Samples
             PROVE  /\ heard'.node[n]
                         = Mixed(d, d.cfstate = "compute" /\ (n = 0 \/ d.cfcnt + n < d.cfsz),
                                 d.cfcnt + n)
                    /\ heard'.rt[n] = heard'.node[n]
  OBVIOUS
<1>6. heard'.node[n] = Mixed(d, d.cfstate = "compute" /\ (n = 0 \/ d.cfcnt + n < d.cfsz),
                             d.cfcnt + n)
  BY <1>4 DEF Block, HsGet, Mixed
<1> DEFINE g == Frames(rt)[n]
<1>7. n \in 0 .. BlkSize /\ n \in Nat
  BY <1>5 DEF Samples
<1>8. g = After(c, n)
  BY <1>2, <1>7, FramesAfter
<1>9. heard'.rt[n] = Mixed(g, g.cfstate = "compute", g.cfcnt)
  BY <1>1 DEF Block, RtGet
<1> HIDE DEF c, g
<1>10. CASE d.cfstate = "compute" /\ (n = 0 \/ d.cfcnt + n < d.cfsz)
  <2>1. g = Fade(c, c.cfcnt + n, "compute")
    BY <1>3, <1>8, <1>10 DEF After
  <2>2. c.cfcnt + n \in Nat /\ "compute" \in CrossfadeStates
    BY <1>5, <1>7 DEF CrossfadeStates
  <2>3. /\ g.cfstate = "compute" /\ g.cfcnt = c.cfcnt + n /\ g.cfsz = c.cfsz
        /\ g.read = c.read /\ g.write = c.write
    BY <1>2, <2>1, <2>2, FadeFields
  <2> QED
    BY <1>3, <1>6, <1>9, <1>10, <2>3 DEF Mixed
<1>11. CASE d.cfstate = "compute" /\ ~(n = 0 \/ d.cfcnt + n < d.cfsz)
  <2> DEFINE cnt == IF c.cfcnt < c.cfsz THEN c.cfsz ELSE c.cfcnt + 1
  <2>1. g = Fade(c, cnt, "done")
    BY <1>3, <1>8, <1>11 DEF After
  <2>2. cnt \in Nat /\ "done" \in CrossfadeStates
    BY <1>5 DEF CrossfadeStates
  <2>3. g.cfstate = "done" /\ g.read = c.read
    BY <1>2, <2>1, <2>2, FadeFields
  <2> QED
    BY <1>3, <1>6, <1>9, <1>11, <2>3 DEF Mixed
<1>12. CASE d.cfstate # "compute"
  BY <1>3, <1>6, <1>8, <1>9, <1>12 DEF Mixed, After
<1> QED
  BY <1>6, <1>10, <1>11, <1>12

(* How many samples of a fade there are in it.                              *)
LEMMA BlockFades ==
    ASSUME TypeOK, Alike, Cables, Block, node.play, NEW d, d = Computed(node),
           NEW before, before = (IF node.please_swap THEN 0 ELSE faded)
    PROVE  /\ d.cfstate # "compute" => faded' = before
           /\ d.cfstate = "compute" => faded' \in Nat
           /\ d.cfstate = "compute" /\ d.cfcnt + BlkSize < d.cfsz =>
                 faded' = before + BlkSize
           /\ \A n \in Samples :
                 heard'.node[n].size # 0
                   <=> d.cfstate = "compute" /\ (n = 0 \/ d.cfcnt + n < d.cfsz)
<1> DEFINE mixed == {n \in Samples : heard'.node[n].size # 0}
           last == CHOOSE n \in mixed : \A k \in mixed : k <= n
<1>1. faded' = before + (IF mixed = {} THEN 0 ELSE 1 + last)
  BY DEF Block
<1>2. d \in Hotswaps /\ before \in Nat /\ BlkSize \in Nat /\ BlkSize > 0
  <2>1. node \in Hotswaps /\ (node.please_swap => node.cfstate \in {"none", "standby"})
    BY DEF TypeOK, Cables
  <2> QED
    BY <2>1, ComputedFields, BlkSizeAssumption DEF TypeOK
<1>3. d.cfcnt \in Nat /\ d.cfsz \in Nat /\ d.cfsz > 0
  BY <1>2, Lengths DEF Hotswaps
<1>4. \A n \in Samples :
         heard'.node[n].size # 0
           <=> d.cfstate = "compute" /\ (n = 0 \/ d.cfcnt + n < d.cfsz)
  <2> SUFFICES ASSUME NEW n \in Samples
               PROVE  heard'.node[n].size # 0
                        <=> d.cfstate = "compute" /\ (n = 0 \/ d.cfcnt + n < d.cfsz)
    OBVIOUS
  <2> DEFINE fading == d.cfstate = "compute" /\ (n = 0 \/ d.cfcnt + n < d.cfsz)
  <2>1. heard'.node[n] = Mixed(d, fading, d.cfcnt + n)
    BY BlockHeard
  <2> HIDE DEF fading
  <2>2. heard'.node[n].size = IF fading THEN d.cfsz ELSE 0
    BY <2>1 DEF Mixed
  <2>3. heard'.node[n].size # 0 <=> fading
    BY <1>3, <2>2
  <2> QED
    BY <2>3 DEF fading
<1>5. \A n \in Samples : n \in mixed <=> d.cfstate = "compute" /\ (n = 0 \/ d.cfcnt + n < d.cfsz)
  BY <1>4
<1>6. mixed \subseteq Samples /\ Samples = {n \in Nat : n < BlkSize}
  BY <1>2 DEF Samples
<1> HIDE DEF mixed
<1>7. CASE d.cfstate # "compute"
  <2>1. mixed = {}
    BY <1>5, <1>6, <1>7
  <2> QED
    BY <1>1, <1>2, <1>4, <1>7, <2>1
<1>8. CASE d.cfstate = "compute" /\ d.cfcnt + BlkSize < d.cfsz
  <2>1. mixed = Samples
    <3>1. \A n \in Samples : d.cfcnt + n < d.cfsz
      BY <1>2, <1>3, <1>6, <1>8
    <3> QED
      BY <1>5, <1>6, <1>8, <3>1
  <2>2. BlkSize - 1 \in mixed /\ \A k \in mixed : k <= BlkSize - 1
    BY <1>2, <1>6, <2>1
  <2>3. last = BlkSize - 1
    <3>1. last \in mixed /\ \A k \in mixed : k <= last
      BY <2>2
    <3> HIDE DEF last
    <3>2. last <= BlkSize - 1 /\ BlkSize - 1 <= last /\ last \in Nat
      BY <1>6, <2>2, <3>1
    <3> QED
      BY <1>2, <3>2
  <2> HIDE DEF last
  <2>4. faded' = before + (1 + last)
    BY <1>1, <2>2
  <2>5. faded' = before + BlkSize
    BY <1>2, <2>3, <2>4
  <2> QED
    BY <1>2, <1>4, <1>8, <2>5
<1>9. CASE d.cfstate = "compute" /\ ~(d.cfcnt + BlkSize < d.cfsz)
  <2> DEFINE m == IF d.cfcnt < d.cfsz THEN d.cfsz - 1 - d.cfcnt ELSE 0
  <2>1. m \in mixed /\ \A k \in mixed : k <= m
    BY <1>2, <1>3, <1>5, <1>6, <1>9
  <2>2. last \in mixed
    BY <2>1
  <2> HIDE DEF last
  <2>3. last \in Nat
    BY <1>6, <2>2
  <2>4. faded' = before + (1 + last)
    BY <1>1, <2>2
  <2>5. faded' \in Nat
    <3>1. \A a, b \in Nat : a + (1 + b) \in Nat
      OBVIOUS
    <3> QED
      BY <1>2, <2>3, <2>4, <3>1
  <2> QED
    BY <1>2, <1>4, <1>9, <2>5
<1> QED
  BY <1>7, <1>8, <1>9

(* A block that starts alike ends alike and sounds alike.                   *)
LEMMA BlockStep ==
    ASSUME Inv, Block
    PROVE  Inv'
<1>1. TypeOK /\ Alike /\ Cables /\ InStep
  BY DEF Inv
<1>2. CASE ~node.play
  <2>1. rt' = rt /\ node' = node /\ ~rt.play
    BY <1>1, <1>2 DEF Block, RtRender, HsCompute, Alike
  <2>2. SameMix' /\ \A n \in Samples : heard'.node[n].size = 0
    BY <1>2, <2>1 DEF Block, SameMix, RtGet, HsGet, Silence
  <2>3. faded' = faded /\ resized' = resized
    <3>1. {n \in Samples : heard'.node[n].size # 0} = {}
      BY <2>2
    <3> QED
      BY <1>1, <1>2, <3>1 DEF Block, TypeOK
  <2> QED
    BY <1>1, <2>1, <2>2, <2>3 DEF Inv, TypeOK, Alike, Cables, Over, InStep
<1>3. CASE node.play
  <2> DEFINE d == Computed(node)
             before == IF node.please_swap THEN 0 ELSE faded
             ended == d.cfstate = "compute" /\ d.cfcnt + BlkSize >= d.cfsz
  <2>1. node \in Hotswaps /\ (node.please_swap => node.cfstate \in {"none", "standby"})
    BY <1>1 DEF TypeOK, Cables
  <2>2. /\ rt' \in Hotswaps /\ node' \in Hotswaps
        /\ rt'.read = d.read /\ rt'.write = d.write /\ rt'.play = d.play
        /\ rt'.please_swap = d.please_swap /\ rt'.cfsz = d.cfsz
        /\ rt'.cfstate = IF ended THEN "done" ELSE d.cfstate
        /\ node'.read = d.read /\ node'.write = d.write /\ node'.play = d.play
        /\ node'.please_swap = d.please_swap /\ node'.cfsz = d.cfsz
        /\ node'.cfstate = IF ended THEN "done" ELSE d.cfstate
        /\ node'.pcfstate = d.cfstate /\ node'.pcfcnt = d.cfcnt
        /\ node'.cfstate = "compute" =>
              node'.cfcnt = d.cfcnt + BlkSize /\ rt'.cfcnt = d.cfcnt + BlkSize
    BY <1>1, <1>3, BlockEnds
  <2>3. /\ d.cfstate # "compute" => faded' = before
        /\ d.cfstate = "compute" => faded' \in Nat
        /\ d.cfstate = "compute" /\ d.cfcnt + BlkSize < d.cfsz => faded' = before + BlkSize
    BY <1>1, <1>3, BlockFades
  <2>4. resized' = (resized /\ ~node.please_swap)
    BY <1>3 DEF Block
  <2>5. SameMix'
    <3>1. \A n \in Samples : heard'.rt[n] = heard'.node[n]
      BY <1>1, <1>3, BlockHeard
    <3> QED
      BY <3>1 DEF Block, SameMix, RtGet, HsGet
  <2>6. /\ d \in Hotswaps /\ d.cfstate # "done" /\ ~d.please_swap
        /\ ~node.please_swap =>
              /\ d.write = IF node.cfstate = "done" THEN NoPatch ELSE node.write
              /\ d.cfstate = IF node.cfstate = "done" THEN "standby" ELSE node.cfstate
              /\ d.cfcnt = node.cfcnt
        /\ node.please_swap =>
              /\ node.cfstate = "none" => d.write = NoPatch /\ d.cfstate = "none"
              /\ node.cfstate = "standby" => d.cfstate = "compute" /\ d.cfcnt = 0
    BY <2>1, ComputedFields
  <2>7. /\ d.cfcnt \in Nat /\ d.cfsz \in Nat /\ BlkSize \in Nat /\ BlkSize > 0
        /\ d.cfstate \in CrossfadeStates
    BY <2>6, Lengths, BlkSizeAssumption DEF Hotswaps
  <2> HIDE DEF d
  <2>8. TypeOK'
    BY <1>1, <2>2, <2>3, <2>4, <2>6 DEF TypeOK
  <2>9. Alike'
    BY <2>2 DEF Alike
  <2>10. Cables'
    BY <1>1, <2>1, <2>2, <2>6 DEF Cables, Over
  <2>11. InStep'
    BY <1>1, <2>1, <2>2, <2>3, <2>4, <2>6, <2>7 DEF InStep, TypeOK
  <2> QED
    BY <2>5, <2>8, <2>9, <2>10, <2>11 DEF Inv
<1> QED
  BY <1>2, <1>3

------------------------------------------------------------------------------
(* Commands, and the theorems.                                              *)

(* A command does the same to both, and none touches a fade that is under   *)
(* way but for its length.                                                  *)
LEMMA CommandStep ==
    ASSUME Inv,
           \/ \E p \in Patches : HsSwp(p)
           \/ HsTog \/ (\E mode \in BOOLEAN : HsCf(mode)) \/ (\E size \in CfSizes : HsCfSz(size))
    PROVE  Inv'
<1> USE DEF Inv, TypeOK, Alike, Cables, InStep, SameMix, Hotswaps, Over, Command
<1>1. ASSUME NEW p \in Patches, HsSwp(p)  PROVE Inv'
  <2>1. /\ rt' = [rt EXCEPT !.write = p, !.please_swap = TRUE]
        /\ node' = [node EXCEPT !.write = p, !.please_swap = TRUE]
        /\ UNCHANGED <<heard, faded, resized>> /\ Over(node)
    BY <1>1 DEF HsSwp
  <2> QED
    BY <2>1, NoPatchAssumption
<1>2. CASE HsTog
  <2>1. /\ rt' = [rt EXCEPT !.play = ~@] /\ node' = [node EXCEPT !.play = ~@]
        /\ UNCHANGED <<heard, faded, resized>>
    BY <1>2 DEF HsTog
  <2> QED
    BY <2>1
<1>3. ASSUME NEW mode \in BOOLEAN, HsCf(mode)  PROVE Inv'
  <2>1. Over(node) /\ UNCHANGED <<heard, faded, resized>>
    BY <1>3 DEF HsCf
  <2>2. \/ UNCHANGED <<rt, node>>
        \/ \E state \in {"none", "standby"} :
              /\ rt' = [rt EXCEPT !.cfstate = state]
              /\ node' = [node EXCEPT !.cfstate = state]
    BY <1>3 DEF HsCf
  <2>3. CASE UNCHANGED <<rt, node>>
    BY <2>1, <2>3
  <2>4. ASSUME NEW state \in {"none", "standby"}, rt' = [rt EXCEPT !.cfstate = state],
               node' = [node EXCEPT !.cfstate = state]
        PROVE  Inv'
    BY <2>1, <2>4 DEF CrossfadeStates
  <2> QED
    BY <2>2, <2>3, <2>4
<1>4. ASSUME NEW size \in CfSizes, HsCfSz(size)  PROVE Inv'
  <2>1. /\ rt' = [rt EXCEPT !.cfsz = size] /\ node' = [node EXCEPT !.cfsz = size]
        /\ UNCHANGED <<heard, faded>>
        /\ resized' = (resized \/ (node.cfstate \in {"compute", "done"} /\ size # node.cfsz))
    BY <1>4 DEF HsCfSz
  <2> QED
    BY <2>1
<1> QED
  BY <1>1, <1>2, <1>3, <1>4

(* Two new hotswappers are alike.                                           *)
LEMMA InvInit == Init => Inv
<1> SUFFICES ASSUME NEW size \in CfSizes, Init, rt = NewHotswap(size), node = NewHotswap(size)
             PROVE  Inv
  BY DEF Init
<1>1. rt \in Hotswaps /\ node \in Hotswaps
  BY DEF NewHotswap, Hotswaps, CrossfadeStates
<1>2. TypeOK /\ SameMix
  BY <1>1 DEF Init, NewHotswap, TypeOK, SameMix
<1>3. Alike /\ Cables /\ InStep
  BY DEF NewHotswap, Alike, Cables, Over, InStep
<1> QED
  BY <1>2, <1>3 DEF Inv

(* Every step keeps the invariant.                                          *)
LEMMA InvStep == Inv /\ [Next]_vars => Inv'
<1>1. Inv /\ UNCHANGED vars => Inv'
  BY DEF vars, Inv, TypeOK, Alike, Cables, InStep, SameMix, Over
<1> QED
  BY <1>1, BlockStep, CommandStep DEF Next

(* The invariant, of every behaviour.                                       *)
THEOREM HsNodeSound == Spec => []Inv
  BY InvInit, InvStep, PTL DEF Spec

(* The fields keep their types, and hsget is never shown a fade that has    *)
(* ended.                                                                   *)
THEOREM HsNodeTyped == Spec => []TypeOK
<1>1. Inv => TypeOK
  BY DEF Inv
<1> QED
  BY HsNodeSound, <1>1, PTL

(* Sample by sample a file has the mix that is heard live.                  *)
THEOREM FileSoundsLive == Spec => []SameMix
<1>1. Inv => SameMix
  BY DEF Inv
<1> QED
  BY HsNodeSound, <1>1, PTL

(* A fade whose length is left alone goes on where the block before it left *)
(* off and never goes past its end.                                         *)
THEOREM FadeGoesOn == Spec => GainGrows
<1> DEFINE Grows ==
        Block /\ ~resized' /\ heard'.node[0].size # 0 =>
          /\ heard'.node[0].cnt = IF node.please_swap THEN 0 ELSE faded
          /\ \A n \in Samples : heard'.node[n].size # 0 =>
                /\ heard'.node[n].cnt < node.cfsz
                /\ n > 0 => heard'.node[n].cnt = heard'.node[n - 1].cnt + 1
<1>1. Inv /\ [Next]_vars => Grows
  <2> SUFFICES ASSUME Inv, Block, ~resized', heard'.node[0].size # 0
               PROVE  /\ heard'.node[0].cnt = IF node.please_swap THEN 0 ELSE faded
                      /\ \A n \in Samples : heard'.node[n].size # 0 =>
                            /\ heard'.node[n].cnt < node.cfsz
                            /\ n > 0 => heard'.node[n].cnt = heard'.node[n - 1].cnt + 1
    OBVIOUS
  <2> DEFINE d == Computed(node)
  <2>1. TypeOK /\ Alike /\ Cables /\ InStep
    BY DEF Inv
  <2>2. /\ BlkSize \in Nat /\ BlkSize > 0 /\ 0 \in Samples
        /\ \A n \in Samples : n \in Nat /\ (n > 0 => n - 1 \in Samples)
    BY BlkSizeAssumption DEF Samples
  <2>3. node.play
    <3>1. ~node.play => heard'.node[0] = Silence
      BY <2>2 DEF Block, HsGet, HsCompute
    <3> QED
      BY <3>1 DEF Silence
  <2>4. node \in Hotswaps /\ (node.please_swap => node.cfstate \in {"none", "standby"})
    BY <2>1 DEF TypeOK, Cables
  <2>5. /\ d \in Hotswaps /\ d.cfsz = node.cfsz
        /\ ~node.please_swap =>
              /\ d.cfstate = IF node.cfstate = "done" THEN "standby" ELSE node.cfstate
              /\ d.cfcnt = node.cfcnt
        /\ node.please_swap =>
              /\ node.cfstate = "none" => d.cfstate = "none"
              /\ node.cfstate = "standby" => d.cfcnt = 0
    BY <2>4, ComputedFields
  <2>6. d.cfcnt \in Nat /\ d.cfsz \in Nat /\ d.cfsz > 0
    BY <2>5, Lengths DEF Hotswaps
  <2>7. \A n \in Samples :
           heard'.node[n].size # 0
             <=> d.cfstate = "compute" /\ (n = 0 \/ d.cfcnt + n < d.cfsz)
    BY <2>1, <2>3, BlockFades
  <2>8. d.cfstate = "compute"
    BY <2>2, <2>7
  <2>9. \A n \in Samples : heard'.node[n].size # 0 => heard'.node[n].cnt = d.cfcnt + n
    <3> SUFFICES ASSUME NEW n \in Samples, heard'.node[n].size # 0
                 PROVE  heard'.node[n].cnt = d.cfcnt + n
      OBVIOUS
    <3>1. heard'.node[n] = Mixed(d, TRUE, d.cfcnt + n)
      BY <2>1, <2>3, <2>7, BlockHeard
    <3> QED
      BY <3>1 DEF Mixed
  <2>10. d.cfcnt < d.cfsz /\ d.cfcnt = IF node.please_swap THEN 0 ELSE faded
    <3>1. resized' = (resized /\ ~node.please_swap)
      BY <2>3 DEF Block
    <3> HIDE DEF d
    <3> QED
      BY <2>1, <2>4, <2>5, <2>6, <2>8, <3>1 DEF InStep
  <2> HIDE DEF d
  <2>11. heard'.node[0].cnt = d.cfcnt
    BY <2>2, <2>6, <2>9
  <2>12. ASSUME NEW n \in Samples, heard'.node[n].size # 0
         PROVE  /\ heard'.node[n].cnt < node.cfsz
                /\ n > 0 => heard'.node[n].cnt = heard'.node[n - 1].cnt + 1
    <3>1. heard'.node[n].cnt = d.cfcnt + n /\ d.cfcnt + n < d.cfsz
      BY <2>2, <2>6, <2>7, <2>9, <2>10, <2>12
    <3>2. ASSUME n > 0  PROVE heard'.node[n - 1].cnt = d.cfcnt + (n - 1)
      <4>1. n - 1 \in Samples /\ n - 1 \in Nat /\ n \in Nat
        BY <2>2, <3>2
      <4>2. d.cfcnt + (n - 1) < d.cfsz
        BY <2>6, <3>1, <4>1
      <4> QED
        BY <2>7, <2>8, <2>9, <4>1, <4>2
    <3> QED
      BY <2>2, <2>5, <2>6, <3>1, <3>2
  <2> QED
    BY <2>10, <2>11, <2>12
<1>2. Grows => [Grows]_vars
  OBVIOUS
<1> HIDE DEF Grows
<1>3. Spec => [][Grows]_vars
  BY HsNodeSound, <1>1, PTL DEF Spec
<1> QED
  BY <1>3 DEF Grows, GainGrows

(* Every step is a step of the player or none.                              *)
LEMMA PlayerStep == Inv /\ [Next]_vars => [Player!Next]_(Player!vars)
<1> SUFFICES ASSUME Inv, [Next]_vars  PROVE [Player!Next]_(Player!vars)
  OBVIOUS
<1> USE DEF Player!vars, Command
<1>1. TypeOK /\ Alike /\ Cables
  BY DEF Inv
<1>2. ASSUME NEW p \in Patches, HsSwp(p)  PROVE Player!Request(p)
  BY <1>1, <1>2 DEF HsSwp, Player!Request, TypeOK, Hotswaps, Cables, Over
<1>3. CASE HsTog
  BY <1>1, <1>3 DEF HsTog, TypeOK, Hotswaps
<1>4. ASSUME NEW mode \in BOOLEAN, HsCf(mode)  PROVE UNCHANGED Player!vars
  BY <1>1, <1>4 DEF HsCf, TypeOK, Hotswaps
<1>5. ASSUME NEW size \in CfSizes, HsCfSz(size)  PROVE UNCHANGED Player!vars
  BY <1>1, <1>5 DEF HsCfSz, TypeOK, Hotswaps
<1>6. CASE Block
  <2> DEFINE d == Computed(node)
  <2>1. node \in Hotswaps /\ (node.please_swap => node.cfstate \in {"none", "standby"})
    BY <1>1 DEF TypeOK, Cables
  <2>2. CASE ~node.play
    BY <1>6, <2>2 DEF Block, HsCompute
  <2>3. CASE node.play
    <3>1. node'.read = d.read /\ node'.write = d.write /\ node'.please_swap = d.please_swap
      BY <1>1, <1>6, <2>3, BlockEnds
    <3>2. /\ ~d.please_swap
          /\ ~node.please_swap =>
                /\ d.read = node.read
                /\ d.write = IF node.cfstate = "done" THEN NoPatch ELSE node.write
          /\ node.please_swap =>
                /\ d.read = node.write
                /\ node.cfstate = "none" => d.write = NoPatch
                /\ node.cfstate = "standby" => d.write = node.read
      BY <2>1, ComputedFields
    <3> HIDE DEF d
    <3>3. CASE ~node.please_swap
      BY <3>1, <3>2, <3>3 DEF Player!Next, Player!Retire
    <3>4. CASE node.please_swap /\ node.cfstate = "none"
      <4>1. Player!Cut
        BY <1>1, <3>1, <3>2, <3>4 DEF Player!Cut, Cables
      <4> QED
        BY <4>1 DEF Player!Next
    <3>5. CASE node.please_swap /\ node.cfstate = "standby"
      <4>1. Player!Switch
        BY <1>1, <3>1, <3>2, <3>5 DEF Player!Switch, Cables
      <4> QED
        BY <4>1 DEF Player!Next
    <3> QED
      BY <2>1, <3>3, <3>4, <3>5
  <2> QED
    BY <2>2, <2>3
<1>7. CASE UNCHANGED vars
  BY <1>7 DEF vars
<1> QED
  BY <1>2, <1>3, <1>4, <1>5, <1>6, <1>7 DEF Next, Player!Next

(* A file is rendered by the player of PatchPlayer: one patch plays, at     *)
(* most one fades out and none is taken before that one is gone.            *)
THEOREM HsNodeIsPlayer == Spec => ImplementsPlayer
<1>1. Init => Player!Init
  BY DEF Init, NewHotswap, Player!Init
<1> QED
  BY HsNodeSound, PlayerStep, <1>1, PTL DEF Spec, ImplementsPlayer, Player!Spec
================================================================================
