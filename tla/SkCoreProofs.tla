----------------------------- MODULE SkCoreProofs -----------------------------
(***************************************************************************)
(* Scripts for every size of the pool and of both stacks, any number of    *)
(* registers and any length of a patch: as long as the pool does not run   *)
(* out the two stacks tell the same story, and no node of the patch reads  *)
(* a buffer that another one has written since.                            *)
(***************************************************************************)
EXTENDS SkCore, FiniteSetTheorems, WellFoundedInduction, SequenceTheorems, TLAPS

G == INSTANCE GraforgeProofs WITH gf <- core.gf, MaxUser <- MaxNodes, MaxRefs <- MaxNodes

USE PoolSizeAssumption, StackSizeAssumption, MaxNodesAssumption

------------------------------------------------------------------------------
(* What GraforgeProofs says of a library call.                              *)

\* The invariant of a patch.
Sound(g) == G!Sound(g)

\* A call that ends no user hold.
Quiet(g, h) == \A b \in Bufs : g.read[b] = UserHeld => h.read[b] = UserHeld

(* The operators of the instance are those of GraforgeOps.                  *)
LEMMA SameNames ==
    /\ G!Bufs = Bufs /\ G!OwnBuf = OwnBuf /\ G!NullBuf = NullBuf /\ G!NoBuf = NoBuf
    /\ G!Held = Held /\ G!UserHeld = UserHeld /\ G!Reads = Reads
    /\ G!Patches = Patches /\ G!InitPatch = InitPatch
    /\ \A g : G!Pos(g) = Pos(g) /\ G!Top(g) = Top(g) /\ G!Busy(g) = Busy(g)
              /\ G!Below(g) = Below(g) /\ G!PoolFull(g) = PoolFull(g)
              /\ (G!CanPush(g) <=> CanPush(g))
    /\ \A g, b : G!Slots(g, b) = Slots(g, b)
  BY DEF G!Bufs, Bufs, G!OwnBuf, OwnBuf, G!NullBuf, NullBuf, G!NoBuf, NoBuf, G!Held, Held,
         G!UserHeld, UserHeld, G!Reads, Reads, G!Patches, Patches, G!InitPatch, InitPatch,
         G!Pos, Pos, G!Top, Top, G!Busy, Busy, G!Below, Below, G!PoolFull, PoolFull,
         G!CanPush, CanPush, G!Slots, Slots

(* So is the size of a set.                                                 *)
LEMMA SameCardinality == \A S : G!Cardinality(S) = Cardinality(S)
  BY DEF G!Cardinality, Cardinality

(* So are the calls.                                                        *)
LEMMA SameRelease == \A g, b : G!Release(g, b) = Release(g, b)
  BY SameNames DEF G!Release, Release

(* As above.                                                                *)
LEMMA SamePop == \A g : G!StackPop(g) = StackPop(g)
  BY SameNames, SameRelease DEF G!StackPop, StackPop

(* As above.                                                                *)
LEMMA SameMark == \A g, b : G!BufferMark(g, b) = BufferMark(g, b)
  BY SameNames DEF G!BufferMark, BufferMark

(* As above.                                                                *)
LEMMA SameSetBlock ==
    \A g : G!SetBlock(g) = SetBlock(g) /\ G!StackPush(g) = StackPush(g)
<1>1. \A g : G!NextFree(g) = NextFree(g)
  BY DEF G!NextFree, NextFree, G!Busy, Busy, G!Bufs, Bufs, G!NullBuf, NullBuf, G!NoBuf,
     NoBuf
<1>2. \A g, b : G!TakeBuffer(g, b) = TakeBuffer(g, b)
  BY SameNames, SameMark DEF G!TakeBuffer, TakeBuffer
<1>3. \A g : G!StackPush(g) = StackPush(g)
  BY <1>1, <1>2, SameNames DEF G!StackPush, StackPush
<1> QED
  BY <1>3, SameNames DEF G!SetBlock, SetBlock

(* As above.                                                                *)
LEMMA SameStack ==
    \A g : /\ G!StackDup(g) = StackDup(g) /\ G!StackSwap(g) = StackSwap(g)
           /\ \A b : G!StackPushBuffer(g, b) = StackPushBuffer(g, b)
  BY SameNames, SameMark DEF G!StackDup, StackDup, G!StackSwap, StackSwap,
                             G!StackPushBuffer, StackPushBuffer

(* As above.                                                                *)
LEMMA SameHold ==
    \A g : /\ G!BHold(g) = BHold(g) /\ G!UnholdAll(g) = UnholdAll(g)
           /\ G!ResetPool(g) = ResetPool(g)
           /\ \A b : G!HoldUser(g, b) = HoldUser(g, b) /\ G!UnholdUser(g, b) = UnholdUser(g, b)
<1>1. \A g, b : G!HoldUser(g, b) = HoldUser(g, b) /\ G!UnholdUser(g, b) = UnholdUser(g, b)
  BY SameNames DEF G!HoldUser, HoldUser, G!UnholdUser, UnholdUser
<1>2. \A g : G!BHold(g) = BHold(g)
  BY <1>1, SameNames, SamePop DEF G!BHold, BHold
<1>3. \A g : G!ResetPool(g) = ResetPool(g)
  BY SameCardinality DEF G!ResetPool, ResetPool, G!Bufs, Bufs, G!NoBuf, NoBuf
<1>4. \A g : G!UnholdAllUsers(g) = UnholdAllUsers(g)
  BY SameCardinality DEF G!UnholdAllUsers, UnholdAllUsers, G!Bufs, Bufs, G!UserHeld,
     UserHeld
<1>5. \A g : G!UnholdAll(g) = UnholdAll(g)
  BY <1>3, <1>4 DEF G!UnholdAll, UnholdAll
<1> QED
  BY <1>1, <1>2, <1>3, <1>5

(* The types of a sound patch; a buffer on its stack is taken.              *)
LEMMA SoundIs ==
    ASSUME NEW g, Sound(g)
    PROVE  /\ g \in Patches /\ ~g.fault /\ g.stack \in Seq(Bufs \cup {OwnBuf})
           /\ Pos(g) = Len(g.stack) /\ Pos(g) \in Nat /\ Pos(g) <= StackSize
           /\ \A b \in Bufs : \A i \in 1 .. Len(g.stack) : g.stack[i] = b => g.read[b] # 0
<1>1. /\ g \in Patches /\ ~g.fault /\ g.stack \in Seq(Bufs \cup {OwnBuf})
      /\ Pos(g) <= StackSize
  BY SameNames DEF Sound, G!Sound, G!Typed
<1>2. Pos(g) = Len(g.stack) /\ Pos(g) \in Nat
  BY <1>1, LenProperties DEF Pos
<1>3. \A b \in Bufs : Slots(g, b) # {} => g.read[b] # 0
  BY SameNames DEF Sound, G!Sound, G!Live
<1> QED
  BY <1>1, <1>2, <1>3 DEF Slots

(* The marks of a cabnew buffer and of a NULL pointer are no buffer ids.    *)
LEMMA OwnIs == OwnBuf \notin Bufs /\ NullBuf \notin Bufs /\ OwnBuf # NullBuf
  BY DEF Bufs, OwnBuf, NullBuf

(* gf_buffer_unmark leaves held buffers alone.                              *)
LEMMA ReleaseIs ==
    ASSUME NEW g \in Patches, ~g.fault, NEW b \in Bufs, NEW u, u = Release(g, b)
    PROVE  u \in Patches /\ \A x \in Bufs : g.read[x] = UserHeld => u.read[x] = UserHeld
<1>1. u = G!Release(g, b) /\ g \in G!Patches /\ b \in G!Bufs
  BY SameNames, SameRelease
<1>2. /\ g.read[b] <= 0 => u = g
      /\ g.read[b] > 1 =>
            G!Becomes(u, [g.read EXCEPT ![b] = @ - 1],
                      g.nactive, g.usrnactive, g.last_free, g.stack)
      /\ g.read[b] = 1 =>
            G!Becomes(u, [g.read EXCEPT ![b] = 0],
                      g.nactive - 1, g.usrnactive, b, g.stack)
  BY <1>1, G!ReleaseEffect
<1>3. g.read[b] \in Int /\ g.read \in [Bufs -> Reads]
  BY DEF Patches, Reads, Held, UserHeld
<1>4. CASE g.read[b] <= 0
  BY <1>2, <1>4
<1>5. CASE g.read[b] > 1
  <2>1. u \in Patches /\ u.read = [g.read EXCEPT ![b] = @ - 1]
    BY <1>2, <1>5, SameNames DEF G!Becomes
  <2> QED
    BY <1>3, <1>5, <2>1 DEF UserHeld
<1>6. CASE g.read[b] = 1
  <2>1. u \in Patches /\ u.read = [g.read EXCEPT ![b] = 0]
    BY <1>2, <1>6, SameNames DEF G!Becomes
  <2> QED
    BY <1>3, <1>6, <2>1 DEF UserHeld
<1> QED
  BY <1>3, <1>4, <1>5, <1>6

(* gf_stack_pop.                                                            *)
LEMMA PopIs ==
    ASSUME NEW g, NEW h, Sound(g), Pos(g) # 0, h = StackPop(g)
    PROVE  Sound(h) /\ h.stack = Below(g) /\ Quiet(g, h)
<1>1. Sound(h)
  <2>1. h = G!StackPop(g)
    BY SamePop
  <2> QED
    BY <2>1, G!PopSound DEF Sound
<1>2. g \in Patches /\ ~g.fault /\ Top(g) \in Bufs \cup {OwnBuf}
  <2>1. Len(g.stack) \in Nat \ {0} /\ g.stack \in Seq(Bufs \cup {OwnBuf})
    BY SoundIs
  <2> QED
    BY <2>1, SoundIs, ElementOfSeq DEF Top, Pos
<1>3. PICK u : u = Release(g, Top(g))
  OBVIOUS
<1>4. h = [u EXCEPT !.stack = Below(g)]
  BY <1>3 DEF StackPop
<1>5. u \in Patches /\ Quiet(g, u)
  <2>1. CASE Top(g) = OwnBuf
    <3>1. u = g
      BY <1>3, <2>1, OwnIs DEF Release
    <3> QED
      BY <1>2, <3>1 DEF Quiet
  <2>2. CASE Top(g) \in Bufs
    BY <1>2, <1>3, <2>2, ReleaseIs DEF Quiet
  <2> QED
    BY <1>2, <2>1, <2>2
<1>6. h.stack = Below(g) /\ h.read = u.read
  BY <1>4, <1>5 DEF Patches
<1> QED
  BY <1>1, <1>5, <1>6 DEF Quiet

(* gf_node_set_block: a fresh buffer on the stack, or an error.             *)
LEMMA SetBlockIs ==
    ASSUME NEW g, NEW h, Sound(g), h = SetBlock(g)
    PROVE  /\ Sound(h) /\ Quiet(g, h) /\ (g.err => h.err)
           /\ \/ h.err /\ h.stack = g.stack /\ h.read = g.read
              \/ \E b \in Bufs : /\ g.read[b] = 0
                                 /\ h.read = [g.read EXCEPT ![b] = 1]
                                 /\ h.stack = Append(g.stack, b)
<1>1. Sound(h)
  BY SameSetBlock, G!SetBlockSound DEF Sound
<1>2. g \in Patches /\ g.read \in [Bufs -> Reads]
  BY SoundIs DEF Patches
<1>3. CASE ~CanPush(g)
  <2>1. h = [g EXCEPT !.err = TRUE]
    BY <1>3 DEF SetBlock
  <2>2. h.err /\ h.stack = g.stack /\ h.read = g.read
    BY <1>2, <2>1 DEF Patches
  <2> QED
    BY <1>1, <2>2 DEF Quiet
<1>4. CASE CanPush(g)
  <2>1. h = StackPush(g) /\ h = G!StackPush(g) /\ G!CanPush(g)
    BY <1>4, SameNames, SameSetBlock DEF SetBlock
  <2>2. PICK b \in Bufs :
           /\ g.read[b] = 0
           /\ G!Becomes(h, [g.read EXCEPT ![b] = 1],
                        g.nactive + 1, g.usrnactive, NoBuf, Append(g.stack, b))
    BY <2>1, G!PushEffect, SameNames DEF Sound
  <2>3. h.read = [g.read EXCEPT ![b] = 1] /\ h.stack = Append(g.stack, b)
    BY <2>2 DEF G!Becomes
  <2>4. Quiet(g, h)
    BY <1>2, <2>2, <2>3 DEF Quiet, UserHeld
  <2>5. h.err = g.err
    <3>1. PICK a : a = NextFree(g)
      OBVIOUS
    <3>2. PICK t : t = TakeBuffer(g, a)
      OBVIOUS
    <3>3. h = [t EXCEPT !.stack = Append(t.stack, a)]
      BY <1>4, <2>1, <3>1, <3>2 DEF StackPush
    <3>4. PICK u : u = [g EXCEPT !.last_free = NoBuf, !.nactive = @ + 1]
      OBVIOUS
    <3>5. t = BufferMark(u, a) /\ u.err = g.err
      BY <1>2, <3>2, <3>4 DEF TakeBuffer, Patches
    <3>6. a \in Bufs \cup {NullBuf, OwnBuf}
      <4>1. g.last_free \in Bufs \cup {NoBuf}
        BY <1>2 DEF Patches
      <4>2. CASE g.last_free # NoBuf
        BY <3>1, <4>1, <4>2 DEF NextFree
      <4>3. CASE g.last_free = NoBuf /\ Busy(g) = Bufs
        BY <3>1, <4>3 DEF NextFree
      <4>4. CASE g.last_free = NoBuf /\ Busy(g) # Bufs
        <5>1. Bufs \ Busy(g) # {} /\ Bufs \ Busy(g) \subseteq G!Bufs
          BY <4>4, SameNames DEF Busy
        <5>2. \E x \in Bufs \ Busy(g) : \A y \in Bufs \ Busy(g) : x <= y
          BY <5>1, G!FirstBuffer, Zenon
        <5> QED
          BY <3>1, <4>4, <5>2 DEF NextFree
      <4> QED
        BY <4>2, <4>3, <4>4
    <3>7. t.err = u.err
      <4>1. u = [u EXCEPT !.err = u.err]
        BY <1>2, <3>4 DEF Patches
      <4> QED
        BY <1>2, <3>4, <3>5, <3>6, OwnIs DEF BufferMark, Patches
    <3>8. h.err = t.err
      BY <3>3, <3>7
    <3> QED
      BY <3>5, <3>7, <3>8
  <2> QED
    BY <1>1, <2>2, <2>3, <2>4, <2>5
<1> QED
  BY <1>3, <1>4

(* gf_stack_push_buffer of a buffer a script holds.                         *)
LEMMA PushBufferIs ==
    ASSUME NEW g, NEW h, Sound(g), Pos(g) < StackSize, NEW b \in Bufs \cup {OwnBuf},
           b \in Bufs => g.read[b] = UserHeld, h = StackPushBuffer(g, b)
    PROVE  Sound(h) /\ Quiet(g, h) /\ h.stack = Append(g.stack, b) /\ h.read = g.read
<1>1. g \in Patches /\ Pos(g) \in Nat
  BY SoundIs
<1>2. Sound(h)
  <2>1. /\ h = G!StackPushBuffer(g, b) /\ b \in G!Bufs \cup {G!OwnBuf}
        /\ b \in G!Bufs => g.read[b] < 0
    BY SameNames, SameStack DEF UserHeld
  <2> QED
    BY <2>1, G!PushBufferSound DEF Sound
<1>3. h = [g EXCEPT !.stack = Append(g.stack, b)]
  BY <1>1, StackSizeAssumption DEF StackPushBuffer
<1>4. h.stack = Append(g.stack, b) /\ h.read = g.read
  BY <1>1, <1>3 DEF Patches
<1> QED
  BY <1>2, <1>4 DEF Quiet

(* gf_stack_dup with a slot to spare.                                       *)
LEMMA DupIs ==
    ASSUME NEW g, NEW h, Sound(g), Pos(g) # 0, Pos(g) < StackSize - 1, h = StackDup(g)
    PROVE  Sound(h) /\ Quiet(g, h) /\ h.stack = Append(g.stack, Top(g))
<1>1. /\ g \in Patches /\ Pos(g) \in Nat /\ g.read \in [Bufs -> Reads]
      /\ Top(g) \in Bufs \cup {OwnBuf}
  <2>1. Len(g.stack) \in Nat \ {0} /\ g.stack \in Seq(Bufs \cup {OwnBuf})
    BY SoundIs
  <2> QED
    BY <2>1, SoundIs, ElementOfSeq DEF Top, Pos, Patches
<1>2. Sound(h)
  BY SameStack, G!DupSound DEF Sound
<1>3. PICK u : u = [g EXCEPT !.stack = Append(g.stack, Top(g))]
  OBVIOUS
<1>4. u.stack = Append(g.stack, Top(g)) /\ u.read = g.read
  BY <1>1, <1>3 DEF Patches
<1>5. h = BufferMark(u, Top(g))
  BY <1>1, <1>3, StackSizeAssumption DEF StackDup
<1>6. CASE Top(g) = OwnBuf
  <2>1. h = u
    BY <1>5, <1>6, OwnIs DEF BufferMark
  <2> QED
    BY <1>2, <1>4, <2>1 DEF Quiet
<1>7. CASE Top(g) \in Bufs
  <2>1. h = IF u.read[Top(g)] >= 0
            THEN [u EXCEPT !.read[Top(g)] = u.read[Top(g)] + 1] ELSE u
    BY <1>5, <1>7, OwnIs DEF BufferMark
  <2>2. /\ u.read = g.read /\ u.stack = Append(g.stack, Top(g))
        /\ h.stack = u.stack
        /\ h.read = IF g.read[Top(g)] >= 0
                    THEN [g.read EXCEPT ![Top(g)] = g.read[Top(g)] + 1] ELSE g.read
    BY <1>1, <1>3, <1>4, <1>7, <2>1 DEF Patches
  <2>3. Quiet(g, h)
    BY <1>1, <1>7, <2>2 DEF Quiet, UserHeld
  <2> QED
    BY <1>2, <2>2, <2>3
<1> QED
  BY <1>1, <1>6, <1>7

(* gf_stack_swap of two slots.                                              *)
LEMMA SwapIs ==
    ASSUME NEW g, NEW h, Sound(g), Pos(g) >= 2, h = StackSwap(g)
    PROVE  /\ Sound(h) /\ Quiet(g, h)
           /\ h.stack = [g.stack EXCEPT ![Pos(g)] = g.stack[Pos(g) - 1],
                                        ![Pos(g) - 1] = g.stack[Pos(g)]]
<1>1. g \in Patches /\ Pos(g) \in Nat
  BY SoundIs
<1>2. Sound(h)
  BY SameStack, G!SwapSound DEF Sound
<1>3. h = [g EXCEPT !.stack[Pos(g)] = g.stack[Pos(g) - 1], !.stack[Pos(g) - 1] = Top(g)]
  BY <1>1 DEF StackSwap
<1>4. /\ h.stack = [g.stack EXCEPT ![Pos(g)] = g.stack[Pos(g) - 1],
                                   ![Pos(g) - 1] = g.stack[Pos(g)]]
      /\ h.read = g.read
  BY <1>1, <1>3 DEF Patches, Top
<1> QED
  BY <1>2, <1>4 DEF Quiet

(* bhold of a buffer nobody holds.                                          *)
LEMMA BHoldIs ==
    ASSUME NEW g, NEW h, Sound(g), Pos(g) # 0, Top(g) \in Bufs => g.read[Top(g)] > 0,
           h = BHold(g)
    PROVE  /\ Sound(h) /\ Quiet(g, h) /\ h.stack = Below(g)
           /\ Top(g) \in Bufs => h.read[Top(g)] = UserHeld
<1>1. Sound(h)
  BY SameHold, G!BHoldSound DEF Sound
<1>2. PICK p : p = StackPop(g)
  OBVIOUS
<1>3. Sound(p) /\ p.stack = Below(g) /\ Quiet(g, p)
  BY <1>2, PopIs
<1>4. PICK u : u = [p EXCEPT !.last_free = NoBuf]
  OBVIOUS
<1>5. h = HoldUser(u, Top(g))
  BY <1>2, <1>4 DEF BHold
<1>6. /\ p \in Patches /\ u \in Patches /\ u.stack = Below(g) /\ u.read = p.read
      /\ p.read \in [Bufs -> Reads]
  <2>1. p \in Patches
    BY <1>3, SoundIs
  <2> QED
    BY <1>3, <1>4, <2>1 DEF Patches
<1>7. CASE Top(g) \notin Bufs \/ u.read[Top(g)] < 0
  <2>1. h = u
    <3>1. Top(g) \in Bufs => u.read[Top(g)] \in Int
      BY <1>6 DEF Reads, Held, UserHeld
    <3> QED
      BY <1>5, <1>7, <3>1 DEF HoldUser
  <2>2. Top(g) \notin Bufs
    <3>1. SUFFICES ASSUME Top(g) \in Bufs PROVE FALSE
      OBVIOUS
    <3>2. g \in Patches /\ g.read[Top(g)] \in Nat \ {0} /\ ~g.fault
      BY <3>1, SoundIs DEF Patches, Reads, Held, UserHeld
    <3>3. PICK r : r = Release(g, Top(g))
      OBVIOUS
    <3>4. r = IF g.read[Top(g)] > 1 THEN [g EXCEPT !.read[Top(g)] = @ - 1]
              ELSE [g EXCEPT !.read[Top(g)] = 0, !.last_free = Top(g), !.nactive = @ - 1]
      BY <3>1, <3>2, <3>3, OwnIs DEF Release
    <3>5. p.read = r.read /\ r.read[Top(g)] >= 0
      <4>1. p = [r EXCEPT !.stack = Below(g)]
        BY <1>2, <3>3 DEF StackPop
      <4> QED
        BY <3>1, <3>2, <3>4, <4>1 DEF Patches
    <3> QED
      BY <1>6, <1>7, <3>1, <3>5 DEF Reads, Held, UserHeld
  <2> QED
    BY <1>1, <1>3, <1>6, <2>1, <2>2 DEF Quiet
<1>8. CASE Top(g) \in Bufs /\ u.read[Top(g)] >= 0
  <2>1. h = [u EXCEPT !.read[Top(g)] = UserHeld, !.usrnactive = @ + 1, !.nactive = @ + 1]
    BY <1>5, <1>8 DEF HoldUser
  <2>2. h.stack = Below(g) /\ h.read = [p.read EXCEPT ![Top(g)] = UserHeld]
    BY <1>6, <2>1 DEF Patches
  <2>3. Quiet(g, h) /\ h.read[Top(g)] = UserHeld
    BY <1>3, <1>6, <1>8, <2>2 DEF Quiet
  <2> QED
    BY <1>1, <2>2, <2>3
<1> QED
  <2>1. Top(g) \in Bufs => u.read[Top(g)] \in Int
    BY <1>6 DEF Reads, Held, UserHeld
  <2> QED
    BY <1>7, <1>8, <2>1

(* unhold of a buffer the stack does not mention.                           *)
LEMMA UnholdUserIs ==
    ASSUME NEW g, NEW h, Sound(g), NEW b \in Bufs \cup {OwnBuf}, Slots(g, b) = {},
           h = UnholdUser(g, b)
    PROVE  /\ Sound(h) /\ h.stack = g.stack
           /\ \A x \in Bufs : x # b /\ g.read[x] = UserHeld => h.read[x] = UserHeld
<1>1. g \in Patches /\ g.read \in [Bufs -> Reads]
  BY SoundIs DEF Patches
<1>2. CASE b \in Bufs /\ g.read[b] = UserHeld
  <2>1. Sound(h)
    BY <1>2, SameHold, SameNames, G!UnholdUserSound DEF Sound
  <2>2. h = [g EXCEPT !.read[b] = 0, !.usrnactive = @ - 1, !.nactive = @ - 1]
    BY <1>2 DEF UnholdUser
  <2>3. h.stack = g.stack /\ h.read = [g.read EXCEPT ![b] = 0]
    BY <1>1, <2>2 DEF Patches
  <2> QED
    BY <1>1, <2>1, <2>3
<1>3. CASE ~(b \in Bufs /\ g.read[b] = UserHeld)
  BY <1>3 DEF UnholdUser
<1> QED
  BY <1>2, <1>3

(* unholdall with nothing on the stack.                                     *)
LEMMA UnholdAllIs ==
    ASSUME NEW g, NEW h, Sound(g), g.stack = <<>>, h = UnholdAll(g)
    PROVE  Sound(h) /\ h.stack = <<>>
<1>1. g \in Patches /\ Pos(g) = 0
  BY SoundIs DEF Pos
<1>2. Sound(h)
  BY <1>1, SameHold, SameNames, G!UnholdAllSound DEF Sound
<1>3. PICK u : u = ResetPool(g)
  OBVIOUS
<1>4. u.stack = <<>> /\ h = UnholdAllUsers(u)
  BY <1>1, <1>3 DEF ResetPool, UnholdAll, Patches
<1>5. h.stack = u.stack
  <2>1. G!Sound(u)
    BY <1>1, <1>3, SameHold, SameNames, G!ResetPoolSound DEF Sound
  <2>2. u \in Patches
    BY <2>1, SoundIs DEF Sound
  <2> QED
    BY <1>4, <2>2 DEF UnholdAllUsers, Patches
<1> QED
  BY <1>2, <1>4, <1>5

(* A core starts with an empty patch.                                       *)
LEMMA InitIs == Sound(InitPatch) /\ InitPatch.stack = <<>>
  BY SameNames, G!InitSound DEF Sound, InitPatch

------------------------------------------------------------------------------
(* The two stacks.  A cable with a buffer has the slot of its depth.        *)

\* The buffer stack st holds the buffers of the cables of sk, in order.
Lined(c, sk, st) ==
    /\ Len(st) = Depth(c, sk, Len(sk))
    /\ \A i \in 1 .. Len(sk) :
          IsBlock(c, sk[i]) => st[Depth(c, sk, i)] = BufferOf(c, sk[i].cab)

(* A depth is at most the number of stacklets and grows with it.            *)
LEMMA DepthIs ==
    ASSUME NEW c, NEW sk, NEW n \in Nat
    PROVE  /\ Depth(c, sk, n) \in Nat
           /\ \A i \in 0 .. n : Depth(c, sk, i) <= Depth(c, sk, n)
           /\ Depth(c, sk, 0) = 0
           /\ \A i \in 1 .. n : IsBlock(c, sk[i]) => Depth(c, sk, i) >= 1
<1>1. \A i \in 0 .. n : IsFiniteSet({j \in 1 .. i : IsBlock(c, sk[j])})
  <2>1. \A i \in 0 .. n : IsFiniteSet(1 .. i)
    BY FS_Interval
  <2> QED
    BY <2>1, FS_Subset
<1>2. \A i \in 0 .. n : Depth(c, sk, i) \in Nat
  BY <1>1, FS_CardinalityType DEF Depth
<1>3. ASSUME NEW i \in 0 .. n PROVE Depth(c, sk, i) <= Depth(c, sk, n)
  <2>1. {j \in 1 .. i : IsBlock(c, sk[j])} \subseteq {j \in 1 .. n : IsBlock(c, sk[j])}
    OBVIOUS
  <2>2. IsFiniteSet({j \in 1 .. n : IsBlock(c, sk[j])})
    BY <1>1
  <2> QED
    BY <2>1, <2>2, FS_Subset DEF Depth
<1>4. Depth(c, sk, 0) = 0
  <2>1. {j \in 1 .. 0 : IsBlock(c, sk[j])} = {}
    OBVIOUS
  <2> QED
    BY <2>1, FS_EmptySet DEF Depth
<1>5. ASSUME NEW i \in 1 .. n, IsBlock(c, sk[i]) PROVE Depth(c, sk, i) >= 1
  <2>1. i \in {j \in 1 .. i : IsBlock(c, sk[j])}
    BY <1>5
  <2>2. IsFiniteSet({j \in 1 .. i : IsBlock(c, sk[j])}) /\ Depth(c, sk, i) \in Nat
    BY <1>1, <1>2
  <2> QED
    BY <2>1, <2>2, FS_EmptySet DEF Depth
<1> QED
  BY <1>2, <1>3, <1>4, <1>5

(* One more stacklet.                                                       *)
LEMMA DepthStep ==
    ASSUME NEW c, NEW sk, NEW n \in Nat
    PROVE  Depth(c, sk, n + 1) =
               IF IsBlock(c, sk[n + 1]) THEN Depth(c, sk, n) + 1 ELSE Depth(c, sk, n)
<1> DEFINE below == {j \in 1 .. n : IsBlock(c, sk[j])}
           upto == {j \in 1 .. n + 1 : IsBlock(c, sk[j])}
<1>1. IsFiniteSet(below)
  <2>1. IsFiniteSet(1 .. n)
    BY FS_Interval
  <2> QED
    BY <2>1, FS_Subset
<1>2. CASE IsBlock(c, sk[n + 1])
  <2>1. upto = below \cup {n + 1} /\ n + 1 \notin below
    BY <1>2
  <2>2. Cardinality(upto) = Cardinality(below) + 1
    BY <1>1, <2>1, FS_AddElement
  <2> QED
    BY <1>2, <2>2 DEF Depth
<1>3. CASE ~IsBlock(c, sk[n + 1])
  <2>1. upto = below
    BY <1>3
  <2> QED
    BY <1>3, <2>1 DEF Depth
<1> QED
  BY <1>2, <1>3

(* The depth at i depends on the first i stacklets alone.                   *)
LEMMA DepthSame ==
    ASSUME NEW c, NEW d, NEW sk, NEW tk, NEW i,
           \A j \in 1 .. i : IsBlock(c, sk[j]) <=> IsBlock(d, tk[j])
    PROVE  Depth(d, tk, i) = Depth(c, sk, i)
<1>1. {j \in 1 .. i : IsBlock(c, sk[j])} = {j \in 1 .. i : IsBlock(d, tk[j])}
  OBVIOUS
<1> QED
  BY <1>1 DEF Depth

(* A stacklet without a buffer goes on the typed stack alone.               *)
LEMMA LinedAppendOther ==
    ASSUME NEW c, NEW T, NEW sk \in Seq(T), NEW s \in T, NEW st,
           Lined(c, sk, st), ~IsBlock(c, s)
    PROVE  Lined(c, Append(sk, s), st)
<1> PICK tk : tk = Append(sk, s)
  OBVIOUS
<1> PICK n : n = Len(sk)
  OBVIOUS
<1>1. /\ n \in Nat /\ Len(tk) = n + 1 /\ tk[n + 1] = s
      /\ \A i \in 1 .. n : tk[i] = sk[i]
  BY AppendProperties, LenProperties
<1>2. \A i \in 0 .. n : Depth(c, tk, i) = Depth(c, sk, i)
  <2> SUFFICES ASSUME NEW i \in 0 .. n PROVE Depth(c, tk, i) = Depth(c, sk, i)
    OBVIOUS
  <2>1. \A j \in 1 .. i : IsBlock(c, sk[j]) <=> IsBlock(c, tk[j])
    BY <1>1
  <2> QED
    BY ONLY <2>1, DepthSame
<1>3. Depth(c, tk, n + 1) = Depth(c, sk, n)
  <2>1. Depth(c, tk, n + 1) = IF IsBlock(c, tk[n + 1]) THEN Depth(c, tk, n) + 1
                              ELSE Depth(c, tk, n)
    BY <1>1, DepthStep
  <2> QED
    BY <1>1, <1>2, <2>1
<1>4. \A i \in 1 .. Len(tk) :
         IsBlock(c, tk[i]) => st[Depth(c, tk, i)] = BufferOf(c, tk[i].cab)
  BY <1>1, <1>2 DEF Lined
<1> QED
  BY <1>1, <1>3, <1>4 DEF Lined

(* A cable with a buffer goes on both stacks.                               *)
LEMMA LinedAppendBlock ==
    ASSUME NEW c, NEW T, NEW sk \in Seq(T), NEW s \in T,
           NEW U, NEW st \in Seq(U), NEW b \in U,
           Lined(c, sk, st), IsBlock(c, s), b = BufferOf(c, s.cab)
    PROVE  Lined(c, Append(sk, s), Append(st, b))
<1> PICK tk : tk = Append(sk, s)
  OBVIOUS
<1> PICK su : su = Append(st, b)
  OBVIOUS
<1> PICK n : n = Len(sk)
  OBVIOUS
<1>1. /\ n \in Nat /\ Len(tk) = n + 1 /\ tk[n + 1] = s
      /\ \A i \in 1 .. n : tk[i] = sk[i]
  BY AppendProperties, LenProperties
<1>2. \A i \in 0 .. n : Depth(c, tk, i) = Depth(c, sk, i)
  <2> SUFFICES ASSUME NEW i \in 0 .. n PROVE Depth(c, tk, i) = Depth(c, sk, i)
    OBVIOUS
  <2>1. \A j \in 1 .. i : IsBlock(c, sk[j]) <=> IsBlock(c, tk[j])
    BY <1>1
  <2> QED
    BY ONLY <2>1, DepthSame
<1>3. Depth(c, tk, n + 1) = Depth(c, sk, n) + 1
  <2>1. Depth(c, tk, n + 1) = IF IsBlock(c, tk[n + 1]) THEN Depth(c, tk, n) + 1
                              ELSE Depth(c, tk, n)
    BY <1>1, DepthStep
  <2> QED
    BY <1>1, <1>2, <2>1
<1>4. /\ Len(su) = Len(st) + 1 /\ su[Len(st) + 1] = b /\ Len(st) = Depth(c, sk, n)
      /\ \A p \in 1 .. Len(st) : su[p] = st[p]
  BY AppendProperties DEF Lined
<1>5. ASSUME NEW i \in 1 .. Len(tk), IsBlock(c, tk[i])
      PROVE  su[Depth(c, tk, i)] = BufferOf(c, tk[i].cab)
  <2>1. CASE i = n + 1
    BY <1>1, <1>3, <1>4, <2>1
  <2>2. CASE i \in 1 .. n
    <3>1. Depth(c, sk, i) \in 1 .. Len(st)
      <4>1. IsBlock(c, sk[i])
        BY <1>1, <1>5, <2>2
      <4>2. i \in 0 .. n /\ i \in Nat /\ i \in 1 .. i
        BY <1>1, <2>2
      <4>3. Depth(c, sk, i) \in Nat /\ Depth(c, sk, i) <= Depth(c, sk, n)
        BY <1>1, <4>2, DepthIs
      <4>4. Depth(c, sk, i) >= 1
        BY <4>1, <4>2, DepthIs
      <4> QED
        BY <1>4, <4>3, <4>4, LenProperties
    <3>2. st[Depth(c, sk, i)] = BufferOf(c, sk[i].cab)
      BY <1>1, <1>5, <2>2 DEF Lined
    <3> QED
      BY <1>1, <1>2, <1>4, <2>2, <3>1, <3>2
  <2>3. i = n + 1 \/ i \in 1 .. n
    BY <1>1
  <2> QED
    BY <2>1, <2>2, <2>3
<1> QED
  BY <1>1, <1>3, <1>4, <1>5 DEF Lined

(* The typed stack without its top.                                         *)
LEMMA FrontIs ==
    ASSUME NEW T, NEW sk \in Seq(T), sk # <<>>
    PROVE  /\ Len(sk) \in Nat \ {0} /\ Last(sk) \in T /\ Last(sk) = sk[Len(sk)]
           /\ Front(sk) \in Seq(T) /\ Len(Front(sk)) = Len(sk) - 1
           /\ \A i \in 1 .. Len(sk) - 1 : Front(sk)[i] = sk[i]
<1>1. Len(sk) \in Nat \ {0}
  BY EmptySeq
<1>2. \A i \in 1 .. Len(sk) : sk[i] \in T
  BY ElementOfSeq
<1>3. Front(sk) = SubSeq(sk, 1, Len(sk) - 1) /\ Last(sk) = sk[Len(sk)]
  BY DEF Front, Last
<1> PICK n : n = Len(sk) - 1
  OBVIOUS
<1>4. 1 \in Int /\ n \in Int /\ n \in Nat /\ \A i \in 1 .. n : sk[i] \in T
  BY <1>1, <1>2
<1>5. /\ SubSeq(sk, 1, n) \in Seq(T) /\ Len(SubSeq(sk, 1, n)) = n
      /\ \A i \in 1 .. n : SubSeq(sk, 1, n)[i] = sk[i]
  BY <1>4, SubSeqProperties
<1> QED
  BY <1>1, <1>2, <1>3, <1>5

(* Popping the typed stack pops the buffer stack for a cable with a buffer  *)
(* and leaves it alone for anything else.                                   *)
LEMMA LinedFront ==
    ASSUME NEW c, NEW T, NEW sk \in Seq(T), sk # <<>>, NEW U, NEW st \in Seq(U),
           Lined(c, sk, st)
    PROVE  /\ ~IsBlock(c, Last(sk)) => Lined(c, Front(sk), st)
           /\ IsBlock(c, Last(sk)) =>
                 /\ Len(st) \in Nat \ {0}
                 /\ st[Len(st)] = BufferOf(c, Last(sk).cab)
                 /\ Lined(c, Front(sk), SubSeq(st, 1, Len(st) - 1))
<1> PICK tk : tk = Front(sk)
  OBVIOUS
<1> PICK n : n = Len(tk)
  OBVIOUS
<1>1. /\ n \in Nat /\ Len(sk) = n + 1 /\ Last(sk) = sk[n + 1]
      /\ \A i \in 1 .. n : tk[i] = sk[i]
  BY FrontIs
<1>2. \A i \in 0 .. n : Depth(c, tk, i) = Depth(c, sk, i)
  <2> SUFFICES ASSUME NEW i \in 0 .. n PROVE Depth(c, tk, i) = Depth(c, sk, i)
    OBVIOUS
  <2>1. \A j \in 1 .. i : IsBlock(c, sk[j]) <=> IsBlock(c, tk[j])
    BY <1>1
  <2> QED
    BY ONLY <2>1, DepthSame
<1>3. Depth(c, sk, n + 1) = IF IsBlock(c, sk[n + 1]) THEN Depth(c, sk, n) + 1
                            ELSE Depth(c, sk, n)
  BY <1>1, DepthStep
<1>4. Len(st) = Depth(c, sk, n + 1) /\ Len(st) \in Nat /\ Depth(c, sk, n) \in Nat
  BY <1>1, DepthIs, LenProperties DEF Lined
<1>5. \A i \in 1 .. n : IsBlock(c, tk[i]) =>
         /\ st[Depth(c, tk, i)] = BufferOf(c, tk[i].cab)
         /\ Depth(c, tk, i) \in 1 .. Depth(c, sk, n)
  <2> SUFFICES ASSUME NEW i \in 1 .. n, IsBlock(c, tk[i])
               PROVE  /\ st[Depth(c, tk, i)] = BufferOf(c, tk[i].cab)
                      /\ Depth(c, tk, i) \in 1 .. Depth(c, sk, n)
    OBVIOUS
  <2>1. st[Depth(c, tk, i)] = BufferOf(c, tk[i].cab)
    BY <1>1, <1>2 DEF Lined
  <2>2. i \in 0 .. n /\ i \in Nat /\ i \in 1 .. i /\ IsBlock(c, sk[i])
    BY <1>1
  <2>3. Depth(c, sk, i) \in Nat /\ Depth(c, sk, i) <= Depth(c, sk, n)
    BY <1>1, <2>2, DepthIs
  <2>4. Depth(c, sk, i) >= 1
    BY <2>2, DepthIs
  <2> QED
    BY <1>2, <1>4, <2>1, <2>2, <2>3, <2>4
<1>6. CASE ~IsBlock(c, Last(sk))
  BY <1>1, <1>2, <1>3, <1>4, <1>5, <1>6 DEF Lined
<1>7. CASE IsBlock(c, Last(sk))
  <2>1. Len(st) = Depth(c, sk, n) + 1
    BY <1>1, <1>3, <1>4, <1>7
  <2>2. st[Len(st)] = BufferOf(c, Last(sk).cab)
    <3>1. n + 1 \in 1 .. Len(sk)
      BY <1>1
    <3> QED
      BY <1>1, <1>4, <1>7, <3>1 DEF Lined
  <2> PICK su : su = SubSeq(st, 1, Len(st) - 1)
    OBVIOUS
  <2>3. Len(su) = Len(st) - 1 /\ \A p \in 1 .. Len(st) - 1 : su[p] = st[p]
    <3>1. \A p \in 1 .. Len(st) - 1 : st[p] \in U
      BY <1>4, ElementOfSeq
    <3> QED
      BY <1>4, <2>1, <3>1, SubSeqProperties
  <2>4. Lined(c, tk, su)
    <3>1. Len(su) = Depth(c, tk, Len(tk))
      BY <1>1, <1>2, <1>4, <2>1, <2>3
    <3>2. \A p \in 1 .. Depth(c, sk, n) : su[p] = st[p]
      BY <1>4, <2>1, <2>3
    <3>3. \A i \in 1 .. Len(tk) :
             IsBlock(c, tk[i]) => su[Depth(c, tk, i)] = BufferOf(c, tk[i].cab)
      BY <1>5, <3>2
    <3> QED
      BY <3>1, <3>3 DEF Lined
  <2> QED
    BY <1>4, <1>7, <2>1, <2>2, <2>4
<1> QED
  BY <1>6, <1>7

(* The buffer of a cable is on the buffer stack.                            *)
LEMMA LinedSlot ==
    ASSUME NEW c, NEW T, NEW sk \in Seq(T), NEW U, NEW st \in Seq(U), Lined(c, sk, st),
           NEW i \in 1 .. Len(sk), IsBlock(c, sk[i])
    PROVE  \E p \in 1 .. Len(st) : st[p] = BufferOf(c, sk[i].cab)
<1>1. Len(sk) \in Nat /\ i \in 0 .. Len(sk) /\ i \in Nat /\ i \in 1 .. i
  BY LenProperties
<1>2. Depth(c, sk, i) \in Nat /\ Depth(c, sk, i) <= Depth(c, sk, Len(sk))
  BY <1>1, DepthIs
<1>3. Depth(c, sk, i) >= 1
  BY <1>1, DepthIs
<1>4. Len(st) = Depth(c, sk, Len(sk)) /\ Len(st) \in Nat
  BY LenProperties DEF Lined
<1>5. Depth(c, sk, i) \in 1 .. Len(st)
  BY <1>2, <1>3, <1>4
<1> QED
  BY <1>5 DEF Lined

(* The buffer stack depends on the buffers of the cables alone.             *)
LEMMA LinedSame ==
    ASSUME NEW c, NEW d, NEW T, NEW sk \in Seq(T), NEW st, Lined(c, sk, st),
           \A i \in 1 .. Len(sk) : /\ IsBlock(c, sk[i]) <=> IsBlock(d, sk[i])
                                   /\ IsBlock(c, sk[i]) =>
                                         BufferOf(c, sk[i].cab) = BufferOf(d, sk[i].cab)
    PROVE  Lined(d, sk, st)
<1>1. Len(sk) \in Nat
  BY LenProperties
<1>2. \A i \in 0 .. Len(sk) : Depth(d, sk, i) = Depth(c, sk, i)
  <2> SUFFICES ASSUME NEW i \in 0 .. Len(sk) PROVE Depth(d, sk, i) = Depth(c, sk, i)
    OBVIOUS
  <2>1. \A j \in 1 .. i : IsBlock(c, sk[j]) <=> IsBlock(d, sk[j])
    BY <1>1
  <2> QED
    BY ONLY <2>1, DepthSame
<1> QED
  BY <1>1, <1>2 DEF Lined

(* Two empty stacks are in line.                                            *)
LEMMA LinedEmpty ==
    ASSUME NEW c
    PROVE  Lined(c, <<>>, <<>>)
<1>1. Len(<<>>) = 0 /\ 0 \in Nat
  OBVIOUS
<1>2. Depth(c, <<>>, 0) = 0
  BY <1>1, DepthIs
<1> QED
  BY <1>1, <1>2 DEF Lined

------------------------------------------------------------------------------
(* The invariant of a script, as a predicate on the core, so that it can be *)
(* cited for the core between two steps of one command.                     *)

Cables == (1 .. MaxNodes) \X {1, 2}
Outs == Bufs \cup {OwnBuf, NullBuf}
NodeRecords == [ins : Seq(Cables), outs : Seq(Outs)]

Cores ==
    [gf : Patches, sk : Seq(Stacklets), regs : [Regs -> Stacklets],
     marks : SUBSET Regs, nodes : Seq(NodeRecords)]

Sized(c) ==
    /\ c \in Cores /\ Len(c.sk) <= SkSize /\ Len(c.nodes) <= MaxNodes
    /\ \A n \in 1 .. Len(c.nodes) : Len(c.nodes[n].outs) <= 2

\* The buffers node n writes.
WritesOf(c, n) == {c.nodes[n].outs[j] : j \in 1 .. Len(c.nodes[n].outs)} \cap Bufs

\* No node after the one that writes the cable writes its buffer too.
Unwritten(c, cab) ==
    \A m \in cab[1] + 1 .. Len(c.nodes) : BufferOf(c, cab) \notin WritesOf(c, m)

\* The cable is an output of a node of the patch.
Known(c, cab) ==
    /\ cab \in Cables /\ cab[1] <= Len(c.nodes)
    /\ cab[2] <= Len(c.nodes[cab[1]].outs)

Live(c, cab) == Known(c, cab) /\ Unwritten(c, cab)

Usable(c) == {c.sk[i] : i \in 1 .. Len(c.sk)} \cup {c.regs[r] : r \in c.marks}

\* What a script may rely on until the pool runs out.
AllBlocks(c) ==
    \A n \in 1 .. Len(c.nodes) : \A j \in 1 .. Len(c.nodes[n].outs) :
        c.nodes[n].outs[j] # NullBuf

UsableLive(c) == \A s \in Usable(c) : s.type = "cable" => Live(c, s.cab)

MarksHeld(c) ==
    \A r \in c.marks :
        /\ c.regs[r].type = "cable"
        /\ BufferOf(c, c.regs[r].cab) \in Bufs =>
              c.gf.read[BufferOf(c, c.regs[r].cab)] = UserHeld

MarksDiffer(c) ==
    \A r, q \in c.marks :
        r # q /\ BufferOf(c, c.regs[r].cab) \in Bufs =>
            BufferOf(c, c.regs[r].cab) # BufferOf(c, c.regs[q].cab)

Good(c) ==
    /\ Sound(c.gf) /\ Lined(c, c.sk, c.gf.stack)
    /\ AllBlocks(c) /\ UsableLive(c) /\ MarksHeld(c) /\ MarksDiffer(c)

\* What holds of the signals of a patch even when the pool has run out.
InputsIntact(c) ==
    \A n \in 1 .. Len(c.nodes) : \A i \in 1 .. Len(c.nodes[n].ins) :
        \A m \in c.nodes[n].ins[i][1] + 1 .. n - 1 :
            BufferOf(c, c.nodes[n].ins[i]) \notin WritesOf(c, m)

OutsDiffer(c) ==
    \A n \in 1 .. Len(c.nodes) :
        Len(c.nodes[n].outs) = 2 =>
            c.nodes[n].outs[1] # c.nodes[n].outs[2] \/ c.nodes[n].outs[1] = NullBuf

UsableUnwritten(c) == \A s \in Usable(c) : s.type = "cable" => Unwritten(c, s.cab)

\* The core between the steps of a command, until err is set.
Working(c) == Sized(c) /\ InputsIntact(c) /\ OutsDiffer(c) /\ Good(c)

\* The core after a command.
Final(c) ==
    /\ Sized(c) /\ InputsIntact(c) /\ OutsDiffer(c) /\ UsableUnwritten(c)
    /\ ~c.gf.err => Good(c)

(* A command that ends without making a node.                               *)
LEMMA WorkingIsFinal == ASSUME NEW c, Working(c) PROVE Final(c)
  BY DEF Working, Final, Good, UsableLive, UsableUnwritten, Live

(* Two cores with the same nodes have the same cables.                      *)
LEMMA SameNodes ==
    ASSUME NEW c, NEW d, d.nodes = c.nodes
    PROVE  /\ \A cab : /\ BufferOf(d, cab) = BufferOf(c, cab)
                       /\ Known(c, cab) => Known(d, cab)
                       /\ Unwritten(c, cab) => Unwritten(d, cab)
           /\ \A s : IsBlock(d, s) <=> IsBlock(c, s)
           /\ InputsIntact(c) => InputsIntact(d)
           /\ OutsDiffer(c) => OutsDiffer(d)
           /\ AllBlocks(c) => AllBlocks(d)
<1>1. \A cab : BufferOf(d, cab) = BufferOf(c, cab)
  BY DEF BufferOf
<1>2. \A s : IsBlock(d, s) <=> IsBlock(c, s)
  BY <1>1 DEF IsBlock
<1>3. \A n : WritesOf(d, n) = WritesOf(c, n)
  BY DEF WritesOf
<1>4. \A cab : Known(c, cab) => Known(d, cab)
  BY DEF Known
<1>5. \A cab : Unwritten(c, cab) => Unwritten(d, cab)
  BY <1>1, <1>3 DEF Unwritten
<1>6. InputsIntact(c) => InputsIntact(d)
  BY <1>1, <1>3 DEF InputsIntact
<1>7. (OutsDiffer(c) => OutsDiffer(d)) /\ (AllBlocks(c) => AllBlocks(d))
  BY DEF OutsDiffer, AllBlocks
<1> QED
  BY <1>1, <1>2, <1>4, <1>5, <1>6, <1>7

(* The buffer of a cable of the patch.                                      *)
LEMMA KnownIs ==
    ASSUME NEW c, c \in Cores, NEW cab, Known(c, cab)
    PROVE  /\ cab[1] \in 1 .. Len(c.nodes) /\ Len(c.nodes) \in Nat
           /\ cab[2] \in 1 .. Len(c.nodes[cab[1]].outs)
           /\ BufferOf(c, cab) \in Outs
           /\ AllBlocks(c) => BufferOf(c, cab) \in Bufs \cup {OwnBuf}
<1>1. c.nodes \in Seq(NodeRecords) /\ Len(c.nodes) \in Nat
  BY LenProperties DEF Cores
<1>2. cab[1] \in 1 .. Len(c.nodes) /\ cab[2] \in {1, 2}
  BY <1>1, MaxNodesAssumption DEF Known, Cables
<1>3. c.nodes[cab[1]].outs \in Seq(Outs)
  <2>1. c.nodes[cab[1]] \in NodeRecords
    BY <1>1, <1>2, ElementOfSeq
  <2> QED
    BY <2>1 DEF NodeRecords
<1>4. cab[2] \in 1 .. Len(c.nodes[cab[1]].outs)
  BY <1>2, <1>3, LenProperties DEF Known
<1>5. BufferOf(c, cab) \in Outs
  BY <1>3, <1>4, ElementOfSeq DEF BufferOf
<1>6. AllBlocks(c) => BufferOf(c, cab) # NullBuf
  BY <1>2, <1>4 DEF AllBlocks, BufferOf
<1> QED
  BY <1>1, <1>2, <1>4, <1>5, <1>6 DEF Outs

(* A cable the script can use has a buffer, and a pool buffer it uses is    *)
(* taken.                                                                   *)
LEMMA UsableIs ==
    ASSUME NEW c, c \in Cores, Good(c), NEW s \in Usable(c), s.type = "cable"
    PROVE  /\ Live(c, s.cab) /\ IsBlock(c, s)
           /\ BufferOf(c, s.cab) \in Bufs \cup {OwnBuf}
           /\ BufferOf(c, s.cab) \in Bufs => c.gf.read[BufferOf(c, s.cab)] # 0
<1>1. Live(c, s.cab)
  BY DEF Good, UsableLive
<1>2. BufferOf(c, s.cab) \in Bufs \cup {OwnBuf}
  BY <1>1, KnownIs DEF Good, Live
<1>3. IsBlock(c, s)
  BY <1>2, OwnIs DEF IsBlock
<1>4. ASSUME BufferOf(c, s.cab) \in Bufs PROVE c.gf.read[BufferOf(c, s.cab)] # 0
  <2>1. CASE \E i \in 1 .. Len(c.sk) : s = c.sk[i]
    <3>1. c.sk \in Seq(Stacklets) /\ c.gf.stack \in Seq(Bufs \cup {OwnBuf})
      BY SoundIs DEF Cores, Good
    <3>2. \E p \in 1 .. Len(c.gf.stack) : c.gf.stack[p] = BufferOf(c, s.cab)
      BY <1>3, <2>1, <3>1, LinedSlot DEF Good
    <3> QED
      BY <1>4, <3>2, SoundIs DEF Good
  <2>2. CASE \E r \in c.marks : s = c.regs[r]
    BY <1>4, <2>2 DEF Good, MarksHeld, UserHeld
  <2> QED
    BY <2>1, <2>2 DEF Usable
<1> QED
  BY <1>1, <1>2, <1>3, <1>4

(* A step that leaves the nodes and the registers alone keeps the invariant *)
(* when it keeps the stacks in line and ends no hold.                       *)
LEMMA SameRegs ==
    ASSUME NEW c, NEW d, Working(c), d \in Cores, Len(d.sk) <= SkSize,
           d.nodes = c.nodes, d.regs = c.regs, d.marks = c.marks,
           Sound(d.gf), Quiet(c.gf, d.gf), Lined(c, d.sk, d.gf.stack),
           \A i \in 1 .. Len(d.sk) : d.sk[i].type = "cable" => d.sk[i] \in Usable(c)
    PROVE  Working(d) /\ \A cab : Live(c, cab) => Live(d, cab)
<1>1. Sized(d)
  BY DEF Working, Sized
<1>2. InputsIntact(d) /\ OutsDiffer(d) /\ AllBlocks(d)
  BY SameNodes DEF Working, Good
<1>3. Lined(d, d.sk, d.gf.stack)
  <2>1. d.sk \in Seq(Stacklets)
    BY DEF Cores
  <2>2. \A i \in 1 .. Len(d.sk) : /\ IsBlock(c, d.sk[i]) <=> IsBlock(d, d.sk[i])
                                  /\ IsBlock(c, d.sk[i]) =>
                                        BufferOf(c, d.sk[i].cab) = BufferOf(d, d.sk[i].cab)
    BY SameNodes
  <2> QED
    BY <2>1, <2>2, LinedSame
<1>4. UsableLive(d)
  <2> SUFFICES ASSUME NEW s \in Usable(d), s.type = "cable" PROVE Live(d, s.cab)
    BY DEF UsableLive
  <2>1. s \in Usable(c)
    BY DEF Usable
  <2>2. Live(c, s.cab)
    BY <2>1 DEF Working, Good, UsableLive
  <2> QED
    BY <2>2, SameNodes DEF Live
<1>5. MarksHeld(d) /\ MarksDiffer(d)
  <2>1. \A cab : BufferOf(d, cab) = BufferOf(c, cab)
    BY SameNodes
  <2>2. MarksHeld(d)
    BY <2>1 DEF Working, Good, MarksHeld, Quiet
  <2>3. MarksDiffer(d)
    BY <2>1 DEF Working, Good, MarksDiffer
  <2> QED
    BY <2>2, <2>3
<1>6. \A cab : Live(c, cab) => Live(d, cab)
  BY SameNodes DEF Live
<1> QED
  BY <1>1, <1>2, <1>3, <1>4, <1>5, <1>6 DEF Working, Good

------------------------------------------------------------------------------
(* Calls.                                                                   *)

Calls == [core : Cores, ok : BOOLEAN, args : Seq(Cables)]

Calling(k) ==
    /\ k \in Calls /\ Working(k.core)
    /\ \A i \in 1 .. Len(k.args) : Live(k.core, k.args[i])

\* d is c but for the stacks.
Stacks(c, d) ==
    d \in Cores /\ d.nodes = c.nodes /\ d.regs = c.regs /\ d.marks = c.marks

(* A command starts with no argument.                                       *)
LEMMA CallIs ==
    ASSUME NEW c, NEW k, Working(c), k = Call(c)
    PROVE  Calling(k) /\ k.core = c /\ k.ok /\ k.args = <<>>
<1>1. c \in Cores
  BY DEF Working, Sized
<1>2. k \in Calls /\ k.core = c /\ k.ok /\ k.args = <<>>
  BY <1>1 DEF Call, Calls
<1> QED
  BY <1>2 DEF Calling

(* A command that fails leaves the core as it is.                           *)
LEMMA FailIs ==
    ASSUME NEW k, NEW p, k \in Calls, p = Fail(k)
    PROVE  /\ p \in Calls /\ p.core = k.core /\ p.args = k.args /\ ~p.ok
           /\ Calling(k) => Calling(p)
<1>1. p \in Calls /\ p.core = k.core /\ p.args = k.args /\ ~p.ok
  BY DEF Fail, Calls
<1> QED
  BY <1>1 DEF Calling

(* sk_core_push and the like.                                               *)
LEMMA PushStackletIs ==
    ASSUME NEW k, NEW p, NEW s \in Stacklets, k \in Calls, p = PushStacklet(k, s)
    PROVE  /\ p \in Calls /\ p.args = k.args
           /\ Stacks(k.core, p.core) /\ p.core.gf = k.core.gf
           /\ p.ok => /\ k.ok /\ Len(k.core.sk) < SkSize
                      /\ p.core.sk = Append(k.core.sk, s)
           /\ ~p.ok => p.core = k.core
<1>1. k.core \in Cores /\ k.core.sk \in Seq(Stacklets) /\ Len(k.core.sk) \in Nat
  BY LenProperties DEF Calls, Cores
<1>2. CASE ~k.ok \/ Len(k.core.sk) >= SkSize
  <2>1. p = Fail(k)
    BY <1>2 DEF PushStacklet
  <2> QED
    BY <1>1, <2>1, FailIs DEF Stacks
<1>3. CASE k.ok /\ ~(Len(k.core.sk) >= SkSize)
  <2>1. p = [k EXCEPT !.core.sk = Append(k.core.sk, s)]
    BY <1>3 DEF PushStacklet
  <2>2. Append(k.core.sk, s) \in Seq(Stacklets)
    BY <1>1, AppendProperties
  <2>3. /\ p \in Calls /\ p.args = k.args /\ p.ok = k.ok
        /\ Stacks(k.core, p.core) /\ p.core.gf = k.core.gf
        /\ p.core.sk = Append(k.core.sk, s)
    BY <1>1, <2>1, <2>2 DEF Calls, Cores, Stacks
  <2> QED
    BY <1>1, <1>3, <2>3, SkSizeAssumption
<1> QED
  BY <1>2, <1>3

(* A stacklet that is no cable goes on the typed stack.                     *)
LEMMA PushPlainKeeps ==
    ASSUME NEW k, NEW p, NEW s \in Stacklets, Calling(k), s.type # "cable",
           p = PushStacklet(k, s)
    PROVE  Working(p.core)
<1> PICK c : c = k.core
  OBVIOUS
<1> PICK d : d = p.core
  OBVIOUS
<1>1. /\ Working(c) /\ c \in Cores /\ c.sk \in Seq(Stacklets)
      /\ Sound(c.gf) /\ Lined(c, c.sk, c.gf.stack) /\ Len(c.sk) \in Nat
  BY LenProperties DEF Calling, Calls, Working, Good, Cores
<1>2. /\ Stacks(c, d) /\ d.gf = c.gf
      /\ \/ Len(c.sk) < SkSize /\ d.sk = Append(c.sk, s)
         \/ d = c
  BY PushStackletIs DEF Calling
<1>3. CASE Len(c.sk) < SkSize /\ d.sk = Append(c.sk, s)
  <2>1. Lined(c, d.sk, d.gf.stack)
    BY <1>1, <1>2, <1>3, LinedAppendOther DEF IsBlock
  <2>2. /\ Len(d.sk) = Len(c.sk) + 1 /\ d.sk[Len(c.sk) + 1] = s
        /\ \A i \in 1 .. Len(c.sk) : d.sk[i] = c.sk[i]
    BY <1>1, <1>3, AppendProperties
  <2>3. Len(d.sk) <= SkSize
    BY <1>1, <1>3, <2>2, SkSizeAssumption
  <2>4. ASSUME NEW i \in 1 .. Len(d.sk), d.sk[i].type = "cable"
        PROVE  d.sk[i] \in Usable(c)
    <3>1. i \in 1 .. Len(c.sk)
      BY <1>1, <2>2, <2>4
    <3> QED
      BY <2>2, <3>1 DEF Usable
  <2> QED
    BY <1>1, <1>2, <2>1, <2>3, <2>4, SameRegs DEF Stacks, Quiet
<1> QED
  BY <1>1, <1>2, <1>3

(* The top of the typed stack goes, and with a cable the top of the buffer  *)
(* stack.                                                                   *)
LEMMA PopKeeps ==
    ASSUME NEW c, NEW d, Working(c), c.sk # <<>>, Stacks(c, d), d.sk = Front(c.sk),
           d.gf = IF Last(c.sk).type = "cable" THEN StackPop(c.gf) ELSE c.gf
    PROVE  /\ Working(d) /\ Len(d.sk) = Len(c.sk) - 1
           /\ Last(c.sk) \in Stacklets
           /\ \A cab : Live(c, cab) => Live(d, cab)
           /\ Last(c.sk).type = "cable" =>
                 /\ Live(c, Last(c.sk).cab) /\ IsBlock(c, Last(c.sk))
                 /\ Pos(c.gf) # 0 /\ Top(c.gf) = BufferOf(c, Last(c.sk).cab)
                 /\ Top(c.gf) \in Bufs \cup {OwnBuf}
<1> PICK s : s = Last(c.sk)
  OBVIOUS
<1>1. /\ c \in Cores /\ c.sk \in Seq(Stacklets) /\ Good(c)
      /\ Sound(c.gf) /\ Lined(c, c.sk, c.gf.stack) /\ c.gf.stack \in Seq(Bufs \cup {OwnBuf})
      /\ Len(c.sk) <= SkSize
  BY SoundIs DEF Working, Good, Cores, Sized
<1>2. /\ Len(c.sk) \in Nat \ {0} /\ s \in Stacklets /\ s = c.sk[Len(c.sk)]
      /\ d.sk \in Seq(Stacklets) /\ Len(d.sk) = Len(c.sk) - 1
      /\ \A i \in 1 .. Len(c.sk) - 1 : d.sk[i] = c.sk[i]
  BY <1>1, FrontIs
<1>3. s \in Usable(c)
  BY <1>2 DEF Usable
<1>4. \A i \in 1 .. Len(d.sk) : d.sk[i].type = "cable" => d.sk[i] \in Usable(c)
  BY <1>2 DEF Usable
<1>5. Len(d.sk) <= SkSize
  BY <1>1, <1>2, SkSizeAssumption
<1>6. CASE s.type # "cable"
  <2>1. Lined(c, d.sk, d.gf.stack)
    BY <1>1, <1>2, <1>6, LinedFront DEF IsBlock
  <2> QED
    BY <1>1, <1>2, <1>4, <1>5, <1>6, <2>1, SameRegs DEF Stacks, Quiet
<1>7. CASE s.type = "cable"
  <2>1. Live(c, s.cab) /\ IsBlock(c, s) /\ BufferOf(c, s.cab) \in Bufs \cup {OwnBuf}
    BY <1>1, <1>3, <1>7, UsableIs
  <2>2. /\ Pos(c.gf) # 0 /\ Top(c.gf) = BufferOf(c, s.cab)
        /\ Lined(c, d.sk, Below(c.gf))
    <3>1. /\ Len(c.gf.stack) \in Nat \ {0}
          /\ c.gf.stack[Len(c.gf.stack)] = BufferOf(c, s.cab)
          /\ Lined(c, d.sk, SubSeq(c.gf.stack, 1, Len(c.gf.stack) - 1))
      BY <1>1, <2>1, LinedFront
    <3> QED
      BY <3>1 DEF Pos, Top, Below
  <2>3. Sound(d.gf) /\ d.gf.stack = Below(c.gf) /\ Quiet(c.gf, d.gf)
    BY <1>1, <1>7, <2>2, PopIs
  <2>4. Working(d) /\ \A cab : Live(c, cab) => Live(d, cab)
    BY <1>4, <1>5, <2>2, <2>3, SameRegs DEF Stacks
  <2> QED
    BY <1>2, <2>1, <2>2, <2>4
<1> QED
  BY <1>6, <1>7

\* p is the call k that has taken the cable s and its buffer.
Takes(k, p, s) ==
    /\ Calling(p) /\ Stacks(k.core, p.core) /\ p.ok
    /\ p.core.sk = Front(k.core.sk) /\ p.core.gf = StackPop(k.core.gf)
    /\ Len(p.core.sk) = Len(k.core.sk) - 1
    /\ Len(p.args) = Len(k.args) + 1 /\ p.args[1] = s.cab
    /\ Live(k.core, s.cab) /\ IsBlock(k.core, s)
    /\ Pos(k.core.gf) # 0 /\ Top(k.core.gf) = BufferOf(k.core, s.cab)
    /\ Top(k.core.gf) \in Bufs \cup {OwnBuf}

(* sk_param_get takes the cable on top, and its buffer.                     *)
LEMMA ParamGetTakes ==
    ASSUME NEW k, NEW p, NEW s, Calling(k), k.ok, k.core.sk # <<>>,
           s = Last(k.core.sk), s.type = "cable", p = ParamGet(k)
    PROVE  Takes(k, p, s)
<1> PICK c : c = k.core
  OBVIOUS
<1>1. /\ k \in Calls /\ c \in Cores /\ c.sk \in Seq(Stacklets) /\ Working(c) /\ Good(c)
      /\ k.args \in Seq(Cables) /\ Len(k.args) \in Nat
  BY LenProperties DEF Calling, Calls, Cores, Working
<1>2. PICK h : h = StackPop(c.gf)
  OBVIOUS
<1>3. Front(c.sk) \in Seq(Stacklets)
  BY <1>1, FrontIs
<1>4. /\ Live(c, s.cab) /\ IsBlock(c, s) /\ h \in Patches
  <2>1. s \in Usable(c)
    <3>1. Len(c.sk) \in Nat \ {0} /\ s = c.sk[Len(c.sk)]
      BY <1>1, FrontIs
    <3> QED
      BY <3>1 DEF Usable
  <2>2. Live(c, s.cab) /\ IsBlock(c, s)
    BY <1>1, <2>1, UsableIs
  <2>3. Sound(c.gf) /\ c.gf.stack \in Seq(Bufs \cup {OwnBuf})
    BY <1>1, SoundIs DEF Good
  <2>4. Pos(c.gf) # 0
    BY <1>1, <2>2, <2>3, LinedFront DEF Good, Pos
  <2> QED
    BY <1>2, <2>2, <2>3, <2>4, PopIs, SoundIs
<1>5. PICK q : q = [k EXCEPT !.core.sk = Front(c.sk)]
  OBVIOUS
<1>6. /\ q \in Calls /\ q.ok /\ q.args = k.args /\ Stacks(c, q.core)
      /\ q.core.sk = Front(c.sk) /\ q.core.gf = c.gf
  BY <1>1, <1>3, <1>5 DEF Calls, Cores, Stacks
<1>7. s.cab \in Cables
  BY <1>4 DEF Live, Known
<1>8. /\ <<s.cab>> \in Seq(Cables) /\ Len(<<s.cab>>) = 1 /\ <<s.cab>>[1] = s.cab
  BY <1>7
<1>9. PICK args : args = <<s.cab>> \o k.args
  OBVIOUS
<1>10. /\ args \in Seq(Cables) /\ Len(args) = Len(k.args) + 1 /\ args[1] = s.cab
       /\ \A i \in 2 .. Len(args) : i - 1 \in 1 .. Len(k.args) /\ args[i] = k.args[i - 1]
  BY <1>1, <1>8, <1>9, ConcatProperties
<1>11. p = [q EXCEPT !.args = args, !.core.gf = h]
  BY <1>2, <1>4, <1>5, <1>6, <1>9 DEF ParamGet
<1>12. /\ p \in Calls /\ p.ok /\ p.args = args /\ Stacks(c, p.core)
       /\ p.core.sk = Front(c.sk) /\ p.core.gf = h
  <2>1. PICK u : u = [q EXCEPT !.args = args]
    OBVIOUS
  <2>2. /\ u \in Calls /\ u.ok /\ u.args = args /\ u.core = q.core
        /\ p = [u EXCEPT !.core.gf = h]
    BY <1>6, <1>10, <1>11, <2>1 DEF Calls
  <2>3. PICK e : e = q.core
    OBVIOUS
  <2>4. /\ e \in Cores /\ e.sk = Front(c.sk) /\ e.nodes = c.nodes
        /\ e.regs = c.regs /\ e.marks = c.marks
    BY <1>6, <2>3 DEF Stacks
  <2>5. PICK d : d = [e EXCEPT !.gf = h]
    OBVIOUS
  <2>6. /\ d \in Cores /\ d.sk = e.sk /\ d.gf = h
        /\ d.nodes = e.nodes /\ d.regs = e.regs /\ d.marks = e.marks
    BY <1>4, <2>4, <2>5 DEF Cores
  <2>7. p = [u EXCEPT !.core = d]
    BY <2>2, <2>3, <2>5
  <2>8. p \in Calls /\ p.core = d /\ p.ok /\ p.args = args
    BY <2>2, <2>6, <2>7 DEF Calls
  <2> QED
    BY <2>4, <2>6, <2>8 DEF Stacks
<1>13. /\ Working(p.core) /\ Len(p.core.sk) = Len(c.sk) - 1
       /\ \A cab : Live(c, cab) => Live(p.core, cab)
       /\ Pos(c.gf) # 0 /\ Top(c.gf) = BufferOf(c, s.cab)
       /\ Top(c.gf) \in Bufs \cup {OwnBuf}
  BY <1>1, <1>2, <1>12, PopKeeps
<1>14. \A i \in 1 .. Len(args) : Live(p.core, args[i])
  <2>1. \A i \in 1 .. Len(k.args) : Live(p.core, k.args[i])
    BY <1>13 DEF Calling
  <2> QED
    BY <1>4, <1>10, <1>13, <2>1
<1> QED
  BY <1>2, <1>4, <1>10, <1>12, <1>13, <1>14 DEF Calling, Takes

(* sk_param_get takes a constant or the cable on top, with its buffer.      *)
LEMMA ParamGetIs ==
    ASSUME NEW k, NEW p, Calling(k), p = ParamGet(k)
    PROVE  /\ Calling(p) /\ Stacks(k.core, p.core) /\ Len(p.args) <= Len(k.args) + 1
           /\ p.ok => k.ok /\ Len(p.core.sk) = Len(k.core.sk) - 1
<1> PICK c : c = k.core
  OBVIOUS
<1>1. /\ k \in Calls /\ c \in Cores /\ c.sk \in Seq(Stacklets) /\ Working(c) /\ Good(c)
      /\ k.args \in Seq(Cables) /\ Len(k.args) \in Nat
  BY LenProperties DEF Calling, Calls, Cores, Working
<1>2. CASE ~k.ok \/ c.sk = <<>>
  <2>1. p = Fail(k)
    BY <1>2 DEF ParamGet
  <2> QED
    BY <1>1, <2>1, FailIs DEF Stacks
<1>3. CASE k.ok /\ c.sk # <<>>
  <2> PICK s : s = Last(c.sk)
    OBVIOUS
  <2> PICK q : q = [k EXCEPT !.core.sk = Front(c.sk)]
    OBVIOUS
  <2>1. s \in Stacklets /\ Front(c.sk) \in Seq(Stacklets)
    BY <1>1, <1>3, FrontIs
  <2>2. /\ q \in Calls /\ q.ok /\ q.args = k.args /\ Stacks(c, q.core)
        /\ q.core.sk = Front(c.sk) /\ q.core.gf = c.gf
    BY <1>1, <1>3, <2>1 DEF Calls, Cores, Stacks
  <2>3. CASE s.type # "cable"
    <3>1. p = q \/ p = Fail(q)
      BY <1>3, <2>3 DEF ParamGet
    <3>2. /\ Working(q.core) /\ Len(q.core.sk) = Len(c.sk) - 1
          /\ \A cab : Live(c, cab) => Live(q.core, cab)
      BY <1>1, <1>3, <2>2, <2>3, PopKeeps
    <3>3. Calling(q)
      BY <2>2, <3>2 DEF Calling
    <3>4. CASE p = q
      BY <1>1, <1>3, <2>2, <3>2, <3>3, <3>4
    <3>5. CASE p = Fail(q)
      <4>1. p.core = q.core /\ p.args = q.args /\ ~p.ok /\ Calling(p)
        BY ONLY <2>2, <3>3, <3>5, FailIs
      <4> QED
        BY <1>1, <2>2, <4>1
    <3> QED
      BY <3>1, <3>4, <3>5
  <2>4. CASE s.type = "cable"
    <3>1. Takes(k, p, s)
      BY <1>3, <2>4, ParamGetTakes
    <3> QED
      BY <1>1, <1>3, <3>1 DEF Takes
  <2> QED
    BY <2>3, <2>4
<1> QED
  BY <1>2, <1>3

------------------------------------------------------------------------------
(* A new node.                                                              *)

(* The nodes there were stay what they were.                                *)
LEMMA NodesAppended ==
    ASSUME NEW c, NEW d, c \in Cores, NEW node \in NodeRecords,
           d.nodes = Append(c.nodes, node)
    PROVE  /\ Len(c.nodes) \in Nat /\ Len(d.nodes) = Len(c.nodes) + 1
           /\ d.nodes[Len(c.nodes) + 1] = node
           /\ d.nodes \in Seq(NodeRecords)
           /\ \A n \in 1 .. Len(c.nodes) :
                 d.nodes[n] = c.nodes[n] /\ WritesOf(d, n) = WritesOf(c, n)
           /\ \A cab : cab[1] \in 1 .. Len(c.nodes) => BufferOf(d, cab) = BufferOf(c, cab)
           /\ \A cab : Known(c, cab) => Known(d, cab)
<1>1. c.nodes \in Seq(NodeRecords) /\ Len(c.nodes) \in Nat
  BY LenProperties DEF Cores
<1>2. /\ Len(d.nodes) = Len(c.nodes) + 1 /\ d.nodes[Len(c.nodes) + 1] = node
      /\ d.nodes \in Seq(NodeRecords)
      /\ \A n \in 1 .. Len(c.nodes) : d.nodes[n] = c.nodes[n]
  BY <1>1, AppendProperties
<1>3. \A n \in 1 .. Len(c.nodes) : WritesOf(d, n) = WritesOf(c, n)
  BY <1>2 DEF WritesOf
<1>4. \A cab : cab[1] \in 1 .. Len(c.nodes) => BufferOf(d, cab) = BufferOf(c, cab)
  BY <1>2 DEF BufferOf
<1>5. ASSUME NEW cab, Known(c, cab) PROVE Known(d, cab)
  <2>1. cab[1] \in 1 .. Len(c.nodes)
    BY <1>5, KnownIs
  <2> QED
    BY <1>1, <1>2, <1>5, <2>1 DEF Known
<1> QED
  BY <1>1, <1>2, <1>3, <1>4, <1>5

\* A node whose inputs are live and whose outputs were free.
MayFollow(c, node) ==
    /\ node \in NodeRecords /\ Len(node.outs) <= 2
    /\ \A i \in 1 .. Len(node.ins) : Live(c, node.ins[i])
    /\ \A j \in 1 .. Len(node.outs) :
          node.outs[j] \in Bufs => c.gf.read[node.outs[j]] = 0
    /\ Len(node.outs) = 2 => node.outs[1] # node.outs[2] \/ node.outs[1] = NullBuf

\* The script's stacklets after it: those there were, and its outputs.
Offers(c, d, node) ==
    \A s \in Usable(d) : s.type = "cable" =>
        \/ s \in Usable(c)
        \/ /\ s.cab \in Cables /\ s.cab[1] = Len(c.nodes) + 1
           /\ s.cab[2] <= Len(node.outs)

(* A cable that was live stays live unless the new node writes its buffer.  *)
LEMMA LiveAfter ==
    ASSUME NEW c, NEW d, c \in Cores, Good(c), NEW node, MayFollow(c, node),
           d.nodes = Append(c.nodes, node), NEW s \in Usable(c), s.type = "cable"
    PROVE  Live(d, s.cab) /\ BufferOf(d, s.cab) = BufferOf(c, s.cab)
<1>1. /\ Live(c, s.cab) /\ BufferOf(c, s.cab) \in Bufs \cup {OwnBuf}
      /\ BufferOf(c, s.cab) \in Bufs => c.gf.read[BufferOf(c, s.cab)] # 0
  BY UsableIs
<1>0. node \in NodeRecords /\ Known(c, s.cab)
  BY <1>1 DEF MayFollow, Live
<1>2. /\ Len(c.nodes) \in Nat /\ Len(d.nodes) = Len(c.nodes) + 1
      /\ d.nodes[Len(c.nodes) + 1] = node
      /\ \A n \in 1 .. Len(c.nodes) : WritesOf(d, n) = WritesOf(c, n)
      /\ \A cab : cab[1] \in 1 .. Len(c.nodes) => BufferOf(d, cab) = BufferOf(c, cab)
      /\ Known(d, s.cab)
  BY <1>0, NodesAppended
<1>3. s.cab[1] \in 1 .. Len(c.nodes)
  BY <1>1, KnownIs DEF Live
<1>4. BufferOf(d, s.cab) = BufferOf(c, s.cab)
  BY <1>2, <1>3
<1>5. BufferOf(c, s.cab) \notin WritesOf(d, Len(c.nodes) + 1)
  BY <1>1, <1>2 DEF WritesOf, MayFollow
<1>6. ASSUME NEW m \in s.cab[1] + 1 .. Len(d.nodes)
      PROVE  BufferOf(d, s.cab) \notin WritesOf(d, m)
  <2>1. CASE m = Len(c.nodes) + 1
    BY <1>4, <1>5, <2>1
  <2>2. CASE m # Len(c.nodes) + 1
    <3>1. m \in 1 .. Len(c.nodes) /\ m \in s.cab[1] + 1 .. Len(c.nodes)
      BY <1>2, <1>3, <2>2
    <3> QED
      BY <1>1, <1>2, <1>4, <3>1 DEF Live, Unwritten
  <2> QED
    BY <2>1, <2>2
<1> QED
  BY <1>2, <1>4, <1>6 DEF Live, Unwritten

(* The signals of the patch are intact with one node more.                  *)
LEMMA NodeIntact ==
    ASSUME NEW c, NEW d, Working(c), d \in Cores, Len(d.sk) <= SkSize,
           Len(c.nodes) < MaxNodes, NEW node, MayFollow(c, node),
           d.nodes = Append(c.nodes, node), Offers(c, d, node)
    PROVE  /\ Sized(d) /\ InputsIntact(d) /\ OutsDiffer(d)
           /\ UsableLive(d) /\ UsableUnwritten(d)
<1> PICK n : n = Len(c.nodes) + 1
  OBVIOUS
<1>0. node \in NodeRecords /\ c \in Cores
  BY DEF MayFollow, Working, Sized
<1>1. /\ Len(c.nodes) \in Nat /\ Len(d.nodes) = n /\ d.nodes[n] = node
      /\ \A x \in 1 .. Len(c.nodes) :
            d.nodes[x] = c.nodes[x] /\ WritesOf(d, x) = WritesOf(c, x)
      /\ \A cab : cab[1] \in 1 .. Len(c.nodes) => BufferOf(d, cab) = BufferOf(c, cab)
  BY <1>0, NodesAppended
<1>2. Sized(d)
  <2>1. \A x \in 1 .. Len(d.nodes) : Len(d.nodes[x].outs) <= 2
    <3>1. \A x \in 1 .. Len(d.nodes) : x = n \/ x \in 1 .. Len(c.nodes)
      BY <1>1
    <3> QED
      BY <1>1, <3>1 DEF MayFollow, Working, Sized
  <2> QED
    BY <1>1, <2>1, MaxNodesAssumption DEF Sized
<1>3. OutsDiffer(d)
  <2>1. \A x \in 1 .. Len(d.nodes) : x = n \/ x \in 1 .. Len(c.nodes)
    BY <1>1
  <2> QED
    BY <1>1, <2>1 DEF MayFollow, Working, OutsDiffer
<1>4. InputsIntact(d)
  <2> SUFFICES ASSUME NEW x \in 1 .. Len(d.nodes), NEW i \in 1 .. Len(d.nodes[x].ins),
                      NEW m \in d.nodes[x].ins[i][1] + 1 .. x - 1
               PROVE  BufferOf(d, d.nodes[x].ins[i]) \notin WritesOf(d, m)
    BY DEF InputsIntact
  <2> PICK cab : cab = d.nodes[x].ins[i]
    OBVIOUS
  <2>1. d.nodes[x] \in NodeRecords /\ cab \in Cables
    <3>1. d.nodes \in Seq(NodeRecords)
      BY DEF Cores
    <3>2. d.nodes[x] \in NodeRecords
      BY <3>1, ElementOfSeq
    <3>3. d.nodes[x].ins \in Seq(Cables)
      BY <3>2 DEF NodeRecords
    <3> QED
      BY <3>2, <3>3, ElementOfSeq
  <2>2. cab[1] \in Nat \ {0} /\ x \in 1 .. Len(c.nodes) + 1 /\ m \in cab[1] + 1 .. x - 1
    <3>1. cab[1] \in Nat \ {0}
      BY ONLY <2>1, MaxNodesAssumption DEF Cables
    <3> QED
      BY <1>1, <3>1
  <2>3. m \in 1 .. Len(c.nodes) /\ cab[1] \in 1 .. Len(c.nodes)
    <3>1. PICK y : y = cab[1]
      OBVIOUS
    <3>2. PICK len : len = Len(c.nodes)
      OBVIOUS
    <3> QED
      BY ONLY <1>1, <2>2, <3>1, <3>2
  <2>4. BufferOf(d, cab) = BufferOf(c, cab) /\ WritesOf(d, m) = WritesOf(c, m)
    BY <1>1, <2>3
  <2>5. CASE x = n
    <3>1. Live(c, cab) /\ m \in cab[1] + 1 .. Len(c.nodes)
      BY <1>1, <2>3, <2>5 DEF MayFollow
    <3> QED
      BY <2>4, <3>1 DEF Live, Unwritten
  <2>6. CASE x # n
    <3>1. x \in 1 .. Len(c.nodes) /\ d.nodes[x] = c.nodes[x]
      BY <1>1, <2>6
    <3> QED
      BY <2>4, <3>1 DEF Working, InputsIntact
  <2> QED
    BY <2>5, <2>6
<1>5. UsableLive(d)
  <2> SUFFICES ASSUME NEW s \in Usable(d), s.type = "cable" PROVE Live(d, s.cab)
    BY DEF UsableLive
  <2>1. CASE s \in Usable(c)
    BY <2>1, LiveAfter DEF Working, Sized
  <2>2. CASE /\ s.cab \in Cables /\ s.cab[1] = Len(c.nodes) + 1
             /\ s.cab[2] <= Len(node.outs)
    <3>1. Known(d, s.cab)
      BY <1>1, <2>2 DEF Known
    <3>2. Unwritten(d, s.cab)
      BY <1>1, <2>2 DEF Unwritten
    <3> QED
      BY <3>1, <3>2 DEF Live
  <2> QED
    BY <2>1, <2>2 DEF Offers
<1> QED
  BY <1>2, <1>3, <1>4, <1>5 DEF UsableLive, UsableUnwritten, Live

(* A node all of whose outputs have a buffer leaves a good core.            *)
LEMMA NodeGood ==
    ASSUME NEW c, NEW d, Working(c), d \in Cores, Len(d.sk) <= SkSize,
           Len(c.nodes) < MaxNodes, NEW node, MayFollow(c, node),
           d.nodes = Append(c.nodes, node), Offers(c, d, node),
           d.regs = c.regs, d.marks = c.marks,
           \A j \in 1 .. Len(node.outs) : node.outs[j] # NullBuf,
           Sound(d.gf), Quiet(c.gf, d.gf), Lined(d, d.sk, d.gf.stack)
    PROVE  Good(d)
<1>1. UsableLive(d)
  BY NodeIntact
<1>2. AllBlocks(d)
  <2>1. /\ Len(c.nodes) \in Nat /\ Len(d.nodes) = Len(c.nodes) + 1
        /\ d.nodes[Len(c.nodes) + 1] = node
        /\ \A x \in 1 .. Len(c.nodes) : d.nodes[x] = c.nodes[x]
    BY NodesAppended DEF MayFollow, Working, Sized
  <2>2. \A x \in 1 .. Len(d.nodes) : x = Len(c.nodes) + 1 \/ x \in 1 .. Len(c.nodes)
    BY <2>1
  <2> QED
    BY <2>1, <2>2 DEF Working, Good, AllBlocks
<1>3. \A r \in c.marks : c.regs[r].type = "cable" /\ c.regs[r] \in Usable(c)
  BY DEF Working, Good, MarksHeld, Usable
<1>4. \A r \in c.marks : BufferOf(d, c.regs[r].cab) = BufferOf(c, c.regs[r].cab)
  BY <1>3, LiveAfter DEF Working, Sized
<1>5. MarksHeld(d) /\ MarksDiffer(d)
  <2>1. MarksHeld(d)
    BY <1>4 DEF Working, Good, MarksHeld, Quiet
  <2>2. MarksDiffer(d)
    BY <1>4 DEF Working, Good, MarksDiffer
  <2> QED
    BY <2>1, <2>2
<1> QED
  BY <1>1, <1>2, <1>5 DEF Good

(* The typed stack of before is in line with the buffer stack of before,    *)
(* whatever node has been added.                                            *)
LEMMA LinedAfter ==
    ASSUME NEW c, NEW d, c \in Cores, Good(c), NEW node, MayFollow(c, node),
           d.nodes = Append(c.nodes, node)
    PROVE  Lined(d, c.sk, c.gf.stack)
<1>1. c.sk \in Seq(Stacklets) /\ Lined(c, c.sk, c.gf.stack)
  BY DEF Cores, Good
<1>2. ASSUME NEW i \in 1 .. Len(c.sk)
      PROVE  /\ IsBlock(c, c.sk[i]) <=> IsBlock(d, c.sk[i])
             /\ IsBlock(c, c.sk[i]) => BufferOf(c, c.sk[i].cab) = BufferOf(d, c.sk[i].cab)
  <2>1. c.sk[i] \in Usable(c)
    BY DEF Usable
  <2>2. CASE c.sk[i].type = "cable"
    <3>1. BufferOf(d, c.sk[i].cab) = BufferOf(c, c.sk[i].cab)
      BY <2>1, <2>2, LiveAfter
    <3> QED
      BY <2>2, <3>1 DEF IsBlock
  <2>3. CASE c.sk[i].type # "cable"
    BY <2>3 DEF IsBlock
  <2> QED
    BY <2>2, <2>3
<1> QED
  BY <1>1, <1>2, LinedSame

\* The patch after m set_blocks, and the buffers they gave.
After(g, m) ==
    CASE m = 0 -> g
      [] m = 1 -> SetBlock(g)
      [] m = 2 -> SetBlock(SetBlock(g))

Gave(g, m) ==
    CASE m = 0 -> <<>>
      [] m = 1 -> <<Given(g, SetBlock(g))>>
      [] m = 2 -> <<Given(g, SetBlock(g)), Given(SetBlock(g), SetBlock(SetBlock(g)))>>

\* What m outputs push on a stack.
Pushed(st, out, m) ==
    CASE m = 0 -> st
      [] m = 1 -> Append(st, out[1])
      [] m = 2 -> Append(Append(st, out[1]), out[2])

\* A set_block gave b, a buffer that was free, or NULL and an error.
Blocked(g, h, b) ==
    /\ Sound(h) /\ Quiet(g, h) /\ (g.err => h.err)
    /\ \/ h.err /\ b = NullBuf /\ h.read = g.read
       \/ /\ b \in Bufs /\ g.read[b] = 0 /\ h.read = [g.read EXCEPT ![b] = 1]
          /\ h.stack = Append(g.stack, b)

(* One output: a fresh buffer, or none and an error.                        *)
LEMMA GivenIs ==
    ASSUME NEW g, NEW h, NEW b, Sound(g), h = SetBlock(g), b = Given(g, h)
    PROVE  Blocked(g, h, b)
<1>1. /\ Sound(h) /\ Quiet(g, h) /\ (g.err => h.err)
      /\ \/ h.err /\ h.stack = g.stack /\ h.read = g.read
         \/ \E x \in Bufs : /\ g.read[x] = 0
                            /\ h.read = [g.read EXCEPT ![x] = 1]
                            /\ h.stack = Append(g.stack, x)
  BY SetBlockIs
<1>2. g.stack \in Seq(Bufs \cup {OwnBuf}) /\ Len(g.stack) \in Nat
  BY SoundIs, LenProperties
<1>3. CASE h.err /\ h.stack = g.stack /\ h.read = g.read
  <2>1. b = NullBuf
    BY <1>2, <1>3 DEF Given, Pos
  <2> QED
    BY <1>1, <1>3, <2>1 DEF Blocked
<1>4. ASSUME NEW x \in Bufs, g.read[x] = 0, h.read = [g.read EXCEPT ![x] = 1],
             h.stack = Append(g.stack, x)
      PROVE  b = x
  <2>1. Len(h.stack) = Len(g.stack) + 1 /\ h.stack[Len(g.stack) + 1] = x
    BY <1>2, <1>4, AppendProperties
  <2> QED
    BY <1>2, <2>1 DEF Given, Pos, Top
<1> QED
  BY <1>1, <1>3, <1>4 DEF Blocked

\* The outputs of a node: buffers that were free, each of them once.
Gives(g, h, outs, m) ==
    /\ Sound(h) /\ Quiet(g, h) /\ outs \in Seq(Outs) /\ Len(outs) = m
    /\ \A j \in 1 .. m : outs[j] \in Bufs => g.read[outs[j]] = 0
    /\ m = 2 => outs[1] # outs[2] \/ outs[1] = NullBuf
    /\ ~h.err => /\ \A j \in 1 .. m : outs[j] \in Bufs
                 /\ h.stack = Pushed(g.stack, outs, m)

(* What m set_blocks give.                                                  *)
LEMMA GaveIs ==
    ASSUME NEW g, NEW m \in {0, 1, 2}, Sound(g)
    PROVE  Gives(g, After(g, m), Gave(g, m), m)
<1> SUFFICES ASSUME NEW h, NEW outs, h = After(g, m), outs = Gave(g, m)
             PROVE  /\ Sound(h) /\ Quiet(g, h) /\ outs \in Seq(Outs) /\ Len(outs) = m
                    /\ \A j \in 1 .. m : outs[j] \in Bufs => g.read[outs[j]] = 0
                    /\ m = 2 => outs[1] # outs[2] \/ outs[1] = NullBuf
                    /\ ~h.err => /\ \A j \in 1 .. m : outs[j] \in Bufs
                                 /\ h.stack = Pushed(g.stack, outs, m)
  BY DEF Gives
<1>1. CASE m = 0
  <2>1. h = g /\ outs = <<>> /\ Pushed(g.stack, outs, m) = g.stack
    BY <1>1 DEF After, Gave, Pushed
  <2>2. outs \in Seq(Outs) /\ Len(outs) = 0
    BY <2>1
  <2> QED
    BY <1>1, <2>1, <2>2 DEF Quiet
<1> PICK g1 : g1 = SetBlock(g)
  OBVIOUS
<1> PICK b1 : b1 = Given(g, g1)
  OBVIOUS
<1>2. /\ Sound(g1) /\ Quiet(g, g1) /\ (g.err => g1.err)
      /\ \/ g1.err /\ b1 = NullBuf /\ g1.read = g.read
         \/ /\ b1 \in Bufs /\ g.read[b1] = 0 /\ g1.read = [g.read EXCEPT ![b1] = 1]
            /\ g1.stack = Append(g.stack, b1)
  <2>1. Blocked(g, g1, b1)
    BY GivenIs
  <2> QED
    BY <2>1 DEF Blocked
<1>3. b1 \in Outs /\ (b1 = NullBuf => b1 \notin Bufs)
  BY <1>2, OwnIs DEF Outs
<1>4. CASE m = 1
  <2>1. h = g1 /\ outs = <<b1>>
    BY <1>4 DEF After, Gave
  <2>2. outs \in Seq(Outs) /\ Len(outs) = 1 /\ outs[1] = b1
    BY <1>3, <2>1
  <2>3. Pushed(g.stack, outs, m) = Append(g.stack, b1)
    BY <1>4, <2>2 DEF Pushed
  <2>4. \A j \in 1 .. m : j = 1
    BY <1>4
  <2>5. b1 \in Bufs => g.read[b1] = 0
    BY <1>2, <1>3
  <2>6. ~g1.err => b1 \in Bufs /\ g1.stack = Append(g.stack, b1)
    BY <1>2
  <2>7. m = 1 /\ m # 2
    BY <1>4
  <2> QED
    BY <1>2, <2>1, <2>2, <2>3, <2>4, <2>5, <2>6, <2>7
<1>5. CASE m = 2
  <2> PICK g2 : g2 = SetBlock(g1)
    OBVIOUS
  <2> PICK b2 : b2 = Given(g1, g2)
    OBVIOUS
  <2>1. h = g2 /\ outs = <<b1, b2>>
    BY <1>5 DEF After, Gave
  <2>2. /\ Sound(g2) /\ Quiet(g1, g2) /\ (g1.err => g2.err)
        /\ \/ g2.err /\ b2 = NullBuf /\ g2.read = g1.read
           \/ /\ b2 \in Bufs /\ g1.read[b2] = 0 /\ g2.read = [g1.read EXCEPT ![b2] = 1]
              /\ g2.stack = Append(g1.stack, b2)
    <3>1. Blocked(g1, g2, b2)
      BY <1>2, GivenIs
    <3> QED
      BY <3>1 DEF Blocked
  <2>3. b2 \in Outs /\ (b2 = NullBuf => b2 \notin Bufs)
    BY <2>2, OwnIs DEF Outs
  <2>4. outs \in Seq(Outs) /\ Len(outs) = 2 /\ outs[1] = b1 /\ outs[2] = b2
    BY <1>3, <2>1, <2>3
  <2>5. Pushed(g.stack, outs, m) = Append(Append(g.stack, b1), b2)
    BY <1>5, <2>4 DEF Pushed
  <2>6. Quiet(g, g2)
    BY <1>2, <2>2 DEF Quiet
  <2>7. g.read \in [Bufs -> Reads]
    BY SoundIs DEF Patches
  <2>8. (b2 \in Bufs => g.read[b2] = 0) /\ (b1 # b2 \/ b1 = NullBuf)
    BY <1>2, <1>3, <2>2, <2>3, <2>7
  <2>9. \A j \in 1 .. m : j = 1 \/ j = 2
    BY <1>5
  <2>10. b1 \in Bufs => g.read[b1] = 0
    BY <1>2, <1>3
  <2>11. ~g2.err => b1 \in Bufs /\ b2 \in Bufs /\ g2.stack = Append(Append(g.stack, b1), b2)
    BY <1>2, <2>2
  <2> QED
    BY <1>5, <2>1, <2>2, <2>4, <2>5, <2>6, <2>8, <2>9, <2>10, <2>11
<1> QED
  BY <1>1, <1>4, <1>5

\* The cables of a node on the typed stack.
Cabled(sk, n, m) ==
    CASE m = 0 -> sk
      [] m = 1 -> Append(sk, Cable(n, 1))
      [] m = 2 -> Append(Append(sk, Cable(n, 1)), Cable(n, 2))

\* The typed stack sk with the cables of node n on top.
Topped(sk, tk, n, m) ==
    /\ Len(sk) \in Nat /\ tk \in Seq(Stacklets) /\ Len(tk) = Len(sk) + m
    /\ \A i \in 1 .. Len(tk) : \/ i \in 1 .. Len(sk) /\ tk[i] = sk[i]
                               \/ \E j \in 1 .. m : tk[i] = Cable(n, j)

(* The cables of a node are stacklets.                                      *)
LEMMA CableIs ==
    ASSUME NEW n \in 1 .. MaxNodes
    PROVE  Cable(n, 1) \in Stacklets /\ Cable(n, 2) \in Stacklets
  BY DEF Cable, Stacklets

(* What sk_param_out leaves.                                                *)
LEMMA CabledIs ==
    ASSUME NEW sk \in Seq(Stacklets), NEW n \in 1 .. MaxNodes, NEW m \in {0, 1, 2}
    PROVE  Topped(sk, Cabled(sk, n, m), n, m)
<1> SUFFICES ASSUME NEW tk, tk = Cabled(sk, n, m)
             PROVE  /\ Len(sk) \in Nat /\ tk \in Seq(Stacklets) /\ Len(tk) = Len(sk) + m
                    /\ \A i \in 1 .. Len(tk) :
                          \/ i \in 1 .. Len(sk) /\ tk[i] = sk[i]
                          \/ \E j \in 1 .. m : tk[i] = Cable(n, j)
  BY DEF Topped
<1>1. Cable(n, 1) \in Stacklets /\ Cable(n, 2) \in Stacklets
  BY CableIs
<1>2. Len(sk) \in Nat
  BY LenProperties
<1> PICK uk : uk = Append(sk, Cable(n, 1))
  OBVIOUS
<1>3. /\ uk \in Seq(Stacklets) /\ Len(uk) = Len(sk) + 1
      /\ uk[Len(sk) + 1] = Cable(n, 1) /\ \A i \in 1 .. Len(sk) : uk[i] = sk[i]
  BY <1>1, AppendProperties
<1> PICK vk : vk = Append(uk, Cable(n, 2))
  OBVIOUS
<1>4. /\ vk \in Seq(Stacklets) /\ Len(vk) = Len(uk) + 1
      /\ vk[Len(uk) + 1] = Cable(n, 2) /\ \A i \in 1 .. Len(uk) : vk[i] = uk[i]
  BY <1>1, <1>3, AppendProperties
<1>5. CASE m = 0
  BY <1>1, <1>2, <1>5 DEF Cabled
<1>6. CASE m = 1
  <2>1. tk = uk
    BY <1>6 DEF Cabled
  <2>2. \A i \in 1 .. Len(uk) : i \in 1 .. Len(sk) \/ i = Len(sk) + 1
    BY <1>2, <1>3
  <2>3. Len(uk) = Len(sk) + m /\ 1 \in 1 .. m
    BY <1>3, <1>6
  <2> QED
    BY <1>1, <1>2, <1>3, <2>1, <2>2, <2>3
<1>7. CASE m = 2
  <2>1. tk = vk
    BY <1>7 DEF Cabled
  <2>2. ASSUME NEW i \in 1 .. Len(vk)
        PROVE  \/ i \in 1 .. Len(sk) /\ vk[i] = sk[i]
               \/ vk[i] = Cable(n, 1) \/ vk[i] = Cable(n, 2)
    <3>1. i \in 1 .. Len(sk) \/ i = Len(sk) + 1 \/ i = Len(uk) + 1
      BY <1>2, <1>3, <1>4
    <3>2. i \in 1 .. Len(sk) \/ i = Len(sk) + 1 => i \in 1 .. Len(uk)
      BY <1>2, <1>3
    <3> QED
      BY <1>3, <1>4, <3>1, <3>2
  <2>3. Len(vk) = Len(sk) + m /\ 1 \in 1 .. m /\ 2 \in 1 .. m
    BY <1>2, <1>3, <1>4, <1>7
  <2> QED
    BY <1>1, <1>2, <1>4, <2>1, <2>2, <2>3
<1> QED
  BY <1>5, <1>6, <1>7

(* The outputs of a node go on both stacks.                                 *)
LEMMA LinedMade ==
    ASSUME NEW d, NEW sk \in Seq(Stacklets), NEW st \in Seq(Bufs \cup {OwnBuf}),
           Lined(d, sk, st), NEW n \in 1 .. MaxNodes, NEW m \in {0, 1, 2},
           NEW outs, outs = d.nodes[n].outs, \A j \in 1 .. m : outs[j] \in Bufs
    PROVE  Lined(d, Cabled(sk, n, m), Pushed(st, outs, m))
<1>1. Cable(n, 1) \in Stacklets /\ Cable(n, 2) \in Stacklets
  BY CableIs
<1>2. CASE m = 0
  BY <1>2 DEF Cabled, Pushed
<1>3. \A j \in {1, 2} : /\ Cable(n, j).type = "cable"
                        /\ BufferOf(d, Cable(n, j).cab) = outs[j]
  BY DEF Cable, BufferOf
<1>4. ASSUME m # 0 PROVE Lined(d, Append(sk, Cable(n, 1)), Append(st, outs[1]))
  <2>1. outs[1] \in Bufs /\ IsBlock(d, Cable(n, 1))
    BY <1>3, <1>4, OwnIs DEF IsBlock
  <2> QED
    BY <1>1, <1>3, <2>1, LinedAppendBlock
<1>5. CASE m = 1
  BY <1>4, <1>5 DEF Cabled, Pushed
<1>6. CASE m = 2
  <2>1. /\ outs[1] \in Bufs /\ outs[2] \in Bufs /\ IsBlock(d, Cable(n, 2))
    BY <1>3, <1>6, OwnIs DEF IsBlock
  <2>2. /\ Append(sk, Cable(n, 1)) \in Seq(Stacklets)
        /\ Append(st, outs[1]) \in Seq(Bufs \cup {OwnBuf})
    BY <1>1, <2>1, AppendProperties
  <2>3. Lined(d, Append(Append(sk, Cable(n, 1)), Cable(n, 2)),
              Append(Append(st, outs[1]), outs[2]))
    <3>1. Lined(d, Append(sk, Cable(n, 1)), Append(st, outs[1]))
      BY <1>4, <1>6
    <3>2. outs[2] \in Bufs \cup {OwnBuf} /\ outs[2] = BufferOf(d, Cable(n, 2).cab)
      BY <1>3, <2>1
    <3> QED
      BY <1>1, <2>1, <2>2, <3>1, <3>2, LinedAppendBlock
  <2> QED
    BY <1>6, <2>3 DEF Cabled, Pushed
<1> QED
  BY <1>2, <1>5, <1>6

(* One or two elements at the end of a sequence.                            *)
LEMMA ConcatOne ==
    ASSUME NEW T, NEW s \in Seq(T), NEW x \in T, NEW y \in T
    PROVE  s \o <<x>> = Append(s, x) /\ s \o <<x, y>> = Append(Append(s, x), y)
<1>1. s \o <<x>> = Append(s, x)
  BY AppendIsConcat
<1>2. s \o <<x, y>> = Append(Append(s, x), y)
  OBVIOUS
<1> QED
  BY <1>1, <1>2

(* A sequence of length one is its element.                                 *)
LEMMA OneElement ==
    ASSUME NEW S, NEW x \in S, NEW t \in Seq(S), Len(t) = 1, t[1] = x
    PROVE  t = <<x>>
<1>1. <<x>> \in Seq(S) /\ Len(<<x>>) = Len(t)
  OBVIOUS
<1>2. \A i \in 1 .. Len(t) : t[i] = <<x>>[i]
  OBVIOUS
<1> QED
  BY <1>1, <1>2, SeqEqual

(* Two elements cut to m.                                                   *)
LEMMA FirstOfTwo ==
    ASSUME NEW x, NEW y
    PROVE  /\ SubSeq(<<x, y>>, 1, 0) = <<>> /\ SubSeq(<<x, y>>, 1, 1) = <<x>>
           /\ SubSeq(<<x, y>>, 1, 2) = <<x, y>>
<1> PICK s : s = <<x, y>>
  OBVIOUS
<1> PICK S : S = {x, y}
  OBVIOUS
<1>1. s \in Seq(S) /\ Len(s) = 2 /\ s[1] = x /\ x \in S
  OBVIOUS
<1>2. SubSeq(s, 1, 0) = <<>>
  BY SubSeqEmpty
<1>3. SubSeq(s, 1, 1) = <<x>>
  <2>1. \A i \in 1 .. 1 : s[i] \in S
    BY <1>1
  <2> PICK t : t = SubSeq(s, 1, 1)
    OBVIOUS
  <2>2. t \in Seq(S) /\ Len(t) = 1 /\ t[1] = x
    BY <1>1, <2>1, SubSeqProperties
  <2>3. t = <<x>>
    BY <1>1, <2>2, OneElement
  <2> QED
    BY <2>3
<1>4. SubSeq(s, 1, 2) = s
  BY <1>1, SubSeqFull
<1> QED
  BY <1>2, <1>3, <1>4

(* The cables sk_param_out pushes, one after the other.                     *)
LEMMA ConcatCabled ==
    ASSUME NEW T, NEW sk \in Seq(T), NEW n, Cable(n, 1) \in T, Cable(n, 2) \in T,
           NEW m \in {0, 1, 2}
    PROVE  sk \o SubSeq(<<Cable(n, 1), Cable(n, 2)>>, 1, m) = Cabled(sk, n, m)
<1>0. PICK x \in T : x = Cable(n, 1)
  OBVIOUS
<1>1. PICK y \in T : y = Cable(n, 2)
  OBVIOUS
<1>2. sk \o <<>> = sk
  BY ConcatEmptySeq
<1>3. sk \o <<x>> = Append(sk, x) /\ sk \o <<x, y>> = Append(Append(sk, x), y)
  BY ConcatOne
<1>4. CASE m = 0
  <2>1. SubSeq(<<x, y>>, 1, m) = <<>>
    BY <1>4, FirstOfTwo
  <2>2. Cabled(sk, n, m) = sk
    BY <1>4 DEF Cabled
  <2> QED
    BY <1>0, <1>1, <1>2, <2>1, <2>2, Zenon
<1>5. CASE m = 1
  <2>1. SubSeq(<<x, y>>, 1, m) = <<x>>
    BY <1>5, FirstOfTwo
  <2>2. Cabled(sk, n, m) = Append(sk, x)
    BY <1>0, <1>5 DEF Cabled
  <2> QED
    BY <1>0, <1>1, <1>3, <2>1, <2>2, Zenon
<1>6. CASE m = 2
  <2>1. SubSeq(<<x, y>>, 1, m) = <<x, y>>
    BY <1>6, FirstOfTwo
  <2>2. Cabled(sk, n, m) = Append(Append(sk, x), y)
    BY <1>0, <1>1, <1>6 DEF Cabled
  <2> QED
    BY <1>0, <1>1, <1>3, <2>1, <2>2, Zenon
<1> QED
  BY <1>4, <1>5, <1>6

\* The call k with another patch, other nodes and another typed stack.
Edited(k, g, nodes, sk) ==
    [k EXCEPT !.core.gf = g, !.core.nodes = nodes, !.core.sk = sk]

\* d is the core of k with these fields.
Edit(k, d, g, nodes, sk) ==
    /\ d \in Cores /\ d.gf = g /\ d.nodes = nodes /\ d.sk = sk
    /\ d.regs = k.core.regs /\ d.marks = k.core.marks

(* The fields of such a call.                                               *)
LEMMA EditedIs ==
    ASSUME NEW k \in Calls, NEW g \in Patches, NEW nodes \in Seq(NodeRecords),
           NEW sk \in Seq(Stacklets)
    PROVE  Edit(k, Edited(k, g, nodes, sk).core, g, nodes, sk)
<1> PICK p : p = Edited(k, g, nodes, sk)
  OBVIOUS
<1> PICK c : c = k.core
  OBVIOUS
<1>1. c \in Cores
  BY DEF Calls
<1> PICK d : d = [c EXCEPT !.gf = g]
  OBVIOUS
<1>2. d \in Cores /\ d.gf = g /\ d.regs = c.regs /\ d.marks = c.marks
  BY <1>1 DEF Cores
<1> PICK e : e = [d EXCEPT !.nodes = nodes]
  OBVIOUS
<1>3. /\ e \in Cores /\ e.gf = g /\ e.nodes = nodes
      /\ e.regs = c.regs /\ e.marks = c.marks
  BY <1>2 DEF Cores
<1> PICK f : f = [e EXCEPT !.sk = sk]
  OBVIOUS
<1>4. /\ f \in Cores /\ f.gf = g /\ f.nodes = nodes /\ f.sk = sk
      /\ f.regs = c.regs /\ f.marks = c.marks
  BY <1>3 DEF Cores
<1>5. p.core = f
  <2>1. p = [k EXCEPT !.core = f]
    BY DEF Edited, Calls
  <2> QED
    BY <2>1 DEF Calls
<1> QED
  BY <1>4, <1>5 DEF Edit

(* MakeNode with its let-definitions replaced by the operators above.       *)
LEMMA MakeNodeIs ==
    ASSUME NEW k, k \in Calls, k.ok, ~k.core.gf.err, NEW m \in {0, 1, 2},
           Len(k.core.sk) + m <= SkSize
    PROVE  MakeNode(k, m) =
               Edited(k, After(k.core.gf, m),
                      Append(k.core.nodes, [ins |-> k.args, outs |-> Gave(k.core.gf, m)]),
                      Cabled(k.core.sk, Len(k.core.nodes) + 1, m))
<1> PICK n : n = Len(k.core.nodes) + 1
  OBVIOUS
<1> PICK g0 : g0 = k.core.gf
  OBVIOUS
<1> PICK g1 : g1 = IF m >= 1 THEN SetBlock(g0) ELSE g0
  OBVIOUS
<1> PICK g2 : g2 = IF m >= 2 THEN SetBlock(g1) ELSE g1
  OBVIOUS
<1> PICK outs : outs = SubSeq(<<Given(g0, g1), Given(g1, g2)>>, 1, m)
  OBVIOUS
<1> PICK room : room = SkSize - Len(k.core.sk)
  OBVIOUS
<1> PICK cables : cables = SubSeq(<<Cable(n, 1), Cable(n, 2)>>, 1,
                                  IF m < room THEN m ELSE room)
  OBVIOUS
<1>1. MakeNode(k, m) =
         [k EXCEPT !.core.gf = g2,
                   !.core.nodes = Append(@, [ins |-> k.args, outs |-> outs]),
                   !.core.sk = @ \o cables]
  BY DEF MakeNode
<1>2. k.core.sk \in Seq(Stacklets) /\ Len(k.core.sk) \in Nat
  BY LenProperties DEF Calls, Cores
<1>3. g2 = After(g0, m)
  BY DEF After
<1>4. outs = Gave(g0, m)
  <2>1. CASE m = 0
    BY <2>1, FirstOfTwo DEF Gave
  <2>2. CASE m = 1
    BY <2>2, FirstOfTwo DEF Gave
  <2>3. CASE m = 2
    BY <2>3, FirstOfTwo DEF Gave
  <2> QED
    BY <2>1, <2>2, <2>3
<1>5. k.core.sk \o cables = Cabled(k.core.sk, n, m)
  <2>1. PICK T : T = Stacklets \cup {Cable(n, 1), Cable(n, 2)}
    OBVIOUS
  <2>2. k.core.sk \in Seq(T) /\ Cable(n, 1) \in T /\ Cable(n, 2) \in T
    BY <1>2, <2>1, SeqMonotonic
  <2>3. (IF m < room THEN m ELSE room) = m
    BY <1>2, SkSizeAssumption
  <2>4. cables = SubSeq(<<Cable(n, 1), Cable(n, 2)>>, 1, m)
    BY <2>3, Zenon
  <2> QED
    BY <2>2, <2>4, ConcatCabled
<1> QED
  BY <1>1, <1>3, <1>4, <1>5 DEF Edited

(* The core with a node more, the pool full or not.                         *)
LEMMA MadeFinal ==
    ASSUME NEW c, NEW d, NEW m \in {0, 1, 2}, Working(c), Len(c.nodes) < MaxNodes,
           NEW n, n = Len(c.nodes) + 1, NEW node \in NodeRecords,
           NEW outs, outs = node.outs, NEW g, d.gf = g, Gives(c.gf, g, outs, m),
           \A i \in 1 .. Len(node.ins) : Live(c, node.ins[i]),
           Len(c.sk) + m <= SkSize, d \in Cores, d.nodes = Append(c.nodes, node),
           d.sk = Cabled(c.sk, n, m), d.regs = c.regs, d.marks = c.marks
    PROVE  Final(d)
<1>1. /\ c \in Cores /\ Good(c) /\ c.sk \in Seq(Stacklets) /\ Len(c.nodes) \in Nat
      /\ Sound(c.gf) /\ c.gf.stack \in Seq(Bufs \cup {OwnBuf})
  BY LenProperties, SoundIs DEF Working, Sized, Cores, Good
<1>2. n \in 1 .. MaxNodes
  BY <1>1, MaxNodesAssumption
<1>3. /\ Sound(g) /\ Quiet(c.gf, g) /\ Len(outs) = m
      /\ \A j \in 1 .. m : outs[j] \in Bufs => c.gf.read[outs[j]] = 0
      /\ m = 2 => outs[1] # outs[2] \/ outs[1] = NullBuf
      /\ ~g.err => /\ \A j \in 1 .. m : outs[j] \in Bufs
                   /\ g.stack = Pushed(c.gf.stack, outs, m)
  BY DEF Gives
<1>4. Topped(c.sk, d.sk, n, m)
  BY <1>1, <1>2, CabledIs
<1>5. MayFollow(c, node)
  <2>1. m <= 2
    OBVIOUS
  <2> QED
    BY <1>3, <2>1 DEF MayFollow
<1>6. Offers(c, d, node)
  <2> SUFFICES ASSUME NEW s \in Usable(d), s.type = "cable"
               PROVE  \/ s \in Usable(c)
                      \/ /\ s.cab \in Cables /\ s.cab[1] = n
                         /\ s.cab[2] <= m
    BY <1>3 DEF Offers
  <2>1. CASE \E r \in d.marks : s = d.regs[r]
    BY <2>1 DEF Usable
  <2>2. ASSUME NEW i \in 1 .. Len(d.sk), s = d.sk[i]
        PROVE  \/ s \in Usable(c)
               \/ s.cab \in Cables /\ s.cab[1] = n /\ s.cab[2] <= m
    <3>1. CASE i \in 1 .. Len(c.sk) /\ d.sk[i] = c.sk[i]
      BY <2>2, <3>1 DEF Usable
    <3>2. ASSUME NEW j \in 1 .. m, d.sk[i] = Cable(n, j)
          PROVE  s.cab \in Cables /\ s.cab[1] = n /\ s.cab[2] <= m
      <4>1. s.cab = <<n, j>> /\ j \in {1, 2} /\ j <= m
        BY <2>2, <3>2 DEF Cable
      <4> QED
        BY <1>2, <4>1 DEF Cables
    <3> QED
      BY <1>4, <3>1, <3>2 DEF Topped
  <2> QED
    BY <2>1, <2>2 DEF Usable
<1>7. Len(d.sk) <= SkSize
  BY <1>4 DEF Topped
<1>8. Sized(d) /\ InputsIntact(d) /\ OutsDiffer(d) /\ UsableUnwritten(d)
  BY <1>5, <1>6, <1>7, NodeIntact
<1>9. ASSUME ~g.err PROVE Good(d)
  <2>1. \A j \in 1 .. m : outs[j] \in Bufs
    BY <1>3, <1>9
  <2>2. Lined(d, c.sk, c.gf.stack)
    BY <1>1, <1>5, LinedAfter
  <2>3. outs = d.nodes[n].outs
    BY <1>1, NodesAppended
  <2>4. Lined(d, Cabled(c.sk, n, m), Pushed(c.gf.stack, outs, m))
    BY <1>1, <1>2, <2>1, <2>2, <2>3, LinedMade
  <2>5. Lined(d, d.sk, d.gf.stack)
    BY <1>3, <1>9, <2>4
  <2>6. \A j \in 1 .. Len(node.outs) : node.outs[j] # NullBuf
    BY <1>3, <2>1, OwnIs
  <2> QED
    BY <1>3, <1>5, <1>6, <1>7, <2>5, <2>6, NodeGood
<1> QED
  BY <1>8, <1>9 DEF Final

(* The core after a constructor that got its parameters.                    *)
LEMMA MakeNodeFinal ==
    ASSUME NEW k, NEW m \in {0, 1, 2}, Calling(k), Len(k.core.nodes) < MaxNodes,
           k.ok => Len(k.core.sk) + m <= SkSize
    PROVE  Final(MakeNode(k, m).core)
<1>1. /\ k \in Calls /\ k.core \in Cores /\ Working(k.core) /\ k.args \in Seq(Cables)
      /\ k.core.sk \in Seq(Stacklets) /\ k.core.nodes \in Seq(NodeRecords)
      /\ Len(k.core.nodes) \in Nat /\ Sound(k.core.gf)
  BY LenProperties DEF Calling, Calls, Working, Cores, Good
<1>2. CASE ~k.ok \/ k.core.gf.err
  <2>1. MakeNode(k, m) = Fail(k)
    BY <1>2 DEF MakeNode
  <2> QED
    BY <1>1, <2>1, FailIs, WorkingIsFinal
<1>3. CASE k.ok /\ ~k.core.gf.err
  <2>1. PICK g : g = After(k.core.gf, m)
    OBVIOUS
  <2>2. PICK outs : outs = Gave(k.core.gf, m)
    OBVIOUS
  <2>3. Gives(k.core.gf, g, outs, m)
    BY <1>1, <2>1, <2>2, GaveIs
  <2>4. outs \in Seq(Outs) /\ g \in Patches
    BY <2>3, SoundIs DEF Gives
  <2> PICK node : node = [ins |-> k.args, outs |-> outs]
    OBVIOUS
  <2>5. /\ node = [ins |-> k.args, outs |-> outs] /\ node \in NodeRecords
        /\ node.ins = k.args /\ node.outs = outs
    BY <1>1, <2>4 DEF NodeRecords
  <2> PICK nodes : nodes = Append(k.core.nodes, node)
    OBVIOUS
  <2>6. nodes = Append(k.core.nodes, node) /\ nodes \in Seq(NodeRecords)
    BY <1>1, <2>5, AppendProperties
  <2>7. PICK n \in 1 .. MaxNodes : n = Len(k.core.nodes) + 1
    BY <1>1, MaxNodesAssumption
  <2>8. PICK sk \in Seq(Stacklets) : sk = Cabled(k.core.sk, n, m)
    BY <1>1, CabledIs DEF Topped
  <2>9. MakeNode(k, m) = Edited(k, g, nodes, sk)
    BY <1>1, <1>3, <2>1, <2>2, <2>5, <2>6, <2>7, <2>8, MakeNodeIs
  <2>10. PICK d : d = MakeNode(k, m).core
    OBVIOUS
  <2>11. /\ d \in Cores /\ d.gf = g /\ d.nodes = nodes /\ d.sk = sk
         /\ d.regs = k.core.regs /\ d.marks = k.core.marks
    <3>1. Edit(k, Edited(k, g, nodes, sk).core, g, nodes, sk)
      BY <1>1, <2>4, <2>6, EditedIs
    <3>2. Edit(k, d, g, nodes, sk)
      BY <2>9, <2>10, <3>1
    <3> QED
      BY <3>2 DEF Edit
  <2>12. \A i \in 1 .. Len(node.ins) : Live(k.core, node.ins[i])
    BY <2>5 DEF Calling
  <2>13. Final(d)
    BY <1>1, <1>3, <2>3, <2>5, <2>6, <2>7, <2>8, <2>11, <2>12, MadeFinal
  <2> QED
    BY <2>10, <2>13
<1> QED
  BY <1>2, <1>3

(* A node command with n parameters.                                        *)
LEMMA NodeFinal ==
    ASSUME NEW k, NEW n \in {0, 1, 2}, NEW m \in {0, 1, 2}, Calling(k),
           Len(k.core.nodes) < MaxNodes, Len(k.core.sk) - n + m <= SkSize
    PROVE  Final(Node(k, n, m).core)
<1>1. Len(k.core.sk) \in Nat
  BY LenProperties DEF Calling, Calls, Cores
<1>2. PICK p : p = ParamGets(k, n)
  OBVIOUS
<1>3. /\ Calling(p) /\ p.core.nodes = k.core.nodes
      /\ p.ok => Len(p.core.sk) = Len(k.core.sk) - n
  <2>1. CASE n = 0
    <3>1. p = k
      BY <1>2, <2>1 DEF ParamGets
    <3> QED
      BY <1>1, <2>1, <3>1
  <2> PICK q : q = ParamGet(k)
    OBVIOUS
  <2>2. /\ Calling(q) /\ Stacks(k.core, q.core)
        /\ q.ok => Len(q.core.sk) = Len(k.core.sk) - 1
    BY ParamGetIs
  <2>3. CASE n = 1
    <3>1. p = q
      BY <1>2, <2>3 DEF ParamGets
    <3> QED
      BY <2>2, <2>3, <3>1 DEF Stacks
  <2>4. CASE n = 2
    <3>1. p = ParamGet(q)
      BY <1>2, <2>4 DEF ParamGets
    <3>2. /\ Calling(p) /\ Stacks(q.core, p.core)
          /\ p.ok => q.ok /\ Len(p.core.sk) = Len(q.core.sk) - 1
      BY <2>2, <3>1, ParamGetIs
    <3>3. p.core.nodes = k.core.nodes
      BY <2>2, <3>2 DEF Stacks
    <3>4. p.ok => Len(p.core.sk) = Len(k.core.sk) - 2
      <4>1. p.ok => /\ Len(p.core.sk) = Len(q.core.sk) - 1
                    /\ Len(q.core.sk) = Len(k.core.sk) - 1
        BY <2>2, <3>2
      <4> QED
        BY ONLY <1>1, <4>1
    <3> QED
      BY <2>4, <3>2, <3>3, <3>4
  <2> QED
    BY <2>1, <2>3, <2>4
<1>4. p.ok => Len(p.core.sk) + m <= SkSize
  BY <1>1, <1>3, SkSizeAssumption
<1> QED
  BY <1>2, <1>3, <1>4, MakeNodeFinal DEF Node

(* An object leaves the typed stack alone.                                  *)
LEMMA GenericPopIs ==
    ASSUME NEW k, NEW p, Calling(k), k.ok, k.core.sk # <<>>,
           Last(k.core.sk).type = "generic", p = GenericPop(k)
    PROVE  /\ Calling(p) /\ Stacks(k.core, p.core)
           /\ Len(p.core.sk) = Len(k.core.sk) - 1
<1>0. PICK c : c = k.core
  OBVIOUS
<1>1. /\ k \in Calls /\ c \in Cores /\ c.sk \in Seq(Stacklets) /\ Working(c)
      /\ k.args \in Seq(Cables)
  BY <1>0 DEF Calling, Calls, Cores
<1>2. p = [k EXCEPT !.core.sk = Front(c.sk)]
  BY <1>0 DEF GenericPop
<1>3. Front(c.sk) \in Seq(Stacklets)
  BY <1>0, <1>1, FrontIs
<1>4. /\ p \in Calls /\ p.args = k.args /\ Stacks(c, p.core)
      /\ p.core.sk = Front(c.sk) /\ p.core.gf = c.gf
  BY ONLY <1>1, <1>2, <1>3, <1>0 DEF Calls, Cores, Stacks
<1>5. /\ Working(p.core) /\ Len(p.core.sk) = Len(c.sk) - 1
      /\ \A cab : Live(c, cab) => Live(p.core, cab)
  BY <1>0, <1>1, <1>4, PopKeeps
<1> QED
  BY <1>0, <1>4, <1>5 DEF Calling

(* A node that writes to an object.                                         *)
LEMMA SinkFinal ==
    ASSUME NEW k, Calling(k), k.ok, k.core.sk # <<>>, Last(k.core.sk).type = "generic",
           Len(k.core.nodes) < MaxNodes
    PROVE  Final(Sink(k).core)
<1>1. PICK p : p = GenericPop(k)
  OBVIOUS
<1>2. Calling(p) /\ Stacks(k.core, p.core)
  BY <1>1, GenericPopIs
<1>3. PICK q : q = ParamGet(p)
  OBVIOUS
<1>4. Calling(q) /\ Stacks(p.core, q.core)
  BY <1>2, <1>3, ParamGetIs
<1>5. Len(q.core.nodes) < MaxNodes
  BY <1>2, <1>4 DEF Stacks
<1>6. Len(q.core.sk) + 0 <= SkSize
  BY <1>4, LenProperties DEF Calling, Calls, Cores, Working, Sized
<1> QED
  BY <1>1, <1>3, <1>4, <1>5, <1>6, MakeNodeFinal DEF Sink

(* cabnew: a node with a buffer of its own.                                 *)
LEMMA CabNewFinal ==
    ASSUME NEW k, Calling(k), k.ok, Len(k.core.nodes) < MaxNodes,
           k.core.sk # <<>> /\ Last(k.core.sk).type = "cable" =>
               IsBlock(k.core, Last(k.core.sk)) \/ Pos(k.core.gf) < StackSize
    PROVE  Final(CabNew(k).core)
<1>1. /\ k \in Calls /\ k.core \in Cores /\ k.core.sk \in Seq(Stacklets)
      /\ Working(k.core) /\ k.args \in Seq(Cables) /\ Len(k.core.sk) \in Nat
  BY LenProperties DEF Calling, Calls, Cores
<1>2. PICK p : p = ParamGetCable(k)
  OBVIOUS
<1>3. CASE k.core.sk = <<>>
  <2>1. p = Fail(k) /\ ~p.ok /\ CabNew(k) = Fail(p)
    <3>1. p = Fail(k)
      BY <1>2, <1>3 DEF ParamGetCable
    <3>2. ~p.ok
      BY <1>1, <3>1, FailIs
    <3> QED
      BY <1>2, <3>1, <3>2 DEF CabNew
  <2>2. p \in Calls /\ p.core = k.core
    BY <1>1, <2>1, FailIs
  <2>3. CabNew(k).core = k.core
    BY <2>1, <2>2, FailIs
  <2> QED
    BY <1>1, <2>3, WorkingIsFinal
<1>4. CASE k.core.sk # <<>> /\ Last(k.core.sk).type # "cable"
  <2>1. PICK q : q = [k EXCEPT !.core.sk = Front(@)]
    OBVIOUS
  <2>2. p = Fail(q)
    BY <1>2, <1>4, <2>1 DEF ParamGetCable
  <2>3. Front(k.core.sk) \in Seq(Stacklets)
    BY <1>1, <1>4, FrontIs
  <2>4. /\ q \in Calls /\ Stacks(k.core, q.core) /\ q.core.gf = k.core.gf
        /\ q.core.sk = Front(k.core.sk)
    BY <1>1, <2>1, <2>3 DEF Calls, Cores, Stacks
  <2>5. Working(q.core)
    BY <1>1, <1>4, <2>4, PopKeeps
  <2>6. p \in Calls /\ p.core = q.core /\ ~p.ok
    BY <2>2, <2>4, FailIs
  <2>7. CabNew(k) = Fail(p)
    BY <1>2, <2>6 DEF CabNew
  <2>8. CabNew(k).core = q.core
    BY <2>6, <2>7, FailIs
  <2> QED
    BY <2>5, <2>8, WorkingIsFinal
<1>5. CASE k.core.sk # <<>> /\ Last(k.core.sk).type = "cable"
  <2>1. p = ParamGet(k)
    BY <1>2, <1>5 DEF ParamGetCable
  <2>2. Calling(p) /\ Stacks(k.core,
  p.core) /\ (p.ok => Len(p.core.sk) = Len(k.core.sk) - 1)
    BY <2>1, ParamGetIs
  <2>3. CASE ~p.ok \/ p.core.gf.err
    <3>1. CabNew(k) = Fail(p)
      BY <1>2, <2>3 DEF CabNew
    <3>2. CabNew(k).core = p.core
      BY <2>2, <3>1, FailIs DEF Calling
    <3> QED
      BY <2>2, <3>2, WorkingIsFinal DEF Calling
  <2>4. CASE p.ok /\ ~p.core.gf.err
    <3>1. PICK c : c = p.core
      OBVIOUS
    <3>2. PICK n : n = Len(c.nodes) + 1
      OBVIOUS
    <3>3. /\ c \in Cores /\ Working(c) /\ Good(c) /\ c.sk \in Seq(Stacklets)
          /\ p \in Calls /\ p.args \in Seq(Cables) /\ c.nodes \in Seq(NodeRecords)
          /\ Len(c.nodes) \in Nat /\ Len(c.nodes) < MaxNodes /\ Sound(c.gf)
          /\ c.gf.stack \in Seq(Bufs \cup {OwnBuf})
      BY <2>2, <3>1, LenProperties, SoundIs DEF Calling, Calls, Working, Cores, Good, Stacks
    <3>4. n \in 1 .. MaxNodes
      BY <3>2, <3>3, MaxNodesAssumption
    <3>5. /\ Pos(c.gf) < StackSize /\ Len(c.sk) < SkSize
      <4>1. PICK g : g = k.core.gf
        OBVIOUS
      <4>2. Sound(g)
        BY <1>1, <4>1 DEF Working, Good
      <4>3. /\ Pos(g) \in Nat /\ Pos(g) <= StackSize /\ Pos(g) = Len(g.stack)
            /\ g.stack \in Seq(Bufs \cup {OwnBuf})
        BY <4>2, SoundIs
      <4>4. c.gf = StackPop(g) /\ Pos(g) # 0 /\ Len(c.sk) = Len(k.core.sk) - 1
        <5>1. Takes(k, p, Last(k.core.sk))
          BY <1>5, <2>1, ParamGetTakes
        <5> QED
          BY <3>1, <4>1, <5>1 DEF Takes
      <4>5. c.gf.stack = SubSeq(g.stack, 1, Len(g.stack) - 1)
        BY <4>2, <4>3, <4>4, PopIs DEF Below, Pos
      <4>6. Len(c.gf.stack) = Len(g.stack) - 1
        <5>1. \A i \in 1 .. Len(g.stack) - 1 : g.stack[i] \in Bufs \cup {OwnBuf}
          BY <4>3, ElementOfSeq
        <5> QED
          BY <4>3, <4>4, <4>5, <5>1, SubSeqProperties
      <4>7. Len(k.core.sk) <= SkSize
        BY <1>1 DEF Working, Sized
      <4> QED
        BY <1>1, <4>3, <4>4, <4>6, <4>7, SkSizeAssumption, StackSizeAssumption DEF Pos
    <3>6. PICK s : s = Cable(n, 1)
      OBVIOUS
    <3>7. s \in Stacklets
      BY <3>4, <3>6, CableIs
    <3>8. PICK node : node = [ins |-> p.args, outs |-> <<OwnBuf>>]
      OBVIOUS
    <3>9. /\ node \in NodeRecords /\ node.ins = p.args /\ Len(node.outs) = 1
          /\ node.outs[1] = OwnBuf
      <4>1. <<OwnBuf>> \in Seq(Outs)
        BY DEF Outs
      <4> QED
        BY <3>3, <3>8, <4>1 DEF NodeRecords
    <3>10. PICK h : h = StackPushBuffer(c.gf, OwnBuf)
      OBVIOUS
    <3>11. Sound(h) /\ Quiet(c.gf, h) /\ h.stack = Append(c.gf.stack, OwnBuf)
      <4>1. OwnBuf \in Bufs \cup {OwnBuf} /\ (OwnBuf \in Bufs => c.gf.read[OwnBuf] = UserHeld)
        BY OwnIs
      <4>2. Sound(c.gf) /\ Pos(c.gf) < StackSize
        BY <3>3, <3>5
      <4> QED
        BY ONLY <3>10, <4>1, <4>2, PushBufferIs
    <3>12. PICK nodes : nodes = Append(c.nodes, node)
      OBVIOUS
    <3>13. nodes \in Seq(NodeRecords)
      BY <3>3, <3>9, <3>12, AppendProperties
    <3>14. PICK q : q = PushStacklet(p, s)
      OBVIOUS
    <3>15. q \in Calls /\ Stacks(c, q.core) /\ q.core.sk = Append(c.sk, s)
      <4>1. /\ q \in Calls /\ Stacks(c, q.core)
            /\ q.ok => q.core.sk = Append(c.sk, s)
        BY <3>1, <3>3, <3>7, <3>14, PushStackletIs
      <4>2. q.ok
        <5>1. ~(~p.ok \/ Len(p.core.sk) >= SkSize)
          BY <2>4, <3>1, <3>3, <3>5, SkSizeAssumption, LenProperties
        <5>2. q = [p EXCEPT !.core.sk = Append(@, s)]
          BY <3>14, <5>1 DEF PushStacklet
        <5> QED
          BY <2>4, <3>3, <5>2 DEF Calls
      <4> QED
        BY <4>1, <4>2
    <3>16. CabNew(k) = [q EXCEPT !.core.gf = h, !.core.nodes = Append(@, node)]
      BY <1>2, <2>4, <3>1, <3>2, <3>6, <3>8, <3>10, <3>14 DEF CabNew
    <3>17. PICK d : d = CabNew(k).core
      OBVIOUS
    <3>18. Edit(q, d, h, nodes, q.core.sk)
      <4>1. q.core.sk \in Seq(Stacklets) /\ h \in Patches
        BY <3>11, <3>15, SoundIs DEF Calls, Cores
      <4>2. Edit(q, Edited(q, h, nodes, q.core.sk).core, h, nodes, q.core.sk)
        BY <3>13, <3>15, <4>1, EditedIs
      <4>3. CabNew(k) = Edited(q, h, nodes, q.core.sk)
        <5>1. q.core.nodes = c.nodes
          BY <3>15 DEF Stacks
        <5> QED
          BY <3>12, <3>15, <3>16, <5>1 DEF Edited, Calls, Cores
      <4> QED
        BY <3>17, <4>2, <4>3
    <3>19. /\ d \in Cores /\ d.gf = h /\ d.nodes = Append(c.nodes, node)
           /\ d.sk = Append(c.sk, s) /\ d.regs = c.regs /\ d.marks = c.marks
      BY <3>12, <3>15, <3>18 DEF Edit, Stacks
    <3>20. MayFollow(c, node)
      <4>1. \A i \in 1 .. Len(node.ins) : Live(c, node.ins[i])
        BY <2>2, <3>1, <3>9 DEF Calling
      <4>2. \A j \in 1 .. Len(node.outs) : node.outs[j] \notin Bufs
        BY <3>9, OwnIs
      <4> QED
        BY <3>9, <4>1, <4>2 DEF MayFollow
    <3>21. /\ Len(d.sk) = Len(c.sk) + 1 /\ d.sk[Len(c.sk) + 1] = s
           /\ \A i \in 1 .. Len(c.sk) : d.sk[i] = c.sk[i]
      BY <3>3, <3>7, <3>19, AppendProperties
    <3>22. Len(d.sk) <= SkSize
      BY <3>3, <3>5, <3>21, SkSizeAssumption, LenProperties
    <3>23. Offers(c, d, node)
      <4> SUFFICES ASSUME NEW x \in Usable(d), x.type = "cable"
                   PROVE  x \in Usable(c) \/ x = s
        <5>1. s.cab \in Cables /\ s.cab[1] = Len(c.nodes) + 1 /\ s.cab[2] <= Len(node.outs)
          BY <3>2, <3>4, <3>6, <3>9 DEF Cable, Cables
        <5> QED
          BY <5>1 DEF Offers
      <4>1. CASE \E r \in d.marks : x = d.regs[r]
        BY <3>19, <4>1 DEF Usable
      <4>2. ASSUME NEW i \in 1 .. Len(d.sk), x = d.sk[i]
            PROVE  x \in Usable(c) \/ x = s
        <5>1. i \in 1 .. Len(c.sk) \/ i = Len(c.sk) + 1
          BY <3>3, <3>21, LenProperties
        <5> QED
          BY <3>21, <4>2, <5>1 DEF Usable
      <4> QED
        BY <4>1, <4>2 DEF Usable
    <3>24. Lined(d, d.sk, d.gf.stack)
      <4>1. Lined(d, c.sk, c.gf.stack)
        BY <3>3, <3>19, <3>20, LinedAfter
      <4>2. s.type = "cable" /\ BufferOf(d, s.cab) = OwnBuf
        <5>1. d.nodes[n] = node
          BY <3>2, <3>3, <3>9, <3>19, NodesAppended
        <5> QED
          BY <3>6, <3>9, <5>1 DEF Cable, BufferOf
      <4>3. IsBlock(d, s) /\ OwnBuf \in Bufs \cup {OwnBuf}
        BY <4>2, OwnIs DEF IsBlock
      <4>4. Lined(d, Append(c.sk, s), Append(c.gf.stack, OwnBuf))
        BY <3>3, <3>7, <4>1, <4>2, <4>3, LinedAppendBlock
      <4> QED
        BY <3>11, <3>19, <4>4
    <3>25. Good(d)
      <4>1. \A j \in 1 .. Len(node.outs) : node.outs[j] # NullBuf
        BY <3>9, OwnIs
      <4> QED
        BY <3>3, <3>11, <3>19, <3>20, <3>22, <3>23, <3>24, <4>1, NodeGood
    <3>26. Sized(d) /\ InputsIntact(d) /\ OutsDiffer(d) /\ UsableUnwritten(d)
      BY <3>3, <3>19, <3>20, <3>22, <3>23, NodeIntact
    <3> QED
      BY <3>17, <3>25, <3>26 DEF Final
  <2> QED
    BY <2>3, <2>4
<1> QED
  BY <1>3, <1>4, <1>5

------------------------------------------------------------------------------
(* Commands that make no node.                                              *)

\* p is the call k with another patch and another typed stack.
Restacked(k, p, h, sk) ==
    /\ p \in Calls /\ p.ok = k.ok /\ p.args = k.args /\ Stacks(k.core, p.core)
    /\ p.core.gf = h /\ p.core.sk = sk

(* A command that changes the patch alone.                                  *)
LEMMA PatchedIs ==
    ASSUME NEW k \in Calls, NEW h \in Patches
    PROVE  Restacked(k, [k EXCEPT !.core.gf = h], h, k.core.sk)
  BY DEF Calls, Cores, Stacks, Restacked

(* A command that changes the typed stack alone.                            *)
LEMMA TypedIs ==
    ASSUME NEW k \in Calls, NEW sk \in Seq(Stacklets)
    PROVE  Restacked(k, [k EXCEPT !.core.sk = sk], k.core.gf, sk)
  BY DEF Calls, Cores, Stacks, Restacked

(* The cable on top has its buffer on top.                                  *)
LEMMA TopIs ==
    ASSUME NEW c, NEW s, Working(c), c.sk # <<>>, s = Last(c.sk)
    PROVE  /\ s \in Stacklets /\ s \in Usable(c)
           /\ s.type = "cable" =>
                 /\ Live(c, s.cab) /\ IsBlock(c, s)
                 /\ Pos(c.gf) # 0 /\ Top(c.gf) = BufferOf(c, s.cab)
                 /\ Top(c.gf) \in Bufs \cup {OwnBuf}
<1>1. /\ c \in Cores /\ c.sk \in Seq(Stacklets) /\ Good(c) /\ Sound(c.gf)
      /\ Lined(c, c.sk, c.gf.stack) /\ c.gf.stack \in Seq(Bufs \cup {OwnBuf})
  BY SoundIs DEF Working, Good, Cores, Sized
<1>2. Len(c.sk) \in Nat \ {0} /\ s \in Stacklets /\ s = c.sk[Len(c.sk)]
  BY <1>1, FrontIs
<1>3. s \in Usable(c)
  BY <1>2 DEF Usable
<1>4. ASSUME s.type = "cable"
      PROVE  /\ Live(c, s.cab) /\ IsBlock(c, s)
             /\ Pos(c.gf) # 0 /\ Top(c.gf) = BufferOf(c, s.cab)
             /\ Top(c.gf) \in Bufs \cup {OwnBuf}
  <2>1. Live(c, s.cab) /\ IsBlock(c, s) /\ BufferOf(c, s.cab) \in Bufs \cup {OwnBuf}
    BY <1>1, <1>3, <1>4, UsableIs
  <2>2. Len(c.gf.stack) \in Nat \ {0} /\ c.gf.stack[Len(c.gf.stack)] = BufferOf(c, s.cab)
    BY <1>1, <2>1, LinedFront
  <2> QED
    BY <2>1, <2>2 DEF Pos, Top
<1> QED
  BY <1>2, <1>3, <1>4

(* sk_core_generic finds an object, or takes off what it found.             *)
LEMMA GenericPopFinal ==
    ASSUME NEW k, Calling(k), k.ok, k.core.sk # <<>>, Last(k.core.sk).type = "generic"
    PROVE  Working(GenericPop(k).core)
  BY GenericPopIs DEF Calling

(* sk_core_dup.                                                             *)
LEMMA CoreDupKeeps ==
    ASSUME NEW k, Calling(k), k.ok,
           k.core.sk # <<>> /\ Last(k.core.sk).type = "cable" =>
               Pos(k.core.gf) < StackSize - 1
    PROVE  Working(CoreDup(k).core)
<1>0. PICK c : c = k.core
  OBVIOUS
<1>1. /\ k \in Calls /\ Working(c) /\ c \in Cores /\ c.sk \in Seq(Stacklets)
      /\ Len(c.sk) \in Nat /\ Sound(c.gf) /\ Lined(c, c.sk, c.gf.stack)
      /\ c.gf.stack \in Seq(Bufs \cup {OwnBuf})
  BY <1>0, LenProperties, SoundIs DEF Calling, Calls, Working, Good, Cores
<1>2. CASE c.sk = <<>>
  <2>1. CoreDup(k) = Fail(k)
    BY <1>0, <1>2 DEF CoreDup
  <2> QED
    BY <1>0, <1>1, <2>1, FailIs
<1>3. CASE c.sk # <<>>
  <2>1. PICK s : s = Last(c.sk)
    OBVIOUS
  <2>2. PICK p : p = PushStacklet(k, s)
    OBVIOUS
  <2>3. s \in Stacklets /\ s \in Usable(c)
    BY <1>1, <1>3, <2>1, TopIs
  <2>4. /\ p \in Calls /\ Stacks(c, p.core) /\ p.core.gf = c.gf
        /\ p.ok => Len(c.sk) < SkSize /\ p.core.sk = Append(c.sk, s)
        /\ ~p.ok => p.core = c
    BY <1>0, <1>1, <2>2, <2>3, PushStackletIs
  <2>5. CASE s.type # "cable"
    <3>1. CoreDup(k) = p
      BY <1>0, <1>3, <2>1, <2>2, <2>5 DEF CoreDup
    <3> QED
      BY <2>2, <2>3, <2>5, <3>1, PushPlainKeeps
  <2>6. CASE ~p.ok
    <3>1. CoreDup(k) = p
      BY <1>0, <1>3, <2>1, <2>2, <2>6 DEF CoreDup
    <3> QED
      BY <1>1, <2>4, <2>6, <3>1
  <2>7. CASE s.type = "cable" /\ p.ok
    <3>1. PICK h : h = StackDup(c.gf)
      OBVIOUS
    <3>2. /\ IsBlock(c, s) /\ Pos(c.gf) # 0 /\ Top(c.gf) = BufferOf(c, s.cab)
          /\ Top(c.gf) \in Bufs \cup {OwnBuf}
      BY <1>1, <1>3, <2>1, <2>7, TopIs
    <3>3. Sound(h) /\ Quiet(c.gf, h) /\ h.stack = Append(c.gf.stack, Top(c.gf))
      BY <1>0, <1>1, <1>3, <2>1, <2>7, <3>1, <3>2, DupIs
    <3>4. h \in Patches
      BY <3>3, SoundIs
    <3>5. PICK q : q = CoreDup(k)
      OBVIOUS
    <3>6. q = [p EXCEPT !.core.gf = h]
      BY <1>0, <1>3, <2>1, <2>2, <2>4, <2>7, <3>1, <3>5 DEF CoreDup
    <3>7. Restacked(p, q, h, p.core.sk)
      BY <2>4, <3>4, <3>6, PatchedIs
    <3>8. PICK d : d = q.core
      OBVIOUS
    <3>9. Stacks(c, d) /\ d.gf = h /\ d.sk = Append(c.sk, s)
      BY <2>4, <2>7, <3>7, <3>8 DEF Restacked, Stacks
    <3>10. Lined(c, d.sk, d.gf.stack)
      <4>1. Lined(c, Append(c.sk, s), Append(c.gf.stack, Top(c.gf)))
        BY <1>1, <2>3, <3>2, LinedAppendBlock
      <4> QED
        BY <3>3, <3>9, <4>1
    <3>11. /\ Len(d.sk) = Len(c.sk) + 1 /\ d.sk[Len(c.sk) + 1] = s
           /\ \A i \in 1 .. Len(c.sk) : d.sk[i] = c.sk[i]
      BY <1>1, <2>3, <3>9, AppendProperties
    <3>12. Len(d.sk) <= SkSize
      BY <1>1, <2>4, <2>7, <3>11, SkSizeAssumption
    <3>13. \A i \in 1 .. Len(d.sk) : d.sk[i] \in Usable(c)
      <4>1. \A i \in 1 .. Len(d.sk) : i \in 1 .. Len(c.sk) \/ i = Len(c.sk) + 1
        BY <1>1, <3>11
      <4> QED
        BY <2>3, <3>11, <4>1 DEF Usable
    <3>14. Working(d)
      BY <1>1, <3>3, <3>9, <3>10, <3>12, <3>13, SameRegs DEF Stacks
    <3> QED
      BY <3>5, <3>8, <3>14
  <2> QED
    BY <2>5, <2>6, <2>7
<1> QED
  BY <1>2, <1>3

(* sk_core_drop.                                                            *)
LEMMA CoreDropKeeps ==
    ASSUME NEW k, Calling(k)
    PROVE  Working(CoreDrop(k).core)
<1>0. PICK c : c = k.core
  OBVIOUS
<1>1. k \in Calls /\ Working(c) /\ c \in Cores /\ c.sk \in Seq(Stacklets) /\ Sound(c.gf)
  BY <1>0 DEF Calling, Calls, Working, Good, Cores
<1>2. CASE c.sk = <<>>
  <2>1. CoreDrop(k) = Fail(k)
    BY <1>0, <1>2 DEF CoreDrop
  <2> QED
    BY <1>0, <1>1, <2>1, FailIs
<1>3. CASE c.sk # <<>>
  <2>1. PICK p : p = [k EXCEPT !.core.sk = Front(c.sk)]
    OBVIOUS
  <2>2. Front(c.sk) \in Seq(Stacklets)
    BY <1>1, <1>3, FrontIs
  <2>3. p \in Calls /\ Stacks(c, p.core) /\ p.core.gf = c.gf /\ p.core.sk = Front(c.sk)
    <3>1. Restacked(k, p, k.core.gf, Front(c.sk))
      BY <1>1, <2>1, <2>2, TypedIs
    <3> QED
      BY <1>0, <3>1 DEF Restacked
  <2>4. PICK q : q = CoreDrop(k)
    OBVIOUS
  <2>5. CASE Last(c.sk).type # "cable"
    <3>1. q = p
      BY <1>0, <1>3, <2>1, <2>4, <2>5 DEF CoreDrop
    <3> QED
      BY <1>1, <1>3, <2>3, <2>4, <2>5, <3>1, PopKeeps
  <2>6. CASE Last(c.sk).type = "cable"
    <3>1. PICK h : h = StackPop(c.gf)
      OBVIOUS
    <3>2. h \in Patches
      BY <1>1, <1>3, <2>6, <3>1, TopIs, PopIs, SoundIs
    <3>3. q = [p EXCEPT !.core.gf = h]
      BY <1>0, <1>3, <2>1, <2>3, <2>4, <2>6, <3>1 DEF CoreDrop
    <3>4. Restacked(p, q, h, p.core.sk)
      BY <2>3, <3>2, <3>3, PatchedIs
    <3>5. Stacks(c, q.core) /\ q.core.gf = h /\ q.core.sk = Front(c.sk)
      BY <2>3, <3>4 DEF Restacked, Stacks
    <3> QED
      BY <1>1, <1>3, <2>4, <2>6, <3>1, <3>5, PopKeeps
  <2> QED
    BY <2>5, <2>6
<1> QED
  BY <1>2, <1>3

\* A stack with its two topmost slots exchanged.
Exchanged(st) == [st EXCEPT ![Len(st)] = st[Len(st) - 1], ![Len(st) - 1] = st[Len(st)]]

(* Two stacklets change places, and with two cables their buffers do.       *)
LEMMA LinedSwap ==
    ASSUME NEW c, NEW sk, NEW tk, NEW n \in Nat, Len(sk) = n + 2, Len(tk) = n + 2,
           \A i \in 1 .. n : tk[i] = sk[i], tk[n + 1] = sk[n + 2], tk[n + 2] = sk[n + 1],
           NEW U, NEW st \in Seq(U), Lined(c, sk, st)
    PROVE  /\ ~(IsBlock(c, sk[n + 1]) /\ IsBlock(c, sk[n + 2])) => Lined(c, tk, st)
           /\ IsBlock(c, sk[n + 1]) /\ IsBlock(c, sk[n + 2]) =>
                 Len(st) >= 2 /\ Lined(c, tk, Exchanged(st))
<1>1. PICK x : x = Depth(c, sk, n)
  OBVIOUS
<1>2. \A i \in 0 .. n : Depth(c, tk, i) = Depth(c, sk, i)
  <2> SUFFICES ASSUME NEW i \in 0 .. n PROVE Depth(c, tk, i) = Depth(c, sk, i)
    OBVIOUS
  <2>1. \A j \in 1 .. i : IsBlock(c, sk[j]) <=> IsBlock(c, tk[j])
    OBVIOUS
  <2> QED
    BY ONLY <2>1, DepthSame
<1>3. x \in Nat /\ Depth(c, tk, n) = x
  BY <1>1, <1>2, DepthIs
<1>4. \A i \in 1 .. n : IsBlock(c, sk[i]) => Depth(c, sk, i) \in 1 .. x
  <2> SUFFICES ASSUME NEW i \in 1 .. n, IsBlock(c, sk[i]) PROVE Depth(c, sk, i) \in 1 .. x
    OBVIOUS
  <2>1. i \in Nat /\ i \in 0 .. n /\ i \in 1 .. i
    OBVIOUS
  <2>2. Depth(c, sk, i) \in Nat /\ Depth(c, sk, i) <= x
    BY <1>1, <2>1, DepthIs
  <2>3. Depth(c, sk, i) >= 1
    BY <2>1, DepthIs
  <2> QED
    BY <1>3, <2>2, <2>3
<1>5. /\ Depth(c, sk, n + 1) = IF IsBlock(c, sk[n + 1]) THEN x + 1 ELSE x
      /\ Depth(c, tk, n + 1) = IF IsBlock(c, sk[n + 2]) THEN x + 1 ELSE x
  <2>1. Depth(c, sk, n + 1) = IF IsBlock(c, sk[n + 1]) THEN x + 1 ELSE x
    BY <1>1, DepthStep
  <2>2. Depth(c, tk, n + 1) = IF IsBlock(c, tk[n + 1]) THEN x + 1 ELSE x
    BY <1>3, DepthStep
  <2> QED
    BY <2>1, <2>2
<1>6. /\ Depth(c, sk, n + 2) = IF IsBlock(c, sk[n + 2]) THEN Depth(c, sk, n + 1) + 1
                               ELSE Depth(c, sk, n + 1)
      /\ Depth(c, tk, n + 2) = IF IsBlock(c, sk[n + 1]) THEN Depth(c, tk, n + 1) + 1
                               ELSE Depth(c, tk, n + 1)
  <2>1. n + 1 \in Nat /\ (n + 1) + 1 = n + 2
    OBVIOUS
  <2>2. /\ Depth(c, sk, (n + 1) + 1) =
               IF IsBlock(c, sk[(n + 1) + 1]) THEN Depth(c, sk, n + 1) + 1
               ELSE Depth(c, sk, n + 1)
        /\ Depth(c, tk, (n + 1) + 1) =
               IF IsBlock(c, tk[(n + 1) + 1]) THEN Depth(c, tk, n + 1) + 1
               ELSE Depth(c, tk, n + 1)
    BY <2>1, DepthStep
  <2> QED
    BY <2>1, <2>2
<1>7. /\ Len(st) = Depth(c, sk, n + 2) /\ Len(st) \in Nat
      /\ IsBlock(c, sk[n + 1]) => st[Depth(c, sk, n + 1)] = BufferOf(c, sk[n + 1].cab)
      /\ IsBlock(c, sk[n + 2]) => st[Depth(c, sk, n + 2)] = BufferOf(c, sk[n + 2].cab)
      /\ \A i \in 1 .. n : IsBlock(c, sk[i]) =>
            st[Depth(c, sk, i)] = BufferOf(c, sk[i].cab)
  <2>1. n + 1 \in 1 .. Len(sk) /\ n + 2 \in 1 .. Len(sk) /\ 1 .. n \subseteq 1 .. Len(sk)
    OBVIOUS
  <2> QED
    BY <2>1, LenProperties DEF Lined
<1>8. \A i \in 1 .. Len(tk) : i \in 1 .. n \/ i = n + 1 \/ i = n + 2
  OBVIOUS
<1>9. ASSUME NEW su, Len(su) = Depth(c, tk, n + 2),
             \A p \in 1 .. x : su[p] = st[p],
             IsBlock(c, sk[n + 1]) => su[Depth(c, tk, n + 2)] = BufferOf(c, sk[n + 1].cab),
             IsBlock(c, sk[n + 2]) => su[Depth(c, tk, n + 1)] = BufferOf(c, sk[n + 2].cab)
      PROVE  Lined(c, tk, su)
  <2>1. \A i \in 1 .. n :
           IsBlock(c, tk[i]) => su[Depth(c, tk, i)] = BufferOf(c, tk[i].cab)
    BY <1>2, <1>4, <1>7, <1>9
  <2>2. \A i \in 1 .. Len(tk) :
           IsBlock(c, tk[i]) => su[Depth(c, tk, i)] = BufferOf(c, tk[i].cab)
    BY <1>8, <1>9, <2>1
  <2> QED
    BY <1>9, <2>2 DEF Lined
<1>10. CASE ~(IsBlock(c, sk[n + 1]) /\ IsBlock(c, sk[n + 2]))
  <2>1. /\ Len(st) = Depth(c, tk, n + 2)
        /\ IsBlock(c, sk[n + 1]) => Depth(c, tk, n + 2) = Depth(c, sk, n + 1)
        /\ IsBlock(c, sk[n + 2]) => Depth(c, tk, n + 1) = Depth(c, sk, n + 2)
    BY <1>5, <1>6, <1>7, <1>10
  <2>2. Lined(c, tk, st)
    BY <1>7, <1>9, <2>1
  <2> QED
    BY <1>10, <2>2
<1>11. CASE IsBlock(c, sk[n + 1]) /\ IsBlock(c, sk[n + 2])
  <2>1. /\ Depth(c, sk, n + 1) = x + 1 /\ Depth(c, tk, n + 1) = x + 1
        /\ Depth(c, sk, n + 2) = x + 2 /\ Depth(c, tk, n + 2) = x + 2
    BY <1>3, <1>5, <1>6, <1>11
  <2>2. PICK su : su = Exchanged(st)
    OBVIOUS
  <2>3. /\ Len(st) = x + 2 /\ Len(su) = x + 2
        /\ su[x + 2] = st[x + 1] /\ su[x + 1] = st[x + 2]
        /\ \A p \in 1 .. x : su[p] = st[p]
    <3>1. Len(st) = x + 2 /\ DOMAIN st = 1 .. x + 2 /\ x + 2 \in Nat
      BY <1>3, <1>7, <2>1, LenProperties
    <3>2. DOMAIN su = 1 .. x + 2
      BY <2>2, <3>1 DEF Exchanged
    <3>3. Len(st) - 1 = x + 1 /\ x + 1 \in 1 .. x + 2 /\ x + 2 \in 1 .. x + 2
          /\ x + 1 # x + 2 /\ \A p \in 1 .. x : p \in 1 .. x + 2 /\ p # x + 1 /\ p # x + 2
      BY <1>3, <3>1
    <3>4. su = [st EXCEPT ![x + 2] = st[x + 1], ![x + 1] = st[x + 2]]
      BY <2>2, <3>1, <3>3 DEF Exchanged
    <3>5. /\ su[x + 2] = st[x + 1] /\ su[x + 1] = st[x + 2]
          /\ \A p \in 1 .. x : su[p] = st[p]
      BY <3>1, <3>3, <3>4
    <3>6. su \in Seq(U)
      <4>1. \A p \in 1 .. x + 2 : su[p] \in U
        <5>1. \A p \in 1 .. x + 2 : st[p] \in U
          BY <3>1, ElementOfSeq
        <5>2. \A p \in 1 .. x + 2 : p \in 1 .. x \/ p = x + 1 \/ p = x + 2
          BY <1>3
        <5> QED
          BY <3>3, <3>5, <5>1, <5>2
      <4>2. su = [p \in 1 .. x + 2 |-> su[p]]
        BY <2>2, <3>1 DEF Exchanged
      <4>3. su \in [1 .. x + 2 -> U]
        BY <4>1, <4>2
      <4> QED
        BY <3>1, <4>3
    <3> QED
      BY <3>1, <3>2, <3>5, <3>6, LenProperties
  <2>4. Lined(c, tk, su)
    BY <1>7, <1>9, <1>11, <2>1, <2>3
  <2> QED
    BY <1>3, <1>11, <2>2, <2>3, <2>4
<1> QED
  BY <1>10, <1>11

(* sk_core_swap.                                                            *)
LEMMA CoreSwapKeeps ==
    ASSUME NEW k, Calling(k)
    PROVE  Working(CoreSwap(k).core)
<1>0. PICK c : c = k.core
  OBVIOUS
<1>1. /\ k \in Calls /\ Working(c) /\ c \in Cores /\ c.sk \in Seq(Stacklets)
      /\ Len(c.sk) \in Nat /\ Sound(c.gf) /\ Lined(c, c.sk, c.gf.stack) /\ Good(c)
      /\ c.gf.stack \in Seq(Bufs \cup {OwnBuf}) /\ Len(c.sk) <= SkSize
  BY <1>0, LenProperties, SoundIs DEF Calling, Calls, Working, Good, Cores, Sized
<1>2. CASE Len(c.sk) < 2
  <2>1. CoreSwap(k) = Fail(k)
    BY <1>0, <1>2 DEF CoreSwap
  <2> QED
    BY <1>0, <1>1, <2>1, FailIs
<1>3. CASE Len(c.sk) >= 2
  <2>1. PICK n : n = Len(c.sk) - 2
    OBVIOUS
  <2>2. /\ n \in Nat /\ Len(c.sk) = n + 2 /\ n + 1 \in 1 .. Len(c.sk)
        /\ n + 2 \in 1 .. Len(c.sk) /\ \A i \in 1 .. n : i \in 1 .. Len(c.sk)
    BY <1>1, <1>3, <2>1
  <2>3. PICK a : a = c.sk[n + 1]
    OBVIOUS
  <2>4. PICK b : b = c.sk[n + 2]
    OBVIOUS
  <2>5. /\ a \in Stacklets /\ b \in Stacklets /\ a \in Usable(c) /\ b \in Usable(c)
        /\ \A i \in 1 .. n : c.sk[i] \in Stacklets /\ c.sk[i] \in Usable(c)
    BY <1>1, <2>2, <2>3, <2>4, ElementOfSeq DEF Usable
  <2>6. (a.type = "cable" <=> IsBlock(c, a)) /\ (b.type = "cable" <=> IsBlock(c, b))
    <3>1. ASSUME NEW s \in Usable(c) PROVE s.type = "cable" <=> IsBlock(c, s)
      BY <1>1, UsableIs DEF IsBlock
    <3> QED
      BY <2>5, <3>1
  <2>7. PICK low : low = SubSeq(c.sk, 1, n)
    OBVIOUS
  <2>8. low \in Seq(Stacklets) /\ Len(low) = n /\ \A i \in 1 .. n : low[i] = c.sk[i]
    <3>1. 1 \in Int /\ n \in Int /\ \A i \in 1 .. n : c.sk[i] \in Stacklets
      BY <2>2, <2>5
    <3> QED
      BY <1>1, <2>2, <2>7, <3>1, SubSeqProperties
  <2>9. PICK mid : mid = Append(low, b)
    OBVIOUS
  <2>10. /\ mid \in Seq(Stacklets) /\ Len(mid) = n + 1 /\ mid[n + 1] = b
         /\ \A i \in 1 .. n : mid[i] = c.sk[i]
    BY <2>5, <2>8, <2>9, AppendProperties
  <2>11. PICK tk : tk = Append(mid, a)
    OBVIOUS
  <2>12. /\ tk \in Seq(Stacklets) /\ Len(tk) = n + 2 /\ tk[n + 2] = a /\ tk[n + 1] = b
         /\ \A i \in 1 .. n : tk[i] = c.sk[i]
    <3>1. /\ tk \in Seq(Stacklets) /\ Len(tk) = (n + 1) + 1 /\ tk[(n + 1) + 1] = a
          /\ \A i \in 1 .. n + 1 : tk[i] = mid[i]
      BY <2>5, <2>10, <2>11, AppendProperties
    <3> QED
      BY <2>2, <2>10, <3>1
  <2>13. low \o <<b, a>> = tk
    BY <2>5, <2>8, <2>9, <2>11, ConcatOne
  <2>14. PICK p : p = [k EXCEPT !.core.sk = tk]
    OBVIOUS
  <2>15. Restacked(k, p, c.gf, tk)
    BY <1>0, <1>1, <2>12, <2>14, TypedIs
  <2>16. /\ SubSeq(k.core.sk, 1, Len(k.core.sk) - 2) = low
         /\ k.core.sk[Len(k.core.sk) - 1] = a /\ k.core.sk[Len(k.core.sk)] = b
         /\ ~(Len(k.core.sk) < 2)
    <3>1. k.core.sk = c.sk /\ Len(c.sk) - 1 = n + 1
      BY <1>0, <2>2
    <3> QED
      BY <1>3, <2>1, <2>2, <2>3, <2>4, <2>7, <3>1
  <2>17. CoreSwap(k) = IF a.type = "cable" /\ b.type = "cable"
                       THEN [p EXCEPT !.core.gf = StackSwap(@)] ELSE p
    BY ONLY <2>13, <2>14, <2>16 DEF CoreSwap
  <2>18. \A i \in 1 .. Len(tk) : tk[i] \in Usable(c)
    <3>1. \A i \in 1 .. n + 2 : i \in 1 .. n \/ i = n + 1 \/ i = n + 2
      BY <2>2
    <3> QED
      BY <2>5, <2>12, <3>1
  <2>19. /\ ~(IsBlock(c, a) /\ IsBlock(c, b)) => Lined(c, tk, c.gf.stack)
         /\ IsBlock(c, a) /\ IsBlock(c, b) =>
               Len(c.gf.stack) >= 2 /\ Lined(c, tk, Exchanged(c.gf.stack))
    <3>1. /\ n \in Nat /\ Len(c.sk) = n + 2 /\ Len(tk) = n + 2
          /\ \A i \in 1 .. n : tk[i] = c.sk[i]
          /\ tk[n + 1] = c.sk[n + 2] /\ tk[n + 2] = c.sk[n + 1]
      BY <2>2, <2>3, <2>4, <2>12
    <3>2. /\ ~(IsBlock(c, c.sk[n + 1]) /\ IsBlock(c, c.sk[n + 2])) =>
                Lined(c, tk, c.gf.stack)
          /\ IsBlock(c, c.sk[n + 1]) /\ IsBlock(c, c.sk[n + 2]) =>
                Len(c.gf.stack) >= 2 /\ Lined(c, tk, Exchanged(c.gf.stack))
      BY <1>1, <3>1, LinedSwap
    <3> QED
      BY <2>3, <2>4, <3>2
  <2>20. CASE ~(a.type = "cable" /\ b.type = "cable")
    <3>1. CoreSwap(k) = p
      BY <2>17, <2>20
    <3>2. PICK d : d = p.core
      OBVIOUS
    <3>3. Stacks(c, d) /\ d.gf = c.gf /\ d.sk = tk
      BY <1>0, <2>15, <3>2 DEF Restacked
    <3>4. Lined(c, d.sk, d.gf.stack) /\ Len(d.sk) <= SkSize
      BY <1>1, <2>2, <2>6, <2>12, <2>19, <2>20, <3>3
    <3>5. Working(d)
      BY <1>1, <2>18, <3>3, <3>4, SameRegs DEF Stacks, Quiet
    <3> QED
      BY <3>1, <3>2, <3>5
  <2>21. CASE a.type = "cable" /\ b.type = "cable"
    <3>1. PICK h : h = StackSwap(c.gf)
      OBVIOUS
    <3>2. Sound(h) /\ Quiet(c.gf, h) /\ Lined(c, tk, h.stack) /\ h \in Patches
      <4>1. Pos(c.gf) = Len(c.gf.stack) /\ Pos(c.gf) >= 2
        BY <2>6, <2>19, <2>21 DEF Pos
      <4>2. /\ Sound(h) /\ Quiet(c.gf, h)
            /\ h.stack = [c.gf.stack EXCEPT ![Pos(c.gf)] = c.gf.stack[Pos(c.gf) - 1],
                                            ![Pos(c.gf) - 1] = c.gf.stack[Pos(c.gf)]]
        BY <1>1, <3>1, <4>1, SwapIs
      <4> QED
        BY <2>6, <2>19, <2>21, <4>1, <4>2, SoundIs DEF Exchanged
    <3>3. PICK q : q = CoreSwap(k)
      OBVIOUS
    <3>4. q = [p EXCEPT !.core.gf = h]
      BY <2>15, <2>17, <2>21, <3>1, <3>3 DEF Restacked
    <3>5. Restacked(p, q, h, p.core.sk)
      BY <2>15, <3>2, <3>4, PatchedIs DEF Restacked
    <3>6. PICK d : d = q.core
      OBVIOUS
    <3>7. Stacks(c, d) /\ d.gf = h /\ d.sk = tk
      BY <1>0, <2>15, <3>5, <3>6 DEF Restacked, Stacks
    <3>8. Len(d.sk) <= SkSize
      BY <1>1, <2>2, <2>12, <3>7
    <3>9. Working(d)
      BY <1>1, <2>18, <3>2, <3>7, <3>8, SameRegs DEF Stacks
    <3> QED
      BY <3>3, <3>6, <3>9
  <2> QED
    BY <2>20, <2>21
<1> QED
  BY <1>1, <1>2, <1>3

(* sk_register_nxtfree finds a register that is not marked.                 *)
LEMMA NextRegIs ==
    ASSUME NEW c, NEW r, r = NextReg(c, 0), r # -1
    PROVE  r \in Regs /\ r \notin c.marks
<1>1. PICK free : free = {i \in Regs : (0 + i) % RegSize \notin c.marks}
  OBVIOUS
<1>2. /\ free # {}
      /\ r = (0 + (CHOOSE i \in free : \A j \in free : i <= j)) % RegSize
  BY <1>1 DEF NextReg
<1>3. \E i \in free : \A j \in free : i <= j
  <2>1. free \subseteq Nat
    BY <1>1, RegSizeAssumption DEF Regs
  <2>2. PICK i \in free : \A j \in free : ~(<<j, i>> \in OpToRel(<, Nat))
    BY <1>2, <2>1, NatLessThanWellFounded, WFMin, Zenon
  <2>3. \A j \in free : ~(j < i)
    BY <2>1, <2>2 DEF OpToRel
  <2> QED
    BY <2>1, <2>3
<1>4. PICK i \in free : r = (0 + i) % RegSize
  BY <1>2, <1>3
<1>5. i \in Regs /\ r \notin c.marks
  BY <1>1, <1>4
<1>6. r \in Regs
  BY <1>4, <1>5, RegSizeAssumption DEF Regs
<1> QED
  BY <1>5, <1>6

\* d is c with another patch and typed stack, and with s in register r.
Filled(c, d, h, sk, r, s) ==
    /\ d \in Cores /\ d.gf = h /\ d.sk = sk /\ d.nodes = c.nodes
    /\ d.regs = [c.regs EXCEPT ![r] = s] /\ d.marks = c.marks \cup {r}

(* hold, regset and regmrk of the cable on top.                             *)
LEMMA FilledIs ==
    ASSUME NEW k \in Calls, k.ok, NEW h \in Patches, NEW r \in Regs, NEW c, c = k.core,
           NEW s \in Stacklets, s = Last(c.sk), c.sk # <<>>,
           CoreHold(k) = [k EXCEPT !.core.gf = h]
    PROVE  Filled(c, RegMark(CoreRegSet(CoreHold(k), r), r).core, h, Front(c.sk), r, s)
<1>1. PICK p : p = CoreHold(k)
  OBVIOUS
<1>2. Restacked(k, p, h, c.sk)
  BY <1>1, PatchedIs
<1>3. p \in Calls /\ p.ok /\ Stacks(c, p.core) /\ p.core.gf = h /\ p.core.sk = c.sk
  BY <1>2 DEF Restacked
<1>4. c \in Cores /\ c.sk \in Seq(Stacklets) /\ Front(c.sk) \in Seq(Stacklets)
  <2>1. c \in Cores /\ c.sk \in Seq(Stacklets)
    BY DEF Calls, Cores
  <2> QED
    BY <2>1, FrontIs
<1>5. PICK q : q = CoreRegSet(p, r)
  OBVIOUS
<1>6. q = [p EXCEPT !.core.regs[r] = s, !.core.sk = Front(c.sk)]
  BY <1>3, <1>5 DEF CoreRegSet
<1>7. PICK e : e = p.core
  OBVIOUS
<1>8. e \in Cores /\ e.gf = h /\ e.nodes = c.nodes /\ e.regs = c.regs /\ e.marks = c.marks
  BY <1>3, <1>7 DEF Stacks
<1>9. PICK f : f = [e EXCEPT !.regs[r] = s]
  OBVIOUS
<1>10. /\ f \in Cores /\ f.gf = h /\ f.nodes = c.nodes /\ f.marks = c.marks
       /\ f.regs = [c.regs EXCEPT ![r] = s]
  BY <1>8, <1>9 DEF Cores
<1>11. PICK b : b = [f EXCEPT !.sk = Front(c.sk)]
  OBVIOUS
<1>12. /\ b \in Cores /\ b.gf = h /\ b.nodes = c.nodes /\ b.marks = c.marks
       /\ b.regs = [c.regs EXCEPT ![r] = s] /\ b.sk = Front(c.sk)
  BY <1>4, <1>10, <1>11 DEF Cores
<1>13. q = [p EXCEPT !.core = b]
  BY <1>3, <1>6, <1>7, <1>9, <1>11 DEF Calls
<1>14. q \in Calls /\ q.core = b /\ q.ok
  BY <1>3, <1>12, <1>13 DEF Calls
<1>15. PICK t : t = RegMark(q, r)
  OBVIOUS
<1>16. t = [q EXCEPT !.core.marks = b.marks \cup {r}]
  BY <1>14, <1>15 DEF RegMark
<1>17. PICK d : d = [b EXCEPT !.marks = b.marks \cup {r}]
  OBVIOUS
<1>18. Filled(c, d, h, Front(c.sk), r, s)
  BY <1>12, <1>17 DEF Cores, Filled
<1>19. t.core = d
  BY <1>14, <1>16, <1>17 DEF Calls
<1> QED
  BY <1>1, <1>5, <1>15, <1>18, <1>19

(* The core with a cable more in a register.                                *)
LEMMA FilledKeeps ==
    ASSUME NEW c, NEW d, NEW h, NEW r, NEW s, Working(c), c.sk # <<>>, s = Last(c.sk),
           s.type = "cable", h = BHold(c.gf),
           Top(c.gf) \in Bufs => c.gf.read[Top(c.gf)] > 0,
           r \in Regs, r \notin c.marks, Filled(c, d, h, Front(c.sk), r, s)
    PROVE  Working(d)
<1>1. /\ c \in Cores /\ Good(c) /\ c.sk \in Seq(Stacklets) /\ Sound(c.gf)
      /\ Lined(c, c.sk, c.gf.stack) /\ c.gf.stack \in Seq(Bufs \cup {OwnBuf})
      /\ c.regs \in [Regs -> Stacklets] /\ c.marks \subseteq Regs
      /\ Len(c.sk) <= SkSize
  BY SoundIs DEF Working, Good, Cores, Sized
<1>2. /\ Live(c, s.cab) /\ IsBlock(c, s) /\ Pos(c.gf) # 0
      /\ Top(c.gf) = BufferOf(c, s.cab) /\ Top(c.gf) \in Bufs \cup {OwnBuf}
      /\ s \in Usable(c) /\ s \in Stacklets
  BY TopIs
<1>3. /\ Sound(h) /\ Quiet(c.gf, h) /\ h.stack = Below(c.gf)
      /\ Top(c.gf) \in Bufs => h.read[Top(c.gf)] = UserHeld
  BY <1>1, <1>2, BHoldIs
<1>4. /\ d \in Cores /\ d.gf = h /\ d.sk = Front(c.sk) /\ d.nodes = c.nodes
      /\ d.regs = [c.regs EXCEPT ![r] = s] /\ d.marks = c.marks \cup {r}
  BY DEF Filled
<1>5. /\ Len(c.sk) \in Nat \ {0} /\ d.sk \in Seq(Stacklets) /\ Len(d.sk) = Len(c.sk) - 1
      /\ \A i \in 1 .. Len(c.sk) - 1 : d.sk[i] = c.sk[i]
  <2>1. /\ Len(c.sk) \in Nat \ {0} /\ Front(c.sk) \in Seq(Stacklets)
        /\ Len(Front(c.sk)) = Len(c.sk) - 1
        /\ \A i \in 1 .. Len(c.sk) - 1 : Front(c.sk)[i] = c.sk[i]
    BY ONLY <1>1, c.sk # <<>>, FrontIs
  <2> QED
    BY <1>4, <2>1
<1>6. Len(d.sk) <= SkSize
  BY <1>1, <1>5, SkSizeAssumption
<1>7. Sized(d) /\ InputsIntact(d) /\ OutsDiffer(d) /\ AllBlocks(d)
  <2>1. InputsIntact(d) /\ OutsDiffer(d) /\ AllBlocks(d)
    BY <1>4, SameNodes DEF Working, Good
  <2> QED
    BY <1>4, <1>6, <2>1 DEF Working, Sized
<1>8. \A x : /\ BufferOf(d, x.cab) = BufferOf(c, x.cab) /\ (IsBlock(d, x) <=> IsBlock(c, x))
             /\ Live(c, x.cab) => Live(d, x.cab)
  BY <1>4, SameNodes DEF Live
<1>9. Lined(d, d.sk, d.gf.stack)
  <2>1. Lined(c, d.sk, d.gf.stack)
    <3>1. Lined(c, Front(c.sk), SubSeq(c.gf.stack, 1, Len(c.gf.stack) - 1))
      BY ONLY <1>1, <1>2, c.sk # <<>>, s = Last(c.sk), LinedFront
    <3>2. SubSeq(c.gf.stack, 1, Len(c.gf.stack) - 1) = Below(c.gf)
      BY DEF Below, Pos
    <3> QED
      BY <1>3, <1>4, <3>1, <3>2
  <2>2. \A i \in 1 .. Len(d.sk) : /\ IsBlock(c, d.sk[i]) <=> IsBlock(d, d.sk[i])
                                  /\ IsBlock(c, d.sk[i]) =>
                                        BufferOf(c, d.sk[i].cab) = BufferOf(d, d.sk[i].cab)
    BY <1>8
  <2> QED
    BY <1>5, <2>1, <2>2, LinedSame
<1>10. /\ d.regs[r] = s /\ \A q \in c.marks : q # r /\ d.regs[q] = c.regs[q]
  BY <1>1, <1>4
<1>11. UsableLive(d)
  <2> SUFFICES ASSUME NEW x \in Usable(d), x.type = "cable" PROVE Live(d, x.cab)
    BY DEF UsableLive
  <2>1. x \in Usable(c)
    <3>1. CASE \E i \in 1 .. Len(d.sk) : x = d.sk[i]
      BY <1>5, <3>1 DEF Usable
    <3>2. CASE \E q \in d.marks : x = d.regs[q]
      BY <1>2, <1>4, <1>10, <3>2 DEF Usable
    <3> QED
      BY <3>1, <3>2 DEF Usable
  <2> QED
    BY <1>1, <1>8, <2>1 DEF Good, UsableLive
<1>12. MarksHeld(d)
  <2> SUFFICES ASSUME NEW q \in d.marks
               PROVE  /\ d.regs[q].type = "cable"
                      /\ BufferOf(c, d.regs[q].cab) \in Bufs =>
                            h.read[BufferOf(c, d.regs[q].cab)] = UserHeld
    BY <1>4, <1>8 DEF MarksHeld
  <2>1. CASE q = r
    BY <1>2, <1>3, <1>10, <2>1
  <2>2. CASE q \in c.marks
    <3>1. /\ c.regs[q].type = "cable"
          /\ BufferOf(c, c.regs[q].cab) \in Bufs =>
                c.gf.read[BufferOf(c, c.regs[q].cab)] = UserHeld
      BY <1>1, <2>2 DEF Good, MarksHeld
    <3> QED
      BY <1>3, <1>10, <2>2, <3>1 DEF Quiet
  <2> QED
    BY <1>4, <2>1, <2>2
<1>13. MarksDiffer(d)
  <2>1. ASSUME NEW q \in c.marks
        PROVE  /\ BufferOf(c, c.regs[q].cab) \in Bufs =>
                     BufferOf(c, c.regs[q].cab) # BufferOf(c, s.cab)
    <3>1. BufferOf(c, c.regs[q].cab) \in Bufs =>
             c.gf.read[BufferOf(c, c.regs[q].cab)] = UserHeld
      BY <1>1 DEF Good, MarksHeld
    <3>2. BufferOf(c, s.cab) \in Bufs => c.gf.read[BufferOf(c, s.cab)] > 0
      BY <1>2
    <3> QED
      BY <3>1, <3>2 DEF UserHeld
  <2> SUFFICES ASSUME NEW q \in d.marks, NEW x \in d.marks, q # x,
                      BufferOf(c, d.regs[q].cab) \in Bufs
               PROVE  BufferOf(c, d.regs[q].cab) # BufferOf(c, d.regs[x].cab)
    BY <1>8 DEF MarksDiffer
  <2>2. CASE q \in c.marks /\ x \in c.marks
    BY <1>1, <1>10, <2>2 DEF Good, MarksDiffer
  <2>3. CASE q = r /\ x \in c.marks
    BY <1>10, <2>1, <2>3
  <2>4. CASE x = r /\ q \in c.marks
    BY <1>10, <2>1, <2>4
  <2> QED
    BY <1>4, <2>2, <2>3, <2>4
<1> QED
  BY <1>3, <1>4, <1>7, <1>9, <1>11, <1>12, <1>13 DEF Working, Good

(* hold zz; regset zz r; regmrk r.                                          *)
LEMMA KeepKeeps ==
    ASSUME NEW k, NEW c, Calling(k), k.ok, c = k.core, NEW r, r = NextReg(c, 0), r # -1,
           c.sk # <<>> /\ Last(c.sk).type = "cable" =>
               Unheld(BufferOf(c, Last(c.sk).cab)),
           core = c
    PROVE  Working(RegMark(CoreRegSet(CoreHold(k), r), r).core)
<1>1. k \in Calls /\ Working(c) /\ c \in Cores /\ Sound(c.gf)
  BY DEF Calling, Calls, Working, Good
<1>2. r \in Regs /\ r \notin c.marks
  BY NextRegIs
<1>3. CASE c.sk = <<>> \/ Last(c.sk).type # "cable" \/ Pos(c.gf) = 0
  <2>1. CoreHold(k) = Fail(k)
    BY <1>3 DEF CoreHold
  <2>2. PICK p : p = Fail(k)
    OBVIOUS
  <2>3. p \in Calls /\ p.core = c /\ ~p.ok
    BY <1>1, <2>2, FailIs
  <2>4. CoreRegSet(p, r) = Fail(p)
    BY <2>3 DEF CoreRegSet
  <2>5. PICK q : q = Fail(p)
    OBVIOUS
  <2>6. q.core = c /\ ~q.ok
    BY <2>3, <2>5, FailIs
  <2>7. RegMark(q, r) = q
    BY <2>6 DEF RegMark
  <2> QED
    BY <1>1, <2>1, <2>2, <2>4, <2>5, <2>6, <2>7
<1>4. CASE c.sk # <<>> /\ Last(c.sk).type = "cable" /\ Pos(c.gf) # 0
  <2>1. PICK s : s = Last(c.sk)
    OBVIOUS
  <2>2. PICK h : h = BHold(c.gf)
    OBVIOUS
  <2>3. s \in Stacklets /\ Top(c.gf) = BufferOf(c, s.cab)
    BY <1>1, <1>4, <2>1, TopIs
  <2>4. Top(c.gf) \in Bufs => c.gf.read[Top(c.gf)] > 0
    BY <1>4, <2>1, <2>3 DEF Unheld
  <2>5. h \in Patches
    BY <1>1, <1>4, <2>2, <2>4, BHoldIs, SoundIs
  <2>6. CoreHold(k) = [k EXCEPT !.core.gf = h]
    BY <1>4, <2>2 DEF CoreHold
  <2>7. PICK d : d = RegMark(CoreRegSet(CoreHold(k), r), r).core
    OBVIOUS
  <2>8. Filled(c, d, h, Front(c.sk), r, s)
    BY <1>1, <1>2, <1>4, <2>1, <2>3, <2>5, <2>6, <2>7, FilledIs
  <2>9. Working(d)
    BY <1>1, <1>2, <1>4, <2>1, <2>2, <2>4, <2>8, FilledKeeps
  <2> QED
    BY <2>7, <2>9
<1> QED
  BY <1>3, <1>4

\* What regget of register r leaves.
Recalled(k, q, r) ==
    /\ Calling(q) /\ Stacks(k.core, q.core) /\ q.args = k.args
    /\ ~q.ok => q.core = k.core
    /\ q.ok => /\ q.core.sk = Append(k.core.sk, k.core.regs[r])
               /\ q.core.gf.stack =
                     Append(k.core.gf.stack, BufferOf(k.core, k.core.regs[r].cab))
               /\ q.core.gf.read = k.core.gf.read

(* regget of a marked register, when the stack has a slot to spare.         *)
LEMMA CoreRegGetIs ==
    ASSUME NEW k, NEW c, Calling(k), k.ok, c = k.core, NEW r \in c.marks,
           Pos(c.gf) < StackSize, NEW q, q = CoreRegGet(k, r)
    PROVE  Recalled(k, q, r)
<1>1. /\ k \in Calls /\ Working(c) /\ c \in Cores /\ c.sk \in Seq(Stacklets)
      /\ Len(c.sk) \in Nat /\ Sound(c.gf) /\ Lined(c, c.sk, c.gf.stack) /\ Good(c)
      /\ c.gf.stack \in Seq(Bufs \cup {OwnBuf}) /\ k.args \in Seq(Cables)
      /\ c.regs \in [Regs -> Stacklets] /\ r \in Regs
  BY LenProperties, SoundIs DEF Calling, Calls, Working, Good, Cores
<1>2. PICK s : s = c.regs[r]
  OBVIOUS
<1>3. s \in Stacklets /\ s.type = "cable" /\ s \in Usable(c)
  BY <1>1, <1>2 DEF Good, MarksHeld, Usable
<1>4. PICK b : b = BufferOf(c, s.cab)
  OBVIOUS
<1>5. /\ IsBlock(c, s) /\ b \in Bufs \cup {OwnBuf} /\ (b \in Bufs => c.gf.read[b] = UserHeld)
  <2>1. IsBlock(c, s) /\ BufferOf(c, s.cab) \in Bufs \cup {OwnBuf}
    BY <1>1, <1>3, UsableIs
  <2> QED
    BY <1>1, <1>2, <1>4, <2>1 DEF Good, MarksHeld
<1>6. PICK p : p = PushStacklet(k, s)
  OBVIOUS
<1>7. /\ p \in Calls /\ p.args = k.args /\ Stacks(c, p.core) /\ p.core.gf = c.gf
      /\ p.ok => Len(c.sk) < SkSize /\ p.core.sk = Append(c.sk, s)
      /\ ~p.ok => p.core = c
  BY <1>1, <1>3, <1>6, PushStackletIs
<1>8. CASE ~p.ok
  <2>1. q = p
    BY <1>2, <1>6, <1>8 DEF CoreRegGet
  <2>2. Calling(p)
    BY <1>7, <1>8 DEF Calling
  <2> QED
    BY <1>7, <1>8, <2>1, <2>2 DEF Recalled
<1>9. CASE p.ok
  <2>1. PICK h : h = StackPushBuffer(c.gf, b)
    OBVIOUS
  <2>2. Sound(h) /\ Quiet(c.gf, h) /\ h.stack = Append(c.gf.stack, b) /\ h.read = c.gf.read
    BY <1>1, <1>5, <2>1, PushBufferIs
  <2>3. h \in Patches
    BY <2>2, SoundIs
  <2>4. q = [p EXCEPT !.core.gf = h]
    BY <1>2, <1>3, <1>4, <1>6, <1>7, <1>9, <2>1 DEF CoreRegGet
  <2>5. Restacked(p, q, h, p.core.sk)
    BY <1>7, <2>3, <2>4, PatchedIs
  <2>6. /\ q \in Calls /\ q.args = k.args /\ Stacks(c, q.core) /\ q.ok
        /\ q.core.gf = h /\ q.core.sk = Append(c.sk, s)
    BY <1>7, <1>9, <2>5 DEF Restacked, Stacks
  <2>7. PICK d : d = q.core
    OBVIOUS
  <2>8. Lined(c, d.sk, d.gf.stack)
    <3>1. Lined(c, Append(c.sk, s), Append(c.gf.stack, b))
      BY <1>1, <1>3, <1>4, <1>5, LinedAppendBlock
    <3> QED
      BY <2>2, <2>6, <2>7, <3>1
  <2>9. /\ Len(d.sk) = Len(c.sk) + 1 /\ d.sk[Len(c.sk) + 1] = s
        /\ \A i \in 1 .. Len(c.sk) : d.sk[i] = c.sk[i]
    <3>1. /\ Len(Append(c.sk, s)) = Len(c.sk) + 1 /\ Append(c.sk, s)[Len(c.sk) + 1] = s
          /\ \A i \in 1 .. Len(c.sk) : Append(c.sk, s)[i] = c.sk[i]
      BY ONLY <1>1, <1>3, AppendProperties
    <3> QED
      BY <2>6, <2>7, <3>1
  <2>10. Len(d.sk) <= SkSize
    BY <1>1, <1>7, <1>9, <2>9, SkSizeAssumption
  <2>11. \A i \in 1 .. Len(d.sk) : d.sk[i] \in Usable(c)
    <3>1. \A i \in 1 .. Len(d.sk) : i \in 1 .. Len(c.sk) \/ i = Len(c.sk) + 1
      BY <1>1, <2>9
    <3> QED
      BY <1>3, <2>9, <3>1 DEF Usable
  <2>12. Working(d) /\ \A cab : Live(c, cab) => Live(d, cab)
    BY <1>1, <2>2, <2>6, <2>7, <2>8, <2>10, <2>11, SameRegs DEF Stacks
  <2>13. Calling(q)
    <3>1. \A i \in 1 .. Len(k.args) : Live(c, k.args[i])
      BY DEF Calling
    <3> QED
      BY <2>6, <2>7, <2>12, <3>1 DEF Calling
  <2> QED
    BY <1>2, <1>4, <2>2, <2>6, <2>13 DEF Recalled
<1> QED
  BY <1>8, <1>9

(* regget r.                                                                *)
LEMMA RecallKeeps ==
    ASSUME NEW k, NEW c, Calling(k), k.ok, c = k.core, NEW r \in c.marks,
           Pos(c.gf) < StackSize
    PROVE  Working(CoreRegGet(k, r).core)
<1>1. PICK q : q = CoreRegGet(k, r)
  OBVIOUS
<1>2. Recalled(k, q, r)
  BY <1>1, CoreRegGetIs
<1> QED
  BY <1>1, <1>2 DEF Recalled, Calling

(* The core once a register has been given up and its buffer unheld.        *)
LEMMA ForgottenKeeps ==
    ASSUME NEW c, NEW d, NEW r \in c.marks, NEW h, Working(c), d \in Cores,
           Slots(c.gf, BufferOf(c, c.regs[r].cab)) = {},
           h = UnholdUser(c.gf, BufferOf(c, c.regs[r].cab)),
           d.gf = h, d.sk = c.sk, d.nodes = c.nodes, d.regs = c.regs,
           d.marks = c.marks \ {r}
    PROVE  Working(d)
<1>1. PICK b : b = BufferOf(c, c.regs[r].cab)
  OBVIOUS
<1>2. c \in Cores /\ c.sk \in Seq(Stacklets) /\ Good(c) /\ Sound(c.gf)
  BY DEF Working, Good, Cores, Sized
<1>3. b \in Bufs \cup {OwnBuf}
  <2>1. c.regs[r] \in Usable(c) /\ c.regs[r].type = "cable"
    BY <1>2 DEF Good, MarksHeld, Usable
  <2> QED
    BY <1>1, <1>2, <2>1, UsableIs
<1>4. /\ Sound(h) /\ h.stack = c.gf.stack
      /\ \A x \in Bufs : x # b /\ c.gf.read[x] = UserHeld => h.read[x] = UserHeld
  BY <1>1, <1>2, <1>3, UnholdUserIs
<1>5. \A x : /\ BufferOf(d, x.cab) = BufferOf(c, x.cab) /\ (IsBlock(d, x) <=> IsBlock(c, x))
             /\ Live(c, x.cab) => Live(d, x.cab)
  BY SameNodes DEF Live
<1>6. Sized(d) /\ InputsIntact(d) /\ OutsDiffer(d) /\ AllBlocks(d)
  <2>1. InputsIntact(d) /\ OutsDiffer(d) /\ AllBlocks(d)
    BY SameNodes DEF Working, Good
  <2> QED
    BY <2>1 DEF Working, Sized
<1>7. Lined(d, d.sk, d.gf.stack)
  <2>1. Lined(c, c.sk, c.gf.stack)
    BY <1>2 DEF Good
  <2>2. \A i \in 1 .. Len(c.sk) : /\ IsBlock(c, c.sk[i]) <=> IsBlock(d, c.sk[i])
                                  /\ IsBlock(c, c.sk[i]) =>
                                        BufferOf(c, c.sk[i].cab) = BufferOf(d, c.sk[i].cab)
    BY <1>5
  <2>3. Lined(d, c.sk, c.gf.stack)
    BY <1>2, <2>1, <2>2, LinedSame
  <2> QED
    BY <1>4, <2>3
<1>8. UsableLive(d)
  <2> SUFFICES ASSUME NEW x \in Usable(d), x.type = "cable" PROVE Live(d, x.cab)
    BY DEF UsableLive
  <2>1. x \in Usable(c)
    BY DEF Usable
  <2> QED
    BY <1>2, <1>5, <2>1 DEF Good, UsableLive
<1>9. MarksDiffer(d)
  BY <1>2, <1>5 DEF Good, MarksDiffer
<1>10. MarksHeld(d)
  <2> SUFFICES ASSUME NEW q \in c.marks, q # r
               PROVE  /\ c.regs[q].type = "cable"
                      /\ BufferOf(c, c.regs[q].cab) \in Bufs =>
                            h.read[BufferOf(c, c.regs[q].cab)] = UserHeld
    BY <1>5 DEF MarksHeld
  <2>1. /\ c.regs[q].type = "cable"
        /\ BufferOf(c, c.regs[q].cab) \in Bufs =>
              c.gf.read[BufferOf(c, c.regs[q].cab)] = UserHeld
    BY <1>2 DEF Good, MarksHeld
  <2>2. BufferOf(c, c.regs[q].cab) \in Bufs => BufferOf(c, c.regs[q].cab) # b
    BY <1>1, <1>2 DEF Good, MarksDiffer
  <2> QED
    BY <1>4, <2>1, <2>2
<1> QED
  BY <1>4, <1>6, <1>7, <1>8, <1>9, <1>10 DEF Working, Good

(* unhold [regget r]; regclr r.                                             *)
LEMMA ForgetKeeps ==
    ASSUME NEW k, NEW c, Calling(k), k.ok, k.args = <<>>, c = k.core, NEW r \in c.marks,
           Slots(c.gf, BufferOf(c, c.regs[r].cab)) = {}, Pos(c.gf) < StackSize
    PROVE  Working(RegClear(CoreUnhold(CoreRegGet(k, r)), r).core)
<1>1. PICK q : q = CoreRegGet(k, r)
  OBVIOUS
<1>2. PICK s : s = c.regs[r]
  OBVIOUS
<1>3. PICK b : b = BufferOf(c, s.cab)
  OBVIOUS
<1>4. /\ Calling(q) /\ Stacks(c, q.core) /\ q.args = <<>>
      /\ ~q.ok => q.core = c
      /\ q.ok => /\ q.core.sk = Append(c.sk, s)
                 /\ q.core.gf.stack = Append(c.gf.stack, b)
                 /\ q.core.gf.read = c.gf.read
  <2>1. Recalled(k, q, r)
    BY <1>1, CoreRegGetIs
  <2> QED
    BY <1>2, <1>3, <2>1 DEF Recalled
<1>5. /\ Working(c) /\ Good(c) /\ c \in Cores /\ c.sk \in Seq(Stacklets) /\ Sound(c.gf)
      /\ c.gf.stack \in Seq(Bufs \cup {OwnBuf}) /\ Len(c.gf.stack) \in Nat
      /\ c.regs \in [Regs -> Stacklets] /\ r \in Regs /\ q \in Calls
  BY <1>4, SoundIs, LenProperties DEF Calling, Calls, Working, Good, Cores
<1>6. PICK p : p = ParamGet(q)
  OBVIOUS
<1>7. CASE ~q.ok
  <2>1. p = Fail(q)
    BY <1>6, <1>7 DEF ParamGet
  <2>2. p \in Calls /\ p.core = c /\ ~p.ok
    BY <1>4, <1>5, <1>7, <2>1, FailIs
  <2>3. CoreUnhold(q) = Fail(p)
    BY <1>6, <2>2 DEF CoreUnhold
  <2>4. PICK u : u = Fail(p)
    OBVIOUS
  <2>5. u.core = c /\ ~u.ok
    BY <2>2, <2>4, FailIs
  <2>6. RegClear(u, r) = u
    BY <2>5 DEF RegClear
  <2> QED
    BY <1>1, <1>5, <2>3, <2>4, <2>5, <2>6
<1>8. CASE q.ok
  <2>1. /\ s \in Stacklets /\ s.type = "cable" /\ s \in Usable(c)
        /\ b \in Bufs => c.gf.read[b] = UserHeld
    BY <1>2, <1>3, <1>5 DEF Good, MarksHeld, Usable
  <2>2. b \in Bufs \cup {OwnBuf}
    BY <1>3, <1>5, <2>1, UsableIs
  <2>3. q.core.sk # <<>> /\ s = Last(q.core.sk)
    <3>1. /\ Append(c.sk, s) \in Seq(Stacklets) /\ Len(Append(c.sk, s)) = Len(c.sk) + 1
          /\ Append(c.sk, s)[Len(c.sk) + 1] = s /\ Len(c.sk) \in Nat
      BY <1>5, <2>1, AppendProperties, LenProperties
    <3>2. q.core.sk = Append(c.sk, s) /\ q.core.sk # <<>>
      BY <1>4, <1>8, <3>1
    <3>3. Last(q.core.sk) = q.core.sk[Len(q.core.sk)]
      BY DEF Last
    <3> QED
      BY <3>1, <3>2, <3>3
  <2>4. /\ Calling(p) /\ Stacks(q.core, p.core) /\ p.ok /\ Len(p.args) = 1
        /\ p.args[1] = s.cab /\ p.core.gf = StackPop(q.core.gf) /\ Pos(q.core.gf) # 0
    <3>1. Len(q.args) = 0
      BY <1>4
    <3>2. Takes(q, p, s)
      BY <1>4, <1>6, <1>8, <2>1, <2>3, ParamGetTakes
    <3> QED
      BY <3>1, <3>2 DEF Takes
  <2>5. PICK e : e = p.core
    OBVIOUS
  <2>6. /\ p \in Calls /\ Working(e) /\ e \in Cores /\ Sound(e.gf) /\ e.nodes = c.nodes
        /\ e.regs = c.regs /\ e.marks = c.marks /\ p.args \in Seq(Cables)
    BY <1>4, <2>4, <2>5 DEF Calling, Calls, Working, Good, Stacks
  <2>7. BufferOf(e, s.cab) = b
    BY <1>3, <2>6 DEF BufferOf
  <2>8. Sound(q.core.gf)
    BY <1>4 DEF Calling, Working, Good
  <2>9. e.gf.stack = Below(q.core.gf) /\ Quiet(q.core.gf, e.gf)
    BY <2>4, <2>5, <2>8, PopIs
  <2>10. b \in Bufs => e.gf.read[b] = UserHeld
    BY <1>4, <1>8, <2>1, <2>9 DEF Quiet
  <2>11. Slots(e.gf, b) = {}
    <3>1. PICK st : st = Append(c.gf.stack, b)
      OBVIOUS
    <3>2. /\ st \in Seq(Bufs \cup {OwnBuf}) /\ Len(st) = Len(c.gf.stack) + 1
          /\ \A i \in 1 .. Len(c.gf.stack) : st[i] = c.gf.stack[i]
      BY <1>5, <2>2, <3>1, AppendProperties
    <3>3. PICK n : n = Len(c.gf.stack)
      OBVIOUS
    <3>4. e.gf.stack = SubSeq(st, 1, n)
      <4>1. q.core.gf.stack = st
        BY <1>4, <1>8, <3>1
      <4>2. Pos(q.core.gf) - 1 = n
        BY <1>5, <3>2, <3>3, <4>1 DEF Pos
      <4> QED
        BY <2>9, <4>1, <4>2 DEF Below
    <3>5. 1 \in Int /\ n \in Int /\ \A i \in 1 .. n : st[i] \in Bufs \cup {OwnBuf}
      BY <1>5, <3>2, <3>3, ElementOfSeq
    <3>6. /\ Len(SubSeq(st, 1, n)) = n
          /\ \A i \in 1 .. n : SubSeq(st, 1, n)[i] = st[i]
      BY <1>5, <3>2, <3>3, <3>5, SubSeqProperties
    <3>7. \A i \in 1 .. n : c.gf.stack[i] # b
      BY <1>2, <1>3, <3>3 DEF Slots, Pos
    <3> QED
      BY <3>2, <3>3, <3>4, <3>6, <3>7 DEF Slots, Pos
  <2>12. PICK h : h = UnholdUser(e.gf, b)
    OBVIOUS
  <2>13. Sound(h) /\ h \in Patches
    BY <2>2, <2>6, <2>11, <2>12, UnholdUserIs, SoundIs
  <2>14. PICK u : u = CoreUnhold(q)
    OBVIOUS
  <2>15. u = [p EXCEPT !.core.gf = h]
    <3>1. BufferOf(p.core, Head(p.args)) = b /\ p.args # <<>>
      BY <2>4, <2>5, <2>6, <2>7
    <3>2. ~(b = NullBuf \/ (b \in Bufs /\ p.core.gf.read[b] # UserHeld))
      BY <2>2, <2>5, <2>10, OwnIs
    <3> QED
      BY <1>6, <2>4, <2>5, <2>12, <2>14, <3>1, <3>2 DEF CoreUnhold
  <2>16. Restacked(p, u, h, p.core.sk)
    BY <2>6, <2>13, <2>15, PatchedIs
  <2>17. PICK f : f = u.core
    OBVIOUS
  <2>18. /\ u \in Calls /\ u.ok /\ f \in Cores /\ f.gf = h /\ f.sk = e.sk
         /\ f.nodes = e.nodes /\ f.regs = e.regs /\ f.marks = e.marks
    BY <2>4, <2>5, <2>16, <2>17 DEF Restacked, Stacks
  <2>19. PICK d : d = [f EXCEPT !.marks = f.marks \ {r}]
    OBVIOUS
  <2>20. /\ d \in Cores /\ d.gf = h /\ d.sk = e.sk /\ d.nodes = e.nodes
         /\ d.regs = e.regs /\ d.marks = e.marks \ {r}
    BY <2>18, <2>19 DEF Cores
  <2>21. RegClear(u, r).core = d
    <3>1. RegClear(u, r) = [u EXCEPT !.core = d]
      BY <2>17, <2>18, <2>19 DEF RegClear
    <3> QED
      BY <2>18, <3>1 DEF Calls
  <2>22. Working(d)
    <3>1. r \in e.marks /\ BufferOf(e, e.regs[r].cab) = b
      BY <1>2, <2>6, <2>7
    <3> QED
      BY <2>6, <2>11, <2>12, <2>20, <3>1, ForgottenKeeps
  <2> QED
    BY <1>1, <2>14, <2>21, <2>22
<1> QED
  BY <1>7, <1>8

------------------------------------------------------------------------------
(* The specification.                                                       *)

(* A core with nothing on its stacks, nothing marked and no node.           *)
LEMMA EmptyGood ==
    ASSUME NEW d, d \in Cores, d.sk = <<>>, d.gf.stack = <<>>, d.marks = {},
           Sound(d.gf), AllBlocks(d)
    PROVE  Good(d) /\ UsableUnwritten(d)
<1>1. Lined(d, d.sk, d.gf.stack)
  BY LinedEmpty
<1>2. Usable(d) = {}
  <2>1. Len(d.sk) = 0
    OBVIOUS
  <2> QED
    BY <2>1 DEF Usable
<1> QED
  BY <1>1, <1>2 DEF Good, UsableLive, UsableUnwritten, MarksHeld, MarksDiffer

(* A core with no node.                                                     *)
LEMMA BareFinal ==
    ASSUME NEW d, d \in Cores, d.sk = <<>>, d.gf.stack = <<>>, d.marks = {},
           Sound(d.gf), d.nodes = <<>>
    PROVE  Final(d)
<1>1. Len(d.nodes) = 0 /\ Len(d.sk) = 0
  OBVIOUS
<1>2. Sized(d) /\ InputsIntact(d) /\ OutsDiffer(d) /\ AllBlocks(d)
  BY <1>1, MaxNodesAssumption, SkSizeAssumption DEF Sized, InputsIntact, OutsDiffer,
     AllBlocks
<1> QED
  BY <1>2, EmptyGood DEF Final

(* sk_core_new.                                                             *)
LEMMA InitFinal == Final(InitCore)
<1>1. PICK d : d = InitCore
  OBVIOUS
<1>2. Sound(InitPatch) /\ InitPatch \in Patches /\ InitPatch.stack = <<>>
  BY InitIs, SoundIs
<1>3. Stacklet("none") \in Stacklets
  BY DEF Stacklet, Stacklets
<1>4. /\ d \in Cores /\ d.gf = InitPatch /\ d.sk = <<>> /\ d.marks = {} /\ d.nodes = <<>>
  BY <1>1, <1>2, <1>3 DEF InitCore, Cores
<1> QED
  BY <1>1, <1>2, <1>4, BareFinal

(* unholdall and a regclr for each register.                                *)
LEMMA ForgetAllFinal ==
    ASSUME NEW k, NEW c, k \in Calls, c = k.core, Working(c), c.sk = <<>>, c.gf.stack = <<>>
    PROVE  Final([PoolUnholdAll(k) EXCEPT !.core.marks = {}].core)
<1>1. c \in Cores /\ Sound(c.gf)
  BY DEF Working, Sized, Good
<1>2. PICK h : h = UnholdAll(c.gf)
  OBVIOUS
<1>3. Sound(h) /\ h.stack = <<>> /\ h \in Patches
  BY <1>1, <1>2, UnholdAllIs, SoundIs
<1>4. PICK p : p = PoolUnholdAll(k)
  OBVIOUS
<1>5. p = [k EXCEPT !.core.gf = h]
  BY <1>2, <1>4 DEF PoolUnholdAll
<1>6. Restacked(k, p, h, c.sk)
  BY <1>3, <1>5, PatchedIs
<1>7. PICK e : e = p.core
  OBVIOUS
<1>8. p \in Calls /\ e \in Cores /\ e.gf = h /\ e.sk = <<>> /\ e.nodes = c.nodes
  BY <1>6, <1>7 DEF Restacked, Stacks
<1>9. PICK d : d = [e EXCEPT !.marks = {}]
  OBVIOUS
<1>10. /\ d \in Cores /\ d.gf = h /\ d.sk = <<>> /\ d.nodes = c.nodes /\ d.marks = {}
  BY <1>8, <1>9 DEF Cores
<1>11. [p EXCEPT !.core.marks = {}].core = d
  BY <1>7, <1>8, <1>9 DEF Calls
<1>12. InputsIntact(d) /\ OutsDiffer(d) /\ AllBlocks(d)
  BY <1>10, SameNodes DEF Working, Good
<1>13. Sized(d)
  BY <1>10 DEF Working, Sized
<1>14. Good(d) /\ UsableUnwritten(d)
  BY <1>3, <1>10, <1>12, EmptyGood
<1> QED
  BY <1>4, <1>11, <1>12, <1>13, <1>14 DEF Final

(* gf_patch_clear between two patches.                                      *)
LEMMA EndPatchFinal ==
    ASSUME NEW k, NEW c, k \in Calls, c = k.core, Working(c), c.sk = <<>>,
    c.gf.stack = <<>>,
           c.marks = {}
    PROVE  Final(PatchClear(k).core)
<1>1. c \in Cores /\ Sound(c.gf)
  BY DEF Working, Sized, Good
<1>2. PICK d : d = [c EXCEPT !.nodes = <<>>]
  OBVIOUS
<1>3. /\ d \in Cores /\ d.gf = c.gf /\ d.sk = <<>> /\ d.nodes = <<>> /\ d.marks = {}
  BY <1>1, <1>2 DEF Cores
<1>4. PatchClear(k).core = d
  BY <1>2 DEF PatchClear, Calls
<1> QED
  BY <1>1, <1>3, <1>4, BareFinal

(* A command on a core that is good leaves one that is.                     *)
LEMMA CommandFinal ==
    ASSUME Final(core), ~core.gf.err, Next
    PROVE  Final(core')
<1>1. /\ Working(core) /\ Good(core) /\ core \in Cores /\ Len(core.nodes) <= MaxNodes
      /\ core.sk \in Seq(Stacklets) /\ core.marks \subseteq Regs
  BY DEF Final, Working, Sized, Cores
<1>2. PICK k : k = Call(core)
  OBVIOUS
<1>3. Calling(k) /\ k.core = core /\ k.ok /\ k.args = <<>> /\ k \in Calls /\ Now = k
  <2>1. Calling(k) /\ k.core = core /\ k.ok /\ k.args = <<>>
    BY <1>1, <1>2, CallIs
  <2> QED
    BY <1>2, <2>1 DEF Calling, Now
<1>4. \A d : Working(d) => Final(d)
  BY WorkingIsFinal
<1>5. CASE PushConstant \/ PushObject
  <2>1. PICK s \in {Stacklet("constant"), Stacklet("generic")} :
           core' = PushStacklet(k, s).core
    BY <1>3, <1>5 DEF PushConstant, PushObject, Run, Constant, Grab
  <2>2. s \in Stacklets /\ s.type # "cable"
    BY DEF Stacklet, Stacklets
  <2>3. PICK p : p = PushStacklet(k, s)
    OBVIOUS
  <2>4. Working(p.core)
    BY <1>3, <2>2, <2>3, PushPlainKeeps
  <2> QED
    BY <1>4, <2>1, <2>3, <2>4
<1>6. CASE PopObject
  <2>1. /\ core' = GenericPop(k).core /\ k.core.sk # <<>>
        /\ Last(k.core.sk).type = "generic"
    BY <1>3, <1>6 DEF PopObject, ObjectOnTop, Run
  <2>2. Working(GenericPop(k).core)
    BY <1>3, <2>1, GenericPopFinal
  <2> QED
    BY <1>4, <2>1, <2>2
<1>7. ASSUME NEW shape \in Shapes, AddNode(shape[1], shape[2]) PROVE Final(core')
  <2>1. PICK n \in {0, 1, 2}, m \in {0, 1, 2} : n = shape[1] /\ m = shape[2]
    BY DEF Shapes
  <2>2. /\ core' = Node(k, n, m).core /\ Len(k.core.nodes) < MaxNodes
        /\ Len(k.core.sk) - n + m <= SkSize
    BY <1>3, <1>7, <2>1 DEF AddNode, Run
  <2>3. Final(Node(k, n, m).core)
    BY <1>3, <2>2, NodeFinal
  <2> QED
    BY <2>2, <2>3
<1>8. CASE AddSink
  <2>1. /\ core' = Sink(k).core /\ Len(k.core.nodes) < MaxNodes /\ k.core.sk # <<>>
        /\ Last(k.core.sk).type = "generic"
    BY <1>3, <1>8 DEF AddSink, ObjectOnTop, Run
  <2>2. Final(Sink(k).core)
    BY <1>3, <2>1, SinkFinal
  <2> QED
    BY <2>1, <2>2
<1>9. CASE AddCabNew
  <2>1. /\ core' = CabNew(k).core /\ Len(k.core.nodes) < MaxNodes
        /\ k.core.sk # <<>> /\ Last(k.core.sk).type = "cable" =>
               IsBlock(k.core, Last(k.core.sk)) \/ Pos(k.core.gf) < StackSize
    BY <1>3, <1>9 DEF AddCabNew, CableOnTop, Run
  <2>2. Final(CabNew(k).core)
    BY <1>3, <2>1, CabNewFinal
  <2> QED
    BY <2>1, <2>2
<1>10. CASE Dup
  <2>1. /\ core' = CoreDup(k).core
        /\ k.core.sk # <<>> /\ Last(k.core.sk).type = "cable" =>
               Pos(k.core.gf) < StackSize - 1
    BY <1>3, <1>10 DEF Dup, CableOnTop, Run
  <2>2. Working(CoreDup(k).core)
    BY <1>3, <2>1, CoreDupKeeps
  <2> QED
    BY <1>4, <2>1, <2>2
<1>11. CASE Drop
  <2>1. core' = CoreDrop(k).core /\ Working(CoreDrop(k).core)
    BY <1>3, <1>11, CoreDropKeeps DEF Drop, Run
  <2> QED
    BY <1>4, <2>1
<1>12. CASE Swap
  <2>1. core' = CoreSwap(k).core /\ Working(CoreSwap(k).core)
    BY <1>3, <1>12, CoreSwapKeeps DEF Swap, Run
  <2> QED
    BY <1>4, <2>1
<1>13. CASE Keep
  <2>1. PICK r : r = NextReg(core, 0)
    OBVIOUS
  <2>2. /\ core' = RegMark(CoreRegSet(CoreHold(k), r), r).core /\ r # -1
        /\ core.sk # <<>> /\ Last(core.sk).type = "cable" =>
               Unheld(BufferOf(core, Last(core.sk).cab))
    BY <1>3, <1>13, <2>1 DEF Keep, Run, CableOnTop, TopBuffer
  <2>3. Working(RegMark(CoreRegSet(CoreHold(k), r), r).core)
    BY <1>3, <2>1, <2>2, KeepKeeps
  <2> QED
    BY <1>4, <2>2, <2>3
<1>14. ASSUME NEW r \in Regs, Recall(r) PROVE Final(core')
  <2>1. core' = CoreRegGet(k, r).core /\ r \in core.marks /\ Pos(core.gf) < StackSize
    BY <1>3, <1>14 DEF Recall, Run
  <2>2. Working(CoreRegGet(k, r).core)
    BY <1>3, <2>1, RecallKeeps
  <2> QED
    BY <1>4, <2>1, <2>2
<1>15. ASSUME NEW r \in Regs, Forget(r) PROVE Final(core')
  <2>1. /\ core' = RegClear(CoreUnhold(CoreRegGet(k, r)), r).core
        /\ r \in core.marks /\ Pos(core.gf) < StackSize
        /\ Slots(core.gf, BufferOf(core, core.regs[r].cab)) = {}
    BY <1>3, <1>15 DEF Forget, Run, InUse, RegBuffer
  <2>2. Working(RegClear(CoreUnhold(CoreRegGet(k, r)), r).core)
    BY <1>3, <2>1, ForgetKeeps
  <2> QED
    BY <1>4, <2>1, <2>2
<1>16. CASE ForgetAll
  <2>1. /\ core' = [PoolUnholdAll(k) EXCEPT !.core.marks = {}].core
        /\ core.sk = <<>> /\ core.gf.stack = <<>>
    BY <1>3, <1>16 DEF ForgetAll, Run
  <2>2. Final([PoolUnholdAll(k) EXCEPT !.core.marks = {}].core)
    BY <1>1, <1>3, <2>1, ForgetAllFinal
  <2> QED
    BY <2>1, <2>2
<1>17. CASE EndPatch
  <2>1. /\ core' = PatchClear(k).core
        /\ core.sk = <<>> /\ core.gf.stack = <<>> /\ core.marks = {}
    BY <1>3, <1>17 DEF EndPatch, Run
  <2>2. Final(PatchClear(k).core)
    BY <1>1, <1>3, <2>1, EndPatchFinal
  <2> QED
    BY <2>1, <2>2
<1>18. CASE Reset
  BY <1>18, InitFinal DEF Reset
<1> QED
  BY <1>5, <1>6, <1>7, <1>8, <1>9, <1>10, <1>11, <1>12, <1>13, <1>14, <1>15, <1>16,
     <1>17, <1>18 DEF Next

(* Once err is set the script ends, and only a reset follows.               *)
LEMMA EndedFinal ==
    ASSUME core.gf.err, Next
    PROVE  Final(core')
<1>1. Reset
  BY DEF Next, PushConstant, PushObject, PopObject, AddNode, AddSink, AddCabNew, Dup, Drop,
         Swap, Keep, Recall, Forget, ForgetAll, EndPatch, Run
<1> QED
  BY <1>1, InitFinal DEF Reset

\* The inductive invariant.
ScriptSound == Final(core)

(* Every script, command by command, keeps the two stacks in line while the *)
(* pool lasts, and the signals of its patch intact whatever happens.        *)
THEOREM ScriptIsSound == Spec => []ScriptSound
<1>1. Init => ScriptSound
  BY InitFinal DEF Init, ScriptSound
<1>2. ScriptSound /\ [Next]_vars => ScriptSound'
  <2> SUFFICES ASSUME Final(core), [Next]_vars PROVE Final(core')
    BY DEF ScriptSound
  <2>1. CASE Next
    BY <2>1, CommandFinal, EndedFinal
  <2>2. CASE vars' = vars
    <3>1. core' = core
      BY <2>2 DEF vars
    <3> QED
      BY <3>1
  <2> QED
    BY <2>1, <2>2
<1> QED
  BY <1>1, <1>2, PTL DEF Spec

(* The parts of the core keep their types, and the typed stack its size.    *)
THEOREM CoreTyped == Spec => []TypeOK
<1>1. ScriptSound => TypeOK
  BY DEF ScriptSound, Final, Sized, Cores, TypeOK
<1> QED
  BY ScriptIsSound, <1>1, PTL

(* Until the pool runs out the two stacks tell the same story, whatever the *)
(* script does.                                                             *)
THEOREM StacksAligned == Spec => []Aligned
<1>1. ScriptSound => Aligned
  BY DEF ScriptSound, Final, Good, Lined, Aligned, Pos
<1> QED
  BY ScriptIsSound, <1>1, PTL

(* A script keeps the contract graforge asks of its callers.                *)
THEOREM ScriptsKeepPool == Spec => []PoolSound
<1>1. ScriptSound => PoolSound
  <2> SUFFICES ASSUME ScriptSound, ~core.gf.err
               PROVE  P!NoNullDeref /\ P!LedgerCoversBusy /\ P!UserLedger /\ P!LiveEntries
    BY DEF PoolSound
  <2>1. G!Sound(core.gf)
    BY DEF ScriptSound, Final, Good, Sound
  <2>2. G!NoNullDeref /\ G!LedgerCoversBusy /\ G!UserLedger /\ G!LiveEntries
    BY <2>1, G!SoundImplies
  <2>3. P!NoNullDeref
    BY <2>2, SameNames DEF G!NoNullDeref, P!NoNullDeref, G!OnStack, P!OnStack,
       P!Slots, Slots, P!Pos, Pos, P!NullBuf, NullBuf
  <2>4. P!LedgerCoversBusy /\ P!UserLedger
    BY <2>2 DEF G!LedgerCoversBusy, P!LedgerCoversBusy, G!UserLedger, P!UserLedger,
       G!Busy, P!Busy, G!Bufs, P!Bufs, G!UserHeld, P!UserHeld,
       G!Cardinality, P!Cardinality
  <2>5. P!LiveEntries
    BY <2>2 DEF G!LiveEntries, P!LiveEntries, G!OnStack, P!OnStack, G!Slots, P!Slots,
       G!Pos, P!Pos, G!Bufs, P!Bufs, G!Cardinality, P!Cardinality
  <2> QED
    BY <2>3, <2>4, <2>5
<1> QED
  BY ScriptIsSound, <1>1, PTL

(* Between the node that writes a buffer and a node that reads it no other  *)
(* node writes it, however long the patch and however small the pool.       *)
THEOREM NothingClobbered == Spec => []NoClobber
<1>1. ScriptSound => NoClobber
  BY DEF ScriptSound, Final, InputsIntact, NoClobber, Writes, WritesOf
<1> QED
  BY ScriptIsSound, <1>1, PTL

(* A signal a script can still use has not been overwritten since its node. *)
THEOREM SignalsKept == Spec => []SignalsIntact
<1>1. ScriptSound => SignalsIntact
  BY DEF ScriptSound, Final, OutsDiffer, UsableUnwritten, Usable, Unwritten, SignalsIntact,
         Writes, WritesOf
<1> QED
  BY ScriptIsSound, <1>1, PTL

================================================================================
