---------------------------- MODULE GraforgeProofs ----------------------------
(***************************************************************************)
(* Graforge for every pool, every stack and every bound.  The inductive    *)
(* invariant is Sound: the types, the two ledgers, the references that     *)
(* the slots own and last_free.  Each operator of GraforgeOps has a lemma  *)
(* saying it keeps Sound, under the contract Graforge's guard states; the  *)
(* theorems at the end follow for the specification.                       *)
(*                                                                         *)
(* Neither ledger is inductive alone.  That nactive covers the taken       *)
(* buffers needs every release to be of a taken buffer, which the slots'   *)
(* references give; that a slot's buffer is taken needs nextfree to hand   *)
(* out a free one, which needs the ledger and last_free.                   *)
(***************************************************************************)
EXTENDS Graforge, FiniteSetTheorems, WellFoundedInduction, SequenceTheorems, TLAPS

(* A non-empty set of pool buffers has a first one, so that the scan of      *)
(* gf_bufferpool_nextfree finds a free buffer whenever there is one.         *)
LEMMA FirstBuffer ==
    ASSUME NEW S, S \subseteq Bufs, S # {}
    PROVE  \E b \in S : \A c \in S : b <= c
<1>1. S \subseteq Nat
  BY PoolSizeAssumption DEF Bufs
<1>2. PICK b \in S : \A c \in S : ~(<<c, b>> \in OpToRel(<, Nat))
  BY <1>1, NatLessThanWellFounded, WFMin, Zenon
<1>3. \A c \in S : ~(c < b)
  BY <1>1, <1>2 DEF OpToRel
<1> QED
  BY <1>1, <1>3

(* The buffer nextfree picks.                                                *)
LEMMA NextFreeIsFree ==
    ASSUME NEW g, g \in Patches,
           g.last_free # NoBuf => g.read[g.last_free] = 0,
           Busy(g) # Bufs
    PROVE  NextFree(g) \in Bufs /\ g.read[NextFree(g)] = 0
<1>1. CASE g.last_free # NoBuf
  BY <1>1 DEF NextFree, Patches
<1>2. CASE g.last_free = NoBuf
  <2>1. Bufs \ Busy(g) # {}
    BY DEF Busy
  <2>2. \E b \in Bufs \ Busy(g) : \A c \in Bufs \ Busy(g) : b <= c
    BY <2>1, FirstBuffer, Zenon
  <2>3. NextFree(g) \in Bufs \ Busy(g)
    BY <1>2, <2>2 DEF NextFree
  <2> QED
    BY <2>3 DEF Busy
<1> QED
  BY <1>1, <1>2
------------------------------------------------------------------------------
(* The inductive invariant, as a predicate on a patch, so that it can be     *)
(* cited for the patch between two library calls of one handler.             *)

Typed(g) ==
    /\ g \in Patches
    /\ g.stack \in Seq(Bufs \cup {OwnBuf}) /\ Pos(g) <= StackSize
    /\ ~g.fault

Users(g) == {b \in Bufs : g.read[b] = UserHeld}

Ledgers(g) ==
    /\ g.nactive >= Cardinality(Busy(g))
    /\ g.usrnactive >= Cardinality(Users(g))

Live(g) ==
    \A b \in Bufs : Slots(g, b) # {} =>
        /\ g.read[b] # 0
        /\ g.read[b] > 0 => g.read[b] >= Cardinality(Slots(g, b))

LastFree(g) == g.last_free # NoBuf => g.read[g.last_free] = 0

Sound(g) == Typed(g) /\ Ledgers(g) /\ Live(g) /\ LastFree(g)

------------------------------------------------------------------------------
(* Counting.                                                                 *)

(* Sets of pool buffers and sets of slots are finite.                        *)
LEMMA SetsFinite ==
    ASSUME NEW g, Typed(g)
    PROVE  /\ \A S : S \subseteq Bufs => IsFiniteSet(S) /\ Cardinality(S) \in Nat
           /\ \A b : IsFiniteSet(Slots(g, b)) /\ Cardinality(Slots(g, b)) \in Nat
<1>1. IsFiniteSet(Bufs)
  BY FS_Interval, PoolSizeAssumption DEF Bufs
<1>2. Len(g.stack) \in Nat
  BY LenProperties DEF Typed
<1>3. IsFiniteSet(1 .. Len(g.stack))
  BY <1>2, FS_Interval
<1>4. \A b : Slots(g, b) \subseteq 1 .. Len(g.stack)
  BY DEF Slots, Pos
<1> QED
  BY <1>1, <1>3, <1>4, FS_Subset, FS_CardinalityType

(* A push adds one slot to those of the buffer pushed, and to no other's.    *)
LEMMA StackOfPush ==
    ASSUME NEW g, NEW h, NEW c, Typed(g), c \in Bufs \cup {OwnBuf},
           h.stack = Append(g.stack, c)
    PROVE  /\ h.stack \in Seq(Bufs \cup {OwnBuf})
           /\ Pos(g) \in Nat /\ Pos(h) = Pos(g) + 1 /\ Top(h) = c
           /\ \A i \in 1 .. Pos(g) : h.stack[i] = g.stack[i]
BY AppendProperties, LenProperties DEF Typed, Pos, Top

(* The other buffers keep their slots.                                       *)
LEMMA OtherSlotsOfPush ==
    ASSUME NEW g, NEW h, NEW c, NEW b, Typed(g), c \in Bufs \cup {OwnBuf},
           h.stack = Append(g.stack, c), b # c
    PROVE  Slots(h, b) = Slots(g, b)
<1>1. /\ Len(g.stack) \in Nat /\ Len(h.stack) = Len(g.stack) + 1
      /\ h.stack[Len(h.stack)] = c
      /\ \A i \in 1 .. Len(g.stack) : h.stack[i] = g.stack[i]
  BY StackOfPush DEF Top, Pos
<1> QED
  BY <1>1 DEF Slots, Pos

(* The buffer pushed gains one slot.                                         *)
LEMMA CountOfPush ==
    ASSUME NEW g, NEW h, NEW c, Typed(g), c \in Bufs \cup {OwnBuf},
           h.stack = Append(g.stack, c)
    PROVE  Cardinality(Slots(h, c)) = Cardinality(Slots(g, c)) + 1
<1>1. /\ Len(g.stack) \in Nat /\ Len(h.stack) = Len(g.stack) + 1
      /\ h.stack[Len(h.stack)] = c
      /\ \A i \in 1 .. Len(g.stack) : h.stack[i] = g.stack[i]
  BY StackOfPush DEF Top, Pos
<1>2. Slots(h, c) = Slots(g, c) \cup {Pos(h)} /\ Pos(h) \notin Slots(g, c)
  BY <1>1 DEF Slots, Pos
<1> QED
  BY <1>2, SetsFinite, FS_AddElement

(* A pop takes the top slot from its buffer and from no other.               *)
LEMMA StackOfPop ==
    ASSUME NEW g, NEW h, Typed(g), Pos(g) # 0, h.stack = Below(g)
    PROVE  /\ Top(g) \in Bufs \cup {OwnBuf}
           /\ h.stack \in Seq(Bufs \cup {OwnBuf})
           /\ Pos(g) \in Nat \ {0} /\ Pos(h) = Pos(g) - 1
           /\ \A b : Slots(h, b) = Slots(g, b) \ {Pos(g)}
           /\ Pos(g) \in Slots(g, Top(g))
<1>1. /\ g.stack \in Seq(Bufs \cup {OwnBuf}) /\ Len(g.stack) \in Nat \ {0}
      /\ \A i \in 1 .. Len(g.stack) : g.stack[i] \in Bufs \cup {OwnBuf}
  BY LenProperties, ElementOfSeq DEF Typed, Pos
<1>2. /\ h.stack \in Seq(Bufs \cup {OwnBuf}) /\ Len(h.stack) = Len(g.stack) - 1
      /\ \A i \in 1 .. Len(g.stack) - 1 : h.stack[i] = g.stack[i]
  <2>1. \A i \in 1 .. Len(g.stack) - 1 : g.stack[i] \in Bufs \cup {OwnBuf}
    BY <1>1
  <2> QED
    BY <1>1, <2>1, SubSeqProperties DEF Below, Pos
<1>3. /\ \A b : Slots(h, b) = Slots(g, b) \ {Pos(g)}
      /\ Pos(g) \in Slots(g, Top(g))
  BY <1>1, <1>2 DEF Slots, Pos, Top
<1>4. Top(g) \in Bufs \cup {OwnBuf} /\ Pos(h) = Pos(g) - 1 /\ Pos(g) \in Nat \ {0}
  BY <1>1, <1>2 DEF Pos, Top
<1> QED
  BY <1>2, <1>3, <1>4

(* The other buffers keep their slots.                                       *)
LEMMA OtherSlotsOfPop ==
    ASSUME NEW g, NEW h, Typed(g), Pos(g) # 0, h.stack = Below(g),
           NEW b, b # Top(g)
    PROVE  Slots(h, b) = Slots(g, b)
<1>1. Slots(h, b) = Slots(g, b) \ {Pos(g)}
  BY StackOfPop
<1>2. Pos(g) \notin Slots(g, b)
  BY DEF Slots, Top
<1> QED
  BY <1>1, <1>2

(* The buffer popped loses one slot.                                         *)
LEMMA CountOfPop ==
    ASSUME NEW g, NEW h, Typed(g), Pos(g) # 0, h.stack = Below(g)
    PROVE  /\ Cardinality(Slots(h, Top(g))) = Cardinality(Slots(g, Top(g))) - 1
           /\ Cardinality(Slots(g, Top(g))) \in Nat \ {0}
           /\ Slots(g, Top(g)) # {}
           /\ Slots(h, Top(g)) # {} => Cardinality(Slots(g, Top(g))) > 1
<1>1. /\ Slots(h, Top(g)) = Slots(g, Top(g)) \ {Pos(g)}
      /\ Pos(g) \in Slots(g, Top(g))
  BY StackOfPop
<1>2. IsFiniteSet(Slots(g, Top(g))) /\ Cardinality(Slots(g, Top(g))) \in Nat
  BY SetsFinite
<1>3. /\ Cardinality(Slots(h, Top(g))) = Cardinality(Slots(g, Top(g))) - 1
      /\ IsFiniteSet(Slots(h, Top(g)))
  BY <1>1, <1>2, FS_RemoveElement
<1>4. Cardinality(Slots(h, Top(g))) \in Nat
  BY <1>3, FS_CardinalityType
<1>5. Slots(h, Top(g)) # {} => Cardinality(Slots(h, Top(g))) # 0
  BY <1>3, FS_EmptySet
<1> QED
  BY <1>1, <1>2, <1>3, <1>4, <1>5

(* How the ledgers change with the reference count of one buffer.            *)
LEMMA CountsOfOne ==
    ASSUME NEW g, NEW h, Typed(g), NEW b \in Bufs, NEW r \in Reads,
           h.read = [g.read EXCEPT ![b] = r]
    PROVE  /\ Cardinality(Busy(h)) = Cardinality(Busy(g))
                 + (IF g.read[b] = 0 /\ r # 0 THEN 1
                    ELSE IF g.read[b] # 0 /\ r = 0 THEN -1 ELSE 0)
           /\ Cardinality(Users(h)) = Cardinality(Users(g))
                 + (IF g.read[b] # UserHeld /\ r = UserHeld THEN 1
                    ELSE IF g.read[b] = UserHeld /\ r # UserHeld THEN -1 ELSE 0)
<1>1. g.read \in [Bufs -> Reads]
  BY DEF Typed, Patches
<1>2. /\ IsFiniteSet(Busy(g)) /\ Cardinality(Busy(g)) \in Nat
      /\ IsFiniteSet(Users(g)) /\ Cardinality(Users(g)) \in Nat
  BY SetsFinite DEF Busy, Users
<1>3. /\ h.read[b] = r
      /\ \A c \in Bufs : c # b => h.read[c] = g.read[c]
  BY <1>1
<1>4. Busy(h) = IF r # 0 THEN Busy(g) \cup {b} ELSE Busy(g) \ {b}
  BY <1>3 DEF Busy
<1>5. Users(h) = IF r = UserHeld THEN Users(g) \cup {b} ELSE Users(g) \ {b}
  BY <1>3 DEF Users
<1>6. (b \in Busy(g) <=> g.read[b] # 0) /\ (b \in Users(g) <=> g.read[b] = UserHeld)
  BY DEF Busy, Users
<1>7. /\ Cardinality(Busy(g) \cup {b}) =
           IF b \in Busy(g) THEN Cardinality(Busy(g)) ELSE Cardinality(Busy(g)) + 1
      /\ Cardinality(Busy(g) \ {b}) =
           IF b \in Busy(g) THEN Cardinality(Busy(g)) - 1 ELSE Cardinality(Busy(g))
  BY <1>2, FS_AddElement, FS_RemoveElement
<1>8. /\ Cardinality(Users(g) \cup {b}) =
           IF b \in Users(g) THEN Cardinality(Users(g)) ELSE Cardinality(Users(g)) + 1
      /\ Cardinality(Users(g) \ {b}) =
           IF b \in Users(g) THEN Cardinality(Users(g)) - 1 ELSE Cardinality(Users(g))
  BY <1>2, FS_AddElement, FS_RemoveElement
<1> QED
  BY <1>2, <1>4, <1>5, <1>6, <1>7, <1>8

------------------------------------------------------------------------------
(* The fields of a patch after a call.                                       *)

Becomes(h, read, nactive, usrnactive, last_free, stack) ==
    /\ h \in Patches /\ ~h.fault
    /\ h.read = read /\ h.nactive = nactive /\ h.usrnactive = usrnactive
    /\ h.last_free = last_free /\ h.stack = stack

(* A pool buffer is no mark.                                                 *)
LEMMA BufsAreIds ==
    ASSUME NEW b \in Bufs
    PROVE  b \in Nat /\ b # NullBuf /\ b # OwnBuf /\ b # NoBuf
BY PoolSizeAssumption DEF Bufs, NullBuf, OwnBuf, NoBuf

(* The marks of a cabnew buffer and of a NULL pointer are no buffer ids.     *)
LEMMA OwnIsNoId == OwnBuf \notin Bufs /\ NullBuf \notin Bufs /\ OwnBuf # NullBuf
BY PoolSizeAssumption DEF Bufs, NullBuf, OwnBuf

(* Writing one field of a patch leaves a patch.                              *)
LEMMA SetField ==
    ASSUME NEW g \in Patches
    PROVE  /\ \A r \in [Bufs -> Reads] : [g EXCEPT !.read = r] \in Patches
           /\ \A b \in Bufs, r \in Reads : [g EXCEPT !.read[b] = r] \in Patches
           /\ \A n \in Int : [g EXCEPT !.nactive = n] \in Patches
           /\ \A n \in Int : [g EXCEPT !.usrnactive = n] \in Patches
           /\ \A b \in Bufs \cup {NoBuf} : [g EXCEPT !.last_free = b] \in Patches
           /\ \A s \in Seq(Bufs \cup {OwnBuf, NullBuf}) :
                 [g EXCEPT !.stack = s] \in Patches
           /\ \A e \in BOOLEAN : [g EXCEPT !.err = e] \in Patches
BY DEF Patches

(* The stack of a sound patch after a push and after a pop is a stack.       *)
LEMMA StackTypes ==
    ASSUME NEW s \in Seq(Bufs \cup {OwnBuf})
    PROVE  s \in Seq(Bufs \cup {OwnBuf, NullBuf})
<1>1. Bufs \cup {OwnBuf} \subseteq Bufs \cup {OwnBuf, NullBuf}
  OBVIOUS
<1> QED
  BY <1>1, SeqMonotonic

(* Writing the stack of a patch leaves a patch.                              *)
LEMMA SetStack ==
    ASSUME NEW g \in Patches, NEW s \in Seq(Bufs \cup {OwnBuf})
    PROVE  [g EXCEPT !.stack = s] \in Patches
BY StackTypes, SetField

(* gf_buffer_mark of a buffer that is not held adds one reference.           *)
LEMMA BufferMarkEffect ==
    ASSUME NEW g \in Patches, ~g.fault, NEW b \in Bufs, g.read[b] >= 0
    PROVE  Becomes(BufferMark(g, b), [g.read EXCEPT ![b] = @ + 1],
                   g.nactive, g.usrnactive, g.last_free, g.stack)
<1>1. g.read[b] + 1 \in Reads
  BY DEF Patches, Reads, Held, UserHeld
<1>2. BufferMark(g, b) = [g EXCEPT !.read[b] = g.read[b] + 1]
  BY BufsAreIds DEF BufferMark
<1>3. [g EXCEPT !.read[b] = g.read[b] + 1] \in Patches
  BY <1>1, SetField
<1> QED
  BY <1>2, <1>3 DEF Becomes, Patches

(* A release drops one reference, and the last one frees the buffer.         *)
LEMMA ReleaseEffect ==
    ASSUME NEW g \in Patches, ~g.fault, NEW b \in Bufs
    PROVE  /\ g.read[b] <= 0 => Release(g, b) = g
           /\ g.read[b] > 1 =>
                 Becomes(Release(g, b), [g.read EXCEPT ![b] = @ - 1],
                         g.nactive, g.usrnactive, g.last_free, g.stack)
           /\ g.read[b] = 1 =>
                 Becomes(Release(g, b), [g.read EXCEPT ![b] = 0],
                         g.nactive - 1, g.usrnactive, b, g.stack)
<1>0. g.read[b] \in Int /\ g.nactive - 1 \in Int
  BY DEF Patches, Reads, Held, UserHeld
<1>1. g.read[b] <= 0 => Release(g, b) = g
  BY BufsAreIds DEF Release
<1>2. ASSUME g.read[b] > 1
      PROVE  Becomes(Release(g, b), [g.read EXCEPT ![b] = @ - 1],
                     g.nactive, g.usrnactive, g.last_free, g.stack)
  <2>1. g.read[b] - 1 \in Reads
    BY <1>0, <1>2 DEF Reads
  <2>2. Release(g, b) = [g EXCEPT !.read[b] = g.read[b] - 1]
    BY <1>0, <1>2, BufsAreIds DEF Release
  <2>3. [g EXCEPT !.read[b] = g.read[b] - 1] \in Patches
    BY <2>1, SetField
  <2> QED
    BY <2>2, <2>3 DEF Becomes, Patches
<1>3. ASSUME g.read[b] = 1
      PROVE  Becomes(Release(g, b), [g.read EXCEPT ![b] = 0],
                     g.nactive - 1, g.usrnactive, b, g.stack)
  <2>1. Release(g, b) = [g EXCEPT !.read[b] = 0, !.last_free = b, !.nactive = @ - 1]
    BY <1>3, BufsAreIds DEF Release
  <2>2. [g EXCEPT !.read[b] = 0] \in Patches
    BY SetField DEF Reads
  <2>3. [g EXCEPT !.read[b] = 0, !.last_free = b] \in Patches
    BY <2>2, SetField
  <2>4. [g EXCEPT !.read[b] = 0, !.last_free = b, !.nactive = @ - 1] \in Patches
    BY <1>0, <2>3, SetField
  <2> QED
    BY <2>1, <2>4 DEF Becomes, Patches
<1> QED
  BY <1>1, <1>2, <1>3

(* gf_bufferpool_holdu counts a buffer twice over: taken, and user-held.     *)
LEMMA HoldUserEffect ==
    ASSUME NEW g \in Patches, ~g.fault, NEW b \in Bufs
    PROVE  /\ g.read[b] < 0 => HoldUser(g, b) = g
           /\ g.read[b] >= 0 =>
                 Becomes(HoldUser(g, b), [g.read EXCEPT ![b] = UserHeld],
                         g.nactive + 1, g.usrnactive + 1, g.last_free, g.stack)
<1>1. g.read[b] \in Int
  BY DEF Patches, Reads, Held, UserHeld
<1>2. CASE g.read[b] < 0
  BY <1>1, <1>2 DEF HoldUser
<1>3. CASE g.read[b] >= 0
  <2>1. HoldUser(g, b) = [g EXCEPT !.read[b] = UserHeld, !.usrnactive = @ + 1,
                                   !.nactive = @ + 1]
    BY <1>3 DEF HoldUser
  <2>2. g.nactive + 1 \in Int /\ g.usrnactive + 1 \in Int
    BY DEF Patches
  <2>3. [g EXCEPT !.read[b] = UserHeld] \in Patches
    BY SetField DEF Reads
  <2>4. [g EXCEPT !.read[b] = UserHeld, !.usrnactive = @ + 1] \in Patches
    BY <2>2, <2>3, SetField
  <2>5. [g EXCEPT !.read[b] = UserHeld, !.usrnactive = @ + 1, !.nactive = @ + 1]
          \in Patches
    BY <2>2, <2>4, SetField
  <2> QED
    BY <1>3, <1>1, <2>1, <2>5 DEF Becomes, Patches
<1> QED
  BY <1>1, <1>2, <1>3
(* gf_bufferpool_unhold frees a held buffer and leaves usrnactive alone.     *)
LEMMA UnholdEffect ==
    ASSUME NEW g \in Patches, ~g.fault, NEW b \in Bufs
    PROVE  /\ g.read[b] >= 0 => Unhold(g, b) = g
           /\ g.read[b] < 0 =>
                 Becomes(Unhold(g, b), [g.read EXCEPT ![b] = 0],
                         g.nactive - 1, g.usrnactive, g.last_free, g.stack)
<1>0. g.read[b] \in Int /\ g.nactive - 1 \in Int
  BY DEF Patches, Reads, Held, UserHeld
<1>1. g.read[b] >= 0 => Unhold(g, b) = g
  BY <1>0 DEF Unhold
<1>2. ASSUME g.read[b] < 0
      PROVE  Becomes(Unhold(g, b), [g.read EXCEPT ![b] = 0],
                     g.nactive - 1, g.usrnactive, g.last_free, g.stack)
  <2>1. Unhold(g, b) = [g EXCEPT !.read[b] = 0, !.nactive = @ - 1]
    BY <1>2 DEF Unhold
  <2>2. [g EXCEPT !.read[b] = 0] \in Patches
    BY SetField DEF Reads
  <2>3. [g EXCEPT !.read[b] = 0, !.nactive = @ - 1] \in Patches
    BY <1>0, <2>2, SetField
  <2> QED
    BY <2>1, <2>3 DEF Becomes, Patches
<1> QED
  BY <1>1, <1>2

(* gf_bufferpool_unholdu frees a user-held buffer and counts it out.         *)
LEMMA UnholdUserEffect ==
    ASSUME NEW g \in Patches, ~g.fault, NEW b \in Bufs
    PROVE  /\ g.read[b] # UserHeld => UnholdUser(g, b) = g
           /\ g.read[b] = UserHeld =>
                 Becomes(UnholdUser(g, b), [g.read EXCEPT ![b] = 0],
                         g.nactive - 1, g.usrnactive - 1, g.last_free, g.stack)
<1>0. g.usrnactive - 1 \in Int /\ g.nactive - 1 \in Int
  BY DEF Patches
<1>1. g.read[b] # UserHeld => UnholdUser(g, b) = g
  BY DEF UnholdUser
<1>2. ASSUME g.read[b] = UserHeld
      PROVE  Becomes(UnholdUser(g, b), [g.read EXCEPT ![b] = 0],
                     g.nactive - 1, g.usrnactive - 1, g.last_free, g.stack)
  <2>1. UnholdUser(g, b) = [g EXCEPT !.read[b] = 0, !.usrnactive = @ - 1,
                                     !.nactive = @ - 1]
    BY <1>2 DEF UnholdUser
  <2>2. [g EXCEPT !.read[b] = 0] \in Patches
    BY SetField DEF Reads
  <2>3. [g EXCEPT !.read[b] = 0, !.usrnactive = @ - 1] \in Patches
    BY <1>0, <2>2, SetField
  <2>4. [g EXCEPT !.read[b] = 0, !.usrnactive = @ - 1, !.nactive = @ - 1] \in Patches
    BY <1>0, <2>3, SetField
  <2> QED
    BY <2>1, <2>4 DEF Becomes, Patches
<1> QED
  BY <1>1, <1>2

------------------------------------------------------------------------------
(* What a call must show to keep the invariant.                              *)

(* A call that leaves the reference counts alone.                            *)
LEMMA SoundSame ==
    ASSUME NEW g, NEW h, Sound(g), h \in Patches, ~h.fault,
           h.read = g.read,
           h.nactive >= g.nactive, h.usrnactive >= g.usrnactive,
           h.last_free \in {g.last_free, NoBuf},
           h.stack \in Seq(Bufs \cup {OwnBuf}), Pos(h) <= StackSize,
           \A b \in Bufs : Slots(h, b) # {} =>
               /\ g.read[b] # 0
               /\ g.read[b] > 0 => g.read[b] >= Cardinality(Slots(h, b))
    PROVE  Sound(h)
<1>1. Busy(h) = Busy(g) /\ Users(h) = Users(g)
  BY DEF Busy, Users
<1>2. /\ g.nactive \in Int /\ h.nactive \in Int
      /\ g.usrnactive \in Int /\ h.usrnactive \in Int
  BY DEF Sound, Typed, Patches
<1>3. Cardinality(Busy(g)) \in Nat /\ Cardinality(Users(g)) \in Nat
  BY SetsFinite DEF Sound, Busy, Users
<1>4. Ledgers(h)
  BY <1>1, <1>2, <1>3 DEF Sound, Ledgers
<1>5. LastFree(h)
  BY DEF Sound, LastFree
<1>6. Live(h)
  BY DEF Live
<1> QED
  BY <1>4, <1>5, <1>6 DEF Sound, Typed

(* A call that writes the reference count of one buffer.                     *)
LEMMA SoundOne ==
    ASSUME NEW g, NEW h, Sound(g), h \in Patches, ~h.fault,
           NEW b \in Bufs, NEW r \in Reads, h.read = [g.read EXCEPT ![b] = r],
           h.stack \in Seq(Bufs \cup {OwnBuf}), Pos(h) <= StackSize,
           h.nactive >= g.nactive
               + (IF g.read[b] = 0 /\ r # 0 THEN 1
                  ELSE IF g.read[b] # 0 /\ r = 0 THEN -1 ELSE 0),
           h.usrnactive >= g.usrnactive
               + (IF g.read[b] # UserHeld /\ r = UserHeld THEN 1
                  ELSE IF g.read[b] = UserHeld /\ r # UserHeld THEN -1 ELSE 0),
           \A c \in Bufs : c # b => Slots(h, c) = Slots(g, c),
           Slots(h, b) # {} => r # 0 /\ (r > 0 => r >= Cardinality(Slots(h, b))),
           \/ h.last_free = NoBuf
           \/ h.last_free = b /\ r = 0
           \/ h.last_free = g.last_free /\ g.last_free # b
    PROVE  Sound(h)
<1>1. g.read \in [Bufs -> Reads] /\ h.last_free \in Bufs \cup {NoBuf}
  BY DEF Sound, Typed, Patches
<1>2. h.read[b] = r /\ \A c \in Bufs : c # b => h.read[c] = g.read[c]
  BY <1>1
<1>3. /\ g.nactive \in Int /\ h.nactive \in Int
      /\ g.usrnactive \in Int /\ h.usrnactive \in Int
  BY DEF Sound, Typed, Patches
<1>4. Cardinality(Busy(g)) \in Nat /\ Cardinality(Users(g)) \in Nat
  BY SetsFinite DEF Sound, Busy, Users
<1>5. Ledgers(h)
  BY <1>3, <1>4, CountsOfOne DEF Sound, Ledgers
<1>6. LastFree(h)
  BY <1>1, <1>2 DEF Sound, LastFree
<1>7. Live(h)
  BY <1>2 DEF Sound, Live
<1> QED
  BY <1>5, <1>6, <1>7 DEF Sound, Typed

------------------------------------------------------------------------------
(* Each call keeps the invariant.                                            *)

(* The stack mentions no free buffer.                                        *)
LEMMA SlotsEmptyOfFree ==
    ASSUME NEW g, Sound(g), NEW b \in Bufs, g.read[b] = 0
    PROVE  Slots(g, b) = {}
BY DEF Sound, Live

(* While nactive is below PoolSize some buffer is free.                      *)
LEMMA RoomLeft ==
    ASSUME NEW g, Sound(g), ~PoolFull(g)
    PROVE  Busy(g) # Bufs
<1>1. IsFiniteSet(Bufs) /\ Cardinality(Bufs) = PoolSize
  <2>1. 0 \in Int /\ PoolSize - 1 \in Int
    BY PoolSizeAssumption
  <2>2. Cardinality(0 .. PoolSize - 1) =
          IF 0 > PoolSize - 1 THEN 0 ELSE (PoolSize - 1) - 0 + 1
    BY <2>1, FS_Interval
  <2> QED
    BY <2>1, <2>2, FS_Interval, PoolSizeAssumption DEF Bufs
<1>2. g.nactive \in Int /\ g.nactive < PoolSize /\ g.nactive >= Cardinality(Busy(g))
  BY PoolSizeAssumption DEF Sound, Typed, Ledgers, Patches, PoolFull
<1>3. Cardinality(Busy(g)) \in Nat
  BY SetsFinite DEF Sound, Busy
<1> QED
  BY <1>1, <1>2, <1>3, PoolSizeAssumption

(* A push hands out a free buffer, marks it once and puts it on top.         *)
LEMMA PushEffect ==
    ASSUME NEW g, Sound(g), CanPush(g)
    PROVE  \E b \in Bufs :
              /\ g.read[b] = 0
              /\ Becomes(StackPush(g), [g.read EXCEPT ![b] = 1],
                         g.nactive + 1, g.usrnactive, NoBuf, Append(g.stack, b))
<1>1. g \in Patches /\ ~g.fault /\ g.stack \in Seq(Bufs \cup {OwnBuf})
  BY DEF Sound, Typed
<1>2. NextFree(g) \in Bufs /\ g.read[NextFree(g)] = 0
  BY RoomLeft, NextFreeIsFree DEF Sound, Typed, LastFree, CanPush
<1> DEFINE b == NextFree(g)
<1> HIDE DEF b
<1>3. b \in Bufs /\ g.read[b] = 0
  BY <1>2 DEF b
<1>4. Append(g.stack, b) \in Seq(Bufs \cup {OwnBuf, NullBuf})
  BY <1>1, <1>3, StackTypes, AppendProperties
<1> DEFINE u == [g EXCEPT !.last_free = NoBuf, !.nactive = @ + 1]
<1>5. [g EXCEPT !.last_free = NoBuf] \in Patches /\ g.nactive + 1 \in Int
  <2>1. g.nactive + 1 \in Int
    BY <1>1 DEF Patches
  <2> QED
    BY <1>1, <2>1, SetField
<1>6. u \in Patches
  BY <1>5, SetField
<1>7. /\ u.read = g.read /\ u.nactive = g.nactive + 1 /\ ~u.fault
      /\ u.usrnactive = g.usrnactive /\ u.last_free = NoBuf /\ u.stack = g.stack
  BY <1>1 DEF Patches
<1>8. Becomes(BufferMark(u, b), [u.read EXCEPT ![b] = @ + 1],
              u.nactive, u.usrnactive, u.last_free, u.stack)
  <2> HIDE DEF u
  <2>1. u.read[b] >= 0
    BY <1>3, <1>7
  <2> QED
    BY <1>3, <1>6, <1>7, <2>1, BufferMarkEffect
<1>9. [u.read EXCEPT ![b] = @ + 1] = [g.read EXCEPT ![b] = 1]
  <2> HIDE DEF u
  <2>1. g.read[b] + 1 = 1
    BY <1>3
  <2> QED
    BY <1>7, <2>1
<1>10. StackPush(g) = [BufferMark(u, b) EXCEPT !.stack = Append(@, b)]
  BY DEF StackPush, TakeBuffer, b
<1> DEFINE v == BufferMark(u, b)
<1>11. /\ v \in Patches /\ ~v.fault /\ v.read = [g.read EXCEPT ![b] = 1]
       /\ v.nactive = g.nactive + 1 /\ v.usrnactive = g.usrnactive
       /\ v.last_free = NoBuf /\ v.stack = g.stack
  <2> HIDE DEF u
  <2> QED
    BY <1>7, <1>8, <1>9 DEF Becomes
<1> HIDE DEF v
<1>12. [v EXCEPT !.stack = Append(v.stack, b)] \in Patches
  BY <1>4, <1>11, SetField
<1>13. StackPush(g) = [v EXCEPT !.stack = Append(v.stack, b)]
  BY <1>10 DEF v
<1>14. Becomes(StackPush(g), [g.read EXCEPT ![b] = 1],
               g.nactive + 1, g.usrnactive, NoBuf, Append(g.stack, b))
  BY <1>11, <1>12, <1>13 DEF Becomes, Patches
<1> QED
  BY <1>3, <1>14

(* gf_stack_push hands out a free buffer.                                    *)
LEMMA PushSound ==
    ASSUME NEW g, NEW h, Sound(g), h = StackPush(g)
    PROVE  Sound(h)
<1>1. CASE ~CanPush(g)
  BY <1>1 DEF StackPush
<1>2. CASE CanPush(g)
  <2>1. PICK b \in Bufs :
           /\ g.read[b] = 0
           /\ Becomes(h, [g.read EXCEPT ![b] = 1],
                      g.nactive + 1, g.usrnactive, NoBuf, Append(g.stack, b))
    BY <1>2, PushEffect
  <2>2. Typed(g) /\ b \in Bufs \cup {OwnBuf} /\ h.stack = Append(g.stack, b)
    BY <2>1 DEF Sound, Becomes
  <2>3. \A c \in Bufs : c # b => Slots(h, c) = Slots(g, c)
    BY <2>2, OtherSlotsOfPush
  <2>4. Cardinality(Slots(h, b)) = 1
    <3>1. Slots(g, b) = {}
      BY <2>1, SlotsEmptyOfFree
    <3>2. Cardinality(Slots(h, b)) = Cardinality(Slots(g, b)) + 1
      BY <2>2, CountOfPush
    <3> QED
      BY <3>1, <3>2, FS_EmptySet
  <2>5. h.stack \in Seq(Bufs \cup {OwnBuf}) /\ Pos(h) <= StackSize
    <3>1. /\ h.stack \in Seq(Bufs \cup {OwnBuf})
          /\ Pos(g) \in Nat /\ Pos(h) = Pos(g) + 1
      BY <2>2, StackOfPush
    <3> QED
      BY <1>2, <3>1, StackSizeAssumption DEF CanPush
  <2>6. h.nactive >= g.nactive + 1 /\ h.usrnactive >= g.usrnactive
    BY <2>1 DEF Becomes, Patches
  <2>7. /\ h \in Patches /\ ~h.fault /\ 1 \in Reads
        /\ h.read = [g.read EXCEPT ![b] = 1] /\ h.last_free = NoBuf
        /\ g.read[b] # UserHeld /\ 1 # UserHeld /\ g.usrnactive \in Int
    BY <2>1 DEF Becomes, Reads, UserHeld, Sound, Typed, Patches
  <2> QED
    BY <2>1, <2>3, <2>4, <2>5, <2>6, <2>7, SoundOne
<1> QED
  BY <1>1, <1>2

(* A slot of a buffer with a positive count owns one of its references.       *)
LEMMA TopIsLive ==
    ASSUME NEW g, Sound(g), Pos(g) # 0
    PROVE  /\ Top(g) \in Bufs \cup {OwnBuf}
           /\ Top(g) \in Bufs =>
                 /\ g.read[Top(g)] \in Int /\ g.read[Top(g)] # 0
                 /\ g.read[Top(g)] > 0 =>
                       g.read[Top(g)] >= Cardinality(Slots(g, Top(g)))
<1>1. Typed(g) /\ Below(g) = Below(g)
  BY DEF Sound
<1>2. Top(g) \in Bufs \cup {OwnBuf}
  <2>1. Len(g.stack) \in Nat \ {0}
    BY <1>1, LenProperties DEF Typed, Pos
  <2> QED
    BY <1>1, <2>1, ElementOfSeq DEF Typed, Top, Pos
<1>3. Slots(g, Top(g)) # {}
  <2>1. Len(g.stack) \in Nat \ {0}
    BY <1>1, LenProperties DEF Typed, Pos
  <2> QED
    BY <2>1 DEF Slots, Top, Pos
<1>4. Top(g) \in Bufs => g.read[Top(g)] \in Int
  BY <1>1 DEF Typed, Patches, Reads, Held, UserHeld
<1> QED
  BY <1>2, <1>3, <1>4 DEF Sound, Live

(* Taking the top slot off, and leaving its buffer's count alone.             *)
LEMMA DropSound ==
    ASSUME NEW g, NEW h, Sound(g), h = StackDrop(g)
    PROVE  Sound(h)
<1>1. CASE Pos(g) = 0
  BY <1>1 DEF StackDrop
<1>2. CASE Pos(g) # 0
  <2>1. Typed(g) /\ h = [g EXCEPT !.stack = Below(g)]
    BY <1>2 DEF StackDrop, Sound
  <2>2. /\ h.stack = Below(g) /\ h.read = g.read /\ h.nactive = g.nactive
        /\ h.usrnactive = g.usrnactive /\ h.last_free = g.last_free /\ ~h.fault
    BY <2>1 DEF Typed, Patches
  <2>3. /\ h.stack \in Seq(Bufs \cup {OwnBuf}) /\ Pos(h) <= StackSize
        /\ \A b : Slots(h, b) = Slots(g, b) \ {Pos(g)}
    <3>1. /\ h.stack \in Seq(Bufs \cup {OwnBuf}) /\ Pos(g) \in Nat
          /\ Pos(h) = Pos(g) - 1
          /\ \A b : Slots(h, b) = Slots(g, b) \ {Pos(g)}
      BY <1>2, <2>1, <2>2, StackOfPop
    <3> QED
      BY <2>1, <3>1, StackSizeAssumption DEF Typed
  <2>4. h \in Patches
    <3>1. Below(g) \in Seq(Bufs \cup {OwnBuf, NullBuf})
      BY <2>2, <2>3, StackTypes
    <3> QED
      BY <2>1, <3>1, SetField DEF Typed
  <2>5. \A b \in Bufs : Slots(h, b) # {} =>
             /\ g.read[b] # 0
             /\ g.read[b] > 0 => g.read[b] >= Cardinality(Slots(h, b))
    <3>1. SUFFICES ASSUME NEW b \in Bufs, Slots(h, b) # {}
                   PROVE  /\ g.read[b] # 0
                          /\ g.read[b] > 0 => g.read[b] >= Cardinality(Slots(h, b))
      OBVIOUS
    <3>2. Slots(h, b) = Slots(g, b) \ {Pos(g)}
      BY <2>3
    <3>3. Slots(g, b) # {}
      BY <3>1, <3>2
    <3>4. IsFiniteSet(Slots(g, b)) /\ Cardinality(Slots(g, b)) \in Nat
      BY <2>1, SetsFinite
    <3>5. /\ Cardinality(Slots(h, b)) \in Nat
          /\ Cardinality(Slots(h, b)) <= Cardinality(Slots(g, b))
      <4>1. Slots(h, b) \subseteq Slots(g, b)
        BY <3>2
      <4> QED
        BY <3>4, <4>1, FS_Subset, FS_CardinalityType
    <3>6. g.read[b] \in Int
      BY <2>1 DEF Typed, Patches, Reads, Held, UserHeld
    <3> QED
      BY <3>3, <3>4, <3>5, <3>6 DEF Sound, Live
  <2>6. g.nactive \in Int /\ g.usrnactive \in Int
    BY <2>1 DEF Typed, Patches
  <2> QED
    BY <2>2, <2>3, <2>4, <2>5, <2>6, SoundSame
<1> QED
  BY <1>1, <1>2

(* gf_stack_pop frees the buffer only with its last reference.                *)
LEMMA PopSound ==
    ASSUME NEW g, NEW h, Sound(g), h = StackPop(g)
    PROVE  Sound(h)
<1>1. CASE Pos(g) = 0
  BY <1>1 DEF StackPop
<1>2. CASE Pos(g) # 0
  <2>1. PICK u : u = Release(g, Top(g))
    OBVIOUS
  <2>2. h = [u EXCEPT !.stack = Below(g)]
    BY <1>2, <2>1 DEF StackPop
  <2>3. Typed(g) /\ g \in Patches /\ ~g.fault
    BY DEF Sound, Typed
  <2>4. CASE Top(g) = OwnBuf \/ (Top(g) \in Bufs /\ g.read[Top(g)] <= 0)
    <3>1. u = g
      <4>1. CASE Top(g) = OwnBuf
        BY <2>1, <4>1, OwnIsNoId DEF Release
      <4>2. CASE Top(g) \in Bufs /\ g.read[Top(g)] <= 0
        <5>1. PICK b \in Bufs : b = Top(g)
          BY <4>2
        <5>2. g.read[b] <= 0 => Release(g, b) = g
          BY <2>3, ReleaseEffect
        <5> QED
          BY <2>1, <4>2, <5>1, <5>2
      <4> QED
        BY <2>4, <4>1, <4>2
    <3>2. h = StackDrop(g)
      BY <1>2, <2>2, <3>1 DEF StackDrop
    <3> QED
      BY <3>2, DropSound
  <2>5. CASE Top(g) \in Bufs /\ g.read[Top(g)] > 0
    <3>1. PICK b \in Bufs : b = Top(g)
      BY <2>5
    <3> DEFINE r == g.read[b] - 1
    <3>2. /\ r \in Reads /\ r \in Nat /\ g.read[b] = r + 1
          /\ u.read = [g.read EXCEPT ![b] = r]
          /\ u \in Patches /\ ~u.fault /\ u.stack = g.stack
          /\ u.usrnactive = g.usrnactive
          /\ \/ r > 0 /\ u.nactive = g.nactive /\ u.last_free = g.last_free
             \/ r = 0 /\ u.nactive = g.nactive - 1 /\ u.last_free = b
      <4>1. g.read[b] \in Int /\ g.read[b] > 0
        BY <2>3, <2>5, <3>1 DEF Patches, Reads, Held, UserHeld
      <4>2. g.read[b] - 1 \in Reads /\ g.read[b] - 1 >= 0
        BY <4>1 DEF Reads
      <4>3. CASE g.read[b] > 1
        <5>1. Becomes(u, [g.read EXCEPT ![b] = @ - 1],
                      g.nactive, g.usrnactive, g.last_free, g.stack)
          BY <2>1, <2>3, <3>1, <4>3, ReleaseEffect
        <5> QED
          BY <4>1, <4>2, <4>3, <5>1 DEF Becomes
      <4>4. CASE g.read[b] = 1
        <5>1. Becomes(u, [g.read EXCEPT ![b] = 0],
                      g.nactive - 1, g.usrnactive, b, g.stack)
          BY <2>1, <2>3, <3>1, <4>4, ReleaseEffect
        <5>2. g.read[b] - 1 = 0 /\ 0 \in Reads
          BY <4>4 DEF Reads
        <5> QED
          BY <5>1, <5>2 DEF Becomes
      <4> QED
        BY <4>1, <4>3, <4>4
    <3> HIDE DEF r
    <3>3. /\ h.stack = Below(g) /\ h.read = [g.read EXCEPT ![b] = r]
          /\ h.nactive = u.nactive /\ h.usrnactive = g.usrnactive
          /\ h.last_free = u.last_free /\ ~h.fault
      BY <2>2, <3>2 DEF Patches
    <3>4. h.stack \in Seq(Bufs \cup {OwnBuf}) /\ Pos(h) <= StackSize
      <4>1. /\ h.stack \in Seq(Bufs \cup {OwnBuf}) /\ Pos(g) \in Nat
            /\ Pos(h) = Pos(g) - 1
        BY <1>2, <2>3, <3>3, StackOfPop
      <4> QED
        BY <2>3, <4>1, StackSizeAssumption DEF Typed
    <3>5. h \in Patches
      <4>1. Below(g) \in Seq(Bufs \cup {OwnBuf})
        BY <3>3, <3>4
      <4> QED
        BY <2>2, <3>2, <4>1, SetStack
    <3>6. \A c \in Bufs : c # b => Slots(h, c) = Slots(g, c)
      BY <1>2, <2>3, <3>1, <3>3, OtherSlotsOfPop
    <3>7. /\ Cardinality(Slots(h, b)) = Cardinality(Slots(g, b)) - 1
          /\ Cardinality(Slots(g, b)) \in Nat \ {0}
          /\ Slots(h, b) # {} => Cardinality(Slots(g, b)) > 1
      BY <1>2, <2>3, <3>1, <3>3, CountOfPop
    <3>8. g.read[b] \in Int /\ g.read[b] # 0
          /\ (g.read[b] > 0 => g.read[b] >= Cardinality(Slots(g, b)))
      BY <1>2, <3>1, TopIsLive
    <3>9. Slots(h, b) # {} => r # 0 /\ (r > 0 => r >= Cardinality(Slots(h, b)))
      BY <3>2, <3>7, <3>8
    <3>10. h.nactive >= g.nactive
               + (IF g.read[b] = 0 /\ r # 0 THEN 1
                  ELSE IF g.read[b] # 0 /\ r = 0 THEN -1 ELSE 0)
      <4>1. g.nactive \in Int
        BY <2>3 DEF Patches
      <4> QED
        BY <3>2, <3>3, <3>8, <4>1
    <3>11. h.usrnactive >= g.usrnactive
               + (IF g.read[b] # UserHeld /\ r = UserHeld THEN 1
                  ELSE IF g.read[b] = UserHeld /\ r # UserHeld THEN -1 ELSE 0)
      <4>1. g.usrnactive \in Int /\ r # UserHeld /\ g.read[b] # UserHeld
        BY <2>3, <3>2, <3>8 DEF Patches, UserHeld
      <4> QED
        BY <3>3, <4>1
    <3>12. \/ h.last_free = b /\ r = 0
           \/ h.last_free = g.last_free /\ g.last_free # b
      <4>1. g.last_free # b
        BY <3>1, <3>8, BufsAreIds DEF Sound, LastFree
      <4> QED
        BY <3>2, <3>3, <4>1
    <3> QED
      BY <3>2, <3>3, <3>4, <3>5, <3>6, <3>9, <3>10, <3>11, <3>12, SoundOne
  <2>6. /\ Top(g) \in Bufs \cup {OwnBuf}
        /\ Top(g) \in Bufs => g.read[Top(g)] \in Int
    BY <1>2, TopIsLive
  <2> QED
    BY <2>4, <2>5, <2>6
<1> QED
  BY <1>1, <1>2

(* Putting a buffer on top, with its count as it must be.                     *)
LEMMA PushBufferSound ==
    ASSUME NEW g, NEW h, NEW b \in Bufs \cup {OwnBuf}, Sound(g),
           b \in Bufs => g.read[b] < 0, h = StackPushBuffer(g, b)
    PROVE  Sound(h)
<1>1. CASE Pos(g) >= StackSize
  BY <1>1 DEF StackPushBuffer
<1>2. CASE ~(Pos(g) >= StackSize)
  <2>0. h = [g EXCEPT !.stack = Append(g.stack, b)]
    BY <1>2 DEF StackPushBuffer
  <2>1. Typed(g) /\ g \in Patches /\ ~g.fault
    BY DEF Sound, Typed
  <2>2. Append(g.stack, b) \in Seq(Bufs \cup {OwnBuf})
    BY <2>1, AppendProperties DEF Typed
  <2>3. /\ h \in Patches /\ h.stack = Append(g.stack, b) /\ h.read = g.read
        /\ h.nactive = g.nactive /\ h.usrnactive = g.usrnactive
        /\ h.last_free = g.last_free /\ ~h.fault
    <3>1. h \in Patches
      BY <2>0, <2>1, <2>2, SetStack
    <3> QED
      BY <2>0, <2>1, <3>1 DEF Patches
  <2>4. /\ h.stack \in Seq(Bufs \cup {OwnBuf})
        /\ Pos(g) \in Nat /\ Pos(h) = Pos(g) + 1
    BY <2>1, <2>3, StackOfPush
  <2>5. \A c \in Bufs : c # b => Slots(h, c) = Slots(g, c)
    BY <2>1, <2>3, OtherSlotsOfPush
  <2>6. \A c \in Bufs : g.read[c] \in Int
    BY <2>1 DEF Typed, Patches, Reads, Held, UserHeld
  <2>7. \A c \in Bufs : Slots(h, c) # {} =>
            /\ g.read[c] # 0
            /\ g.read[c] > 0 => g.read[c] >= Cardinality(Slots(h, c))
    BY <2>5, <2>6 DEF Sound, Live
  <2>8. g.nactive \in Int /\ g.usrnactive \in Int
    BY <2>1 DEF Patches
  <2>9. Pos(h) <= StackSize
    BY <1>2, <2>4, StackSizeAssumption
  <2>10. /\ h \in Patches /\ ~h.fault /\ h.read = g.read
         /\ h.nactive >= g.nactive /\ h.usrnactive >= g.usrnactive
         /\ h.last_free \in {g.last_free, NoBuf}
    BY <2>3, <2>8
  <2> QED
    BY <2>4, <2>7, <2>9, <2>10, SoundSame
<1> QED
  BY <1>1, <1>2

(* dup marks the buffer for its new slot.                                     *)
LEMMA DupSound ==
    ASSUME NEW g, NEW h, Sound(g), h = StackDup(g)
    PROVE  Sound(h)
<1>1. CASE Pos(g) = 0 \/ Pos(g) >= StackSize - 1
  BY <1>1 DEF StackDup
<1>2. CASE ~(Pos(g) = 0 \/ Pos(g) >= StackSize - 1)
  <2>1. /\ Typed(g) /\ g \in Patches /\ ~g.fault
        /\ Pos(g) # 0 /\ Top(g) \in Bufs \cup {OwnBuf}
    BY <1>2, TopIsLive DEF Sound, Typed
  <2>2. PICK u : u = [g EXCEPT !.stack = Append(g.stack, Top(g))]
    OBVIOUS
  <2>3. h = BufferMark(u, Top(g))
    BY <1>2, <2>2 DEF StackDup
  <2>4. Append(g.stack, Top(g)) \in Seq(Bufs \cup {OwnBuf})
    BY <2>1, AppendProperties DEF Typed
  <2>5. /\ u \in Patches /\ u.stack = Append(g.stack, Top(g)) /\ u.read = g.read
        /\ u.nactive = g.nactive /\ u.usrnactive = g.usrnactive
        /\ u.last_free = g.last_free /\ ~u.fault
    <3>1. u \in Patches
      BY <2>1, <2>2, <2>4, SetStack
    <3> QED
      BY <2>1, <2>2, <3>1 DEF Patches
  <2>6. CASE Top(g) = OwnBuf \/ (Top(g) \in Bufs /\ g.read[Top(g)] < 0)
    <3>1. u = StackPushBuffer(g, Top(g))
      <4>1. ~(Pos(g) >= StackSize)
        BY <1>2, <2>1, StackSizeAssumption, LenProperties DEF Typed, Pos
      <4> QED
        BY <2>2, <4>1 DEF StackPushBuffer
    <3>2. Sound(u)
      BY <2>1, <2>6, <3>1, PushBufferSound, OwnIsNoId
    <3>3. h = u
      <4>1. Top(g) \in Bufs => ~(u.read[Top(g)] >= 0)
        BY <2>1, <2>5, <2>6, OwnIsNoId DEF Typed, Patches, Reads, Held, UserHeld
      <4> QED
        BY <2>3, <2>6, <4>1, OwnIsNoId DEF BufferMark
    <3> QED
      BY <3>2, <3>3
  <2>7. CASE Top(g) \in Bufs /\ g.read[Top(g)] >= 0
    <3>1. PICK b \in Bufs : b = Top(g)
      BY <2>7
    <3>2. /\ g.read[b] \in Int /\ g.read[b] # 0
          /\ g.read[b] > 0 => g.read[b] >= Cardinality(Slots(g, b))
      BY <2>1, <3>1, TopIsLive
    <3>3. PICK r : r = g.read[b] + 1
      OBVIOUS
    <3>4. r \in Reads /\ r > 1 /\ r \in Int
      BY <2>7, <3>1, <3>2, <3>3 DEF Reads
    <3>5. Becomes(h, [u.read EXCEPT ![b] = @ + 1],
                  u.nactive, u.usrnactive, u.last_free, u.stack)
      BY <2>3, <2>5, <2>7, <3>1, BufferMarkEffect
    <3>6. /\ h \in Patches /\ ~h.fault /\ h.read = [g.read EXCEPT ![b] = r]
          /\ h.stack = Append(g.stack, b) /\ h.last_free = g.last_free
          /\ h.nactive = g.nactive /\ h.usrnactive = g.usrnactive
      BY <2>5, <3>1, <3>3, <3>5 DEF Becomes
    <3>7. /\ h.stack \in Seq(Bufs \cup {OwnBuf})
          /\ Pos(g) \in Nat /\ Pos(h) = Pos(g) + 1
      BY <2>1, <3>6, StackOfPush
    <3>8. \A c \in Bufs : c # b => Slots(h, c) = Slots(g, c)
      BY <2>1, <3>6, OtherSlotsOfPush
    <3>9. Cardinality(Slots(h, b)) = Cardinality(Slots(g, b)) + 1
      BY <2>1, <3>6, CountOfPush
    <3>10. Cardinality(Slots(g, b)) \in Nat
      BY <2>1, SetsFinite
    <3>11. Slots(h, b) # {} => r # 0 /\ (r > 0 => r >= Cardinality(Slots(h, b)))
      BY <2>7, <3>1, <3>2, <3>3, <3>9, <3>10
    <3>12. Pos(h) <= StackSize /\ g.nactive \in Int /\ g.usrnactive \in Int
      BY <1>2, <2>1, <3>7, StackSizeAssumption DEF Typed, Patches
    <3>13. r # 0 /\ r # UserHeld /\ g.read[b] # UserHeld /\ g.last_free # b
      <4>1. g.last_free # b
        BY <3>2, BufsAreIds DEF Sound, LastFree
      <4> QED
        BY <2>7, <3>1, <3>2, <3>4, <4>1 DEF UserHeld
    <3> QED
      <4>1. h.nactive >= g.nactive
                + (IF g.read[b] = 0 /\ r # 0 THEN 1
                   ELSE IF g.read[b] # 0 /\ r = 0 THEN -1 ELSE 0)
        BY <3>2, <3>6, <3>12, <3>13
      <4>2. h.usrnactive >= g.usrnactive
                + (IF g.read[b] # UserHeld /\ r = UserHeld THEN 1
                   ELSE IF g.read[b] = UserHeld /\ r # UserHeld THEN -1 ELSE 0)
        BY <3>6, <3>12, <3>13
      <4>3. \/ h.last_free = NoBuf
            \/ h.last_free = b /\ r = 0
            \/ h.last_free = g.last_free /\ g.last_free # b
        BY <3>6, <3>13
      <4>4. Sound(g) /\ h \in Patches /\ ~h.fault /\ h.read = [g.read EXCEPT ![b] = r]
        BY <3>6
      <4> QED
        BY <3>4, <3>7, <3>8, <3>11, <3>12, <4>1, <4>2, <4>3, <4>4, SoundOne
  <2>8. Top(g) \in Bufs => g.read[Top(g)] \in Int
    BY <2>1, TopIsLive
  <2> QED
    BY <2>1, <2>6, <2>7, <2>8
<1> QED
  BY <1>1, <1>2

(* swap permutes the two top slots: each buffer keeps as many.                *)
LEMMA SwapSound ==
    ASSUME NEW g, NEW h, Sound(g), h = StackSwap(g)
    PROVE  Sound(h)
<1>1. CASE Pos(g) < 2
  BY <1>1 DEF StackSwap
<1>2. CASE ~(Pos(g) < 2)
  <2>1. Typed(g) /\ g \in Patches /\ ~g.fault /\ g.stack \in Seq(Bufs \cup {OwnBuf})
    BY DEF Sound, Typed
  <2>2. PICK n : n = Pos(g)
    OBVIOUS
  <2>3. n \in Nat /\ n >= 2 /\ n = Len(g.stack)
    BY <1>2, <2>1, <2>2, LenProperties DEF Pos
  <2> DEFINE s == [g.stack EXCEPT ![n] = g.stack[n - 1], ![n - 1] = g.stack[n]]
  <2>4. h = [g EXCEPT !.stack = s]
    BY <1>2, <2>1, <2>2 DEF StackSwap, Top, Patches
  <2>5. /\ g.stack[n] \in Bufs \cup {OwnBuf} /\ g.stack[n - 1] \in Bufs \cup {OwnBuf}
    BY <2>1, <2>3, ElementOfSeq
  <2>6. s \in Seq(Bufs \cup {OwnBuf}) /\ Len(s) = n
    BY <2>1, <2>3, <2>5, ExceptSeq
  <2>7. /\ s[n] = g.stack[n - 1] /\ s[n - 1] = g.stack[n]
        /\ \A i \in 1 .. n : i # n /\ i # n - 1 => s[i] = g.stack[i]
    BY <2>1, <2>3, ExceptSeq
  <2> HIDE DEF s
  <2>8. /\ h \in Patches /\ h.stack = s /\ h.read = g.read
        /\ h.nactive = g.nactive /\ h.usrnactive = g.usrnactive
        /\ h.last_free = g.last_free /\ ~h.fault
    <3>1. h \in Patches
      BY <2>1, <2>4, <2>6, SetStack
    <3> QED
      BY <2>1, <2>4, <3>1 DEF Patches
  <2>9. ASSUME NEW b \in Bufs
        PROVE  Cardinality(Slots(h, b)) = Cardinality(Slots(g, b))
    <3>1. /\ Slots(h, b) = {i \in 1 .. n : s[i] = b}
          /\ Slots(g, b) = {i \in 1 .. n : g.stack[i] = b}
      BY <2>2, <2>3, <2>6, <2>8 DEF Slots, Pos
    <3>2. IsFiniteSet(Slots(g, b)) /\ Cardinality(Slots(g, b)) \in Nat
      BY <2>1, SetsFinite
    <3>3. CASE (g.stack[n] = b) <=> (g.stack[n - 1] = b)
      <4>1. Slots(h, b) = Slots(g, b)
        BY <2>3, <2>7, <3>1, <3>3
      <4> QED
        BY <4>1
    <3>4. CASE g.stack[n] = b /\ g.stack[n - 1] # b
      <4>1. /\ Slots(h, b) = (Slots(g, b) \ {n}) \cup {n - 1}
            /\ n \in Slots(g, b) /\ n - 1 \notin Slots(g, b) \ {n}
        BY <2>3, <2>7, <3>1, <3>4
      <4>2. /\ IsFiniteSet(Slots(g, b) \ {n})
            /\ Cardinality(Slots(g, b) \ {n}) = Cardinality(Slots(g, b)) - 1
        BY <3>2, <4>1, FS_RemoveElement
      <4>3. Cardinality(Slots(h, b)) = Cardinality(Slots(g, b) \ {n}) + 1
        BY <4>1, <4>2, FS_AddElement
      <4> QED
        BY <3>2, <4>2, <4>3
    <3>5. CASE g.stack[n] # b /\ g.stack[n - 1] = b
      <4>1. /\ Slots(h, b) = (Slots(g, b) \ {n - 1}) \cup {n}
            /\ n - 1 \in Slots(g, b) /\ n \notin Slots(g, b) \ {n - 1}
        BY <2>3, <2>7, <3>1, <3>5
      <4>2. /\ IsFiniteSet(Slots(g, b) \ {n - 1})
            /\ Cardinality(Slots(g, b) \ {n - 1}) = Cardinality(Slots(g, b)) - 1
        BY <3>2, <4>1, FS_RemoveElement
      <4>3. Cardinality(Slots(h, b)) = Cardinality(Slots(g, b) \ {n - 1}) + 1
        BY <4>1, <4>2, FS_AddElement
      <4> QED
        BY <3>2, <4>2, <4>3
    <3> QED
      BY <3>3, <3>4, <3>5
  <2>10. \A b \in Bufs : Slots(h, b) # {} =>
             /\ g.read[b] # 0
             /\ g.read[b] > 0 => g.read[b] >= Cardinality(Slots(h, b))
    <3>1. SUFFICES ASSUME NEW b \in Bufs, Slots(h, b) # {}
                   PROVE  /\ g.read[b] # 0
                          /\ g.read[b] > 0 => g.read[b] >= Cardinality(Slots(h, b))
      OBVIOUS
    <3>2. IsFiniteSet(Slots(h, b)) /\ IsFiniteSet(Slots(g, b))
      <4>1. Len(s) \in Nat /\ Slots(h, b) \subseteq 1 .. Len(s)
        BY <2>3, <2>6, <2>8 DEF Slots, Pos
      <4> QED
        <5>1. IsFiniteSet(1 .. Len(s))
          BY <4>1, FS_Interval
        <5> QED
          BY <2>1, <4>1, <5>1, FS_Subset, SetsFinite
    <3>3. Slots(g, b) # {}
      BY <2>9, <3>1, <3>2, FS_EmptySet
    <3> QED
      BY <2>9, <3>3 DEF Sound, Live
  <2>11. Pos(h) <= StackSize /\ g.nactive \in Int /\ g.usrnactive \in Int
    BY <2>1, <2>2, <2>3, <2>6, <2>8 DEF Typed, Patches, Pos
  <2> QED
    BY <2>6, <2>8, <2>10, <2>11, SoundSame
<1> QED
  BY <1>1, <1>2

(* Forgetting last_free.                                                      *)
LEMMA ForgetLastFreeSound ==
    ASSUME NEW g, NEW h, Sound(g), h = [g EXCEPT !.last_free = NoBuf]
    PROVE  Sound(h) /\ h.stack = g.stack /\ h.read = g.read /\ h.last_free = NoBuf
<1>1. g \in Patches /\ ~g.fault /\ Typed(g)
  BY DEF Sound, Typed
<1>2. h \in Patches
  BY <1>1, SetField
<1>3. /\ h.stack = g.stack /\ h.read = g.read /\ h.last_free = NoBuf /\ ~h.fault
      /\ h.nactive = g.nactive /\ h.usrnactive = g.usrnactive
  BY <1>1 DEF Patches
<1>4. /\ h.nactive >= g.nactive /\ h.usrnactive >= g.usrnactive
      /\ h.last_free \in {g.last_free, NoBuf}
  BY <1>1, <1>3 DEF Patches
<1>5. h.stack \in Seq(Bufs \cup {OwnBuf}) /\ Pos(h) <= StackSize
  BY <1>1, <1>3 DEF Typed, Pos
<1>6. \A b \in Bufs : Slots(h, b) # {} =>
          /\ g.read[b] # 0
          /\ g.read[b] > 0 => g.read[b] >= Cardinality(Slots(h, b))
  <2>1. \A b \in Bufs : Slots(h, b) = Slots(g, b)
    BY <1>3 DEF Slots, Pos
  <2> QED
    BY <2>1 DEF Sound, Live
<1>7. Sound(h)
  BY <1>2, <1>3, <1>4, <1>5, <1>6, SoundSame
<1> QED
  BY <1>3, <1>7

(* A call that writes the count of one buffer and leaves the stack alone.     *)
LEMMA CountWriteSound ==
    ASSUME NEW g, NEW h, Sound(g), NEW b \in Bufs, NEW r \in Reads,
           NEW n \in Int, NEW m \in Int,
           Becomes(h, [g.read EXCEPT ![b] = r],
                   g.nactive + n, g.usrnactive + m, g.last_free, g.stack),
           g.last_free # b,
           Slots(g, b) # {} => r < 0,
           n >= (IF g.read[b] = 0 /\ r # 0 THEN 1
                 ELSE IF g.read[b] # 0 /\ r = 0 THEN -1 ELSE 0),
           m >= (IF g.read[b] # UserHeld /\ r = UserHeld THEN 1
                 ELSE IF g.read[b] = UserHeld /\ r # UserHeld THEN -1 ELSE 0)
    PROVE  Sound(h)
<1>1. Typed(g) /\ g.nactive \in Int /\ g.usrnactive \in Int
  BY DEF Sound, Typed, Patches
<1>2. /\ h \in Patches /\ ~h.fault /\ h.read = [g.read EXCEPT ![b] = r]
      /\ h.nactive = g.nactive + n /\ h.usrnactive = g.usrnactive + m
      /\ h.last_free = g.last_free /\ h.stack = g.stack
  BY DEF Becomes
<1>3. h.stack \in Seq(Bufs \cup {OwnBuf}) /\ Pos(h) <= StackSize
  BY <1>1, <1>2 DEF Typed, Pos
<1>4. \A c \in Bufs : Slots(h, c) = Slots(g, c)
  BY <1>2 DEF Slots, Pos
<1>5. r \in Int
  BY DEF Reads, Held, UserHeld
<1>6. Slots(h, b) # {} => r # 0 /\ (r > 0 => r >= Cardinality(Slots(h, b)))
  BY <1>4, <1>5
<1>7. h.nactive >= g.nactive
          + (IF g.read[b] = 0 /\ r # 0 THEN 1
             ELSE IF g.read[b] # 0 /\ r = 0 THEN -1 ELSE 0)
  BY <1>1, <1>2
<1>8. h.usrnactive >= g.usrnactive
          + (IF g.read[b] # UserHeld /\ r = UserHeld THEN 1
             ELSE IF g.read[b] = UserHeld /\ r # UserHeld THEN -1 ELSE 0)
  BY <1>1, <1>2
<1> QED
  BY <1>2, <1>3, <1>4, <1>6, <1>7, <1>8, SoundOne

(* gf_bufferpool_holdu of a buffer last_free does not name.                  *)
LEMMA HoldUserSound ==
    ASSUME NEW g, NEW h, Sound(g), NEW b \in Bufs \cup {OwnBuf},
           g.last_free # b \/ b = OwnBuf, h = HoldUser(g, b)
    PROVE  Sound(h)
<1>1. CASE ~(b \in Bufs /\ g.read[b] >= 0)
  BY <1>1 DEF HoldUser
<1>2. CASE b \in Bufs /\ g.read[b] >= 0
  <2>1. g \in Patches /\ ~g.fault /\ g.last_free # b
    BY <1>2, OwnIsNoId DEF Sound, Typed
  <2>2. Becomes(h, [g.read EXCEPT ![b] = UserHeld],
                g.nactive + 1, g.usrnactive + 1, g.last_free, g.stack)
    BY <1>2, <2>1, HoldUserEffect
  <2>3. g.read[b] \in Int /\ UserHeld \in Reads /\ UserHeld < 0 /\ UserHeld # 0
    BY <1>2, <2>1 DEF Patches, Reads, Held, UserHeld
  <2> QED
    BY <1>2, <2>1, <2>2, <2>3, CountWriteSound
<1> QED
  BY <1>1, <1>2

(* gf_patch_bhold.                                                            *)
LEMMA BHoldSound ==
    ASSUME NEW g, NEW h, Sound(g), h = BHold(g)
    PROVE  Sound(h)
<1>1. CASE Pos(g) = 0
  BY <1>1 DEF BHold
<1>2. CASE Pos(g) # 0
  <2>1. PICK u : u = StackPop(g)
    OBVIOUS
  <2>2. PICK v : v = [u EXCEPT !.last_free = NoBuf]
    OBVIOUS
  <2>3. h = HoldUser(v, Top(g))
    BY <1>2, <2>1, <2>2 DEF BHold
  <2>4. Sound(u)
    BY <2>1, PopSound
  <2>5. Sound(v) /\ v.last_free = NoBuf
    BY <2>2, <2>4, ForgetLastFreeSound
  <2>6. Top(g) \in Bufs \cup {OwnBuf}
    BY <1>2, TopIsLive
  <2>7. v.last_free # Top(g) \/ Top(g) = OwnBuf
    BY <2>5, <2>6, BufsAreIds
  <2> QED
    BY <2>3, <2>5, <2>6, <2>7, HoldUserSound
<1> QED
  BY <1>1, <1>2

(* gf_patch_holdbuf of a buffer the stack mentions.                           *)
LEMMA HoldBufSound ==
    ASSUME NEW g, NEW h, Sound(g), NEW b \in Bufs, Slots(g, b) # {}, h = HoldBuf(g, b)
    PROVE  Sound(h)
<1>1. PICK u : u = HoldUser(g, b)
  OBVIOUS
<1>2. g.last_free # b
  BY BufsAreIds DEF Sound, Live, LastFree
<1>3. Sound(u)
  BY <1>1, <1>2, HoldUserSound
<1>4. h = [u EXCEPT !.last_free = NoBuf]
  BY <1>1 DEF HoldBuf
<1> QED
  BY <1>3, <1>4, ForgetLastFreeSound

(* gf_patch_unholdbuf of a buffer the stack does not mention.                *)
LEMMA UnholdUserSound ==
    ASSUME NEW g, NEW h, Sound(g), NEW b \in Bufs, Slots(g, b) = {},
           h = UnholdUser(g, b)
    PROVE  Sound(h)
<1>1. CASE g.read[b] # UserHeld
  BY <1>1 DEF UnholdUser
<1>2. CASE g.read[b] = UserHeld
  <2>1. g \in Patches /\ ~g.fault /\ 0 \in Reads /\ UserHeld # 0 /\ g.read[b] # 0
    BY <1>2 DEF Sound, Typed, Reads, UserHeld
  <2>2. Becomes(h, [g.read EXCEPT ![b] = 0],
                g.nactive - 1, g.usrnactive - 1, g.last_free, g.stack)
    BY <1>2, <2>1, UnholdUserEffect
  <2>3. g.nactive - 1 = g.nactive + (-1) /\ g.usrnactive - 1 = g.usrnactive + (-1)
    BY <2>1 DEF Patches
  <2>4. Becomes(h, [g.read EXCEPT ![b] = 0],
                g.nactive + (-1), g.usrnactive + (-1), g.last_free, g.stack)
    BY <2>2, <2>3
  <2>5. g.last_free # b
    BY <2>1, BufsAreIds DEF Sound, LastFree
  <2> QED
    BY <1>2, <2>1, <2>4, <2>5, CountWriteSound
<1> QED
  BY <1>1, <1>2

(* gf_bufferpool_unhold of a buffer the stack does not mention.              *)
LEMMA UnholdSound ==
    ASSUME NEW g, NEW h, Sound(g), NEW b \in Bufs, Slots(g, b) = {}, h = Unhold(g, b)
    PROVE  Sound(h)
<1>0. g \in Patches /\ ~g.fault /\ 0 \in Reads /\ g.read[b] \in Int
  BY DEF Sound, Typed, Patches, Reads, Held, UserHeld
<1>1. CASE ~(g.read[b] < 0)
  BY <1>1 DEF Unhold
<1>2. CASE g.read[b] < 0
  <2>1. Becomes(h, [g.read EXCEPT ![b] = 0],
                g.nactive - 1, g.usrnactive, g.last_free, g.stack)
    BY <1>0, <1>2, UnholdEffect
  <2>2. g.nactive - 1 = g.nactive + (-1) /\ g.usrnactive = g.usrnactive + 0
    BY <1>0 DEF Patches
  <2>3. Becomes(h, [g.read EXCEPT ![b] = 0],
                g.nactive + (-1), g.usrnactive + 0, g.last_free, g.stack)
    BY <2>1, <2>2
  <2>4. g.last_free # b /\ g.read[b] # 0 /\ 0 # UserHeld
    BY <1>0, <1>2, BufsAreIds DEF Sound, LastFree, UserHeld
  <2> QED
    BY <1>0, <1>2, <2>3, <2>4, CountWriteSound
<1> QED
  BY <1>1, <1>2

(* gf_stack_hold: the buffer leaves the stack counted, and stays so.          *)
LEMMA StackHoldSound ==
    ASSUME NEW g, NEW h, Sound(g), h = StackHold(g)
    PROVE  Sound(h)
<1>1. CASE Pos(g) = 0
  BY <1>1 DEF StackHold
<1>2. CASE Pos(g) # 0
  <2>1. PICK u : u = [g EXCEPT !.stack = Below(g)]
    OBVIOUS
  <2>2. u = StackDrop(g)
    BY <1>2, <2>1 DEF StackDrop
  <2>3. Sound(u)
    BY <2>2, DropSound
  <2>4. Typed(g) /\ g \in Patches /\ ~g.fault
    BY DEF Sound, Typed
  <2>5. /\ u \in Patches /\ ~u.fault
    BY <2>3 DEF Sound, Typed
  <2>6. CASE Top(g) = OwnBuf
    <3>1. h = u
      BY <1>2, <2>1, <2>6, OwnIsNoId DEF StackHold
    <3> QED
      BY <2>3, <3>1
  <2>7. CASE Top(g) \in Bufs
    <3>1. PICK b \in Bufs : b = Top(g)
      BY <2>7
    <3>2. h = [u EXCEPT !.read[b] = Held]
      BY <1>2, <2>1, <3>1, BufsAreIds DEF StackHold
    <3>3. Held \in Reads /\ Held < 0 /\ Held # 0 /\ Held # UserHeld
      BY DEF Reads, Held, UserHeld
    <3>4. h \in Patches
      BY <2>5, <3>2, <3>3, SetField
    <3>5. u.read = g.read /\ u.last_free = g.last_free
      BY <2>1, <2>4 DEF Patches
    <3>6. g.read[b] # 0 /\ g.last_free # b
      <4>1. g.read[b] # 0
        BY <1>2, <3>1, TopIsLive
      <4> QED
        BY <4>1, BufsAreIds DEF Sound, LastFree
    <3>7. u.nactive + 0 = u.nactive /\ u.usrnactive + 0 = u.usrnactive
      BY <2>5 DEF Patches
    <3>8. Becomes(h, [u.read EXCEPT ![b] = Held],
                  u.nactive + 0, u.usrnactive + 0, u.last_free, u.stack)
      BY <2>5, <3>2, <3>4, <3>7 DEF Becomes, Patches
    <3> QED
      BY <2>3, <3>3, <3>5, <3>6, <3>8, CountWriteSound
  <2> QED
    BY <1>2, <2>6, <2>7, TopIsLive
<1> QED
  BY <1>1, <1>2

(* A node's output: a push, or an error that is remembered.                   *)
LEMMA SetBlockSound ==
    ASSUME NEW g, NEW h, Sound(g), h = SetBlock(g)
    PROVE  Sound(h)
<1>1. CASE CanPush(g)
  BY <1>1, PushSound DEF SetBlock
<1>2. CASE ~CanPush(g)
  <2>1. Typed(g) /\ g \in Patches /\ ~g.fault /\ h = [g EXCEPT !.err = TRUE]
    BY <1>2 DEF SetBlock, Sound, Typed
  <2>2. h \in Patches
    BY <2>1, SetField
  <2>3. /\ h.stack = g.stack /\ h.read = g.read /\ h.last_free = g.last_free
        /\ h.nactive = g.nactive /\ h.usrnactive = g.usrnactive /\ ~h.fault
    BY <2>1 DEF Patches
  <2>4. /\ Pos(h) = Pos(g) /\ Busy(h) = Busy(g) /\ Users(h) = Users(g)
        /\ \A b \in Bufs : Slots(h, b) = Slots(g, b)
    BY <2>3 DEF Pos, Busy, Users, Slots
  <2> QED
    BY <2>1, <2>2, <2>3, <2>4 DEF Sound, Typed, Ledgers, Live, LastFree
<1> QED
  BY <1>1, <1>2

(* unholdall, from any ledger.                                                *)
LEMMA ResetPoolSound ==
    ASSUME NEW g, NEW h, Sound(g), Pos(g) = 0, h = ResetPool(g)
    PROVE  /\ Sound(h) /\ Pos(h) = 0
           /\ h.nactive = Cardinality(Busy(h)) /\ \A b \in Bufs : h.read[b] <= 0
<1>1. PICK kept : kept = {b \in Bufs : g.read[b] < 0}
  OBVIOUS
<1>2. PICK read : read = [b \in Bufs |-> IF b \in kept THEN g.read[b] ELSE 0]
  OBVIOUS
<1>3. h = [g EXCEPT !.last_free = NoBuf, !.nactive = Cardinality(kept), !.read = read]
  BY <1>1, <1>2 DEF ResetPool
<1>4. Typed(g) /\ g \in Patches /\ ~g.fault
  BY DEF Sound, Typed
<1>5. read \in [Bufs -> Reads] /\ \A b \in Bufs : read[b] <= 0
  BY <1>1, <1>2, <1>4 DEF Patches, Reads, Held, UserHeld
<1>6. IsFiniteSet(kept) /\ Cardinality(kept) \in Nat /\ Cardinality(kept) \in Int
  BY <1>1, <1>4, SetsFinite
<1>7. h \in Patches
  <2>1. [g EXCEPT !.last_free = NoBuf] \in Patches
    BY <1>4, SetField
  <2>2. [g EXCEPT !.last_free = NoBuf, !.nactive = Cardinality(kept)] \in Patches
    BY <1>6, <2>1, SetField
  <2> QED
    BY <1>3, <1>5, <2>2, SetField
<1>8. /\ h.stack = g.stack /\ h.read = read /\ h.last_free = NoBuf /\ ~h.fault
      /\ h.nactive = Cardinality(kept) /\ h.usrnactive = g.usrnactive
  BY <1>3, <1>4 DEF Patches
<1>9. Busy(h) = kept /\ Users(h) = Users(g)
  <2>1. \A b \in Bufs : g.read[b] \in Int /\ (g.read[b] = UserHeld => g.read[b] < 0)
    BY <1>4 DEF Patches, Reads, Held, UserHeld
  <2>2. \A b \in Bufs : h.read[b] = IF b \in kept THEN g.read[b] ELSE 0
    BY <1>2, <1>8
  <2>3. 0 # UserHeld
    BY DEF UserHeld
  <2> QED
    BY <1>1, <2>1, <2>2, <2>3 DEF Busy, Users
<1>10. Pos(h) = 0 /\ \A b : Slots(h, b) = {}
  BY <1>8 DEF Pos, Slots
<1>11. Ledgers(h)
  BY <1>6, <1>8, <1>9 DEF Sound, Ledgers
<1>12. Typed(h)
  BY <1>4, <1>7, <1>8 DEF Typed, Pos
<1> QED
  BY <1>5, <1>8, <1>9, <1>10, <1>11, <1>12 DEF Sound, Live, LastFree

(* unholdall makes nactive exact, whatever was leaked before.                *)
LEMMA UnholdAllSound ==
    ASSUME NEW g, NEW h, Sound(g), Pos(g) = 0, h = UnholdAll(g)
    PROVE  /\ Sound(h) /\ h.nactive = Cardinality(Busy(h))
           /\ \A b \in Bufs : h.read[b] \in {0, Held}
<1>1. PICK u : u = ResetPool(g)
  OBVIOUS
<1>2. /\ Sound(u) /\ Pos(u) = 0
      /\ u.nactive = Cardinality(Busy(u)) /\ \A b \in Bufs : u.read[b] <= 0
  BY <1>1, ResetPoolSound
<1>3. h = UnholdAllUsers(u)
  BY <1>1 DEF UnholdAll
<1>4. /\ Typed(u) /\ u \in Patches /\ ~u.fault
      /\ u.nactive \in Int /\ u.usrnactive \in Int /\ u.usrnactive >= Cardinality(Users(u))
  BY <1>2 DEF Sound, Typed, Ledgers, Patches
<1>5. \A b \in Bufs : u.read[b] \in {0, Held, UserHeld}
  BY <1>2, <1>4 DEF Patches, Reads, Held, UserHeld
<1>6. /\ IsFiniteSet(Users(u)) /\ Cardinality(Users(u)) \in Nat
      /\ IsFiniteSet(Busy(u)) /\ Cardinality(Busy(u)) \in Nat
  BY <1>4, SetsFinite DEF Users, Busy
<1>7. CASE u.usrnactive = 0
  <2>1. h = u
    BY <1>3, <1>7 DEF UnholdAllUsers
  <2>2. Users(u) = {}
    BY <1>4, <1>6, <1>7, FS_EmptySet
  <2>3. \A b \in Bufs : u.read[b] \in {0, Held}
    BY <1>5, <2>2 DEF Users
  <2> QED
    BY <1>2, <2>1, <2>3
<1>8. CASE u.usrnactive # 0
  <2>1. PICK n : n = Cardinality(Users(u))
    OBVIOUS
  <2>2. PICK read :
           read = [b \in Bufs |-> IF b \in Users(u) THEN 0 ELSE u.read[b]]
    OBVIOUS
  <2>3. h = [u EXCEPT !.read = read, !.nactive = u.nactive - n,
                      !.usrnactive = u.usrnactive - n]
    BY <1>3, <1>8, <2>1, <2>2 DEF UnholdAllUsers, Users, Patches
  <2>4. n \in Nat /\ u.nactive - n \in Int /\ u.usrnactive - n \in Int
    BY <1>4, <1>6, <2>1
  <2>5. read \in [Bufs -> Reads] /\ \A b \in Bufs : read[b] \in {0, Held}
    <3>1. \A b \in Bufs : read[b] \in {0, Held}
      BY <1>5, <2>2 DEF Users
    <3> QED
      BY <2>2, <3>1 DEF Reads
  <2>6. h \in Patches
    <3>1. [u EXCEPT !.read = read] \in Patches
      BY <1>4, <2>5, SetField
    <3>2. [u EXCEPT !.read = read, !.nactive = u.nactive - n] \in Patches
      BY <2>4, <3>1, SetField
    <3> QED
      BY <2>3, <2>4, <3>2, SetField
  <2>7. /\ h.stack = u.stack /\ h.read = read /\ h.last_free = u.last_free /\ ~h.fault
        /\ h.nactive = u.nactive - n /\ h.usrnactive = u.usrnactive - n
    BY <1>4, <2>3 DEF Patches
  <2>8. Busy(h) = Busy(u) \ Users(u) /\ Users(h) = {} /\ Users(u) \subseteq Busy(u)
    <3>1. UserHeld # 0 /\ UserHeld # Held
      BY DEF UserHeld, Held
    <3> QED
      BY <2>2, <2>5, <2>7, <3>1 DEF Busy, Users
  <2>9. Cardinality(Busy(h)) = Cardinality(Busy(u)) - n
    <3>1. Cardinality(Busy(u) \ Users(u)) =
              Cardinality(Busy(u)) - Cardinality(Busy(u) \cap Users(u))
      BY <1>6, FS_Difference
    <3>2. Busy(u) \cap Users(u) = Users(u)
      BY <2>8
    <3> QED
      BY <2>1, <2>8, <3>1, <3>2
  <2>10. Ledgers(h) /\ h.nactive = Cardinality(Busy(h))
    BY <1>2, <1>4, <1>6, <2>1, <2>4, <2>7, <2>8, <2>9, FS_EmptySet DEF Ledgers
  <2>11. Pos(h) = 0 /\ \A b : Slots(h, b) = {}
    BY <1>2, <2>7 DEF Pos, Slots
  <2>12. Typed(h)
    BY <1>4, <2>6, <2>7 DEF Typed, Pos
  <2>13. LastFree(h)
    <3>1. h.last_free # NoBuf => h.last_free \in Bufs /\ u.read[h.last_free] = 0
      BY <1>2, <1>4, <2>7 DEF Sound, LastFree, Patches
    <3> QED
      BY <2>2, <2>7, <3>1 DEF LastFree
  <2> QED
    BY <2>5, <2>7, <2>10, <2>11, <2>12, <2>13 DEF Sound, Live
<1> QED
  BY <1>7, <1>8

\* A fresh patch, and the one gf_patch_realloc leaves.
FreshPatch(m, e) ==
    [read |-> [b \in Bufs |-> 0], nactive |-> 0, usrnactive |-> m,
     last_free |-> NoBuf, stack |-> <<>>, err |-> e, fault |-> FALSE]

(* An empty patch is sound, whatever gf_patch_realloc let it keep of         *)
(* usrnactive and err.                                                       *)
LEMMA FreshSound ==
    ASSUME NEW m \in Int, m >= 0, NEW e \in BOOLEAN
    PROVE  Sound(FreshPatch(m, e))
<1> SUFFICES ASSUME NEW h, h = FreshPatch(m, e) PROVE Sound(h)
  OBVIOUS
<1>1. /\ <<>> \in Seq(Bufs \cup {OwnBuf}) /\ <<>> \in Seq(Bufs \cup {OwnBuf, NullBuf})
      /\ Len(<<>>) = 0
  OBVIOUS
<1>2. h \in Patches
  BY <1>1 DEF Patches, Reads, FreshPatch
<1>3. /\ h.stack = <<>> /\ h.read = [b \in Bufs |-> 0] /\ h.last_free = NoBuf
      /\ ~h.fault /\ h.nactive = 0 /\ h.usrnactive = m
  BY DEF FreshPatch
<1>4. Pos(h) = 0 /\ \A b : Slots(h, b) = {}
  BY <1>1, <1>3 DEF Pos, Slots
<1>5. Busy(h) = {} /\ Users(h) = {}
  BY <1>3 DEF Busy, Users, UserHeld
<1>6. Cardinality(Busy(h)) = 0 /\ Cardinality(Users(h)) = 0
  BY <1>5, FS_EmptySet, Zenon
<1>7. Ledgers(h)
  BY <1>3, <1>6 DEF Ledgers
<1>8. Typed(h)
  BY <1>1, <1>2, <1>3, <1>4, StackSizeAssumption DEF Typed
<1>9. Live(h) /\ LastFree(h)
  BY <1>3, <1>4 DEF Live, LastFree
<1> QED
  BY <1>7, <1>8, <1>9 DEF Sound

(* The patch gf_patch_init and gf_patch_alloc leave.                         *)
LEMMA InitSound == Sound(InitPatch)
<1>1. InitPatch = FreshPatch(0, FALSE)
  BY DEF InitPatch, FreshPatch
<1>2. 0 \in Int /\ 0 >= 0 /\ FALSE \in BOOLEAN
  OBVIOUS
<1> QED
  BY <1>1, <1>2, FreshSound, Zenon

(* gf_patch_realloc starts the pool and the stack again.                     *)
LEMMA ReallocSound ==
    ASSUME NEW g, NEW h, Sound(g), h = Realloc(g)
    PROVE  Sound(h)
<1>1. g.usrnactive \in Int /\ g.usrnactive >= 0 /\ g.err \in BOOLEAN
  <2>1. Cardinality(Users(g)) \in Nat /\ g.usrnactive >= Cardinality(Users(g))
    BY SetsFinite DEF Sound, Ledgers, Users
  <2>2. g.usrnactive \in Int /\ g.err \in BOOLEAN
    BY DEF Sound, Typed, Patches
  <2> QED
    BY <2>1, <2>2
<1>2. h = FreshPatch(g.usrnactive, g.err)
  BY DEF Realloc, InitPatch, FreshPatch
<1> QED
  BY <1>1, <1>2, FreshSound

------------------------------------------------------------------------------
(* The pool and the stack of a patch stay sound under every call.             *)
THEOREM PatchSound == Spec => []Sound(gf)
<1>1. Init => Sound(gf)
  BY InitSound DEF Init
<1>2. Sound(gf) /\ [Next]_vars => Sound(gf)'
  <2> SUFFICES ASSUME Sound(gf), [Next]_vars PROVE Sound(gf')
    OBVIOUS
  <2>1. CASE NewOutput
    BY <2>1, SetBlockSound DEF NewOutput
  <2>2. CASE Push
    BY <2>2, PushSound DEF Push
  <2>3. CASE Pop
    BY <2>3, PopSound DEF Pop
  <2>4. CASE Dup
    BY <2>4, DupSound DEF Dup
  <2>5. CASE Drop
    BY <2>5, DropSound DEF Drop
  <2>6. CASE Swap
    BY <2>6, SwapSound DEF Swap
  <2>7. ASSUME NEW b \in Bufs \cup {OwnBuf}, PushBuffer(b) PROVE Sound(gf')
    <3>1. b \in Bufs => gf.read[b] < 0
      BY <2>7, OwnIsNoId DEF PushBuffer, HeldBufs, Held, UserHeld
    <3> QED
      BY <2>7, <3>1, PushBufferSound DEF PushBuffer
  <2>8. CASE HoldTop
    BY <2>8, StackHoldSound DEF HoldTop
  <2>9. CASE HoldTopUser
    BY <2>9, BHoldSound DEF HoldTopUser
  <2>10. ASSUME NEW b \in Bufs, HoldUserBuffer(b) PROVE Sound(gf')
    BY <2>10, HoldBufSound DEF HoldUserBuffer, OnStack
  <2>11. ASSUME NEW b \in Bufs, UnholdUserBuffer(b) PROVE Sound(gf')
    BY <2>11, UnholdUserSound DEF UnholdUserBuffer, OnStack
  <2>12. ASSUME NEW b \in Bufs, UnholdBuffer(b) PROVE Sound(gf')
    BY <2>12, UnholdSound DEF UnholdBuffer, OnStack
  <2>13. CASE UnholdEverything
    BY <2>13, UnholdAllSound DEF UnholdEverything
  <2>14. CASE ReallocPatch
    BY <2>14, ReallocSound DEF ReallocPatch
  <2>15. CASE UNCHANGED vars
    BY <2>15 DEF vars
  <2> QED
    BY <2>1, <2>2, <2>3, <2>4, <2>5, <2>6, <2>7, <2>8, <2>9, <2>10, <2>11,
       <2>12, <2>13, <2>14, <2>15 DEF Next
<1> QED
  BY <1>1, <1>2, PTL DEF Spec

(* What the invariant says of a patch, property by property.                  *)
LEMMA SoundImplies ==
    Sound(gf) => /\ TypeOK /\ NoNullDeref /\ LedgerCoversBusy /\ UserLedger
                 /\ LiveEntries /\ LastFreeIsFree
<1> SUFFICES ASSUME Sound(gf)
             PROVE  /\ TypeOK /\ NoNullDeref /\ LedgerCoversBusy /\ UserLedger
                    /\ LiveEntries /\ LastFreeIsFree
  OBVIOUS
<1>1. TypeOK
  BY DEF Sound, Typed, TypeOK
<1>2. NoNullDeref
  <2>1. gf.stack \in Seq(Bufs \cup {OwnBuf}) /\ Len(gf.stack) \in Nat
    BY LenProperties DEF Sound, Typed
  <2>2. \A i \in 1 .. Len(gf.stack) : gf.stack[i] # NullBuf
    BY <2>1, ElementOfSeq, OwnIsNoId
  <2> QED
    BY <2>2 DEF Sound, Typed, NoNullDeref, OnStack, Slots, Pos
<1>3. LedgerCoversBusy /\ UserLedger
  BY DEF Sound, Ledgers, Users, LedgerCoversBusy, UserLedger
<1>4. LiveEntries /\ LastFreeIsFree
  BY DEF Sound, Live, LastFree, LiveEntries, LastFreeIsFree, OnStack
<1> QED
  BY <1>1, <1>2, <1>3, <1>4

(* Whatever the calls, the patch keeps its types and the stack its size.      *)
THEOREM PatchTyped == Spec => []TypeOK
<1> QED
  BY PatchSound, SoundImplies, PTL

(* gf_bufferpool_nextfree never gives up with a NULL buffer.                  *)
THEOREM NeverNull == Spec => []NoNullDeref
<1> QED
  BY PatchSound, SoundImplies, PTL

(* nactive never falls below the number of buffers that are taken.            *)
THEOREM LedgersCover == Spec => []LedgerCoversBusy
<1> QED
  BY PatchSound, SoundImplies, PTL

(* usrnactive never falls below the number of user holds, so that unholdall   *)
(* does not give up too early.                                                *)
THEOREM UserHoldsCounted == Spec => []UserLedger
<1> QED
  BY PatchSound, SoundImplies, PTL

(* Every slot owns a reference of its buffer.                                 *)
THEOREM SlotsOwnReferences == Spec => []LiveEntries
<1> QED
  BY PatchSound, SoundImplies, PTL

(* The buffer the last pop released is free when it is handed out again.      *)
THEOREM LastFreeStaysFree == Spec => []LastFreeIsFree
<1> QED
  BY PatchSound, SoundImplies, PTL

(* A node's output, or a pushed cable, gets a buffer no slot mentions.        *)
THEOREM OutputsAreFresh == Spec => FreshOutput
<1> DEFINE Fresh == (NewOutput \/ Push) /\ Pos(gf') > Pos(gf) =>
                       Top(gf') \in Bufs /\ ~OnStack(Top(gf')) /\ gf'.read[Top(gf')] = 1
<1>1. Sound(gf) /\ [Next]_vars => [Fresh]_vars
  <2> SUFFICES ASSUME Sound(gf), NewOutput \/ Push, Pos(gf') > Pos(gf)
               PROVE  Top(gf') \in Bufs /\ ~OnStack(Top(gf')) /\ gf'.read[Top(gf')] = 1
    OBVIOUS
  <2> PICK h : h = gf'
    OBVIOUS
  <2>1. Typed(gf) /\ Pos(gf) \in Nat
    BY LenProperties DEF Sound, Typed, Pos
  <2>2. CanPush(gf) /\ h = StackPush(gf)
    <3>1. CASE ~CanPush(gf)
      <4>1. h.stack = gf.stack
        BY <3>1 DEF NewOutput, Push, SetBlock, StackPush, Sound, Typed, Patches
      <4> QED
        BY <2>1, <4>1 DEF Pos
    <3>2. CASE CanPush(gf)
      BY <3>2 DEF NewOutput, Push, SetBlock
    <3> QED
      BY <3>1, <3>2
  <2>3. PICK b \in Bufs :
           /\ gf.read[b] = 0
           /\ Becomes(h, [gf.read EXCEPT ![b] = 1],
                      gf.nactive + 1, gf.usrnactive, NoBuf, Append(gf.stack, b))
    BY <2>2, PushEffect
  <2>4. Top(h) = b /\ h.read[b] = 1
    <3>1. h.stack = Append(gf.stack, b) /\ h.read = [gf.read EXCEPT ![b] = 1]
      BY <2>3 DEF Becomes
    <3>2. Top(h) = b
      BY <2>1, <3>1, StackOfPush
    <3>3. gf.read \in [Bufs -> Reads]
      BY <2>1 DEF Typed, Patches
    <3> QED
      BY <3>1, <3>2, <3>3
  <2>5. Slots(gf, b) = {}
    BY <2>3, SlotsEmptyOfFree
  <2> QED
    BY <2>4, <2>5 DEF OnStack
<1> QED
  BY <1>1, PatchSound, PTL DEF Spec, FreshOutput

(* After unholdall nactive is exact again and every user hold is gone.        *)
THEOREM UnholdAllIsExact == Spec => UnholdAllRepairs
<1> DEFINE Repairs == UnholdEverything =>
                         /\ gf'.nactive = Cardinality(Busy(gf'))
                         /\ \A b \in Bufs : gf'.read[b] \in {0, Held}
<1>1. Sound(gf) /\ [Next]_vars => [Repairs]_vars
  BY UnholdAllSound DEF UnholdEverything
<1> QED
  BY <1>1, PatchSound, PTL DEF Spec, UnholdAllRepairs
==============================================================================
