----------------------------- MODULE GraforgeOps -----------------------------
(***************************************************************************)
(* The buffer pool and the buffer stack of a graforge patch                *)
(* (lib/sndkit/graforge/graforge.c), as operators on one record, so that   *)
(* a handler that makes several library calls is the composition of the    *)
(* operators it calls.  The module declares no variable: Graforge and      *)
(* SkCore hold the record and say who calls what.                          *)
(*                                                                         *)
(* A patch g is a record with the fields of gf_bufferpool, gf_stack and    *)
(* gf_patch that the calls below read or write:                            *)
(*   read        the reference count of each pool buffer, or a hold mark   *)
(*   nactive     how many buffers the pool believes are taken              *)
(*   usrnactive  how many of them are user holds                           *)
(*   last_free   the buffer the last pop released, the next one to hand    *)
(*               out, or -1                                                *)
(*   stack       the buffer ids on the stack, bottom first                 *)
(*   err         gf_patch.err is set: no node can be created any more      *)
(*   fault       a NULL buffer has been dereferenced                       *)
(***************************************************************************)
EXTENDS Integers, Sequences, FiniteSets

CONSTANTS
    PoolSize,   \* buffers in the pool      (8 in sk_core_new)
    StackSize   \* slots of the buffer stack (10 in sk_core_new)

ASSUME PoolSizeAssumption == PoolSize \in Nat
ASSUME StackSizeAssumption == StackSize \in Nat

Bufs == 0 .. PoolSize - 1   \* a pool buffer is its id
OwnBuf == -1                \* a buffer a cabnew node allocated for itself
NullBuf == -2               \* a NULL gf_buffer pointer
NoBuf == -1                 \* last_free names no buffer

Held == -1       \* read of a buffer gf_buffer_hold took
UserHeld == -2   \* read of a buffer gf_buffer_holdu took
Reads == {Held, UserHeld} \cup Nat

Patches ==
    [read : [Bufs -> Reads], nactive : Int, usrnactive : Int,
     last_free : Bufs \cup {NoBuf}, stack : Seq(Bufs \cup {OwnBuf, NullBuf}),
     err : BOOLEAN, fault : BOOLEAN]

\* gf_patch_init and gf_patch_alloc.
InitPatch ==
    [read |-> [b \in Bufs |-> 0], nactive |-> 0, usrnactive |-> 0,
     last_free |-> NoBuf, stack |-> <<>>, err |-> FALSE, fault |-> FALSE]

Pos(g) == Len(g.stack)
Top(g) == g.stack[Pos(g)]

\* The buffers taken, and how often the stack mentions a buffer.
Busy(g) == {b \in Bufs : g.read[b] # 0}
Slots(g, b) == {i \in 1 .. Pos(g) : g.stack[i] = b}

------------------------------------------------------------------------------
(* Reference counts.  A cabnew buffer is user-held from its creation and is *)
(* never unheld, so marking, unmarking and holding it change nothing.       *)

BufferMark(g, b) ==
    CASE b = NullBuf -> [g EXCEPT !.fault = TRUE]
      [] b = OwnBuf  -> g
      [] b \in Bufs  -> IF g.read[b] >= 0 THEN [g EXCEPT !.read[b] = @ + 1] ELSE g

\* Mutant of Release: frees the buffer at the first pop of a shared one.
ReleaseAtOnce(g, b) ==
    CASE b = NullBuf -> [g EXCEPT !.fault = TRUE]
      [] b = OwnBuf  -> g
      [] b \in Bufs  ->
            IF g.read[b] <= 0 THEN g
            ELSE [g EXCEPT !.read[b] = 0, !.last_free = b, !.nactive = @ - 1]

\* gf_buffer_unmark, and what gf_stack_pop does with the id it returns.
Release(g, b) ==
    CASE b = NullBuf -> [g EXCEPT !.fault = TRUE]
      [] b = OwnBuf  -> g
      [] b \in Bufs  ->
            IF g.read[b] <= 0 THEN g
            ELSE IF g.read[b] > 1 THEN [g EXCEPT !.read[b] = @ - 1]
            ELSE [g EXCEPT !.read[b] = 0, !.last_free = b, !.nactive = @ - 1]

\* Mutants of HoldUser: one of the two counters is forgotten.
HoldUserUncounted(g, b) ==
    IF b \in Bufs /\ g.read[b] >= 0
    THEN [g EXCEPT !.read[b] = UserHeld, !.usrnactive = @ + 1]
    ELSE g

HoldUserAnonymous(g, b) ==
    IF b \in Bufs /\ g.read[b] >= 0
    THEN [g EXCEPT !.read[b] = UserHeld, !.nactive = @ + 1]
    ELSE g

HoldUser(g, b) ==
    IF b \in Bufs /\ g.read[b] >= 0
    THEN [g EXCEPT !.read[b] = UserHeld, !.usrnactive = @ + 1, !.nactive = @ + 1]
    ELSE g

UnholdUser(g, b) ==
    IF b \in Bufs /\ g.read[b] = UserHeld
    THEN [g EXCEPT !.read[b] = 0, !.usrnactive = @ - 1, !.nactive = @ - 1]
    ELSE g

\* gf_bufferpool_unhold ends either kind of hold, and knows nothing of
\* usrnactive.
Unhold(g, b) ==
    IF b \in Bufs /\ g.read[b] < 0
    THEN [g EXCEPT !.read[b] = 0, !.nactive = @ - 1]
    ELSE g

------------------------------------------------------------------------------
(* The pool.                                                                *)

PoolFull(g) == g.nactive >= PoolSize

\* The buffer gf_bufferpool_nextfree picks; the C code leaves its result NULL
\* when the scan meets no free buffer.
NextFree(g) ==
    IF g.last_free # NoBuf THEN g.last_free
    ELSE IF Busy(g) = Bufs THEN NullBuf
    ELSE CHOOSE b \in Bufs \ Busy(g) : \A c \in Bufs \ Busy(g) : b <= c

\* Mutant of TakeBuffer: last_free is not used up.
TakeBufferAgain(g, b) == BufferMark([g EXCEPT !.nactive = @ + 1], b)

TakeBuffer(g, b) ==
    BufferMark([g EXCEPT !.last_free = NoBuf, !.nactive = @ + 1], b)

\* Mutant of ResetPool: nactive is not counted afresh.
ResetPoolUncounted(g) ==
    [g EXCEPT !.last_free = NoBuf,
              !.read = [b \in Bufs |-> IF g.read[b] < 0 THEN g.read[b] ELSE 0]]

ResetPool(g) ==
    LET kept == {b \in Bufs : g.read[b] < 0}
    IN  [g EXCEPT !.last_free = NoBuf, !.nactive = Cardinality(kept),
                  !.read = [b \in Bufs |-> IF b \in kept THEN g.read[b] ELSE 0]]

\* gf_bufferpool_unholdu_all returns at once when it knows of no user hold.
UnholdAllUsers(g) ==
    LET mine == {b \in Bufs : g.read[b] = UserHeld}
    IN  IF g.usrnactive = 0 THEN g
        ELSE [g EXCEPT !.read = [b \in Bufs |-> IF b \in mine THEN 0 ELSE g.read[b]],
                       !.nactive = @ - Cardinality(mine),
                       !.usrnactive = @ - Cardinality(mine)]

------------------------------------------------------------------------------
(* The stack.  Each operator leaves g alone where the C function returns an *)
(* error.                                                                   *)

CanPush(g) == Pos(g) < StackSize /\ ~PoolFull(g)

StackPush(g) ==
    IF ~CanPush(g) THEN g
    ELSE LET b == NextFree(g)
         IN  [TakeBuffer(g, b) EXCEPT !.stack = Append(@, b)]

\* Mutant of StackPushBuffer: the size of the stack is not looked at.
StackPushBufferAnyway(g, b) == [g EXCEPT !.stack = Append(@, b)]

StackPushBuffer(g, b) ==
    IF Pos(g) >= StackSize THEN g ELSE [g EXCEPT !.stack = Append(@, b)]

Below(g) == SubSeq(g.stack, 1, Pos(g) - 1)

StackPop(g) ==
    IF Pos(g) = 0 THEN g ELSE [Release(g, Top(g)) EXCEPT !.stack = Below(g)]

\* Mutant of StackDup: the copy takes no reference.
StackDupUnmarked(g) ==
    IF Pos(g) = 0 \/ Pos(g) >= StackSize - 1 THEN g
    ELSE [g EXCEPT !.stack = Append(@, Top(g))]

\* One slot is kept spare: the test is against size - 1.
StackDup(g) ==
    IF Pos(g) = 0 \/ Pos(g) >= StackSize - 1 THEN g
    ELSE BufferMark([g EXCEPT !.stack = Append(@, Top(g))], Top(g))

StackDrop(g) ==
    IF Pos(g) = 0 THEN g ELSE [g EXCEPT !.stack = Below(g)]

StackSwap(g) ==
    IF Pos(g) < 2 THEN g
    ELSE [g EXCEPT !.stack[Pos(g)] = g.stack[Pos(g) - 1],
                   !.stack[Pos(g) - 1] = Top(g)]

\* Mutant of StackHold: the buffer is unmarked on its way out of the stack.
StackHoldReleased(g) ==
    IF Pos(g) = 0 THEN g
    ELSE LET popped == StackPop(g)
         IN  IF Top(g) \in Bufs THEN [popped EXCEPT !.read[Top(g)] = Held] ELSE popped

\* gf_stack_hold does not unmark what it pops: the pool keeps counting it.
StackHold(g) ==
    IF Pos(g) = 0 THEN g
    ELSE LET b == Top(g)
             popped == [g EXCEPT !.stack = Below(g)]
         IN  CASE b = NullBuf -> [popped EXCEPT !.fault = TRUE]
               [] b = OwnBuf  -> popped
               [] b \in Bufs  -> [popped EXCEPT !.read[b] = Held]

------------------------------------------------------------------------------
(* The patch.                                                               *)

\* gf_node_set_block: a failed push is remembered for good in gf_patch.err.
SetBlock(g) == IF CanPush(g) THEN StackPush(g) ELSE [g EXCEPT !.err = TRUE]

\* Mutants of BHold: last_free still names the buffer now held, and the buffer
\* is popped but not held.
BHoldStale(g) == IF Pos(g) = 0 THEN g ELSE HoldUser(StackPop(g), Top(g))
BHoldNothing(g) == IF Pos(g) = 0 THEN g ELSE [StackPop(g) EXCEPT !.last_free = NoBuf]

BHold(g) ==
    IF Pos(g) = 0 THEN g
    ELSE HoldUser([StackPop(g) EXCEPT !.last_free = NoBuf], Top(g))

\* gf_patch_holdbuf: the buffer stays where it is on the stack.
HoldBuf(g, b) == [HoldUser(g, b) EXCEPT !.last_free = NoBuf]

\* gf_patch_realloc frees and creates the pool and the stack, but neither
\* usrnactive nor err starts again.
Realloc(g) == [InitPatch EXCEPT !.usrnactive = g.usrnactive, !.err = g.err]

\* The LIL command unholdall: reset the pool, then drop every user hold.
UnholdAll(g) == UnholdAllUsers(ResetPool(g))
==============================================================================
