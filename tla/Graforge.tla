------------------------------- MODULE Graforge -------------------------------
(***************************************************************************)
(* One patch under the calls a node constructor or a script may make, in   *)
(* any order.  Every action is one call of the library, with its early     *)
(* returns; the guards are the contract its callers keep, which the C code *)
(* does not check:                                                         *)
(*   - a buffer pushed by hand (gf_stack_push_buffer) is held or is a      *)
(*     cabnew node's own: sk_core_regget pushes what a script has held;    *)
(*   - a hold ends when the stack no longer mentions the buffer;           *)
(*   - unholdall comes when the stack is empty, at the end of a script.    *)
(***************************************************************************)
EXTENDS GraforgeOps

CONSTANTS
    MaxUser,   \* bound on usrnactive, which nothing in the code bounds
    MaxRefs    \* bound on a reference count: dup and drop in turn raise it for ever

ASSUME MaxUserAssumption == MaxUser \in Nat
ASSUME MaxRefsAssumption == MaxRefs \in Nat

VARIABLE gf
vars == <<gf>>

HeldBufs == {OwnBuf} \cup {b \in Bufs : gf.read[b] \in {Held, UserHeld}}
OnStack(b) == Slots(gf, b) # {}
MayHold == gf.usrnactive < MaxUser
MayRefer == \A b \in Bufs : gf.read[b] < MaxRefs

Init == gf = InitPatch

\* gf_patch_new_node, gf_node_cables_alloc, gf_node_set_block: a node with one
\* output.  Once err is set gf_patch_new_node refuses.
NewOutput == ~gf.err /\ gf' = SetBlock(gf)

Push == gf' = StackPush(gf)             \* gf_cable_push
Pop == gf' = StackPop(gf)               \* gf_cable_pop of a block
Dup == MayRefer /\ gf' = StackDup(gf)
Drop == gf' = StackDrop(gf)
Swap == gf' = StackSwap(gf)

PushBuffer(b) == b \in HeldBufs /\ gf' = StackPushBuffer(gf, b)

HoldTop == gf' = StackHold(gf)
HoldTopUser == MayHold /\ gf' = BHold(gf)
HoldUserBuffer(b) == MayHold /\ OnStack(b) /\ gf' = HoldBuf(gf, b)

UnholdUserBuffer(b) == ~OnStack(b) /\ gf' = UnholdUser(gf, b)
UnholdBuffer(b) == ~OnStack(b) /\ gf' = Unhold(gf, b)
UnholdEverything == Pos(gf) = 0 /\ gf' = UnholdAll(gf)

ReallocPatch == gf' = Realloc(gf)

Next ==
    \/ NewOutput \/ Push \/ Pop \/ Dup \/ Drop \/ Swap
    \/ \E b \in Bufs \cup {OwnBuf} : PushBuffer(b)
    \/ HoldTop \/ HoldTopUser
    \/ \E b \in Bufs :
          HoldUserBuffer(b) \/ UnholdUserBuffer(b) \/ UnholdBuffer(b)
    \/ UnholdEverything \/ ReallocPatch

Spec == Init /\ [][Next]_vars

------------------------------------------------------------------------------
(* The patch is a patch: every field has its type, the stack fits its slots *)
(* and last_free, when it names a buffer, names one of the pool.            *)
TypeOK == gf \in Patches /\ Pos(gf) <= StackSize

(* gf_bufferpool_nextfree always finds the buffer it promises: it never     *)
(* falls through its scan with a NULL that is marked or goes on the stack.  *)
NoNullDeref == ~gf.fault /\ ~OnStack(NullBuf)

(* The pool never believes to have more room than it has: nactive counts at *)
(* least the buffers that are taken.  It may count more: a hold of a buffer *)
(* that dup left on the stack counts it twice.                              *)
LedgerCoversBusy == gf.nactive >= Cardinality(Busy(gf))

(* gf_bufferpool_unholdu_all, which gives up when usrnactive is 0, never    *)
(* leaves a user hold behind: usrnactive counts at least the user holds.    *)
UserLedger ==
    gf.usrnactive >= Cardinality({b \in Bufs : gf.read[b] = UserHeld})

(* A pool buffer on the stack is taken, and unless it is held each slot     *)
(* that mentions it owns one of its references: no pop frees a buffer that  *)
(* a slot further down still needs.                                         *)
LiveEntries ==
    \A b \in Bufs : OnStack(b) =>
        /\ gf.read[b] # 0
        /\ gf.read[b] > 0 => gf.read[b] >= Cardinality(Slots(gf, b))

(* The buffer the last pop released is free until it is handed out again.   *)
LastFreeIsFree == gf.last_free # NoBuf => gf.read[gf.last_free] = 0

(* A buffer that nextfree hands out for a node's output is one the stack    *)
(* does not mention: no two live signals share a buffer by allocation.      *)
FreshOutput ==
    [][(NewOutput \/ Push) /\ Pos(gf') > Pos(gf) =>
          Top(gf') \in Bufs /\ ~OnStack(Top(gf')) /\ gf'.read[Top(gf')] = 1]_vars

(* unholdall repairs the ledger, whatever was leaked before it: afterwards  *)
(* nactive counts the taken buffers exactly, and no user hold is left.      *)
UnholdAllRepairs ==
    [][UnholdEverything =>
          /\ gf'.nactive = Cardinality(Busy(gf'))
          /\ \A b \in Bufs : gf'.read[b] \in {0, Held}]_vars
==============================================================================
