-------------------------------- MODULE SkCore --------------------------------
(***************************************************************************)
(* The synthesis core (lib/sndkit/core.c) and the node constructors of     *)
(* lib/sndkit/nodes on top of one graforge patch: how a LIL script builds  *)
(* a signal graph.                                                         *)
(*                                                                         *)
(* A script works on two stacks at once: the typed stack of sk_core, which *)
(* holds constants, cables and other pointers, and the buffer stack of the *)
(* patch, which holds the buffer of each cable on the first one.  Nothing  *)
(* in the code compares them.  A node's cables point into pool buffers     *)
(* that are reused by later nodes, so the graph is right only if no node   *)
(* in between overwrites a buffer before its reader runs: building a patch *)
(* is register allocation, done by the script as it goes.                  *)
(*                                                                         *)
(* A command is an operator on a call k, a record of the core it works on, *)
(* the return code so far (ok) and the cables popped for the node (args).  *)
(* A script stops at its first failing command, and what that command has  *)
(* already popped stays popped.                                            *)
(***************************************************************************)
EXTENDS GraforgeOps, SequencesExt

CONSTANTS
    SkSize,     \* SK_STACKSIZE, 16 in core.h
    RegSize,    \* SK_REGSIZE, 16 in core.h
    MaxNodes    \* bound on the nodes of a patch

ASSUME SkSizeAssumption == SkSize \in Nat
ASSUME RegSizeAssumption == RegSize \in Nat
ASSUME MaxNodesAssumption == MaxNodes \in Nat

VARIABLE core
vars == <<core>>

Regs == 0 .. RegSize - 1

\* Output j of node n.  A stacklet that is no cable carries NoCable.
NoCable == <<0, 0>>
Stacklet(type) == [type |-> type, cab |-> NoCable]
Cable(n, j) == [type |-> "cable", cab |-> <<n, j>>]

\* A node: the cables it reads and the buffers it writes; an output whose
\* set_block failed stays a constant and has no buffer.
BufferOf(c, cab) == c.nodes[cab[1]].outs[cab[2]]
IsBlock(c, s) == s.type = "cable" /\ BufferOf(c, s.cab) # NullBuf

InitCore ==
    [gf |-> InitPatch, sk |-> <<>>,
     regs |-> [r \in Regs |-> Stacklet("none")], marks |-> {}, nodes |-> <<>>]

------------------------------------------------------------------------------
(* Calls.                                                                   *)

Call(c) == [core |-> c, ok |-> TRUE, args |-> <<>>]
Fail(k) == [k EXCEPT !.ok = FALSE]

PushStacklet(k, s) ==
    IF ~k.ok \/ Len(k.core.sk) >= SkSize THEN Fail(k)
    ELSE [k EXCEPT !.core.sk = Append(@, s)]

\* sk_param_get: a wrong type is found out after the pop.
ParamGet(k) ==
    IF ~k.ok \/ k.core.sk = <<>> THEN Fail(k)
    ELSE LET s == Last(k.core.sk)
             p == [k EXCEPT !.core.sk = Front(@)]
         IN  CASE s.type = "constant" -> p
               [] s.type = "cable" ->
                    [p EXCEPT !.args = <<s.cab>> \o @,
                              !.core.gf = IF IsBlock(k.core, s) THEN StackPop(@) ELSE @]
               [] OTHER -> Fail(p)

\* sk_param_get_cable takes nothing but a cable.
ParamGetCable(k) ==
    IF ~k.ok \/ k.core.sk = <<>> THEN Fail(k)
    ELSE IF Last(k.core.sk).type = "cable" THEN ParamGet(k)
    ELSE Fail([k EXCEPT !.core.sk = Front(@)])

ParamGets(k, n) ==
    CASE n = 0 -> k
      [] n = 1 -> ParamGet(k)
      [] n = 2 -> ParamGet(ParamGet(k))

\* The buffer a set_block gave the patch g, which is h afterwards.
Given(g, h) == IF Pos(h) > Pos(g) THEN Top(h) ELSE NullBuf

\* gf_patch_new_node, gf_node_cables_alloc, a gf_node_set_block for each of m
\* outputs, sk_param_set for the inputs popped, sk_param_out for the outputs.
\* The constructors check neither set_block nor sk_param_out.
MakeNode(k, m) ==
    IF ~k.ok \/ k.core.gf.err THEN Fail(k)
    ELSE LET n == Len(k.core.nodes) + 1
             g0 == k.core.gf
             g1 == IF m >= 1 THEN SetBlock(g0) ELSE g0
             g2 == IF m >= 2 THEN SetBlock(g1) ELSE g1
             outs == SubSeq(<<Given(g0, g1), Given(g1, g2)>>, 1, m)
             room == SkSize - Len(k.core.sk)
             cables == SubSeq(<<Cable(n, 1), Cable(n, 2)>>, 1,
                              IF m < room THEN m ELSE room)
         IN  [k EXCEPT !.core.gf = g2,
                       !.core.nodes = Append(@, [ins |-> k.args, outs |-> outs]),
                       !.core.sk = @ \o cables]

------------------------------------------------------------------------------
(* Commands.                                                                *)

Constant(k) == PushStacklet(k, Stacklet("constant"))
Grab(k) == PushStacklet(k, Stacklet("generic"))

GenericPop(k) ==
    IF ~k.ok \/ k.core.sk = <<>> THEN Fail(k)
    ELSE LET p == [k EXCEPT !.core.sk = Front(@)]
         IN  IF Last(k.core.sk).type = "generic" THEN p ELSE Fail(p)

\* A node command with n parameters and m outputs: sine, add, bigverb...
Node(k, n, m) == MakeNode(ParamGets(k, n), m)

\* A node that writes to an object on the stack: hsout, valset...
Sink(k) == MakeNode(ParamGet(GenericPop(k)), 0)

\* cabnew: the output has a buffer of its own, pushed by hand.
CabNew(k) ==
    LET p == ParamGetCable(k)
        n == Len(p.core.nodes) + 1
    IN  IF ~p.ok \/ p.core.gf.err THEN Fail(p)
        ELSE [PushStacklet(p, Cable(n, 1)) EXCEPT
                !.core.gf = StackPushBuffer(p.core.gf, OwnBuf),
                !.core.nodes = Append(@, [ins |-> p.args, outs |-> <<OwnBuf>>])]

\* sk_core_dup ignores a gf_stack_dup that fails.
CoreDup(k) ==
    IF k.core.sk = <<>> THEN Fail(k)
    ELSE LET s == Last(k.core.sk)
             p == PushStacklet(k, s)
         IN  IF p.ok /\ s.type = "cable" THEN [p EXCEPT !.core.gf = StackDup(@)] ELSE p

\* sk_core_drop pops the buffer stack even for a cable that has no buffer.
CoreDrop(k) ==
    IF k.core.sk = <<>> THEN Fail(k)
    ELSE LET p == [k EXCEPT !.core.sk = Front(@)]
         IN  IF Last(k.core.sk).type = "cable"
             THEN [p EXCEPT !.core.gf = StackPop(@)] ELSE p

\* Mutant of CoreSwap: the buffer stack stays as it is.
CoreSwapTypedOnly(k) ==
    LET top == Len(k.core.sk)
    IN  IF top < 2 THEN Fail(k)
        ELSE [k EXCEPT !.core.sk = SubSeq(@, 1, top - 2) \o <<@[top], @[top - 1]>>]

CoreSwap(k) ==
    LET top == Len(k.core.sk)
        a == k.core.sk[top - 1]
        b == k.core.sk[top]
        p == [k EXCEPT !.core.sk = SubSeq(@, 1, top - 2) \o <<b, a>>]
    IN  IF top < 2 THEN Fail(k)
        ELSE IF a.type = "cable" /\ b.type = "cable"
             THEN [p EXCEPT !.core.gf = StackSwap(@)] ELSE p

\* sk_core_hold looks at the typed stack and pops only the buffer stack: the
\* regset that follows takes the cable.
CoreHold(k) ==
    IF ~k.ok \/ k.core.sk = <<>> THEN Fail(k)
    ELSE IF Last(k.core.sk).type # "cable" \/ Pos(k.core.gf) = 0 THEN Fail(k)
    ELSE [k EXCEPT !.core.gf = BHold(@)]

CoreUnhold(k) ==
    LET p == ParamGet(k)
        b == BufferOf(p.core, Head(p.args))
    IN  IF ~p.ok \/ p.args = <<>> THEN Fail(p)
        ELSE IF b = NullBuf \/ (b \in Bufs /\ p.core.gf.read[b] # UserHeld)
        THEN Fail(p)
        ELSE [p EXCEPT !.core.gf = UnholdUser(@, b)]

CoreRegSet(k, r) ==
    IF ~k.ok \/ k.core.sk = <<>> THEN Fail(k)
    ELSE [k EXCEPT !.core.regs[r] = Last(k.core.sk), !.core.sk = Front(@)]

\* sk_core_regget pushes the buffer without a reference of its own, and
\* ignores a buffer stack that is full.
CoreRegGet(k, r) ==
    LET s == k.core.regs[r]
        p == PushStacklet(k, s)
    IN  IF ~p.ok \/ s.type # "cable" THEN p
        ELSE [p EXCEPT !.core.gf = StackPushBuffer(@, BufferOf(k.core, s.cab))]

RegMark(k, r) == IF k.ok THEN [k EXCEPT !.core.marks = @ \cup {r}] ELSE k
RegClear(k, r) == IF k.ok THEN [k EXCEPT !.core.marks = @ \ {r}] ELSE k

\* sk_register_nxtfree scans from start and wraps around.
NextReg(c, start) ==
    LET at(i) == (start + i) % RegSize
        free == {i \in Regs : at(i) \notin c.marks}
    IN  IF free = {} THEN -1 ELSE at(CHOOSE i \in free : \A j \in free : i <= j)

\* pclear, or hsswp once it has saved the nodes elsewhere: gf_patch_clear.
PatchClear(k) == [k EXCEPT !.core.nodes = <<>>]

PoolUnholdAll(k) == [k EXCEPT !.core.gf = UnholdAll(@)]

------------------------------------------------------------------------------
(* Scripts.  The commands below come in any order; what the guards ask is   *)
(* what a script must see to, for no command does:                          *)
(*   - dup, regget and a node's outputs find a slot (the code ignores a     *)
(*     full stack in each case);                                            *)
(*   - a command that takes an object has one on top: a cable there would   *)
(*     leave the typed stack and keep its slot of the buffer stack;         *)
(*   - a register is read while it is marked: between the hold, regset,     *)
(*     regmrk that fill it and the unhold, regclr that end its use;         *)
(*   - a cable is held once, and unheld when the stack has no other use of  *)
(*     its buffer;                                                          *)
(*   - a patch ends with both stacks empty and every register cleared.      *)

\* Once err is set no node can be made before a reset, so that nothing the
\* commands still do to the stacks reaches a signal: scripts end there.
Run(k) == ~core.gf.err /\ core' = k.core
Now == Call(core)

CableOnTop == core.sk # <<>> /\ Last(core.sk).type = "cable"
ObjectOnTop == core.sk # <<>> /\ Last(core.sk).type = "generic"
TopBuffer == BufferOf(core, Last(core.sk).cab)
RegBuffer(r) == BufferOf(core, core.regs[r].cab)
Unheld(b) == b \in Bufs => core.gf.read[b] > 0
InUse(b) == Slots(core.gf, b) # {}

PushConstant == Run(Constant(Now))
PushObject == Run(Grab(Now))
PopObject == ObjectOnTop /\ Run(GenericPop(Now))

AddNode(n, m) ==
    /\ Len(core.nodes) < MaxNodes
    /\ Len(core.sk) - n + m <= SkSize
    /\ Run(Node(Now, n, m))

AddSink == Len(core.nodes) < MaxNodes /\ ObjectOnTop /\ Run(Sink(Now))

AddCabNew ==
    /\ Len(core.nodes) < MaxNodes
    /\ CableOnTop => IsBlock(core, Last(core.sk)) \/ Pos(core.gf) < StackSize
    /\ Run(CabNew(Now))

Dup ==
    /\ CableOnTop => Pos(core.gf) < StackSize - 1
    /\ Run(CoreDup(Now))
Drop == Run(CoreDrop(Now))
Swap == Run(CoreSwap(Now))

\* hold zz; regset zz r; regmrk r, with r from regnxt.
Keep ==
    LET r == NextReg(core, 0)
    IN  /\ r # -1
        /\ CableOnTop => Unheld(TopBuffer)
        /\ Run(RegMark(CoreRegSet(CoreHold(Now), r), r))

Recall(r) ==
    /\ r \in core.marks
    /\ Pos(core.gf) < StackSize
    /\ Run(CoreRegGet(Now, r))

\* unhold [regget r]; regclr r
Forget(r) ==
    /\ r \in core.marks
    /\ ~InUse(RegBuffer(r)) /\ Pos(core.gf) < StackSize
    /\ Run(RegClear(CoreUnhold(CoreRegGet(Now, r)), r))

\* unholdall, and a regclr for each register.
ForgetAll ==
    /\ core.sk = <<>> /\ core.gf.stack = <<>>
    /\ Run([PoolUnholdAll(Now) EXCEPT !.core.marks = {}])

EndPatch ==
    /\ core.sk = <<>> /\ core.gf.stack = <<>> /\ core.marks = {}
    /\ Run(PatchClear(Now))

Init == core = InitCore

\* The number of inputs and outputs of a node: sine, add, bigverb and the like.
Shapes == {<<0, 1>>, <<1, 1>>, <<2, 1>>, <<2, 2>>}

\* mnoreset deletes the core and makes another one.
Reset == core' = InitCore

Next ==
    \/ PushConstant \/ PushObject \/ PopObject
    \/ \E shape \in Shapes : AddNode(shape[1], shape[2])
    \/ AddSink \/ AddCabNew
    \/ Dup \/ Drop \/ Swap
    \/ Keep \/ \E r \in Regs : Recall(r) \/ Forget(r)
    \/ ForgetAll \/ EndPatch
    \/ Reset

Spec == Init /\ [][Next]_vars

------------------------------------------------------------------------------
Stacklets == [type : {"none", "constant", "generic"}, cab : {NoCable}]
             \cup [type : {"cable"}, cab : (1 .. MaxNodes) \X {1, 2}]

(* The parts of the core have their types, and the typed stack its size.    *)
TypeOK ==
    /\ core.gf \in Patches
    /\ core.sk \in Seq(Stacklets) /\ Len(core.sk) <= SkSize
    /\ core.regs \in [Regs -> Stacklets]
    /\ core.marks \subseteq Regs
    /\ Len(core.nodes) <= MaxNodes

\* How many of the first i stacklets of sk have a slot of the buffer stack.
Depth(c, sk, i) == Cardinality({j \in 1 .. i : IsBlock(c, sk[j])})

(* Until the pool runs out, the two stacks tell the same story: the buffers *)
(* of the cables on the typed stack, in order, are the buffer stack.        *)
Aligned ==
    ~core.gf.err =>
    /\ Pos(core.gf) = Depth(core, core.sk, Len(core.sk))
    /\ \A i \in 1 .. Len(core.sk) :
          IsBlock(core, core.sk[i]) =>
              core.gf.stack[Depth(core, core.sk, i)] = BufferOf(core, core.sk[i].cab)

P == INSTANCE Graforge WITH gf <- core.gf, MaxUser <- MaxNodes, MaxRefs <- MaxNodes

(* A script keeps the contract that Graforge asks of its callers: the pool   *)
(* covers what is taken, every slot of the stack owns what it mentions and   *)
(* no NULL buffer is used.                                                   *)
PoolSound ==
    ~core.gf.err => P!NoNullDeref /\ P!LedgerCoversBusy /\ P!UserLedger /\ P!LiveEntries

Writes(n) == {core.nodes[n].outs[j] : j \in 1 .. Len(core.nodes[n].outs)} \cap Bufs

(* Register allocation is right: between the node that writes a buffer and  *)
(* a node that reads it no other node writes it, so every node computes on  *)
(* the signals the script gave it.                                          *)
NoClobber ==
    \A n \in 1 .. Len(core.nodes) : \A i \in 1 .. Len(core.nodes[n].ins) :
        LET cab == core.nodes[n].ins[i]
        IN  \A m \in cab[1] + 1 .. n - 1 : BufferOf(core, cab) \notin Writes(m)

(* The outputs of a node are different buffers, and a signal that a script  *)
(* can still use, on the stack or in a marked register, has not been        *)
(* overwritten since its node.                                              *)
SignalsIntact ==
    /\ \A n \in 1 .. Len(core.nodes) : Len(core.nodes[n].outs) = 2 =>
          core.nodes[n].outs[1] # core.nodes[n].outs[2]
             \/ core.nodes[n].outs[1] = NullBuf
    /\ \A s \in {core.sk[i] : i \in 1 .. Len(core.sk)} \cup {core.regs[r] : r \in core.marks} :
        s.type = "cable" =>
            \A m \in s.cab[1] + 1 .. Len(core.nodes) :
                BufferOf(core, s.cab) \notin Writes(m)

(* When mno_hotswap_please warns that buffers are left, buffers are left:   *)
(* with nothing on the stacks and no buffer taken, nactive is 0.            *)
NoFalseWarning ==
    core.sk = <<>> /\ core.gf.stack = <<>> /\ Busy(core.gf) = {} => core.gf.nactive = 0
==============================================================================
