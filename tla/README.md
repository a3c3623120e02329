# Models and proofs of mnolth

mnolth is a system for sound and graphics: scripts in LIL, Lua or Scheme build a
graph of signal-processing nodes, which is then rendered to a file or, with its
live-coding front end mnort, played by JACK while the next graph is being built.
These TLA+ modules model the parts of it where many legal steps, or two threads,
have to agree on something no single function checks:

- the **buffer pool and stack** of a graforge patch, where a miscounted reference
  makes two live signals share a buffer;
- the **synthesis core**, which runs a typed stack beside the buffer stack and so
  does register allocation for the graph as the script goes;
- the **hotswapper**, which exchanges two patches between a control thread and
  the audio thread without a lock, and its offline twin, which must sound the same;
- **gestlive**, which exchanges two gesture machines one level down, by a node of the
  patch that the hotswapper has just brought in;
- the **lists of nodes** of a session, which are copied by head and tail, and of which
  exactly one may free each node;
- the **dictionary** of the core, whose chains must behave as a map of owned objects;
- **gest**, whose ramp trees and chains of phrases are built by calls that patch what
  earlier calls left, and are walked without a path.

Line numbers below and in `PROJECT.json` are those of the files under `src/`.

## 1. Inventory

| Component | Source | State | Operations | What makes it correct |
|---|---|---|---|---|
| graforge | `lib/sndkit/graforge/graforge.c` | a pool of buffers with a reference count or a hold mark each, `nactive`, `usrnactive`, `last_free`; a stack of buffers; lists of nodes that are copied by head, tail and length; a sticky `err` | `set_block`, cable push and pop, dup, drop, swap, five kinds of hold and unhold, reset, realloc, subpatch save / compute / destroy | no buffer is handed out while a live signal is in it; the counters cover what is taken; unholdall repairs them; each node is freed once, by one list |
| sk_core | `lib/sndkit/core.c` | the typed stack (constants, cables, tables, objects), 16 registers with marks, a dictionary, the patch | parameters, cables, dup / drop / swap, hold / unhold, regset / regget / regmrk / regclr / regnxt, grab; append, look up and remove objects by key, and delete them all at the end | the typed stack and the buffer stack agree; a node reads the signals the script gave it; a key names one object, deleted once |
| node constructors | `lib/sndkit/nodes/*` | one node each | pop parameters, make a node, allocate outputs, bind, push | as above; a parameter of the wrong type stops the script |
| hotswapper | `core/hotswap.org`, `core/l_hotswap.c` | two cables (input, block, subpatch), `read`, `write`, `please_swap`, `play`, the crossfade state and counters | hsout, hsswp, hstog, hscf, hscfsz; compute and render; hsnode and hsget offline | the audio thread walks whole, allocated patches; a patch asked for is heard; the old one is freed once, after its fade; a file sounds as it does live |
| mnort | `util/mnort/rt.c`, `server.c`, `client.c` | a JACK client; a UDP socket and an interpreter | `jack_process`; receive, evaluate, print | one script at a time; the client is closed before what it renders is freed |
| mains | `core/mains.c`, `*_main.c`, `loader.c` | the core in an interpreter's state | mnoreset, mnorealloc, load and clean | nothing of the old session is used after a reset |
| gestlive | `lib/gestvm/gestlive.org` | two gesture machines, `read`, `write`, `please_swap`, an `init` flag per machine | get, swap, unlock, update by a node of the new patch | the machine that plays is not written; gesture and patch swap together |
| gestvm | `lib/gestvm/gestvm.c`, `memops.org` | a uxn machine, a rephasor, the current and next value | compute, device writes, `mempoke` and the like | phase stays in step with the clock; a program that never yields is cut off |
| gest | `lib/gest/*` | a chain of phrases, a ramp tree for each, metanodes, metatargets and metaphrases, the walker's position and its fraction `num / den`, a clock | begin, end, polyramp, monoramp, targets, repeat, mark, return, loop; tick | a leaf has the speed of its place; a round fills its phrase; phrases come in the order written; the walker never follows a NULL |
| kuf, bitlang, sdfvm | `lib/kuf`, `lib/bitlang`, `lib/sdf2d` | small stack machines | push, pop, operators | stack bounds |
| btprnt and graphics | `lib/btprnt`, `core/{gfxbuf,draw,buffer,bpsdf,uf2}.org` | bitmaps, regions, a register pool | drawing, file formats | clipping |
| DSP | `lib/sndkit/dsp`, `extra` | filters, oscillators | compute a sample | numerical, outside this method |
| devices, tools | `monome`, `light`, `util/*` | I/O | I/O | not modelled |
| vendored | sqlite3, lua, lpeg, miniz, lodepng, uxn, scheme, ... | - | - | not modelled |

How they meet. A LIL command (loader.c) calls a node constructor, which calls
sk_core for its parameters, which calls graforge for buffers. `hsout` binds the last
node to the hotswapper's write cable, `hsswp` moves the patch's nodes into that
cable's subpatch, and the JACK thread takes it from there: control and audio thread
share the `mno_hotswap` struct and the nodes, with neither lock nor atomic. gestlive
repeats the scheme one level down, its swap being triggered by a node of the swapped
patch. The server evaluates a datagram to its end before it reads the next, so there is
one control thread.

What is hard here, and to test: signal lifetimes across holds, dups and pops; two
stacks that nothing compares; errors that leave half a command done; counters that
two modules keep; fields shared by two threads; "wait long enough" as the only
protocol between a script and the audio thread. `PROJECT.json` lists each hazard at its
line with the property that would catch it.

## 2. Plan

Modelled and checked, in this order: `GraforgeOps`, `Graforge`, `SkCore`, `PatchPlayer`,
`Hotswap`, `DoubleBuffer` and `GestLive`, `HsNode`, `NodeLists`, `ObjectMap` and `SkDict`,
`GestRamps`, `GestPhrases`. Proved about, in modules of their own: `GraforgeProofs`,
`SkCoreProofs`, `SkDictProofs`, `HotswapProofs` (the swapper, and the gesture machines on top of
it), `HsNodeProofs`, `GestRampsProofs`, `GestPhrasesProofs`, `NodeListsProofs`.

Left, should the model grow: the voices of gestvm, which share one uxn machine by
exchanging its stacks and pointer (`l_gestvm.c`, `gestvm.c`); the thread pool of bpsdf;
kuf, bitlang and sdfvm as pure operators.

## 3. Modules

### GraforgeOps: the pool and the stack as operators

A patch is a record `g`. `read[b]` is the field of the same name in `gf_buffer`: a count
of references, or a negative mark for a hold (`Held`, `UserHeld`). `stack` holds the
buffer ids bottom first, so `gf_stack.pos` is its length. Two pointers are not pool
ids: `OwnBuf`, the buffer a `cabnew` node allocates for itself and keeps user-held for
ever (no call changes it), and `NullBuf`, a NULL result. `fault` is set when the code
would dereference NULL. Each C function is one operator with the same early
returns, so that a handler that makes several calls is the composition of its
operators. Left out: sample data, node lists, memory callbacks.

### Graforge: one patch, any calls

One action per library call, in any order. The guards are what the code requires of its
callers and does not check: only held buffers, or a cabnew node's own, are pushed by
hand; a hold ends when the stack no longer mentions the buffer; unholdall comes with
an empty stack. Everything else, overflow and underflow included, is in the operators.
`gf_node_set_block` may fail and set `err`, after which no node is created but
every other call still works.

### SkCore: scripts

A command is an operator on a *call*: the core, the return code so far, the cables
popped. A script stops at its first failure and what was popped stays popped, as in C. A
node is abstracted to the cables it reads and the buffers its outputs were given;
its arity is one of four `Shapes`, which are those of the constructors (a generator, a
filter, an operator, a stereo effect). The module records the node list as the
patch keeps it, and the properties speak of what the graph will compute.

No command enforces the register discipline. The guards say what a script has to see
to, and are those the repository's own scripts follow: `hold zz; regset zz N; regmrk`,
`regget N`, and `unhold [regget N]; regclr N` at the end (`examples/wubs.lil`,
`lib/gestvm/memops_test.lua:49-56`, `scm/gest.scm:46-53`), `unholdall` after a patch
(`scm/core.scm:93`). Outside the guards the code does go wrong, each time at a place
PROJECT.json names as a hazard (a full stack that dup and regget ignore, a cable
taken for an object).

### PatchPlayer and Hotswap

`PatchPlayer` is the promise in `doc/mnort.org`: one patch plays, one may be requested,
one may be fading; a request is followed by a switch, a switch by the retirement of
the old patch, and the next request comes after that.

`Hotswap` is the code. A control command is cut into its accesses to shared fields
(`pc` of the control thread: the out node is created, then connected; the node list is
saved, then its length, then `please_swap` is set; `hscf 0` tests, then sets). The
audio callback is cut the same way (`audio`): the test for a finished fade, the
disposal of the old patch, the test of `please_swap`, the exchange of the pointers,
the disposal without a crossfade, the start of the fade, the clearing of the
request, the two computes, each sample's mix, the end of the fade. A callback
renders any number of samples, so it may end inside a block. `heap` says whether a
patch's nodes are allocated, `target` which cable its out node was bound to, and
`blk` in a cable names the patch whose output its block holds. The exchange of `read`
and `write` is two steps, as in the code (`SwapRead`, `SwapWrite`): in between both
name the same cable.

Nothing in the code tells a script when a swap is over. `Waits` is the set of commands a
script issues only then: with all three in it, the run `hotswap` shows that no lock is
needed; each of the two violation runs takes one of them out.

### DoubleBuffer and GestLive

`DoubleBuffer` is what gestlive promises: programs are written at the back, nothing is
written between the signal and the swap, and the swap brings the program to the front
whole.

`GestLive` extends `Hotswap`: the commands of a gesture script (`glget`, `gestvmload`, the
gestvm node, the swapper node, `gldone`) come before the commands that build and swap the
patch, and the audio thread of `Hotswap` runs the swapper node when it computes that
patch, in the four writes of `gestlive_update`. A script may fail after any command, and
the next one finds what it left: the flags of its swapper, its program, a signalled swap.
A program is named by the patch it was written for. `glreset` is the `unlock` a user
types after a failure.

A patch that fades out does lose its program: the swapper of the patch that fades in boots
the machine it still runs on (`gestlive.org:216`), so `ProgramInPlace` speaks of the patch
that was brought in.

### HsNode

The same hotswapper, rendered in the two ways the code has: `mno_hotswap_render` sample by
sample, and `hs_compute` with `hs_get_compute` a block at a time, from a saved copy of the
fade's state. Both get the same commands between blocks, and each mixes its own struct.
A sample names the blocks it is mixed from and its gain as a fraction, so that "sounds the
same" is an equality of samples. `hsnode` is also shown to be the player of `PatchPlayer`.

### NodeLists

Who owns the nodes of a session. Memory is a set of addresses, a node has its `next`
link, and a list is what `gf_subpatch` and `gf_patch` keep of it: head, tail, length.
`psave`, `pload`, `subpatcher` and `hsswp` copy lists and never nodes; a walk follows the
links, as the loops of the code do, so a list sees what was appended through another one
only as far as its own length. The session ends by the four stages of `sk_core_del`, the
objects of the dictionary in any order, and the next one may reuse the addresses. A block of
the hotswapper is one step here. The guards are the discipline of `scm/hotswap.scm` and
`doc/mnort.org`: a patch is saved before it is let go, a swap is waited for, the client is
closed and the patch put back before the end (`MayEnd`).

### ObjectMap and SkDict

`ObjectMap` is a map from keys to objects that are deleted once. `SkDict` is `sk_dict`: an
array of chains, an entry appended at the head of the chain of its hash, removed by
relinking the chain, a lookup that stops at the first match, `sk_dict_clean` entry by entry. An
object refused because its key is taken is `lost`: its caller has allocated it and does not
free it.

### GestRamps and GestPhrases

`GestRamps` is the ramp tree of one phrase. The builder's calls (`polyramp`, `monoramp`,
`addtarget`, `addmetatarget`, `addmetanode`) place nodes at `curnode` and then hunt upwards for
the next node with room, through metanodes being filled; the walk of `find_next_node` is cut
at its loops (`Climb`, `Across`, `Descend`, the choice of a metanode and of a target), as it
carries `num / den` up and down. Time is an exact fraction of the phrase, `Unit`.

`GestPhrases` is the chain of phrases: what follows a metaphrase, a repeat or a return is
known only when the next phrase begins or the gesture is looped, and is patched in then;
playing it is `next_phrase` and `get_phrase`, with their counters.

Both leave out what the scripts of the repository do not write: a ramp in a full phrase, a
metanode of one node, nested metaphrases, a gesture that is not looped.

## 4. Runs

| Run | Instance | Shows |
|---|---|---|
| `graforge` | pool 3, stack 4, 601,802 states | the pool and its counters, under every order of calls |
| `skcore` | pool 2, stack 3, typed stack 3, 1 register, 3 nodes, 2,116,151 states | scripts build the graph they mean |
| `skcore_warning` | same | a finding: a warning about buffers that are not there |
| `hotswap` | 3 patches, blocks of 2, fades of 1 or 3 samples, 119,604 states | the protocol of the two threads, its liveness, and that it implements `PatchPlayer` |
| `hotswap_build` | hsout does not wait | a finding: a patch is heard while it is being built |
| `hotswap_disable` | hscf does not wait | a finding: `hscf 0` cuts a fade it raced with |
| `gestlive` | 2 patches, blocks of 1, fades of 2, 156,994 states | gestures and patch swap together, also after scripts that failed; gestlive implements `DoubleBuffer` |
| `hsnode` | 3 patches, blocks of 3, fades of 1, 6 or 7 samples, 6,306 states | a file sounds as it does live; `hsnode` implements `PatchPlayer` |
| `nodelists` | 5 nodes, 103,408 states | each node has one list that frees it, to the end of the session |
| `skdict` | 4 keys in 2 chains, 4 objects, 13,699 states | the chains implement `ObjectMap` |
| `gestramps` | 8 nodes, 4 targets, 506,401 states | trees are built whole and walked in time |
| `gestphrases` | 5 phrases, 110,503 states | phrases are played in the order they were written |

**Bounds.** `MaxUser` and `MaxRefs` cap two counters that the code lets grow for ever: a
hold and `unhold` of one buffer raise `usrnactive` each time round, dup and drop raise a
reference count, since drop takes none away; with 3 they reach every comparison the
code makes (0, 1, more than 1, and the size of the pool). Three buffers and four slots let a
buffer be shared, held while shared, freed below a live one and handed out again, with
both overflow tests met. In `skcore` two buffers and three slots run out within one
patch of three nodes, so that failure and reuse both happen; a second register was
tried once (16,031,144 states, no error) and only adds an interchangeable place to
keep a signal. In `hotswap` three patches are one that sounds, one that fades and one under
construction, and a freed one is built again; a block of two samples and fades of one
and three put the end of a fade inside a block, at its edge and in a later one, and
`hscfsz` may change the length under way.

In `gestlive` two patches are the one that plays and the one that is written, each again
and again, and a fade of two blocks of one sample lasts beyond the block in which the
swapper runs. In `hsnode` a fade of 1 ends in its first block, one of 6 on the edge of the second and one
of 7 inside the third. In `nodelists` five addresses are a patch, a stash, top's node and both
cables at once, and are reused by the next session; they are interchangeable (`SYMMETRY`). In
`skdict` chains of two and more put a removal at the head, in the middle and at the end. In
`gestramps` divisions 1 and 3, stretches 1 and 2 and a metanode of 2 make trees that nest
them, and 46,656 (6 to the 6th) is divisible by every speed that 8 nodes can make. In `gestphrases` five
phrases hold a metaphrase with its phrases, a repeat or a return, and what follows.

**Deadlock** is checked in every run but `gestramps` and `gestphrases`, where a builder that
has reached a bound may be left without a call to make.

**Fairness.** In `Hotswap` and `GestLive` only the audio thread is fair (`WF_vars(Audio)`,
and the swapper node with it): JACK calls back for as long as the client is open, and a
callback runs to its end. Scripts are not fair; a script may stop anywhere between commands,
which is why the liveness properties start from a request that was made. They also assume
that playback does not stay paused, because a paused render neither swaps nor frees
(`hotswap.org:457, 491`). In `HsNode` blocks are fair, a file being rendered to its end. In
`GestRamps` and `GestPhrases` the walk is fair (`WF_vars(Play)`): it is single-threaded code
that goes on until it returns, and is called again at the next leaf.

**What the properties are for.** In `graforge`: the scan for a free buffer always finds
one (NoNullDeref) because the count covers the buffers taken (LedgerCoversBusy); pops
never free a buffer another slot needs (LiveEntries); what was freed last is still
free when it is handed out (LastFreeIsFree), so outputs are fresh (FreshOutput);
`unholdall` repairs the count whatever happened before (UnholdAllRepairs), for which
`usrnactive` must not be too small (UserLedger). In `skcore`: the two stacks agree
(Aligned), scripts keep the contract of the pool (PoolSound), no node's input is
overwritten before it is read (NoClobber) and no signal that a script can still name
is (SignalsIntact). In `hotswap`: what the audio thread walks is saved and allocated
(WalkedIsWhole), what it mixes is computed in this block (MixHearsItsPatches), the slot of a
live patch is not overwritten (NoLeak), requests are served and old patches freed
(RequestHeard, ReplacedFreed). In `gestlive`: the patch that plays finds its program
(ProgramInPlace), a script is never given a machine that is in use (WriterOnDeck), and a
request brings its gestures in and unlocks gestlive (GestureSwapped). In `hsnode`: SameMix, and
a gain that grows by one step a sample across blocks (GainGrows). In `nodelists`: OneOwner is the
invariant, RenderSafe, DestroyedOnce and NothingLeft what it is for. In `skdict`: no object is
deleted twice (OneFate). In `gestramps`: `curnode` is NULL exactly when the tree is whole
(CursorAtEnd), the fraction is the product of the path however it was reached (SpeedOfPath), a
round takes the time of its phrase whatever the metanodes choose (RoundFillsPhrase), the walk
follows no NULL and ends (NoNullDeref, RoundEnds). In `gestphrases`: the search follows no
open end (NoNullPhrase), a metaphrase counts as one phrase (OnePhraseOfMany), a repeat is neither
cut nor too long (RepeatedInFull), every phrase is heard again and again (NothingDropped).

`TypeOK` of a module states the values of its variables for a reader. It is a property of a run
in `Graforge` and a theorem in `Graforge`, `SkCore`, `SkDict`, `Hotswap`, `GestLive`, `HsNode` and `GestRamps`; in
`NodeLists` and `GestPhrases` the types are the first part of the invariant that is proved, but
for two bounds that only finite instances have (a list no longer than the memory, a size no
larger than the largest constant).

Each property is broken by at least one mutant of the code (`PROJECT.json`, "mutants";
the mutants stand before the definitions they replace).

## 5. Findings

- *A warning about nothing.* `hsswp` prints "WARNING: there are %d userbuffers left, when
  there should be 0" from `nactive`, which counts a held buffer twice if `dup` had left
  another reference to it. The count stays up until `unholdall`.
- *Heard while being built.* `hsout` binds to the write cable, which during a fade is the
  one fading out. The patch under construction is mixed into the output.
- *Disabling the crossfade.* The comment asks for STANDBY; the code tests for it and then
  sets the state without protection. A fade that starts in between is cut and the
  old patch is never freed.

## 6. Proofs

### The pool: `GraforgeProofs`

`GraforgeProofs` proves the safety of `Graforge` for every pool size, every stack size
and every bound (the only assumptions are that these are naturals):

- `PatchSound`: `Spec => []Sound(gf)`, the inductive invariant;
- `PatchTyped`, `NeverNull`, `LedgersCover`, `UserHoldsCounted`, `SlotsOwnReferences`,
  `LastFreeStaysFree`: the six invariants of the run follow from it;
- `OutputsAreFresh` and `UnholdAllIsExact`: the two action properties.

None of the six is inductive alone. That nextfree finds a buffer (NoNullDeref) needs
`nactive` to cover the taken ones; that it keeps covering them when a pop frees one needs
to know that a buffer is counted as long as it is referenced, hence the reference
counts of the slots (LiveEntries); a buffer handed out from `last_free` must be free, or
it would be counted twice and written twice (LastFreeIsFree); and unholdall relies on
`usrnactive` (UserLedger). `Sound` is the conjunction of the four parts Typed,
Ledgers, Live and LastFree. The proof has one lemma per operator of `GraforgeOps`
(marking, releasing, holding, taking a buffer, pushing, popping, ...), each saying that
a sound patch stays sound, then one step per action of `Next`. The counting rests on a
few lemmas: how the slots that mention a buffer change with a push and a pop
(CountOfPush, CountOfPop), and the set of taken buffers with one count (CountsOfOne).

### Scripts: `SkCoreProofs`

For every size of the pool and of both stacks, any number of registers and patches of any
length (all of them naturals), and for scripts that keep to the guards of section 3. An instance of
`GraforgeProofs`, with the patch of the core for its variable, supplies the lemmas about a library
call.

- `ScriptIsSound`: the inductive invariant;
- `CoreTyped`, `StacksAligned`, `ScriptsKeepPool`, `NothingClobbered`, `SignalsKept`: TypeOK,
  Aligned, PoolSound, NoClobber and SignalsIntact.

None of the last four is inductive. That a new output overwrites nothing (NoClobber) rests on its
buffer being free, and so on every buffer a script can still use being taken: a cable on the
typed stack owns a slot of the buffer stack (Aligned), a slot owns a reference (PoolSound), and a
marked register has a hold. What a slot says must be the cable's own buffer, or the reference
would be another's; and that buffer must not have been written since (SignalsIntact). So the
invariant says, until the pool runs out (`Good`), that the patch is `Sound`, that the stacks are
in line (`Lined`), that every output has a buffer (`AllBlocks`), that every usable cable
is an output of the patch that no later node overwrites (`UsableLive`), and that each marked
register holds the buffer of its cable (`MarksHeld`), no two of them the same (`MarksDiffer`),
without which the unhold of one would free the other's. Once `err` is set, half of a node's
outputs may be missing and the stacks may disagree; what is kept of the signals then is
`InputsIntact`, `OutsDiffer` and `UsableUnwritten`, and `Final` is the conjunction.

A command is several library calls. `Calling` is the invariant between two of them, with the
cables popped so far still live, and the proof has one lemma per call (ParamGetIs,
MakeNodeFinal, CoreRegGetIs, ...) and one per command. The depth of a stacklet, the number of
cables with a buffer up to it, is what relates the stacks (`DepthStep`, `LinedAppendBlock`,
`LinedFront`, `LinedSwap`).

### The dictionary: `SkDictProofs`

`SkDictProofs` proves all of `SkDict`, for any sets of keys, objects and chains and any hash
(assumed: `None` is no object, `Hash` maps keys to chains):

- `DictSound`: the inductive invariant, the conjunction of TypeOK (an entry is in the chain of
  its key's hash), OneEntryPerKey and OneFate;
- `DictTyped`, `EntriesUnique`, `FatesUnique`: its parts;
- `DictIsMap`: every step is a step of `ObjectMap` or a stutter, with the map that sends a key
  to the object of its first match.

The argument: a lookup finds the only match (LookupFinds), so removing what it finds takes the
key off the map, and removal relinks one chain and shifts its entries (Without, Unlink) without
touching another key's; an append puts an entry in front of its chain (Link) and is refused when
the key has a match. Neither invariant is inductive alone: without OneEntryPerKey a removal
would bring back an older entry, and without OneFate an object could be deleted through one
key and found through another.

### The two threads: `HotswapProofs`

For every set of patches, every block size and all lengths of a fade (assumed: `BlkSize` and
the lengths are positive, `NoPatch` is no patch), and for scripts that wait for a swap to be
over before `hsout`, `hsswp` and `hscf`. The last is a hypothesis of the theorems,

    Disciplined == Waits = {"hsout", "hsswp", "hscf"}

because the properties are false of other scripts: the runs `hotswap_build` and
`hotswap_disable` show it for two of the three. It is the instance of the run `hotswap`.
`HotswapTyped` needs no discipline.

- `HotswapSound`: the inductive invariant;
- `WalkedWhole`, `MixSound`, `NoneLost`: WalkedIsWhole, MixHearsItsPatches, NoLeak;
- `HeardWhenAsked`, `DisabledFromStandby`: what the two findings violate holds with the waits;
- `HotswapIsPlayer`: every step of either thread is a step of `PatchPlayer` or a stutter.

None of the three invariants is inductive. What the audio thread walks is whole because a
script only writes to the cable that is not read, and that is so from the first access of a
command to the last only if no swap starts in between. So the invariant says in which states
of the hotswapper each place of the audio thread (`Stages`) and of the control thread
(`Building`) can be; that a cable which holds a patch holds all of it, allocated, and that
the out node of a patch was bound to the cable that holds it (`Owned`); that
the cable that is not read is empty from the moment its patch was disposed of to
the moment a script fills it (`DeckFree`), which is NoLeak; and what the script has built so far
(`Construction`). `blk`, the patch that a cable's block was computed from, follows from the
last two. The proof has one lemma per access of a thread.

### The gesture machines: `HotswapProofs`

They are proved about in the module of the swapper: its invariant is a conjunct of this one, and
the hypothesis is the same.

- `GestLiveSound`, `GestLiveTyped`: the inductive invariant, and its types;
- `ProgramKept`, `WriterUnused`: ProgramInPlace, WriterOnDeck;
- `GestLiveIsDoubleBuffer`: the four writes of `gestlive_update` are one exchange of
  `DoubleBuffer` (the one of the two roles is the exchange, the others stutter), and
  everything else is a write at the back, a signal taken or given back, or a stutter.

The machines change roles at another time than the cables: the patch is brought in by
the hotswapper, and its machine only when its swapper node is first computed, while the old patch
may still fade out. The invariant says that a patch which plays either has its program on the
machine at the front, or has never been computed (`Starting`) and still has to bring its machine
there (`Due`): the machine at the back has its program, is marked to boot, and the swap is
signalled. A script that failed leaves parts of this behind, so each part is said of the
patch that is held by a cable, and not of the last script.

### Offline and live: `HsNodeProofs`

For every block size and all lengths of a fade, with no discipline.

- `HsNodeSound`, `HsNodeTyped`: the inductive invariant, and its types;
- `FileSoundsLive`, `FadeGoesOn`: SameMix and GainGrows;
- `HsNodeIsPlayer`: every command and every block is a step of `PatchPlayer` or a stutter.

Between blocks the two structs have the same patches, flags and fade (`Alike`), the cable that
the next swap writes is empty (`Cables`), and the fade has lasted as long as `hsget` has heard
it (`InStep`). Inside a block one side counts its fade sample by sample, by a recursive function
over the samples of the block; the lemma FramesAfter gives its closed form (`After`), by
induction over the length of the block, and the gain of each sample follows.

### The ramp tree: `GestRampsProofs`

For any divisions, stretches and sizes of metanodes and metatargets (`SizesAssumption`: a
division is positive, a metanode has at least two nodes), and trees of any depth.

- `RampsSound`: the inductive invariant; `RampsTyped`: TypeOK;
- `CursorTellsAll`: CursorAtEnd;
- `SpeedIsOfPath`: SpeedOfPath;
- `NeverIntoNull`: NoNullDeref;
- `RoundsAreWhole`: RoundFillsPhrase.

CursorAtEnd is not inductive: it does not say which nodes may still want something while
`curnode` is elsewhere. The invariant does (`Wanting`): a node is whole, or it is `curnode`, or a
polyramp above it, or it waits for its turn in a metanode on the stack, and then nothing was put in
it. What holds the tree together is that a node is made after its parent (`Linked`), so that the
way up from `curnode` is a set of smaller numbers, and the hunt of `mktarget` for the largest node
with room (`Max`) leaves nothing that wants anything below the node it stops at (`HuntRoom`,
`HuntMeta`, `HuntOver`). The metanodes on the stack are on that way, in the same order (`Filled`);
the metatargets on the other stack are filled up to their positions (`Slots`).

For the walk, `Over(n)` is the product of the path down to `n` without `n`: what the fraction
is when a dive is at `n`, and again when the way up has reverted `n` (`Walking`). A division undoes
the multiplication exactly because what is divided is always the product of a path through the
divisor (`DividedIs`), and a leaf that is left without being reverted has the factor 1 (`LeftOff`).
The paths, the products and the sums over children are recursive functions; that they are what
their equations say is proved by induction over the numbers (`SumsExist`, `UpsExist`,
`DownsExist`), and that a step leaves most of them alone by the same induction over two trees
(`AboveAgree`, `ProductAgree`, `CountAgree`).

For the time of a round the invariant is `Inv /\ Timed`. Every node has a time at which its ramp
starts (`Schedule`): a first child where its parent does, another one where the one before it
ends, a node in the place of a metanode where that does. A polyramp that is whole has as many
ramps as it divides its time in, so its last child ends when it does (`LastOfPoly`), and so does
every node the walk leaves by (`LastEnds`); `Clock` says that what was played is the time at which
the node that the walk is at starts, or ends. The schedule is made as the tree grows: a node added
to it starts where the last child of `curnode` ended, and no other start changes
(`ScheduleGrown`). Times are whole numbers of units. `UnitAssumption` says only that a phrase can
be divided as often as a tree of `MaxNodes` nodes can nest divisions without a remainder
(3^8 = 6561 in the run); it is a device of the model, which sums fractions of a phrase exactly,
where the code advances a float. That no division of a path leaves a remainder then is
`WholeBeats`, by induction over the way up.

### Chains of phrases: `GestPhrasesProofs`

For any bounds, sizes of metaphrases and numbers of repeats.

- `GestPhrasesSound`: the inductive invariant;
- `NeverNull`, `OneOfMany`: NoNullPhrase, OnePhraseOfMany;
- `HeardInFull`: RepeatedInFull.

While a gesture is written its phrases are a `Chain`: numbered as they come, each linked to the
next, with one open end, which is the last phrase, or all the phrases of a metaphrase
that is still to be closed and whose slots are `i + j`. When it is played they
are a `Loop`, in which every search ends. The bulk of the proof is that what patches the open
ends, when the next phrase begins (`BeginKeeps`) or the gesture is looped (`LoopCloses`), closes
all of them and touches nothing else. `Counts` relates the counters of repeats to what was heard.

### Who frees a node: `NodeListsProofs`

For any memory, finite or not (assumed: NULL is no address).

- `NodeListsSound`: the inductive invariant;
- `OneOwnerHolds`, `RenderSafeHolds`, `NothingLeftHolds`, `DestroyedOnceHolds`: the four
  properties of the run.

The invariant of a session: two of the five lists have no node in common, or one is a copy of
the other, and the only copies are those of `psave`, `subpatcher` and `pload` (`Distinct`); a list
has as many nodes as it counts, in a chain that ends in its tail, and
all are allocated, and every allocated node is in a list (`Alive`); the node of a subpatcher is
in top's list and nowhere else but the patch's (`Subs`); the cable that the next swap writes is
empty (`Ready`). `Ending` says what is left of it from `gf_patch_destroy` on. It rests on lemmas
about the walk of a list, a recursive function over its length: what is written to nodes that
a list does not have does not change it (InKept), and an append adds one node to the list it
was made through (InMore) and none to the others.

### What stays with TLC

Each inductive invariant was checked by TLC on the instance of its run before it was proved.
The recursive functions (`Frames` of `HsNode`, the walk of `NodeLists`, the paths, sums and
lengths of `GestRamps`) are proved about by
induction over the numbers, in the form that uses a set for the hypothesis (the lemma Induction,
from the well-foundedness of `<` in the library); the library's induction rules
themselves take an operator as a parameter, which no backend can instantiate.

Every invariant that a run checks is a theorem. Only model-checked: all liveness (RequestHeard,
ReplacedFreed, GestureSwapped, RoundEnds, NothingDropped and the rest), which is beyond the
prover, as is ENABLED.

## 7. Not modelled

Signal processing, sample values and gains (and with them `hscfsz 0`, a division by
zero in the gain); memory allocation failures; opening and closing JACK; the interpreters.
Of gest, the clock (`gest_tick`, `ramptree_step`: the correction of a time kept in floats), behaviours,
actions and scalars, the random variants and the text language. Of gestvm, the evaluation of
programs on the uxn machine and the rephasor. kuf, bitlang, sdfvm, btprnt, graphics, DSP, devices and the
vendored libraries, for the reasons that PROJECT.json gives.
