------------------------------- MODULE NodeLists -------------------------------
(***************************************************************************)
(* Who owns the nodes of a session.  A node is allocated by                *)
(* gf_patch_new_node and linked to the patch's list; psave, pload,         *)
(* subpatcher and hsswp copy the list's head, tail and length to other     *)
(* places and never the nodes, so that several lists hold the same nodes,  *)
(* a list does not see what was appended through another, and only the     *)
(* order of the commands says who frees them.  At the end of the session   *)
(* sk_core_del frees the patch's nodes first, and then the objects of the  *)
(* dictionary, each with its own, in the order of their hashes.            *)
(*                                                                         *)
(* The guards are the discipline of scm/hotswap.scm and of doc/mnort.org.  *)
(* A hotswapper is rendered by an hsnode or by the real-time client; its   *)
(* blocks are one step here (Hotswap and HsNode look inside them).         *)
(***************************************************************************)
EXTENDS Integers, FiniteSets

CONSTANTS
    Nodes,      \* memory for nodes
    Nil         \* NULL

ASSUME NodesAssumption == Nil \notin Nodes

VARIABLES
    node,       \* what is at each address
    list,       \* the head, tail and length of each list of nodes
    hs,         \* the hotswapper
    objs,       \* the objects in the dictionary
    core        \* "run", or how far sk_core_del is
vars == <<node, list, hs, objs, core>>

Lists == {"patch", "s", "top", "cab0", "cab1"}
Objects == {"s", "top", "hs", "rt"}

Free == [st |-> "free", next |-> Nil, does |-> "nothing"]
Empty == [nodes |-> Nil, last |-> Nil, nnodes |-> 0]

\* sk_core_new, and mno_hotswap_init when hsnew comes.
Init ==
    /\ node = [n \in Nodes |-> Free]
    /\ list = [l \in Lists |-> Empty]
    /\ hs = [read |-> "cab0", write |-> "cab1", please_swap |-> FALSE,
             cfstate |-> "standby"]
    /\ objs = {}
    /\ core = "run"

------------------------------------------------------------------------------
(* Lists.                                                                   *)

\* The i-th node of a list, as its loops find it: by the links, not the tail.
At(l) ==
    LET at[i \in 0 .. list[l].nnodes] ==
            IF i = 0 THEN list[l].nodes
            ELSE IF at[i - 1] = Nil THEN Nil ELSE node[at[i - 1]].next
    IN  at

Walk(l) == {At(l)[i] : i \in 0 .. list[l].nnodes - 1}

\* Two lists that start at the same node.
Shared(l, m) ==
    list[l].nnodes > 0 /\ list[m].nnodes > 0 /\ list[l].nodes = list[m].nodes

\* The patch's nodes have been saved, so it may let go of them.
Saved == list["patch"].nnodes = 0 \/ Shared("patch", "s") \/ Shared("patch", "top")

\* The patch is being built: nobody else has its nodes.
Fresh == ~Shared("patch", "s") /\ ~Shared("patch", "top")

Does(what) == {n \in Nodes : node[n].st = "live" /\ node[n].does = what}

\* gf_subpatch_destroy and gf_subpatch_free, of several subpatches.
Disposed(ls) == [n \in Nodes |-> IF n \in UNION {Walk(l) : l \in ls} THEN Free ELSE node[n]]
Emptied(ls) == [l \in Lists |-> IF l \in ls THEN [list[l] EXCEPT !.nnodes = 0] ELSE list[l]]

------------------------------------------------------------------------------
(* Commands of a script.                                                    *)

Running == core = "run"

\* subpatch, hsnew and rtnew add an object; del removes one and deletes it,
\* here the client.  rtnew takes a hotswapper.
New(o) ==
    /\ Running /\ o \notin objs /\ o # "top"
    /\ o = "rt" => "hs" \in objs /\ Does("hs") = {}
    /\ objs' = objs \cup {o}
    /\ UNCHANGED <<node, list, hs, core>>

DelClient ==
    /\ Running /\ "rt" \in objs
    /\ objs' = objs \ {"rt"}
    /\ UNCHANGED <<node, list, hs, core>>

\* gf_patch_new_node.
Appended(l, n) ==
    IF l.nnodes = 0 THEN [nodes |-> n, last |-> n, nnodes |-> 1]
    ELSE [l EXCEPT !.last = n, !.nnodes = @ + 1]

Linked(l, n, what) ==
    [m \in Nodes |->
       CASE m = n -> [st |-> "live", next |-> Nil, does |-> what]
         [] m = l.last /\ l.nnodes > 0 /\ m # n -> [node[m] EXCEPT !.next = n]
         [] OTHER -> node[m]]

\* One node of a patch.  There is one hsnode for a hotswapper, or a client.
NewNode(n, what) ==
    /\ Running /\ Fresh /\ node[n].st = "free"
    /\ what = "hs" => "hs" \in objs /\ "rt" \notin objs /\ Does("hs") = {}
    /\ node' = Linked(list["patch"], n, what)
    /\ list' = [list EXCEPT !["patch"] = Appended(@, n)]
    /\ UNCHANGED <<hs, objs, core>>

\* psave, to a stash that holds nothing.
PSave ==
    /\ Running /\ "s" \in objs /\ list["s"].nnodes = 0 /\ Fresh
    /\ list' = [list EXCEPT !["s"] = list["patch"]]
    /\ UNCHANGED <<node, hs, objs, core>>

\* subpatcher: the patch is one node that computes the stash, and top a copy
\* of it.  It stops before all that when there is a top already.
Subpatcher(n) ==
    /\ Running /\ "s" \in objs /\ "top" \notin objs /\ Saved
    /\ node[n].st = "free"
    /\ node' = Linked(Empty, n, "sub")
    /\ LET p == Appended(Empty, n)
       IN  list' = [list EXCEPT !["patch"] = p, !["top"] = p]
    /\ objs' = objs \cup {"top"}
    /\ UNCHANGED <<hs, core>>

PClear ==
    /\ Running /\ Saved
    /\ list' = [list EXCEPT !["patch"] = Empty]
    /\ UNCHANGED <<node, hs, objs, core>>

\* pload, once the patch's nodes are somebody else's.
PLoad(o) ==
    /\ Running /\ o \in objs \cap {"s", "top"} /\ Saved
    /\ list' = [list EXCEPT !["patch"] = list[o]]
    /\ UNCHANGED <<node, hs, objs, core>>

\* Mutant of PleaseSwap: the patch keeps the nodes it hands over.
PleaseSwapKeep ==
    /\ Running /\ "hs" \in objs /\ Fresh /\ Walk("patch") \cap Does("hs") = {}
    /\ ~hs.please_swap /\ hs.cfstate \in {"none", "standby"}
    /\ list' = [list EXCEPT ![hs.write] = list["patch"]]
    /\ hs' = [hs EXCEPT !.please_swap = TRUE]
    /\ UNCHANGED <<node, objs, core>>

\* hsswp, by a script that lets the last swap finish.
PleaseSwap ==
    /\ Running /\ "hs" \in objs /\ Fresh /\ Walk("patch") \cap Does("hs") = {}
    /\ ~hs.please_swap /\ hs.cfstate \in {"none", "standby"}
    /\ list' = [list EXCEPT ![hs.write] = list["patch"], !["patch"] = Empty]
    /\ hs' = [hs EXCEPT !.please_swap = TRUE]
    /\ UNCHANGED <<node, objs, core>>

Crossfade ==
    /\ Running /\ "hs" \in objs /\ ~hs.please_swap
    /\ \/ hs.cfstate = "none" /\ hs' = [hs EXCEPT !.cfstate = "standby"]
       \/ hs.cfstate = "standby" /\ hs' = [hs EXCEPT !.cfstate = "none"]
    /\ UNCHANGED <<node, list, objs, core>>

------------------------------------------------------------------------------
(* Rendering.                                                               *)

\* mno_hotswap_compute: the cables whose nodes it frees, and what it leaves.
Reaps == IF hs.cfstate = "done" THEN {hs.write} ELSE {}
Retires == IF hs.please_swap /\ hs.cfstate = "none" THEN {hs.read} ELSE {}

Swapped ==
    LET standby == IF hs.cfstate = "done" THEN [hs EXCEPT !.cfstate = "standby"] ELSE hs
    IN  IF ~hs.please_swap THEN standby
        ELSE [read |-> hs.write, write |-> hs.read, please_swap |-> FALSE,
              cfstate |-> IF standby.cfstate = "standby" THEN "compute"
                          ELSE standby.cfstate]

\* The nodes a block of the hotswapper computes.
Heard ==
    Walk(Swapped.read) \cup (IF Swapped.cfstate = "compute" THEN Walk(Swapped.write) ELSE {})

\* A fade takes any number of blocks.
HsBlock ==
    /\ node' = Disposed(Reaps \cup Retires)
    /\ list' = Emptied(Reaps \cup Retires)
    /\ \/ hs' = Swapped
       \/ Swapped.cfstate = "compute" /\ hs' = [Swapped EXCEPT !.cfstate = "done"]

\* The nodes of the patch that gf_patch_compute reaches before and beside
\* the hotswapper's.
Reached == Walk("patch") \cup (IF Walk("patch") \cap Does("sub") # {} THEN Walk("s") ELSE {})

\* compute; the patch may be the subpatcher's.
Compute ==
    /\ Running
    /\ IF Reached \cap Does("hs") # {} THEN HsBlock ELSE UNCHANGED <<node, list, hs>>
    /\ UNCHANGED <<objs, core>>

\* jack_process, until the client is closed, which the end of the session
\* may be late to do.
Callback == "rt" \in objs /\ HsBlock /\ UNCHANGED <<objs, core>>

------------------------------------------------------------------------------
(* The end of the session: sk_core_del, by mnoreset or when the program     *)
(* ends.                                                                    *)

\* What a session has to see to: the client is closed, the nodes the stash
\* holds are not the patch's too, and the patch is top's.
MayEnd ==
    /\ "rt" \notin objs
    /\ ~Shared("patch", "s")
    /\ "top" \in objs => Shared("patch", "top")

Step(from, to) == core = from /\ core' = to

\* gf_patch_destroy.
Destroy ==
    /\ Step("run", "destroyed") /\ MayEnd
    /\ node' = [n \in Nodes |-> IF n \in Walk("patch")
                                THEN [node[n] EXCEPT !.st = "destroyed"] ELSE node[n]]
    /\ UNCHANGED <<list, hs, objs>>

\* gf_patch_free_nodes, and free of the patch.
FreeNodes ==
    /\ Step("destroyed", "clean")
    /\ node' = Disposed({"patch"})
    /\ list' = Emptied({"patch"})
    /\ UNCHANGED <<hs, objs>>

\* Mutant of Holds: top is deleted as a subpatch is.
HoldsTop(o) == CASE o = "s" -> {"s"} [] o = "hs" -> {"cab0", "cab1"} [] o = "top" -> {"top"}
                 [] OTHER -> {}

\* Mutant of Holds: a hotswapper deletes one of its cables.
HoldsRead(o) == CASE o = "s" -> {"s"} [] o = "hs" -> {"cab0"} [] OTHER -> {}

\* The lists whose nodes an object frees; top's are the patch's.
Holds(o) == CASE o = "s" -> {"s"} [] o = "hs" -> {"cab0", "cab1"} [] OTHER -> {}

\* sk_dict_clean; names hash in any order.
Clean(o) ==
    /\ core = "clean" /\ o \in objs
    /\ node' = Disposed(Holds(o))
    /\ list' = Emptied(Holds(o) \cup IF o = "top" THEN {o} ELSE {})
    /\ objs' = objs \ {o}
    /\ UNCHANGED <<hs, core>>

\* mnoreset starts the next session.
Restart ==
    /\ Step("clean", "run") /\ objs = {}
    /\ list' = [l \in Lists |-> Empty]
    /\ hs' = [hs EXCEPT !.read = "cab0", !.write = "cab1", !.please_swap = FALSE,
                        !.cfstate = "standby"]
    /\ UNCHANGED <<node, objs>>

Next ==
    \/ \E o \in Objects : New(o) \/ PLoad(o) \/ Clean(o)
    \/ \E n \in Nodes : Subpatcher(n) \/ \E what \in {"sound", "hs"} : NewNode(n, what)
    \/ DelClient \/ PSave \/ PClear \/ PleaseSwap \/ Crossfade
    \/ Compute \/ Callback
    \/ Destroy \/ FreeNodes \/ Restart

Spec == Init /\ [][Next]_vars

------------------------------------------------------------------------------
(* Lists and nodes have their types; a list that counts nodes has a head.   *)
TypeOK ==
    /\ node \in [Nodes -> [st : {"free", "live", "destroyed"}, next : Nodes \cup {Nil},
                           does : {"nothing", "sound", "sub", "hs"}]]
    /\ list \in [Lists -> [nodes : Nodes \cup {Nil}, last : Nodes \cup {Nil},
                           nnodes : 0 .. Cardinality(Nodes)]]
    /\ \A l \in Lists : list[l].nnodes > 0 => Nil \notin {list[l].nodes, list[l].last}
    /\ hs.read # hs.write
    /\ objs \subseteq Objects

Owners == {"patch", "s", "cab0", "cab1"}

(* While a session runs, each allocated node is in exactly one of the       *)
(* lists that free their nodes: none would be freed twice, none is lost.    *)
(* (psave alone shares, until subpatcher, pclear or pload; and top's node   *)
(* waits in top while the patch holds others.)                              *)
OneOwner ==
    Running =>
        \A n \in Nodes : node[n].st = "live" =>
            LET owners == {l \in Owners : n \in Walk(l)}
            IN  \/ Cardinality(owners) = 1
                \/ owners = {"patch", "s"} /\ Shared("patch", "s")
                \/ owners = {} /\ n \in Walk("top")

(* What the audio thread or a compute node renders is there: their nodes    *)
(* are allocated and the patch they belong to is not being deleted.         *)
RenderSafe ==
    /\ "rt" \in objs => Running /\ "hs" \in objs
    /\ Running /\ (Reached \cap Does("hs") # {} \/ "rt" \in objs) =>
          \A n \in Heard : node[n].st = "live" /\ node[n].does # "sub"

(* sk_core_del frees everything: in whatever order the objects go, the next *)
(* session starts with no node of the last one.                             *)
NothingLeft == core = "clean" /\ objs = {} => \A n \in Nodes : node[n].st = "free"

(* No node is destroyed twice, or after it was freed.                       *)
DestroyedOnce ==
    /\ core = "run" /\ MayEnd => \A n \in Walk("patch") : node[n].st = "live"
    /\ core = "clean" =>
          \A o \in objs : \A l \in Holds(o) : \A n \in Walk(l) : node[n].st = "live"
==============================================================================
