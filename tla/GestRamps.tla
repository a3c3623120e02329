----------------------------- MODULE GestRamps -----------------------------
(***************************************************************************)
(* The ramp tree of a gesture (lib/gest/gest.c): the calls that build the  *)
(* tree of one phrase, and the walk that plays it.  A polyramp divides its *)
(* time in equal ramps, a monoramp stretches over several of them, and a   *)
(* leaf holds a target.  The walker keeps no path: it carries one fraction *)
(* num / den, multiplied on the way down and divided on the way up, that   *)
(* is meant to be the speed of the leaf it has reached.  A metanode puts a *)
(* different subtree in its place on every visit, a metatarget a different *)
(* target.                                                                 *)
(*                                                                         *)
(* Built so that legal programs are what scripts write: a monoramp goes in *)
(* a polyramp, no ramp is added to a full phrase, the phrase is full when  *)
(* it ends, and it loops.  NULL is 0.                                      *)
(***************************************************************************)
EXTENDS Integers, Sequences, FiniteSetsExt, Functions

CONSTANTS Divs,      \* the divisions of a polyramp
          Beats,     \* the ramps a monoramp stretches over
          MetaSizes,   \* the sizes of a metanode or a metatarget
          MaxNodes, MaxTargets,   \* bounds: nodes and targets of the gesture
          Unit       \* the length of a phrase, in units of time

ASSUME SizesAssumption ==
  /\ Divs \subseteq Nat \ {0} /\ Beats \subseteq Nat \ {0}
  /\ MetaSizes \subseteq Nat \ {0, 1}
  /\ MaxNodes \in Nat \ {0} /\ MaxTargets \in Nat /\ Unit \in Nat

\* the lengths that ramps have after k divisions; they are whole
Lengths[k \in 0..MaxNodes] ==
  IF k = 0 THEN {Unit} ELSE {x \div d : x \in Lengths[k - 1], d \in Divs}

ASSUME UnitAssumption ==
  \A k \in 1..MaxNodes : \A x \in Lengths[k - 1], d \in Divs : x % d = 0

VARIABLES
  nodes,     \* gest_node: type, modifier, parent, children, target, meta, pos
  targets,   \* gest_target: the slots of its metatarget and its position
  curnode,   \* g->curnode while the phrase is built, the leaf while it plays
  mtstack,   \* g->mtstack: the metatargets still to be filled
  mnstack,   \* g->mnstack: the metanodes still to be filled
  step,      \* where the program is: see Steps
  num, den,  \* g->num, g->den
  walk,      \* the locals of find_next_node
  nxtstate,  \* g->nxtstate
  played     \* history: the time the leaves of this round have taken

vars == <<nodes, targets, curnode, mtstack, mnstack, step, num, den, walk,
          nxtstate, played>>

build == <<curnode, mtstack, mnstack>>
Steps == {"build", "play", "search", "dive", "pick"}
Ids == DOMAIN nodes
\* the node of a phrase that find_next_node knows as phrase_selected->top
Top == 1

-----------------------------------------------------------------------------
(* The tree. *)

GestNode(type, modifier, parent) ==
  [type |-> type, modifier |-> modifier, parent |-> parent,
   children |-> <<>>, target |-> 0, meta |-> <<>>, pos |-> 0]

Target == [meta |-> <<>>, pos |-> 0]

\* the sum of the sequence w
Total(w) ==
  LET upto[i \in 0..Len(w)] == IF i = 0 THEN 0 ELSE upto[i - 1] + w[i]
  IN upto[Len(w)]

\* node_count: the ramps the children of n take up
Ramps(node) == IF node.type = "mono" THEN node.modifier ELSE 1
NodeCount(ns, n) ==
  LET kids == ns[n].children
  IN Total([i \in 1..Len(kids) |-> Ramps(ns[kids[i]])])

Attach(ns, parent, node) ==
  Append([ns EXCEPT ![parent].children = Append(@, Len(ns) + 1)], node)

\* n->next: the sibling append_node put after n
NextOf(n) ==
  LET kids == nodes[nodes[n].parent].children
      after == {i \in 2..Len(kids) : kids[i - 1] = n}
  IN IF after = {} THEN 0 ELSE kids[Max(after)]

\* curnode and the nodes above it; a node is made after its parent
Above(ns, n) ==
  LET up[m \in DOMAIN ns] ==
        IF ns[m].parent = m THEN {m} ELSE {m} \cup up[ns[m].parent]
  IN up[n]

\* Mutant of HasRoom: a monoramp has room for what it stretches over.
HasRoomStretched(ns, n) == NodeCount(ns, n) < ns[n].modifier

\* the hunt of mktarget: the first node upwards with room, or the metanode
\* that is being filled
HasRoom(ns, n) ==
  NodeCount(ns, n) < IF ns[n].type = "mono" THEN Len(ns[n].children)
                                            ELSE ns[n].modifier
Filling(n) == mnstack # <<>> /\ n = mnstack[Len(mnstack)]
Hunt(ns) ==
  LET found == {n \in Above(ns, curnode) : Filling(n) \/ HasRoom(ns, n)}
  IN IF found = {} THEN 0 ELSE Max(found)

\* where mktarget puts the new target t
Place(t) ==
  LET kids == nodes[curnode].children
      last == IF kids = <<>> THEN 0 ELSE kids[Len(kids)]
      Empty(n) == /\ nodes[n].type = "mono" /\ nodes[n].target = 0
  IN IF last # 0 /\ Empty(last) /\ nodes[last].meta = <<>>
                 /\ nodes[last].children = <<>>
     THEN [nodes EXCEPT ![last].target = t]
     ELSE IF Empty(curnode)
     THEN [nodes EXCEPT ![curnode].target = t]
     ELSE Attach(nodes, curnode,
                 [GestNode("mono", 1, curnode) EXCEPT !.target = t])

-----------------------------------------------------------------------------
(* Building. *)

\* what find_next_node starts from: the leaf being played and its speed
Walk(seek, top, n, d) == [for |-> seek, top |-> top, reverted |-> 0,
                          target |-> 0, wait |-> FALSE, num |-> n, den |-> d]
NoState == [num |-> 1, den |-> 1, node |-> 0, target |-> 0, wait |-> FALSE]

\* gest_init and gest_begin
Init ==
  /\ \E div \in Divs : nodes = <<GestNode("poly", div, 1)>>
  /\ targets = <<>> /\ curnode = 1 /\ mtstack = <<>> /\ mnstack = <<>>
  /\ step = "build" /\ num = 1 /\ den = 1 /\ walk = Walk("cur", 0, 1, 1)
  /\ nxtstate = NoState /\ played = 0

Building(made) ==
  /\ step = "build" /\ Len(nodes) + made <= MaxNodes
  /\ UNCHANGED <<step, num, den, walk, nxtstate, played>>

Polyramp(div) ==
  /\ Building(1) /\ curnode # 0
  /\ NodeCount(nodes, curnode) < nodes[curnode].modifier
  /\ nodes' = Attach(nodes, curnode, GestNode("poly", div, curnode))
  /\ curnode' = Len(nodes) + 1
  /\ UNCHANGED <<targets, mtstack, mnstack>>

CanMonoramp(n) ==
  /\ curnode # 0 /\ nodes[curnode].type = "poly"
  /\ NodeCount(nodes, curnode) + n <= nodes[curnode].modifier

Monoramp(n) ==
  /\ Building(1) /\ CanMonoramp(n)
  /\ nodes' = Attach(nodes, curnode, GestNode("mono", n, curnode))
  /\ curnode' = Len(nodes) + 1
  /\ UNCHANGED <<targets, mtstack, mnstack>>

\* the placeholder and, behind it, the nodes that take its place
AddMetanode(n, sz) ==
  LET ph == Len(nodes) + 1
      made == [i \in 1..sz |-> ph + i]
  IN /\ Building(1 + sz) /\ CanMonoramp(n)
     /\ nodes' = Attach(nodes, curnode,
                        [GestNode("mono", n, curnode)
                           EXCEPT !.meta = made, !.pos = 1])
                 \o [i \in 1..sz |-> GestNode("mono", n, ph)]
     /\ curnode' = made[1]
     /\ mnstack' = Append(mnstack, ph)
     /\ UNCHANGED <<targets, mtstack>>

\* Mutant of FilledBy: the last slot is not waited for.
FilledByNext(m) == m.pos + 2 >= Len(m.meta)

\* one more fills the metanode or the metatarget m
FilledBy(m) == m.pos + 1 >= Len(m.meta)

\* mktarget, given the slots the new target has itself; a metatarget that
\* waits for targets gets it, and no node is made
FillSlot(sz) ==
  LET t == Len(targets) + 1
      mt == mtstack[Len(mtstack)]
      full == FilledBy(targets[mt])
      rest == IF full THEN SubSeq(mtstack, 1, Len(mtstack) - 1) ELSE mtstack
  IN /\ Building(0) /\ mtstack # <<>> /\ t <= MaxTargets
     /\ targets' = Append([targets EXCEPT
                             ![mt].meta[targets[mt].pos + 1] = t,
                             ![mt].pos = IF full THEN 0 ELSE @ + 1],
                          [Target EXCEPT !.meta = [i \in 1..sz |-> 0]])
     /\ mtstack' = IF sz = 0 THEN rest ELSE Append(rest, t)
     /\ UNCHANGED <<nodes, curnode, mnstack>>

PlaceLeaf(sz) ==
  LET t == Len(targets) + 1
      placed == Place(t)
      next == Hunt(placed)
      mn == nodes[next]
      full == FilledBy(mn)
  IN /\ Building(1) /\ mtstack = <<>> /\ curnode # 0 /\ t <= MaxTargets
     /\ NodeCount(nodes, curnode) < nodes[curnode].modifier
     /\ targets' = Append(targets, [Target EXCEPT !.meta = [i \in 1..sz |-> 0]])
     /\ mtstack' = IF sz = 0 THEN <<>> ELSE <<t>>
     /\ IF next # 0 /\ Filling(next)
        THEN /\ nodes' = [placed EXCEPT ![next].pos = IF full THEN 0 ELSE @ + 1]
             /\ curnode' = mn.meta[mn.pos + 1]
             /\ mnstack' = IF full THEN SubSeq(mnstack, 1, Len(mnstack) - 1)
                           ELSE mnstack
        ELSE nodes' = placed /\ curnode' = next /\ UNCHANGED mnstack

AddTarget == FillSlot(0) \/ PlaceLeaf(0)
AddMetatarget(sz) == FillSlot(sz) \/ PlaceLeaf(sz)

\* gest_end on a full phrase, gest_loopit, and gest_finish up to its dive
Finish ==
  /\ step = "build" /\ curnode = 0 /\ mtstack = <<>>
  /\ NodeCount(nodes, Top) = nodes[Top].modifier
  /\ step' = "dive" /\ walk' = Walk("cur", Top, 1, 1)
  /\ num' = 1 /\ den' = 1
  /\ UNCHANGED <<nodes, targets, build, nxtstate, played>>

-----------------------------------------------------------------------------
(* Playing: find_next_node and dive_to_target, one iteration at a time. *)

Applied(n) == IF nodes[n].type = "poly"
              THEN num' = num * nodes[n].modifier /\ UNCHANGED den
              ELSE den' = den * nodes[n].modifier /\ UNCHANGED num

\* Mutant of Divided: the placeholder of a metanode is reverted too.
DividedAll(x, type, n) ==
  IF n # 0 /\ nodes[n].type = type THEN x \div nodes[n].modifier ELSE x

\* what num or den comes to when n is reverted
Divided(x, type, n) ==
  IF n # 0 /\ nodes[n].type = type /\ nodes[n].meta = <<>>
  THEN x \div nodes[n].modifier ELSE x

\* the node that is left is reverted, then the one climbed to, where there is one
Reverted(left, parent) ==
  /\ num' = Divided(Divided(num, "poly", left), "poly", parent)
  /\ den' = Divided(Divided(den, "mono", left), "mono", parent)

\* Mutant of LeftBehind: a stretched leaf stays applied.
LeftBehindNever == 0

\* a stretched leaf, or one reached sideways, is reverted before it is left
LeftBehind ==
  IF /\ walk.top # walk.reverted
     /\ nodes[walk.top].type = "mono" /\ nodes[walk.top].modifier > 1
  THEN walk.top ELSE 0

\* Mutant of Climb: the parent is reverted, but the walk stays where it is.
ClimbNot ==
  LET parent == nodes[walk.top].parent
  IN /\ step = "search" /\ walk.top # Top /\ NextOf(walk.top) = 0
     /\ Reverted(LeftBehind, parent)
     /\ walk' = [walk EXCEPT !.reverted = parent]
     /\ UNCHANGED <<nodes, targets, build, step, nxtstate, played>>

\* up: the last child of its parent
Climb ==
  LET parent == nodes[walk.top].parent
  IN /\ step = "search" /\ walk.top # Top /\ NextOf(walk.top) = 0
     /\ Reverted(LeftBehind, parent)
     /\ walk' = [walk EXCEPT !.top = parent, !.reverted = parent]
     /\ UNCHANGED <<nodes, targets, build, step, nxtstate, played>>

\* sideways: dive_to_target from the sibling
Across ==
  /\ step = "search" /\ walk.top # Top /\ NextOf(walk.top) # 0
  /\ Reverted(LeftBehind, 0)
  /\ walk' = [walk EXCEPT !.top = NextOf(walk.top)]
  /\ step' = "dive"
  /\ UNCHANGED <<nodes, targets, build, nxtstate, played>>

\* the end of the phrase: the next one, from its top, is told to wait
NextPhrase ==
  /\ step = "search" /\ walk.top = Top
  /\ num' = 1 /\ den' = 1
  /\ walk' = [walk EXCEPT !.wait = TRUE]
  /\ step' = "dive"
  /\ UNCHANGED <<nodes, targets, build, nxtstate, played>>

\* node_seq, get_seq: the one after the one chosen last
InTurn(m) == IF m.pos >= Len(m.meta) THEN 1 ELSE m.pos + 1
ChooseNode ==
  LET mn == nodes[walk.top]
  IN /\ step = "dive" /\ mn.meta # <<>>
     /\ nodes' = [nodes EXCEPT ![walk.top].pos = InTurn(mn)]
     /\ walk' = [walk EXCEPT !.top = mn.meta[InTurn(mn)]]
     /\ UNCHANGED <<targets, build, step, num, den, nxtstate, played>>

Descend ==
  LET n == nodes[walk.top]
  IN /\ step = "dive" /\ n.meta = <<>> /\ n.target = 0
     /\ Applied(walk.top)
     /\ walk' = [walk EXCEPT !.top = n.children[1]]
     /\ UNCHANGED <<nodes, targets, build, step, nxtstate, played>>

Land ==
  LET n == nodes[walk.top]
  IN /\ step = "dive" /\ n.meta = <<>> /\ n.target # 0
     /\ Applied(walk.top)
     /\ walk' = [walk EXCEPT !.target = n.target]
     /\ step' = "pick"
     /\ UNCHANGED <<nodes, targets, build, nxtstate, played>>

\* get_seq
ChooseTarget ==
  LET mt == targets[walk.target]
  IN /\ step = "pick" /\ mt.meta # <<>>
     /\ targets' = [targets EXCEPT ![walk.target].pos = InTurn(mt)]
     /\ walk' = [walk EXCEPT !.target = mt.meta[InTurn(mt)]]
     /\ UNCHANGED <<nodes, build, step, num, den, nxtstate, played>>

\* the time a leaf takes, in units, when the phrase takes Unit
Share(n, d) == (Unit * d) \div n

\* gest_finish has its first leaf and searches for the second
FirstLeaf ==
  /\ step = "pick" /\ targets[walk.target].meta = <<>> /\ walk.for = "cur"
  /\ curnode' = walk.top /\ played' = Share(num, den)
  /\ nxtstate' = NoState
  /\ walk' = Walk("nxt", walk.top, num, den)
  /\ step' = "search"
  /\ UNCHANGED <<nodes, targets, mtstack, mnstack, num, den>>

\* find_next_node puts num and den back and leaves its answer in nxtstate
Found ==
  /\ step = "pick" /\ targets[walk.target].meta = <<>> /\ walk.for = "nxt"
  /\ nxtstate' = [num |-> num, den |-> den, node |-> walk.top,
                  target |-> walk.target, wait |-> walk.wait]
  /\ num' = walk.num /\ den' = walk.den
  /\ step' = "play"
  /\ UNCHANGED <<nodes, targets, build, walk, played>>

\* ramptree_step with a target on deck: the leaf that was found is played and
\* the one after it is looked for
TargetOnDeck ==
  LET s == nxtstate
  IN /\ step = "play"
     /\ num' = s.num /\ den' = s.den /\ curnode' = s.node
     /\ played' = Share(s.num, s.den) + IF s.wait THEN 0 ELSE played
     /\ nxtstate' = NoState
     /\ walk' = Walk("nxt", s.node, s.num, s.den)
     /\ step' = "search"
     /\ UNCHANGED <<nodes, targets, mtstack, mnstack>>

-----------------------------------------------------------------------------

Build ==
  \/ \E div \in Divs : Polyramp(div)
  \/ \E n \in Beats : Monoramp(n) \/ \E sz \in MetaSizes : AddMetanode(n, sz)
  \/ AddTarget
  \/ \E sz \in MetaSizes : AddMetatarget(sz)
  \/ Finish

Play == \/ Climb \/ Across \/ NextPhrase \/ ChooseNode \/ Descend \/ Land
        \/ ChooseTarget \/ FirstLeaf \/ Found \/ TargetOnDeck

Next == Build \/ Play
Spec == Init /\ [][Next]_vars /\ WF_vars(Play)

-----------------------------------------------------------------------------

NodeSet == [type : {"poly", "mono"}, modifier : Divs \cup Beats \cup {1},
            parent : Ids, children : Seq(Ids), target : {0} \cup DOMAIN targets,
            meta : Seq(Ids), pos : Nat]
TargetSet == [meta : Seq({0} \cup DOMAIN targets), pos : Nat]

(* The tree is well formed: no ramp holds more than its division, a node   *)
(* has one parent, and the metanodes being filled have nodes left          *)
(* (mkpolyramp, mkmonoramp, append_node, mktarget).                        *)
TypeOK ==
  /\ nodes \in Seq(NodeSet) /\ targets \in Seq(TargetSet)
  /\ curnode \in {0} \cup Ids /\ step \in Steps
  /\ \A n \in Ids : /\ NodeCount(nodes, n) <= nodes[n].modifier
                   /\ nodes[n].pos <= Len(nodes[n].meta)
  /\ \A t \in DOMAIN targets : targets[t].pos <= Len(targets[t].meta)
  /\ \A n, p \in Ids : n \in Range(nodes[p].children) => nodes[n].parent = p
  /\ \A i \in DOMAIN mnstack : nodes[mnstack[i]].pos \in 1..Len(nodes[mnstack[i]].meta) - 1

\* a node that wants nothing more
Whole(n) ==
  LET m == nodes[n] IN
  IF m.meta # <<>> THEN m.children = <<>> /\ m.target = 0
  ELSE IF m.target # 0 THEN m.children = <<>>
  ELSE IF m.type = "poly" THEN NodeCount(nodes, n) = m.modifier
  ELSE Len(m.children) = 1

Complete == /\ \A n \in Ids : Whole(n)
            /\ \A t \in DOMAIN targets : 0 \notin Range(targets[t].meta)

(* curnode, which the caller cannot see past, says exactly when a phrase   *)
(* is done: it is NULL, and no metatarget waits, if and only if every node *)
(* of the tree, in the metanodes too, is full; gest_end looks at the top   *)
(* node only.  Until then it is a node that takes another ramp.            *)
CursorAtEnd ==
  step = "build" =>
    /\ (curnode = 0 /\ mtstack = <<>>) <=> Complete
    /\ curnode # 0 => /\ ~Whole(curnode) /\ nodes[curnode].meta = <<>>
                      /\ NodeCount(nodes, curnode) < nodes[curnode].modifier

(* What num and den come to at a leaf, whatever way led there: the product *)
(* of the divisions and of the stretches above it, each metanode counted   *)
(* once, as the node in its place (apply_modifier, revert_modifier).       *)
Factor(ns, type, n) == IF ns[n].type = type /\ ns[n].meta = <<>>
                       THEN ns[n].modifier ELSE 1
ProductOf(ns, type, leaf) ==
  LET down[n \in DOMAIN ns] ==
        Factor(ns, type, n)
          * IF ns[n].parent = n THEN 1 ELSE down[ns[n].parent]
  IN down[leaf]
SpeedOfPath ==
  /\ step = "play" =>
       /\ nxtstate.num = ProductOf(nodes, "poly", nxtstate.node)
       /\ nxtstate.den = ProductOf(nodes, "mono", nxtstate.node)
  /\ step = "play" => /\ num = ProductOf(nodes, "poly", curnode)
                      /\ den = ProductOf(nodes, "mono", curnode)

(* The leaves of a round fill their phrase: when the walk comes back to    *)
(* the top of the phrase, what it has played took the phrase's whole time, *)
(* whatever the metanodes put in place this time (find_next_node).         *)
RoundFillsPhrase == step = "play" /\ nxtstate.wait => played = Unit

(* The walk never follows a NULL: a node it dives into has a target or     *)
(* children, and a target that is picked is there (acquire_children,       *)
(* node_target).                                                           *)
NoNullDeref ==
  /\ step = "dive" => \/ nodes[walk.top].meta # <<>>
                      \/ nodes[walk.top].target # 0
                      \/ nodes[walk.top].children # <<>>
  /\ step = "pick" => walk.target # 0

(* The loops of the walk end: a search for the next leaf finds one, and a  *)
(* round reaches its end (find_next_node, dive_to_target, get_node).       *)
RoundEnds == (step # "build") ~> (step = "play" /\ nxtstate.wait)

=============================================================================
