--------------------------- MODULE GestRampsProofs ---------------------------
(***************************************************************************)
(* The ramp tree of a gesture, for every program of legal calls and every  *)
(* size: curnode is NULL exactly when nothing is missing, the walk follows *)
(* no NULL, and the fraction it carries up and down is the speed of the    *)
(* leaf it is at.  The tree is a forest in which a node is made after its  *)
(* parent; nothing is missing below a node that curnode is not below, but  *)
(* in the nodes a metanode waits for.  And a round takes the time of its   *)
(* phrase: every node has a time at which its ramp starts, where the one   *)
(* before it ends, and the walk is always on time.                         *)
(***************************************************************************)
EXTENDS GestRamps, WellFoundedInduction, SequenceTheorems, TLAPS

Modifiers == Divs \cup Beats \cup {1}
Positive == Nat \ {0}

NodeRec == [type : {"poly", "mono"}, modifier : Modifiers, parent : Nat,
            children : Seq(Nat), target : Nat, meta : Seq(Nat), pos : Nat]
TargetRec == [meta : Seq(Nat), pos : Nat]
WalkRec == [for : {"cur", "nxt"}, top : Nat, reverted : Nat, target : Nat,
            wait : BOOLEAN, num : Positive, den : Positive]
StateRec == [num : Positive, den : Positive, node : Nat, target : Nat,
             wait : BOOLEAN]

Typed ==
    /\ nodes \in Seq(NodeRec) /\ targets \in Seq(TargetRec)
    /\ curnode \in Nat /\ mtstack \in Seq(Nat) /\ mnstack \in Seq(Nat)
    /\ step \in Steps /\ num \in Positive /\ den \in Positive
    /\ walk \in WalkRec /\ nxtstate \in StateRec

-----------------------------------------------------------------------------
(* The tree. *)

\* Whole, in the tree ns.
WholeIn(ns, n) ==
    LET m == ns[n] IN
    IF m.meta # <<>> THEN m.children = <<>> /\ m.target = 0
    ELSE IF m.target # 0 THEN m.children = <<>>
    ELSE IF m.type = "poly" THEN NodeCount(ns, n) = m.modifier
    ELSE Len(m.children) = 1

\* A monoramp that nothing has been put in.
Bare(ns, n) ==
    /\ ns[n].type = "mono" /\ ns[n].children = <<>>
    /\ ns[n].target = 0 /\ ns[n].meta = <<>>

\* A node is made after its parent, its children know it, the nodes of a
\* metanode follow it, and it has a target of the gesture or none.
Linked(ns, len, n) ==
    /\ n # 1 => ns[n].parent \in 1 .. n - 1
    /\ \A i \in 1 .. Len(ns[n].children) :
          /\ ns[n].children[i] \in 2 .. Len(ns)
          /\ ns[ns[n].children[i]].parent = n
    /\ n + Len(ns[n].meta) <= Len(ns)
    /\ \A i \in 1 .. Len(ns[n].meta) :
          ns[n].meta[i] = n + i /\ ns[n + i].parent = n
    /\ ns[n].target <= len

\* What a node of each kind may hold.
Shaped(ns, n) ==
    /\ ns[n].type = "poly" =>
          /\ ns[n].target = 0 /\ ns[n].meta = <<>>
          /\ NodeCount(ns, n) <= ns[n].modifier
    /\ ns[n].type = "mono" /\ ns[n].children # <<>> =>
          Len(ns[n].children) = 1 /\ ns[ns[n].children[1]].type = "poly"
    /\ ns[n].meta # <<>> => ns[n].children = <<>> /\ ns[n].target = 0
    /\ ns[n].pos <= Len(ns[n].meta)

Tree(ns, len) ==
    /\ Len(ns) >= 1 /\ ns[1].parent = 1
    /\ \A n \in 1 .. Len(ns) : Linked(ns, len, n) /\ Shaped(ns, n)

\* A node that a metanode on the stack ms has still to put a target in.
Waiting(ns, ms, n) ==
    \E k \in 1 .. Len(ms) : \E j \in ns[ms[k]].pos + 1 .. Len(ns[ms[k]].meta) :
       n = ms[k] + j

\* cur takes another ramp.
Ready(ns, cur) ==
    /\ ns[cur].meta = <<>> /\ ns[cur].target = 0
    /\ IF ns[cur].type = "poly" THEN NodeCount(ns, cur) < ns[cur].modifier
       ELSE ns[cur].children = <<>>

\* The metanodes being filled are above cur, the newest last.
Filled(ns, cur, ms) ==
    \A k \in 1 .. Len(ms) :
       /\ ms[k] \in Above(ns, cur)
       /\ ns[ms[k]].pos \in 1 .. Len(ns[ms[k]].meta) - 1
       /\ \A l \in 1 .. k - 1 : ms[l] < ms[k]

\* A node wants something only when it is cur, a polyramp above cur, or
\* waits for its turn in a metanode.
Wanting(ns, cur, ms, n) ==
    /\ Waiting(ns, ms, n) => Bare(ns, n) /\ n \notin Above(ns, cur)
    /\ \/ WholeIn(ns, n) \/ Waiting(ns, ms, n)
       \/ n \in Above(ns, cur) /\ (n = cur \/ ns[n].type = "poly")

Growing(ns, cur, ms) ==
    IF cur = 0 THEN ms = <<>> /\ \A n \in 1 .. Len(ns) : WholeIn(ns, n)
    ELSE /\ cur <= Len(ns) /\ Ready(ns, cur) /\ Filled(ns, cur, ms)
         /\ \A n \in 1 .. Len(ns) : Wanting(ns, cur, ms, n)

\* The slots of the metatargets: those of the targets on the stack st are
\* filled up to their positions, those of the others are all filled; a slot
\* holds one of len targets.
SlotsOf(ts, st, len, t) ==
    /\ \A i \in 1 .. Len(ts[t].meta) : ts[t].meta[i] \in 0 .. len
    /\ ts[t].pos <= Len(ts[t].meta)
    /\ (\A k \in 1 .. Len(st) : st[k] # t) =>
          \A i \in 1 .. Len(ts[t].meta) : ts[t].meta[i] # 0
Unfilled(ts, st, k) ==
    /\ st[k] \in 1 .. Len(ts) /\ \A l \in 1 .. k - 1 : st[l] < st[k]
    /\ ts[st[k]].pos < Len(ts[st[k]].meta)
    /\ \A i \in 1 .. Len(ts[st[k]].meta) :
          ts[st[k]].meta[i] # 0 <=> i <= ts[st[k]].pos
Slots(ts, st, len) ==
    /\ \A t \in 1 .. Len(ts) : SlotsOf(ts, st, len, t)
    /\ \A k \in 1 .. Len(st) : Unfilled(ts, st, k)

-----------------------------------------------------------------------------
(* The walk. *)

\* The product of the path down to n, without n.
Over(ns, type, n) ==
    IF ns[n].parent = n THEN 1 ELSE ProductOf(ns, type, ns[n].parent)

Leaf(ns, n) == n \in 1 .. Len(ns) /\ ns[n].target # 0
AtSpeed(ns, x, y, n) ==
    /\ n \in 1 .. Len(ns)
    /\ x = ProductOf(ns, "poly", n) /\ y = ProductOf(ns, "mono", n)
AtSpeedOver(ns, x, y, n) ==
    /\ n \in 1 .. Len(ns)
    /\ x = Over(ns, "poly", n) /\ y = Over(ns, "mono", n)

\* The fraction is the speed over the node that a dive is at, and of the
\* leaf it ends at; the way up is over the node that was reverted last, or
\* starts at a leaf.
Walking ==
    /\ walk.top \in 1 .. Len(nodes)
    /\ step = "dive" => AtSpeedOver(nodes, num, den, walk.top)
    /\ step = "pick" =>
          /\ Leaf(nodes, walk.top) /\ AtSpeed(nodes, num, den, walk.top)
          /\ walk.target \in 1 .. Len(targets)
    /\ step = "search" =>
          /\ walk.for = "nxt"
          /\ walk.reverted # walk.top =>
                Leaf(nodes, walk.top) /\ AtSpeed(nodes, num, den, walk.top)
          /\ walk.reverted = walk.top => AtSpeedOver(nodes, num, den, walk.top)
    /\ step # "play" /\ walk.for = "nxt" =>
          AtSpeed(nodes, walk.num, walk.den, curnode)
    /\ step = "play" =>
          /\ AtSpeed(nodes, num, den, curnode) /\ Leaf(nodes, nxtstate.node)
          /\ AtSpeed(nodes, nxtstate.num, nxtstate.den, nxtstate.node)

AllWhole(ns) == \A n \in 1 .. Len(ns) : WholeIn(ns, n)
Playable == mtstack = <<>> /\ mnstack = <<>> /\ AllWhole(nodes)

Inv ==
    /\ Typed
    /\ Tree(nodes, Len(targets)) /\ Slots(targets, mtstack, Len(targets))
    /\ curnode \in 0 .. Len(nodes)
    /\ step = "build" => Growing(nodes, curnode, mnstack)
    /\ step # "build" => Playable /\ Walking

-----------------------------------------------------------------------------
(* Induction, and the greatest of some numbers.                            *)

(* Every nonempty set of numbers has a least one.                          *)
LEMMA Least ==
    ASSUME NEW T \in SUBSET Nat, T # {}
    PROVE  \E m \in T : \A n \in T : m <= n
<1> DEFINE R == OpToRel(<, Nat)
<1>1. IsWellFoundedOn(R, Nat)
  BY NatLessThanWellFounded
<1>2. \A m, n \in Nat : <<m, n>> \in R <=> m < n
  BY DEF OpToRel
<1> HIDE DEF R
<1>3. PICK m \in T : \A n \in T : <<n, m>> \notin R
  BY <1>1, WFMin
<1>4. \A n \in T : ~ (n < m)
  BY <1>2, <1>3
<1> QED
  BY <1>4

(* A set with 0 and every successor has every number.                      *)
LEMMA Induction ==
    ASSUME NEW T, 0 \in T, \A n \in Nat : n \in T => n + 1 \in T
    PROVE  Nat \subseteq T
<1> SUFFICES ASSUME Nat \ T # {}  PROVE FALSE
  OBVIOUS
<1>1. PICK m \in Nat \ T : \A n \in Nat \ T : m <= n
  BY Least
<1>2. m # 0 /\ m - 1 \in Nat
  BY <1>1
<1>3. m - 1 \in T
  BY <1>1, <1>2
<1> QED
  BY <1>1, <1>2, <1>3

(* The greatest of some of the numbers up to k is one of them.             *)
LEMMA Greatest ==
    ASSUME NEW k \in Nat, NEW T \in SUBSET (0 .. k), T # {}
    PROVE  Max(T) \in T /\ \A n \in T : n <= Max(T)
<1> DEFINE D == {k - n : n \in T}
<1>1. D \in SUBSET Nat /\ D # {}
  OBVIOUS
<1>2. PICK d \in D : \A e \in D : d <= e
  BY <1>1, Least
<1>3. PICK x \in T : d = k - x
  OBVIOUS
<1>4. \A n \in T : k - n \in D
  OBVIOUS
<1>5. \A n \in T : x >= n
  BY <1>2, <1>3, <1>4
<1>6. \E y \in T : \A n \in T : y >= n
  BY <1>5
<1> HIDE DEF D
<1>7. Max(T) \in T /\ \A n \in T : Max(T) >= n
  BY <1>6, Zenon DEF Max
<1> QED
  BY <1>7

-----------------------------------------------------------------------------
(* Sums.                                                                   *)

\* f is the sums of the first i numbers of w, for every i up to k.
Sums(w, k, f) ==
    /\ f \in [0 .. k -> Nat] /\ f[0] = 0
    /\ \A i \in 1 .. k : f[i] = f[i - 1] + w[i]

LEMMA SumsExist ==
    ASSUME NEW w \in Seq(Nat)
    PROVE  \A k \in 0 .. Len(w) : \E f : Sums(w, k, f)
<1> DEFINE T == {k \in Nat : k <= Len(w) => \E f : Sums(w, k, f)}
<1>1. 0 \in T
  <2>1. Sums(w, 0, [i \in 0 .. 0 |-> 0])
    BY DEF Sums
  <2> QED
    BY <2>1
<1>2. ASSUME NEW k \in Nat, k \in T  PROVE k + 1 \in T
  <2> SUFFICES ASSUME k + 1 <= Len(w)  PROVE \E f : Sums(w, k + 1, f)
    OBVIOUS
  <2>1. PICK f : Sums(w, k, f)
    BY <1>2
  <2>2. w[k + 1] \in Nat
    OBVIOUS
  <2> DEFINE g == [i \in 0 .. k + 1 |-> IF i <= k THEN f[i] ELSE f[k] + w[k + 1]]
  <2>3. g \in [0 .. k + 1 -> Nat] /\ g[0] = 0
    BY <2>1, <2>2 DEF Sums
  <2>4. \A i \in 1 .. k : g[i] = g[i - 1] + w[i]
    BY <2>1 DEF Sums
  <2>5. g[k + 1] = g[k] + w[k + 1]
    OBVIOUS
  <2> HIDE DEF g
  <2>6. \A i \in 1 .. k + 1 : i \in 1 .. k \/ (i = k + 1 /\ i - 1 = k)
    OBVIOUS
  <2>7. \A i \in 1 .. k + 1 : g[i] = g[i - 1] + w[i]
    BY <2>4, <2>5, <2>6
  <2> QED
    BY <2>3, <2>7 DEF Sums
<1>3. Nat \subseteq T
  BY <1>1, <1>2, Induction
<1> QED
  BY <1>3

Prefixed(w, v, k) == \A i \in 1 .. k : w[i] = v[i]

LEMMA SumsUnique ==
    ASSUME NEW w, NEW v, NEW k \in Nat, Prefixed(w, v, k),
           NEW f, Sums(w, k, f), NEW g, Sums(v, k, g)
    PROVE  f[k] = g[k]
<1> DEFINE T == {i \in Nat : i <= k => f[i] = g[i]}
<1>1. 0 \in T
  BY DEF Sums
<1>2. ASSUME NEW i \in Nat, i \in T  PROVE i + 1 \in T
  BY <1>2 DEF Sums, Prefixed
<1>3. Nat \subseteq T
  BY <1>1, <1>2, Induction
<1> QED
  BY <1>3

(* What Total computes: the last of the sums.                              *)
LEMMA TotalIs ==
    ASSUME NEW w \in Seq(Nat)
    PROVE  \E f : Sums(w, Len(w), f) /\ Total(w) = f[Len(w)]
<1> DEFINE Eq(h) == h = [i \in 0 .. Len(w) |-> IF i = 0 THEN 0 ELSE h[i - 1] + w[i]]
           u == CHOOSE h : Eq(h)
<1>1. PICK f : Sums(w, Len(w), f)
  BY SumsExist
<1>2. Eq(f)
  BY <1>1 DEF Sums
<1>3. Eq(u)
  BY <1>2
<1>4. Total(w) = u[Len(w)]
  BY DEF Total
<1> HIDE DEF u
<1>5. Sums(w, Len(w), u)
  <2> DEFINE T == {i \in Nat : i <= Len(w) => u[i] = f[i]}
  <2>1. 0 \in T
    BY <1>1, <1>3 DEF Sums
  <2>2. ASSUME NEW i \in Nat, i \in T  PROVE i + 1 \in T
    <3> SUFFICES ASSUME i + 1 <= Len(w)  PROVE u[i + 1] = f[i + 1]
      OBVIOUS
    <3>1. u[i + 1] = u[i] + w[i + 1]
      BY <1>3
    <3> QED
      BY <1>1, <2>2, <3>1 DEF Sums
  <2>3. Nat \subseteq T
    BY <2>1, <2>2, Induction
  <2>4. u = f
    BY <1>1, <1>3, <2>3 DEF Sums
  <2> QED
    BY <1>1, <2>4
<1> QED
  BY <1>4, <1>5

(* The sum of no numbers, and of one number more.                          *)
LEMMA TotalAppend ==
    ASSUME NEW w \in Seq(Nat), NEW x \in Nat
    PROVE  /\ Total(<<>>) = 0 /\ Total(w) \in Nat
           /\ Total(Append(w, x)) = Total(w) + x
<1> DEFINE v == Append(w, x)
<1>1. v \in Seq(Nat) /\ Len(v) = Len(w) + 1 /\ v[Len(v)] = x
      /\ \A i \in 1 .. Len(w) : v[i] = w[i]
  OBVIOUS
<1> HIDE DEF v
<1>2. PICK f : Sums(w, Len(w), f) /\ Total(w) = f[Len(w)]
  BY TotalIs
<1>3. PICK g : Sums(v, Len(v), g) /\ Total(v) = g[Len(v)]
  BY <1>1, TotalIs
<1>4. g[Len(v)] = g[Len(w)] + x
  BY <1>1, <1>3 DEF Sums
<1> DEFINE h == [i \in 0 .. Len(w) |-> g[i]]
<1>5. Sums(v, Len(w), h) /\ h[Len(w)] = g[Len(w)]
  BY <1>1, <1>3 DEF Sums
<1> HIDE DEF h
<1>6. f[Len(w)] = h[Len(w)]
  <2>1. PICK k \in Nat : k = Len(w)
    OBVIOUS
  <2>2. Sums(w, k, f) /\ Sums(v, k, h) /\ Prefixed(w, v, k)
    BY <1>1, <1>2, <1>5, <2>1 DEF Prefixed
  <2>3. f[k] = h[k]
    BY ONLY k \in Nat, <2>2, SumsUnique
  <2> QED
    BY <2>1, <2>3
<1>7. Total(v) = Total(w) + x /\ Total(w) \in Nat
  BY <1>1, <1>2, <1>3, <1>4, <1>5, <1>6 DEF Sums
<1>8. Total(<<>>) = 0
  <2>1. <<>> \in Seq(Nat) /\ Len(<<>>) = 0
    OBVIOUS
  <2>2. PICK e : Sums(<<>>, Len(<<>>), e) /\ Total(<<>>) = e[Len(<<>>)]
    BY <2>1, TotalIs
  <2> QED
    BY <2>1, <2>2 DEF Sums
<1> QED
  BY <1>7, <1>8 DEF v

(* Numbers that are not 0 come to no less than there are of them.          *)
LEMMA TotalLength ==
    ASSUME NEW w \in Seq(Positive)
    PROVE  Total(w) \in Nat /\ Total(w) >= Len(w)
<1>1. w \in Seq(Nat)
  BY DEF Positive
<1>2. PICK f : Sums(w, Len(w), f) /\ Total(w) = f[Len(w)]
  BY <1>1, TotalIs
<1> DEFINE T == {i \in Nat : i <= Len(w) => f[i] >= i}
<1>3. 0 \in T
  BY <1>2 DEF Sums
<1>4. ASSUME NEW i \in Nat, i \in T  PROVE i + 1 \in T
  <2> SUFFICES ASSUME i + 1 <= Len(w)  PROVE f[i + 1] >= i + 1
    OBVIOUS
  <2>1. f[i + 1] = f[i] + w[i + 1] /\ f[i] \in Nat /\ w[i + 1] >= 1 /\ w[i + 1] \in Nat
    BY <1>2 DEF Sums, Positive
  <2> QED
    BY <1>4, <2>1
<1>5. Nat \subseteq T
  BY <1>3, <1>4, Induction
<1> QED
  BY <1>2, <1>5 DEF Sums

-----------------------------------------------------------------------------
(* The nodes above a node, and the product of a path.                      *)

\* Every node but the first is made after its parent.
Rooted(ns) ==
    /\ ns \in Seq(NodeRec) /\ Len(ns) >= 1 /\ ns[1].parent = 1
    /\ \A n \in 2 .. Len(ns) : ns[n].parent \in 1 .. n - 1

\* up is what Above computes, for the first k nodes of ns.
Ups(ns, k, up) ==
    up = [m \in 1 .. k |-> IF ns[m].parent = m THEN {m} ELSE {m} \cup up[ns[m].parent]]

LEMMA UpsExist ==
    ASSUME NEW ns, Rooted(ns)
    PROVE  \A k \in 0 .. Len(ns) : \E up : Ups(ns, k, up)
<1> DEFINE T == {k \in Nat : k <= Len(ns) => \E up : Ups(ns, k, up)}
<1>1. 0 \in T
  <2>1. Ups(ns, 0, [m \in 1 .. 0 |-> {m}])
    BY DEF Ups
  <2> QED
    BY <2>1
<1>2. ASSUME NEW k \in Nat, k \in T  PROVE k + 1 \in T
  <2> SUFFICES ASSUME k + 1 <= Len(ns)  PROVE \E up : Ups(ns, k + 1, up)
    OBVIOUS
  <2>1. PICK f : Ups(ns, k, f)
    BY <1>2
  <2> DEFINE p == ns[k + 1].parent
             g == [m \in 1 .. k + 1 |->
                      IF m <= k THEN f[m] ELSE IF p = m THEN {m} ELSE {m} \cup f[p]]
  <2>2. \A m \in 1 .. k : ns[m].parent \in 1 .. k /\ g[m] = f[m]
    BY DEF Rooted
  <2>3. p = k + 1 \/ p \in 1 .. k
    BY DEF Rooted
  <2>4. \A m \in 1 .. k :
           f[m] = IF ns[m].parent = m THEN {m} ELSE {m} \cup f[ns[m].parent]
    BY <2>1 DEF Ups
  <2>5. \A m \in 1 .. k + 1 :
           g[m] = IF ns[m].parent = m THEN {m} ELSE {m} \cup g[ns[m].parent]
    <3> TAKE m \in 1 .. k + 1
    <3>1. CASE m \in 1 .. k
      BY <2>2, <2>4, <3>1
    <3>2. CASE m = k + 1
      <4>1. g[k + 1] = IF p = k + 1 THEN {k + 1} ELSE {k + 1} \cup f[p]
        OBVIOUS
      <4>2. p # k + 1 => f[p] = g[p]
        BY <2>3
      <4> QED
        BY <3>2, <4>1, <4>2
    <3> QED
      BY <3>1, <3>2
  <2>6. g = [m \in 1 .. k + 1 |-> g[m]]
    OBVIOUS
  <2> HIDE DEF g
  <2>7. Ups(ns, k + 1, g)
    BY <2>5, <2>6 DEF Ups
  <2> QED
    BY <2>7
<1>3. Nat \subseteq T
  BY <1>1, <1>2, Induction
<1> QED
  BY <1>3

(* What Above computes, one node up.                                       *)
LEMMA AboveStep ==
    ASSUME NEW ns, Rooted(ns), NEW n \in 1 .. Len(ns)
    PROVE  Above(ns, n) = IF ns[n].parent = n THEN {n}
                          ELSE {n} \cup Above(ns, ns[n].parent)
<1> DEFINE Eq(h) == h = [m \in DOMAIN ns |-> IF ns[m].parent = m THEN {m}
                                             ELSE {m} \cup h[ns[m].parent]]
           u == CHOOSE h : Eq(h)
<1>1. DOMAIN ns = 1 .. Len(ns) /\ Len(ns) \in 0 .. Len(ns)
  BY DEF Rooted
<1>2. PICK f : Ups(ns, Len(ns), f)
  BY <1>1, UpsExist
<1>3. Eq(f)
  BY <1>1, <1>2 DEF Ups
<1>4. Eq(u)
  BY <1>3
<1>5. \A m : Above(ns, m) = u[m]
  BY DEF Above
<1> HIDE DEF u
<1>6. u[n] = IF ns[n].parent = n THEN {n} ELSE {n} \cup u[ns[n].parent]
  BY <1>1, <1>4
<1> QED
  BY <1>5, <1>6

\* The shape of the way up from n.
WayUp(ns, n) ==
    /\ n \in Above(ns, n) /\ 1 \in Above(ns, n) /\ Above(ns, n) \subseteq 1 .. n
    /\ \A m \in Above(ns, n) : Above(ns, m) = {x \in Above(ns, n) : x <= m}

(* The nodes above a node are no younger, and those above one of them are  *)
(* the older ones among them.                                              *)
LEMMA AboveShape ==
    ASSUME NEW ns, Rooted(ns)
    PROVE  \A n \in 1 .. Len(ns) : WayUp(ns, n)
<1> DEFINE T == {k \in Nat : \A n \in 1 .. k : n <= Len(ns) => WayUp(ns, n)}
<1>1. 0 \in T
  OBVIOUS
<1>2. ASSUME NEW k \in Nat, k \in T  PROVE k + 1 \in T
  <2> SUFFICES ASSUME k + 1 <= Len(ns)  PROVE WayUp(ns, k + 1)
    BY <1>2
  <2> DEFINE n == k + 1
             p == ns[n].parent
  <2>1. n \in 1 .. Len(ns) /\ (p = n => n = 1) /\ (p # n => p \in 1 .. k)
    BY DEF Rooted
  <2>2. CASE p = n
    <3>1. Above(ns, n) = {n} /\ n = 1
      BY <2>1, <2>2, AboveStep
    <3>2. WayUp(ns, 1)
      <4>1. Above(ns, 1) = {1} /\ 1 .. 1 = {1}
        BY <3>1
      <4> QED
        BY <4>1 DEF WayUp
    <3> QED
      BY <3>1, <3>2
  <2>3. CASE p # n
    <3>1. Above(ns, n) = {n} \cup Above(ns, p)
      BY <2>1, <2>3, AboveStep
    <3>2. WayUp(ns, p)
      <4>1. p \in 1 .. k /\ p <= Len(ns)
        BY <2>1, <2>3
      <4> QED
        BY <1>2, <4>1
    <3>3. \A m \in Above(ns, n) : Above(ns, m) = {x \in Above(ns, n) : x <= m}
      <4> TAKE m \in Above(ns, n)
      <4>1. CASE m = n
        BY <2>1, <2>3, <3>1, <3>2, <4>1 DEF WayUp
      <4>2. CASE m \in Above(ns, p)
        <5>1. Above(ns, m) = {x \in Above(ns, p) : x <= m} /\ m \in 1 .. p
          BY <3>2, <4>2 DEF WayUp
        <5> QED
          BY <2>1, <2>3, <3>1, <5>1
      <4> QED
        BY <3>1, <4>1, <4>2
    <3> QED
      BY <2>1, <2>3, <3>1, <3>2, <3>3 DEF WayUp
  <2> QED
    BY <2>2, <2>3
<1>3. Nat \subseteq T
  BY <1>1, <1>2, Induction
<1> QED
  <2> TAKE n \in 1 .. Len(ns)
  <2>1. n \in T
    BY <1>3
  <2> QED
    BY <2>1

(* The nodes above a node depend on no node made after it.                 *)
LEMMA AboveAgree ==
    ASSUME NEW ns, NEW ms, Rooted(ns), Rooted(ms), NEW k \in Nat,
           k <= Len(ns), k <= Len(ms), \A n \in 1 .. k : ns[n].parent = ms[n].parent
    PROVE  \A n \in 1 .. k : Above(ns, n) = Above(ms, n)
<1> DEFINE T == {j \in Nat : \A n \in 1 .. j : n <= k => Above(ns, n) = Above(ms, n)}
<1>1. 0 \in T
  OBVIOUS
<1>2. ASSUME NEW j \in Nat, j \in T  PROVE j + 1 \in T
  <2> SUFFICES ASSUME j + 1 <= k  PROVE Above(ns, j + 1) = Above(ms, j + 1)
    BY <1>2
  <2> DEFINE p == ns[j + 1].parent
  <2>1. j + 1 \in 1 .. Len(ns) /\ j + 1 \in 1 .. Len(ms) /\ p = ms[j + 1].parent
    OBVIOUS
  <2>2. p = j + 1 \/ p \in 1 .. j
    BY <2>1 DEF Rooted
  <2>3. p \in 1 .. j => Above(ns, p) = Above(ms, p)
    BY <1>2
  <2>4. Above(ns, j + 1) = IF p = j + 1 THEN {j + 1} ELSE {j + 1} \cup Above(ns, p)
    BY <2>1, AboveStep
  <2>5. Above(ms, j + 1) = IF p = j + 1 THEN {j + 1} ELSE {j + 1} \cup Above(ms, p)
    <3>1. PICK q : q = ms[j + 1].parent
      OBVIOUS
    <3>2. Above(ms, j + 1) = IF q = j + 1 THEN {j + 1} ELSE {j + 1} \cup Above(ms, q)
      BY <2>1, <3>1, AboveStep
    <3> QED
      BY <2>1, <3>1, <3>2
  <2> QED
    BY <2>2, <2>3, <2>4, <2>5
<1>3. Nat \subseteq T
  BY <1>1, <1>2, Induction
<1> QED
  <2> TAKE n \in 1 .. k
  <2>1. n \in T
    BY <1>3
  <2> QED
    BY <2>1

LEMMA ModifiersPositive == Modifiers \subseteq Positive
BY SizesAssumption DEF Modifiers, Positive

LEMMA Times ==
    ASSUME NEW x \in Positive, NEW y \in Positive
    PROVE  x * y \in Positive /\ y * x \in Positive
BY DEF Positive

(* What was multiplied is divided out again.                               *)
LEMMA Undone ==
    ASSUME NEW x \in Positive, NEW y \in Positive
    PROVE  (y * x) \div y = x
BY DEF Positive

\* down is what ProductOf computes, for the first k nodes of ns.
Downs(ns, type, k, down) ==
    /\ down \in [1 .. k -> Positive]
    /\ \A m \in 1 .. k :
          down[m] = Factor(ns, type, m)
                      * IF ns[m].parent = m THEN 1 ELSE down[ns[m].parent]

LEMMA FactorPositive ==
    ASSUME NEW ns \in Seq(NodeRec), NEW type, NEW n \in 1 .. Len(ns)
    PROVE  Factor(ns, type, n) \in Positive
<1>1. ns[n] \in NodeRec
  OBVIOUS
<1>2. ns[n].modifier \in Positive
  BY <1>1, ModifiersPositive DEF NodeRec
<1> QED
  BY <1>2 DEF Factor, Positive

LEMMA DownsExist ==
    ASSUME NEW ns, Rooted(ns), NEW type
    PROVE  \A k \in 0 .. Len(ns) : \E down : Downs(ns, type, k, down)
<1> DEFINE T == {k \in Nat : k <= Len(ns) => \E down : Downs(ns, type, k, down)}
<1>1. 0 \in T
  <2>1. Downs(ns, type, 0, [m \in 1 .. 0 |-> 1])
    BY DEF Downs
  <2> QED
    BY <2>1
<1>2. ASSUME NEW k \in Nat, k \in T  PROVE k + 1 \in T
  <2> SUFFICES ASSUME k + 1 <= Len(ns)  PROVE \E down : Downs(ns, type, k + 1, down)
    OBVIOUS
  <2>1. PICK f : Downs(ns, type, k, f)
    BY <1>2
  <2> DEFINE p == ns[k + 1].parent
             o == IF p = k + 1 THEN 1 ELSE f[p]
             x == Factor(ns, type, k + 1) * o
             g == [m \in 1 .. k + 1 |-> IF m <= k THEN f[m] ELSE x]
  <2>2. \A m \in 1 .. k : ns[m].parent \in 1 .. k /\ g[m] = f[m]
    BY DEF Rooted
  <2>3. p = k + 1 \/ p \in 1 .. k
    BY DEF Rooted
  <2>4. x \in Positive
    <3>1. o \in Positive
      BY <2>1, <2>3 DEF Downs, Positive
    <3>2. Factor(ns, type, k + 1) \in Positive
      BY FactorPositive DEF Rooted
    <3> HIDE DEF o
    <3> QED
      BY <3>1, <3>2, Times
  <2>5. g[k + 1] = x /\ (p # k + 1 => g[p] = f[p])
    BY <2>2, <2>3
  <2> HIDE DEF x
  <2>6. g \in [1 .. k + 1 -> Positive]
    BY <2>1, <2>4 DEF Downs
  <2> HIDE DEF g
  <2>7. \A m \in 1 .. k :
           g[m] = Factor(ns, type, m)
                      * IF ns[m].parent = m THEN 1 ELSE g[ns[m].parent]
    BY <2>1, <2>2 DEF Downs
  <2>8. g[k + 1] = Factor(ns, type, k + 1)
                      * IF ns[k + 1].parent = k + 1 THEN 1 ELSE g[ns[k + 1].parent]
    BY <2>5 DEF x
  <2>9. \A m \in 1 .. k + 1 : m \in 1 .. k \/ m = k + 1
    OBVIOUS
  <2>10. Downs(ns, type, k + 1, g)
    BY <2>6, <2>7, <2>8, <2>9 DEF Downs
  <2> QED
    BY <2>10
<1>3. Nat \subseteq T
  BY <1>1, <1>2, Induction
<1> QED
  BY <1>3

(* The product of a path, one node up.                                     *)
LEMMA ProductStep ==
    ASSUME NEW ns, Rooted(ns), NEW type, NEW n \in 1 .. Len(ns)
    PROVE  /\ ProductOf(ns, type, n) = Factor(ns, type, n) * Over(ns, type, n)
           /\ ProductOf(ns, type, n) \in Positive /\ Over(ns, type, n) \in Positive
<1> DEFINE Eq(h) == h = [m \in DOMAIN ns |-> Factor(ns, type, m)
                           * IF ns[m].parent = m THEN 1 ELSE h[ns[m].parent]]
           u == CHOOSE h : Eq(h)
<1>1. DOMAIN ns = 1 .. Len(ns) /\ Len(ns) \in 0 .. Len(ns)
  BY DEF Rooted
<1>2. PICK f : Downs(ns, type, Len(ns), f)
  BY <1>1, DownsExist
<1>3. f = [m \in 1 .. Len(ns) |-> f[m]]
  BY <1>2 DEF Downs
<1>4. Eq(f)
  BY <1>1, <1>2, <1>3 DEF Downs
<1>5. Eq(u)
  BY <1>4
<1>6. \A m : ProductOf(ns, type, m) = u[m]
  BY DEF ProductOf
<1> HIDE DEF u
<1>7. \A m \in 1 .. Len(ns) :
         u[m] = Factor(ns, type, m) * IF ns[m].parent = m THEN 1 ELSE u[ns[m].parent]
  BY <1>1, <1>5
<1>8. \A m \in 1 .. Len(ns) : ns[m].parent = m \/ ns[m].parent \in 1 .. m - 1
  BY DEF Rooted
<1>9. \A m \in 1 .. Len(ns) : u[m] \in Positive
  <2> DEFINE T == {k \in Nat : \A m \in 1 .. k : m <= Len(ns) => u[m] \in Positive}
  <2>1. 0 \in T
    OBVIOUS
  <2>2. ASSUME NEW k \in Nat, k \in T  PROVE k + 1 \in T
    <3> SUFFICES ASSUME k + 1 <= Len(ns)  PROVE u[k + 1] \in Positive
      BY <2>2
    <3> DEFINE o == IF ns[k + 1].parent = k + 1 THEN 1 ELSE u[ns[k + 1].parent]
    <3>1. o \in Positive
      BY <1>8, <2>2 DEF Positive
    <3>2. Factor(ns, type, k + 1) \in Positive
      BY FactorPositive DEF Rooted
    <3>3. u[k + 1] = Factor(ns, type, k + 1) * o
      BY <1>7
    <3> HIDE DEF o
    <3> QED
      BY <3>1, <3>2, <3>3, Times
  <2>3. Nat \subseteq T
    BY <2>1, <2>2, Induction
  <2> QED
    <3> TAKE m \in 1 .. Len(ns)
    <3>1. m \in T
      BY <2>3
    <3> QED
      BY <3>1
<1>10. Over(ns, type, n) = IF ns[n].parent = n THEN 1 ELSE u[ns[n].parent]
  BY <1>6 DEF Over
<1>11. Over(ns, type, n) \in Positive
  BY <1>8, <1>9, <1>10 DEF Positive
<1> QED
  BY <1>6, <1>7, <1>9, <1>10, <1>11

\* The same trees, but for what has no part in a product.
SameProducts(ns, ms) ==
    /\ Len(ns) <= Len(ms)
    /\ \A n \in 1 .. Len(ns) :
          /\ ns[n].parent = ms[n].parent /\ ns[n].type = ms[n].type
          /\ ns[n].meta = ms[n].meta /\ ns[n].modifier = ms[n].modifier

LEMMA ProductAgree ==
    ASSUME NEW ns, NEW ms, Rooted(ns), Rooted(ms), SameProducts(ns, ms), NEW type
    PROVE  \A n \in 1 .. Len(ns) : /\ ProductOf(ns, type, n) = ProductOf(ms, type, n)
                                   /\ Over(ns, type, n) = Over(ms, type, n)
<1> DEFINE Same(n) == /\ ProductOf(ns, type, n) = ProductOf(ms, type, n)
                      /\ Over(ns, type, n) = Over(ms, type, n)
           T == {j \in Nat : \A n \in 1 .. j : n <= Len(ns) => Same(n)}
<1>1. 0 \in T
  OBVIOUS
<1>2. ASSUME NEW j \in Nat, j \in T  PROVE j + 1 \in T
  <2> SUFFICES ASSUME j + 1 <= Len(ns)  PROVE Same(j + 1)
    BY <1>2
  <2> DEFINE p == ns[j + 1].parent
  <2>1. j + 1 \in 1 .. Len(ns) /\ j + 1 \in 1 .. Len(ms) /\ p = ms[j + 1].parent
    BY DEF SameProducts, Rooted
  <2>2. p = j + 1 \/ p \in 1 .. j
    BY <2>1 DEF Rooted
  <2>3. p \in 1 .. j => ProductOf(ns, type, p) = ProductOf(ms, type, p)
    <3> SUFFICES ASSUME p \in 1 .. j
                 PROVE  ProductOf(ns, type, p) = ProductOf(ms, type, p)
      OBVIOUS
    <3>1. p <= Len(ns)
      BY <2>1 DEF Rooted
    <3> QED
      BY <1>2, <3>1
  <2>4. Over(ns, type, j + 1) = Over(ms, type, j + 1)
    BY <2>1, <2>2, <2>3 DEF Over
  <2>5. Factor(ns, type, j + 1) = Factor(ms, type, j + 1)
    BY <2>1 DEF Factor, SameProducts
  <2> QED
    BY <2>1, <2>4, <2>5, ProductStep
<1>3. Nat \subseteq T
  BY <1>1, <1>2, Induction
<1> QED
  <2> TAKE n \in 1 .. Len(ns)
  <2>1. n \in Nat /\ n \in 1 .. n /\ n <= Len(ns)
    BY DEF Rooted
  <2>2. n \in T
    BY <1>3, <2>1
  <2> QED
    BY <2>1, <2>2

-----------------------------------------------------------------------------
(* How many ramps the children of a node take up.                          *)

LEMMA TreeRooted ==
    ASSUME NEW ns \in Seq(NodeRec), NEW len, Tree(ns, len)
    PROVE  Rooted(ns)
BY DEF Tree, Linked, Rooted

LEMMA RampsPositive ==
    ASSUME NEW node \in NodeRec
    PROVE  Ramps(node) \in Positive
<1>1. node.modifier \in Positive
  BY ModifiersPositive DEF NodeRec
<1> QED
  BY <1>1 DEF Ramps, Positive

\* What NodeCount sums up.
Widths(ns, n) == [i \in 1 .. Len(ns[n].children) |-> Ramps(ns[ns[n].children[i]])]
KidsIn(ns, n) ==
    /\ ns[n].children \in Seq(Nat)
    /\ \A i \in 1 .. Len(ns[n].children) : ns[n].children[i] \in 1 .. Len(ns)

LEMMA WidthsPositive ==
    ASSUME NEW ns \in Seq(NodeRec), NEW n, KidsIn(ns, n)
    PROVE  /\ Widths(ns, n) \in Seq(Positive)
           /\ Len(Widths(ns, n)) = Len(ns[n].children)
           /\ NodeCount(ns, n) = Total(Widths(ns, n))
<1>1. \A i \in 1 .. Len(ns[n].children) : Ramps(ns[ns[n].children[i]]) \in Positive
  BY RampsPositive DEF KidsIn
<1>2. Len(ns[n].children) \in Nat
  BY DEF KidsIn
<1>3. Widths(ns, n) \in [1 .. Len(ns[n].children) -> Positive]
  BY <1>1 DEF Widths
<1> QED
  BY <1>2, <1>3 DEF NodeCount, Widths

(* Every child takes up a ramp at least.                                   *)
LEMMA CountLength ==
    ASSUME NEW ns \in Seq(NodeRec), NEW n, KidsIn(ns, n)
    PROVE  /\ NodeCount(ns, n) \in Nat /\ NodeCount(ns, n) >= Len(ns[n].children)
           /\ ns[n].children = <<>> => NodeCount(ns, n) = 0
<1>1. NodeCount(ns, n) \in Nat /\ NodeCount(ns, n) >= Len(ns[n].children)
  BY WidthsPositive, TotalLength
<1>2. ASSUME ns[n].children = <<>>  PROVE NodeCount(ns, n) = 0
  <2>1. Widths(ns, n) \in Seq(Positive) /\ Len(Widths(ns, n)) = 0
    BY <1>2, WidthsPositive
  <2>2. Widths(ns, n) = <<>>
    BY <2>1
  <2>3. 0 \in Nat /\ <<>> \in Seq(Nat)
    OBVIOUS
  <2>4. Total(<<>>) = 0
    BY <2>3, TotalAppend
  <2> QED
    BY <2>2, <2>4, WidthsPositive
<1> QED
  BY <1>1, <1>2

(* A polyramp as the only child takes up one.                              *)
LEMMA CountOne ==
    ASSUME NEW ns \in Seq(NodeRec), NEW n, KidsIn(ns, n),
           Len(ns[n].children) = 1, ns[ns[n].children[1]].type = "poly"
    PROVE  NodeCount(ns, n) = 1
<1>1. Widths(ns, n) \in Seq(Positive) /\ Len(Widths(ns, n)) = 1
  BY WidthsPositive
<1>2. Widths(ns, n)[1] = 1
  BY DEF Widths, Ramps
<1>3. Widths(ns, n) = Append(<<>>, 1)
  BY <1>1, <1>2
<1>4. PICK e : e = <<>>
  OBVIOUS
<1>5. e \in Seq(Nat) /\ 1 \in Nat
  BY <1>4
<1>6. Total(Append(e, 1)) = Total(e) + 1 /\ Total(<<>>) = 0
  BY <1>5, TotalAppend
<1> QED
  BY <1>3, <1>4, <1>6, WidthsPositive

\* The nodes of ns are still there in ms, as what they were and where.
Skeleton(ns, ms) ==
    /\ Len(ns) <= Len(ms)
    /\ \A m \in 1 .. Len(ns) :
          /\ ms[m].type = ns[m].type /\ ms[m].modifier = ns[m].modifier
          /\ ms[m].parent = ns[m].parent

SameHold(ns, ms, n) ==
    /\ ms[n].children = ns[n].children /\ ms[n].target = ns[n].target
    /\ ms[n].meta = ns[n].meta

(* The count changes with the children only.                               *)
LEMMA CountAgree ==
    ASSUME NEW ns \in Seq(NodeRec), NEW ms \in Seq(NodeRec), NEW n, KidsIn(ns, n),
           Skeleton(ns, ms), ms[n].children = ns[n].children
    PROVE  NodeCount(ms, n) = NodeCount(ns, n)
<1>1. \A m \in 1 .. Len(ns) : Ramps(ms[m]) = Ramps(ns[m])
  BY DEF Skeleton, Ramps
<1>2. Widths(ms, n) = Widths(ns, n)
  BY <1>1 DEF Widths, KidsIn
<1>3. KidsIn(ms, n)
  BY DEF KidsIn, Skeleton
<1> QED
  BY <1>2, <1>3, WidthsPositive

(* A new child takes up its ramps.                                         *)
LEMMA CountAppend ==
    ASSUME NEW ns \in Seq(NodeRec), NEW ms \in Seq(NodeRec), NEW n, KidsIn(ns, n),
           Skeleton(ns, ms), NEW c \in 1 .. Len(ms),
           ms[n].children = Append(ns[n].children, c)
    PROVE  NodeCount(ms, n) = NodeCount(ns, n) + Ramps(ms[c])
<1>1. \A m \in 1 .. Len(ns) : Ramps(ms[m]) = Ramps(ns[m])
  BY DEF Skeleton, Ramps
<1>2. KidsIn(ms, n) /\ Len(ms[n].children) = Len(ns[n].children) + 1
  BY DEF KidsIn, Skeleton
<1> DEFINE w == Widths(ns, n)
           v == Widths(ms, n)
           x == Ramps(ms[c])
<1>3. /\ w \in Seq(Positive) /\ v \in Seq(Positive)
      /\ Len(w) = Len(ns[n].children) /\ Len(v) = Len(w) + 1
  BY <1>2, WidthsPositive
<1>4. \A i \in 1 .. Len(w) : v[i] = w[i]
  BY <1>1, <1>2, <1>3 DEF Widths, KidsIn
<1>5. v[Len(w) + 1] = x
  <2>1. PICK k : k = Len(ms[n].children)
    OBVIOUS
  <2>2. k \in 1 .. k /\ k = Len(w) + 1 /\ ms[n].children[k] = c
    BY <1>2, <1>3, <2>1 DEF KidsIn
  <2> QED
    BY <2>1, <2>2 DEF Widths
<1>6. x \in Positive
  BY RampsPositive
<1>7. NodeCount(ns, n) = Total(w) /\ NodeCount(ms, n) = Total(v)
  BY <1>2, WidthsPositive
<1> HIDE DEF w, v, x
<1>8. w \in Seq(Nat) /\ x \in Nat
  BY <1>3, <1>6 DEF Positive
<1>9. v = Append(w, x)
  <2>1. Append(w, x) \in Seq(Nat) /\ Len(Append(w, x)) = Len(w) + 1
    BY <1>8
  <2>2. \A i \in 1 .. Len(w) + 1 : v[i] = Append(w, x)[i]
    BY <1>4, <1>5, <1>8
  <2>3. v \in Seq(Nat)
    BY <1>3 DEF Positive
  <2> QED
    BY <1>3, <2>1, <2>2, <2>3, SeqEqual
<1>10. Total(Append(w, x)) = Total(w) + x
  BY <1>8, TotalAppend
<1> QED
  BY <1>7, <1>9, <1>10 DEF x

-----------------------------------------------------------------------------
(* Trees that grow.                                                        *)

\* What a record of a node is.
Formed(m) ==
    /\ m.type = "poly" \/ m.type = "mono"
    /\ m.modifier \in Nat /\ m.modifier >= 1 /\ m.parent \in Nat
    /\ m.children \in Seq(Nat) /\ Len(m.children) \in Nat
    /\ m.meta \in Seq(Nat) /\ Len(m.meta) \in Nat
    /\ m.target \in Nat /\ m.pos \in Nat

LEMMA NodeFormed ==
    ASSUME NEW m \in NodeRec
    PROVE  Formed(m)
<1>1. m.modifier \in Positive
  BY ModifiersPositive DEF NodeRec
<1>2. m.children \in Seq(Nat) /\ m.meta \in Seq(Nat)
  BY DEF NodeRec
<1>3. Len(m.children) \in Nat /\ Len(m.meta) \in Nat
  BY <1>2
<1>4. m.type \in {"poly", "mono"} /\ m.parent \in Nat /\ m.target \in Nat /\ m.pos \in Nat
  BY DEF NodeRec
<1> QED
  BY <1>1, <1>2, <1>3, <1>4 DEF Formed, Positive

LEMMA TreeKids ==
    ASSUME NEW ns \in Seq(NodeRec), NEW len, Tree(ns, len), NEW n \in 1 .. Len(ns)
    PROVE  /\ KidsIn(ns, n) /\ ns[n] \in NodeRec /\ Formed(ns[n])
           /\ Linked(ns, len, n) /\ Shaped(ns, n)
<1>1. ns[n] \in NodeRec /\ Linked(ns, len, n) /\ Shaped(ns, n)
  BY DEF Tree
<1>2. ns[n].children \in Seq(Nat)
  BY <1>1 DEF NodeRec
<1> QED
  BY <1>1, <1>2, NodeFormed DEF Linked, KidsIn

\* n is in ms what it was in ns.
Kept(ns, ms, len, n) ==
    /\ Linked(ms, len, n) /\ Shaped(ms, n)
    /\ NodeCount(ms, n) = NodeCount(ns, n)
    /\ WholeIn(ms, n) <=> WholeIn(ns, n)
    /\ Bare(ms, n) <=> Bare(ns, n)
    /\ Ready(ms, n) <=> Ready(ns, n)

(* A node that holds what it held is what it was, whatever happens to the  *)
(* nodes it holds.                                                         *)
LEMMA Keeping ==
    ASSUME NEW ns \in Seq(NodeRec), NEW ms \in Seq(NodeRec), NEW len \in Nat,
           NEW more \in Nat, len <= more, Tree(ns, len), Skeleton(ns, ms),
           NEW n \in 1 .. Len(ns), SameHold(ns, ms, n), ms[n].pos <= Len(ms[n].meta)
    PROVE  Kept(ns, ms, more, n)
<1>1. KidsIn(ns, n) /\ Linked(ns, len, n) /\ Shaped(ns, n) /\ Formed(ns[n])
  BY TreeKids
<1>2. NodeCount(ms, n) = NodeCount(ns, n)
  BY <1>1, CountAgree DEF SameHold
<1>3. n \in Nat /\ Len(ns) \in Nat /\ Len(ms) \in Nat /\ ns[n] \in NodeRec
      /\ ms[n] \in NodeRec /\ n \in 1 .. Len(ms)
  BY DEF Skeleton
<1>4. /\ ms[n].type = ns[n].type /\ ms[n].modifier = ns[n].modifier
      /\ ms[n].parent = ns[n].parent
      /\ ms[n].children = ns[n].children /\ ms[n].target = ns[n].target
      /\ ms[n].meta = ns[n].meta
  BY DEF Skeleton, SameHold
<1>5. Linked(ms, more, n)
  <2>1. \A i \in 1 .. Len(ns[n].children) :
           /\ ns[n].children[i] \in 2 .. Len(ms)
           /\ ms[ns[n].children[i]].parent = n
    <3> TAKE i \in 1 .. Len(ns[n].children)
    <3>1. PICK d : d = ns[n].children[i]
      OBVIOUS
    <3>2. d \in 2 .. Len(ns) /\ ns[d].parent = n
      BY <1>1, <3>1 DEF Linked
    <3>3. d \in 2 .. Len(ms) /\ ms[d].parent = n
      BY <1>3, <3>2 DEF Skeleton
    <3> QED
      BY <3>1, <3>3
  <2>2. n + Len(ns[n].meta) <= Len(ns) /\ Len(ns[n].meta) \in Nat
    BY <1>1 DEF Linked, Formed
  <2>3. \A i \in 1 .. Len(ns[n].meta) :
           ns[n].meta[i] = n + i /\ ms[n + i].parent = n
    <3> TAKE i \in 1 .. Len(ns[n].meta)
    <3>1. n + i \in 1 .. Len(ns)
      BY <1>3, <2>2
    <3> QED
      BY <1>1, <3>1 DEF Linked, Skeleton
  <2>4. ns[n].target <= more /\ (n # 1 => ns[n].parent \in 1 .. n - 1)
    <3>1. ns[n].target <= len /\ ns[n].target \in Nat
      BY <1>1, <1>3 DEF Linked, NodeRec
    <3> QED
      BY <1>1, <3>1 DEF Linked
  <2>5. n + Len(ns[n].meta) <= Len(ms)
    BY <1>3, <2>2 DEF Skeleton
  <2> QED
    BY <1>4, <2>1, <2>3, <2>4, <2>5 DEF Linked
<1>6. Shaped(ms, n)
  <2>1. ASSUME ns[n].type = "mono", ns[n].children # <<>>
        PROVE  Len(ns[n].children) = 1 /\ ms[ns[n].children[1]].type = "poly"
    <3>1. Len(ns[n].children) = 1 /\ ns[ns[n].children[1]].type = "poly"
      BY <1>1, <2>1 DEF Shaped
    <3>2. ns[n].children[1] \in 1 .. Len(ns)
      BY <1>1, <3>1 DEF KidsIn
    <3> QED
      BY <3>1, <3>2 DEF Skeleton
  <2> QED
    BY <1>1, <1>2, <1>4, <2>1 DEF Shaped
<1>7. /\ WholeIn(ms, n) <=> WholeIn(ns, n)
      /\ Bare(ms, n) <=> Bare(ns, n)
      /\ Ready(ms, n) <=> Ready(ns, n)
  BY <1>2, <1>4 DEF WholeIn, Bare, Ready
<1> QED
  BY <1>2, <1>5, <1>6, <1>7 DEF Kept

\* A new node c, the last child of cur; what else ms has is behind it.
Grafted(ns, ms, cur, c) ==
    /\ Skeleton(ns, ms) /\ c = Len(ns) + 1 /\ c <= Len(ms)
    /\ \A n \in 1 .. Len(ns) : n # cur => ms[n] = ns[n]
    /\ ms[cur] = [ns[cur] EXCEPT !.children = Append(@, c)]
    /\ ms[c].parent = cur
    /\ IF ns[cur].type = "poly"
       THEN NodeCount(ns, cur) + Ramps(ms[c]) <= ns[cur].modifier
       ELSE ms[c].type = "poly"

(* cur has a child more: a polyramp is not too full, a monoramp is whole,  *)
(* and no other node has changed.                                          *)
LEMMA Grafting ==
    ASSUME NEW ns \in Seq(NodeRec), NEW ms \in Seq(NodeRec), NEW len \in Nat,
           NEW more \in Nat, len <= more, Tree(ns, len), NEW cur \in 1 .. Len(ns),
           Ready(ns, cur), NEW c, Grafted(ns, ms, cur, c)
    PROVE  /\ \A n \in 1 .. Len(ns) : n # cur => Kept(ns, ms, more, n)
           /\ Linked(ms, more, cur) /\ Shaped(ms, cur)
           /\ ms[cur].type = "mono" => WholeIn(ms, cur)
<1>1. ASSUME NEW n \in 1 .. Len(ns), n # cur  PROVE Kept(ns, ms, more, n)
  <2>1. ms[n] = ns[n] /\ Skeleton(ns, ms)
    BY <1>1 DEF Grafted
  <2>2. SameHold(ns, ms, n)
    BY <2>1 DEF SameHold
  <2>3. ms[n].pos <= Len(ms[n].meta)
    BY <2>1, TreeKids DEF Shaped
  <2> QED
    BY <2>1, <2>2, <2>3, Keeping
<1>2. /\ KidsIn(ns, cur) /\ ns[cur] \in NodeRec /\ Linked(ns, len, cur)
      /\ Shaped(ns, cur) /\ Formed(ns[cur])
  BY TreeKids
<1>3. Skeleton(ns, ms) /\ c \in 1 .. Len(ms) /\ c \in 2 .. Len(ms) /\ c = Len(ns) + 1
  BY DEF Grafted
<1>4. /\ ms[cur].children = Append(ns[cur].children, c)
      /\ ms[cur].type = ns[cur].type /\ ms[cur].modifier = ns[cur].modifier
      /\ ms[cur].parent = ns[cur].parent /\ ms[cur].target = 0
      /\ ms[cur].meta = <<>> /\ ms[cur].pos = ns[cur].pos
  BY <1>2 DEF Grafted, NodeRec, Ready
<1>5. NodeCount(ms, cur) = NodeCount(ns, cur) + Ramps(ms[c])
  BY <1>2, <1>3, <1>4, CountAppend
<1> DEFINE kids == ns[cur].children
<1>6. kids \in Seq(Nat) /\ Len(kids) \in Nat /\ c \in Nat
  BY <1>2, <1>3 DEF Formed
<1>7. /\ Len(Append(kids, c)) = Len(kids) + 1
      /\ \A i \in 1 .. Len(kids) + 1 :
            Append(kids, c)[i] = IF i \in 1 .. Len(kids) THEN kids[i] ELSE c
  BY <1>6
<1>8. \A i \in 1 .. Len(kids) :
         kids[i] \in 2 .. Len(ms) /\ ms[kids[i]].parent = cur
  <2> TAKE i \in 1 .. Len(kids)
  <2>1. PICK d : d = kids[i]
    OBVIOUS
  <2>2. d \in 2 .. Len(ns) /\ ns[d].parent = cur
    BY <1>2, <2>1 DEF Linked
  <2>3. d \in 2 .. Len(ms) /\ ms[d].parent = cur
    BY <1>3, <2>2 DEF Skeleton
  <2> QED
    BY <2>1, <2>3
<1>9. Linked(ms, more, cur)
  <2>1. \A i \in 1 .. Len(ms[cur].children) :
           /\ ms[cur].children[i] \in 2 .. Len(ms)
           /\ ms[ms[cur].children[i]].parent = cur
    BY <1>3, <1>4, <1>7, <1>8 DEF Grafted
  <2>2. cur # 1 => ms[cur].parent \in 1 .. cur - 1
    BY <1>2, <1>4 DEF Linked
  <2>3. cur + Len(ms[cur].meta) <= Len(ms) /\ ms[cur].target <= more
        /\ Len(ms[cur].meta) = 0
    BY <1>3, <1>4
  <2> QED
    BY <1>4, <2>1, <2>2, <2>3 DEF Linked
<1>10. ASSUME ns[cur].type = "mono"
       PROVE  Len(ms[cur].children) = 1 /\ ms[cur].children[1] = c
              /\ ms[c].type = "poly"
  <2>1. kids = <<>>
    BY <1>10 DEF Ready
  <2>2. ms[c].type = "poly"
    BY <1>10 DEF Grafted
  <2> QED
    BY <1>4, <2>1, <2>2
<1>11. Shaped(ms, cur)
  <2>1. ns[cur].type \in {"poly", "mono"}
    BY <1>2 DEF NodeRec
  <2>2. ms[cur].type = "poly" => NodeCount(ms, cur) <= ms[cur].modifier
    BY <1>4, <1>5 DEF Grafted
  <2>3. ms[cur].pos <= Len(ms[cur].meta)
    BY <1>2, <1>4 DEF Shaped, Ready
  <2> QED
    BY <1>4, <1>10, <2>1, <2>2, <2>3 DEF Shaped
<1>12. ms[cur].type = "mono" => WholeIn(ms, cur)
  BY <1>4, <1>10 DEF WholeIn
<1> QED
  BY <1>1, <1>9, <1>11, <1>12

-----------------------------------------------------------------------------
(* curnode goes down: a node is put in it, and is the one to fill next.    *)

LEMMA GestNodeFormed ==
    ASSUME NEW type \in {"poly", "mono"}, NEW m \in Modifiers, NEW p \in Nat
    PROVE  GestNode(type, m, p) \in NodeRec
<1>1. <<>> \in Seq(Nat) /\ 0 \in Nat
  OBVIOUS
<1> QED
  BY <1>1 DEF GestNode, NodeRec

\* m at another position.
At(m, p) == [m EXCEPT !.pos = p]

LEMMA AtPosition ==
    ASSUME NEW m \in NodeRec, NEW p \in Nat
    PROVE  /\ At(m, p) \in NodeRec /\ At(m, p).pos = p
           /\ At(m, p).type = m.type /\ At(m, p).modifier = m.modifier
           /\ At(m, p).parent = m.parent /\ At(m, p).children = m.children
           /\ At(m, p).target = m.target /\ At(m, p).meta = m.meta
BY DEF At, NodeRec

\* What Attach makes of ns.
Attached(ns, ms, cur, node) ==
    /\ ms \in Seq(NodeRec) /\ Len(ms) = Len(ns) + 1 /\ ms[Len(ns) + 1] = node
    /\ ms[cur] = [ns[cur] EXCEPT !.children = Append(@, Len(ns) + 1)]
    /\ \A n \in 1 .. Len(ns) : n # cur => ms[n] = ns[n]
    /\ Skeleton(ns, ms)

LEMMA Attaching ==
    ASSUME NEW ns \in Seq(NodeRec), NEW cur \in 1 .. Len(ns), NEW node \in NodeRec,
           NEW ms, ms = Attach(ns, cur, node)
    PROVE  Attached(ns, ms, cur, node)
<1>1. PICK m : m = [ns[cur] EXCEPT !.children = Append(@, Len(ns) + 1)]
  OBVIOUS
<1>2. ns[cur] \in NodeRec /\ ns[cur].children \in Seq(Nat) /\ Len(ns) + 1 \in Nat
  BY NodeFormed DEF Formed
<1>3. Append(ns[cur].children, Len(ns) + 1) \in Seq(Nat)
  BY <1>2
<1>4. m \in NodeRec
  BY <1>1, <1>2, <1>3 DEF NodeRec
<1>5. PICK ks : ks = [ns EXCEPT ![cur] = m]
  OBVIOUS
<1>6. ks \in Seq(NodeRec) /\ Len(ks) = Len(ns) /\ ks[cur] = m
      /\ \A n \in 1 .. Len(ns) : n # cur => ks[n] = ns[n]
  BY <1>4, <1>5
<1>7. ms = Append(ks, node)
  BY <1>1, <1>5 DEF Attach
<1>8. /\ ms \in Seq(NodeRec) /\ Len(ms) = Len(ns) + 1 /\ ms[Len(ns) + 1] = node
      /\ \A n \in 1 .. Len(ns) : ms[n] = ks[n]
  BY <1>6, <1>7
<1>9. ms[cur] = m
  BY <1>6, <1>8
<1>10. m.type = ns[cur].type /\ m.modifier = ns[cur].modifier /\ m.parent = ns[cur].parent
  BY <1>1, <1>2 DEF NodeRec
<1>11. Skeleton(ns, ms)
  BY <1>6, <1>8, <1>9, <1>10 DEF Skeleton
<1> QED
  BY <1>1, <1>6, <1>8, <1>9, <1>11 DEF Attached

(* What is fixed of the old nodes when a node is grafted.                  *)
LEMMA GraftedSame ==
    ASSUME NEW ns \in Seq(NodeRec), NEW ms, NEW cur \in 1 .. Len(ns), NEW c,
           Grafted(ns, ms, cur, c)
    PROVE  \A n \in 1 .. Len(ns) : /\ ms[n].type = ns[n].type
                                   /\ ms[n].meta = ns[n].meta /\ ms[n].pos = ns[n].pos
<1>1. ns[cur] \in NodeRec
  OBVIOUS
<1>2. ms[cur].meta = ns[cur].meta /\ ms[cur].pos = ns[cur].pos
      /\ ms[cur].type = ns[cur].type
  BY <1>1 DEF Grafted, NodeRec
<1> QED
  BY <1>2 DEF Grafted

\* The metanodes of the stack are nodes.
OfTree(ns, st) == \A k \in 1 .. Len(st) : st[k] \in 1 .. Len(ns)

(* Who waits is up to the metanodes of the stack.                          *)
LEMMA WaitingSame ==
    ASSUME NEW ns, NEW ms, NEW st, OfTree(ns, st),
           \A n \in 1 .. Len(ns) : ms[n].meta = ns[n].meta /\ ms[n].pos = ns[n].pos,
           NEW n
    PROVE  Waiting(ms, st, n) <=> Waiting(ns, st, n)
BY DEF Waiting, OfTree

LEMMA GrowingShape ==
    ASSUME NEW ns \in Seq(NodeRec), NEW len, Tree(ns, len), NEW cur \in 1 .. Len(ns),
           NEW st, Growing(ns, cur, st)
    PROVE  /\ Rooted(ns) /\ WayUp(ns, cur) /\ Ready(ns, cur) /\ Filled(ns, cur, st)
           /\ OfTree(ns, st) /\ \A n \in 1 .. Len(ns) : Wanting(ns, cur, st, n)
<1>1. /\ Ready(ns, cur) /\ Filled(ns, cur, st)
      /\ \A n \in 1 .. Len(ns) : Wanting(ns, cur, st, n)
  BY DEF Growing
<1>2. Rooted(ns)
  BY TreeRooted
<1>3. WayUp(ns, cur)
  BY <1>2, AboveShape
<1>4. OfTree(ns, st)
  BY <1>1, <1>3 DEF Filled, WayUp, OfTree
<1> QED
  BY <1>1, <1>2, <1>3, <1>4

(* The old nodes want no more than they did when curnode goes down.        *)
LEMMA GrowDown ==
    ASSUME NEW ns \in Seq(NodeRec), NEW ms \in Seq(NodeRec), NEW len \in Nat,
           Tree(ns, len), NEW cur \in 1 .. Len(ns), NEW st, Growing(ns, cur, st),
           NEW c, Grafted(ns, ms, cur, c), NEW cur2, NEW st2,
           Above(ns, cur) \subseteq Above(ms, cur2),
           \A n \in Above(ms, cur2) : n \in Above(ns, cur) \/ n > Len(ns),
           \A n \in 1 .. Len(ns) : Waiting(ms, st2, n) <=> Waiting(ns, st, n)
    PROVE  \A n \in 1 .. Len(ns) : Wanting(ms, cur2, st2, n)
<1> TAKE n \in 1 .. Len(ns)
<1>1. /\ Ready(ns, cur) /\ Wanting(ns, cur, st, n) /\ Wanting(ns, cur, st, cur)
      /\ WayUp(ns, cur)
  BY GrowingShape
<1>2. ms[n].type = ns[n].type /\ ms[cur].type = ns[cur].type
  BY GraftedSame
<1>3. n \in Above(ms, cur2) <=> n \in Above(ns, cur)
  OBVIOUS
<1>4. Waiting(ms, st2, n) <=> Waiting(ns, st, n)
  OBVIOUS
<1>5. CASE n # cur
  <2>1. Kept(ns, ms, len, n)
    BY <1>1, <1>5, Grafting
  <2> QED
    BY <1>1, <1>2, <1>3, <1>4, <1>5, <2>1 DEF Wanting, Kept
<1>6. CASE n = cur
  <2>1. cur \in Above(ns, cur)
    BY <1>1 DEF WayUp
  <2>2. ~Waiting(ns, st, cur)
    BY <1>1, <2>1 DEF Wanting
  <2>3. ms[cur].type = "mono" => WholeIn(ms, cur)
    BY <1>1, Grafting
  <2>4. ns[cur].type = "poly" \/ ns[cur].type = "mono"
    BY NodeFormed DEF Formed
  <2> QED
    BY <1>2, <1>3, <1>4, <1>6, <2>1, <2>2, <2>3, <2>4 DEF Wanting
<1> QED
  BY <1>5, <1>6

(* The metanodes that are filled stay what they are.                       *)
LEMMA FilledDown ==
    ASSUME NEW ns, NEW ms, NEW cur, NEW cur2, NEW st, Filled(ns, cur, st), OfTree(ns, st),
           \A n \in 1 .. Len(ns) : ms[n].meta = ns[n].meta /\ ms[n].pos = ns[n].pos,
           Above(ns, cur) \subseteq Above(ms, cur2)
    PROVE  Filled(ms, cur2, st)
BY DEF Filled, OfTree

(* A tree stays one when a node is grafted that is all right itself.       *)
LEMMA GraftedTree ==
    ASSUME NEW ns \in Seq(NodeRec), NEW ms \in Seq(NodeRec), NEW len \in Nat,
           NEW more \in Nat, len <= more, Tree(ns, len), NEW cur \in 1 .. Len(ns),
           Ready(ns, cur), NEW c, Grafted(ns, ms, cur, c),
           \A n \in c .. Len(ms) : Linked(ms, more, n) /\ Shaped(ms, n)
    PROVE  Tree(ms, more)
<1>1. \A n \in 1 .. Len(ns) : Linked(ms, more, n) /\ Shaped(ms, n)
  BY Grafting DEF Kept
<1>2. Skeleton(ns, ms) /\ c = Len(ns) + 1 /\ Len(ns) \in Nat /\ Len(ms) \in Nat
  BY DEF Grafted
<1>3. \A n \in 1 .. Len(ms) : n \in 1 .. Len(ns) \/ n \in c .. Len(ms)
  BY <1>2
<1>4. ms[1].parent = 1 /\ Len(ms) >= 1
  BY <1>2 DEF Tree, Skeleton
<1> QED
  BY <1>1, <1>3, <1>4 DEF Tree

(* The nodes above the nodes of a grown tree.                              *)
LEMMA AboveGrafted ==
    ASSUME NEW ns, NEW ms, Rooted(ns), Rooted(ms), Skeleton(ns, ms)
    PROVE  \A n \in 1 .. Len(ns) : Above(ms, n) = Above(ns, n)
<1>1. PICK k \in Nat : k = Len(ns)
  BY DEF Rooted
<1>2. k <= Len(ns) /\ k <= Len(ms) /\ \A n \in 1 .. k : ns[n].parent = ms[n].parent
  BY <1>1 DEF Skeleton, Rooted
<1>3. \A n \in 1 .. k : Above(ns, n) = Above(ms, n)
  BY <1>2, AboveAgree
<1> QED
  BY <1>1, <1>3

(* Who waits is a node, made for a metanode of the stack.                  *)
LEMMA WaitingChild ==
    ASSUME NEW ns \in Seq(NodeRec), NEW len, Tree(ns, len), NEW st, OfTree(ns, st),
           NEW n, Waiting(ns, st, n)
    PROVE  /\ n \in 1 .. Len(ns)
           /\ \E k \in 1 .. Len(st) : ns[n].parent = st[k] /\ ns[st[k]].meta # <<>>
<1>1. PICK k \in 1 .. Len(st) : \E j \in ns[st[k]].pos + 1 .. Len(ns[st[k]].meta) :
         n = st[k] + j
  BY DEF Waiting
<1>2. PICK p \in 1 .. Len(ns) : p = st[k]
  BY DEF OfTree
<1>3. Linked(ns, len, p) /\ Formed(ns[p])
  BY TreeKids
<1>4. PICK j \in ns[p].pos + 1 .. Len(ns[p].meta) : n = p + j
  BY <1>1, <1>2
<1>5. j \in 1 .. Len(ns[p].meta) /\ ns[p].meta # <<>>
  <2>1. ns[p].pos \in Nat /\ ns[p].meta \in Seq(Nat)
    BY <1>3 DEF Formed
  <2> QED
    BY <1>4, <2>1
<1>6. p + Len(ns[p].meta) <= Len(ns) /\ ns[p + j].parent = p
  BY <1>3, <1>5 DEF Linked
<1>7. n \in 1 .. Len(ns)
  <2>1. PICK l \in Nat : l = Len(ns[p].meta)
    BY <1>3 DEF Formed
  <2>2. j \in 1 .. l /\ p + l <= Len(ns)
    BY <1>5, <1>6, <2>1
  <2> QED
    BY <1>4, <2>2
<1> QED
  BY <1>2, <1>4, <1>5, <1>6, <1>7

\* A new node that nothing has been put in.
Fresh(ms, c, cur) ==
    /\ ms[c].children = <<>> /\ ms[c].target = 0 /\ ms[c].meta = <<>>
    /\ ms[c].parent = cur /\ ms[c].pos = 0

LEMMA FreshNode ==
    ASSUME NEW ms \in Seq(NodeRec), NEW c \in 1 .. Len(ms), NEW cur \in 1 .. c - 1,
           Fresh(ms, c, cur), NEW more \in Nat
    PROVE  /\ Linked(ms, more, c) /\ Shaped(ms, c) /\ Ready(ms, c)
           /\ ms[c].type = "mono" => Bare(ms, c)
           /\ NodeCount(ms, c) = 0
<1>1. ms[c].children = <<>> /\ ms[c].target = 0 /\ ms[c].meta = <<>>
      /\ ms[c].parent = cur /\ ms[c].pos = 0 /\ Len(ms[c].children) = 0
      /\ Len(ms[c].meta) = 0
  BY DEF Fresh
<1>2. Formed(ms[c])
  BY NodeFormed
<1>3. KidsIn(ms, c)
  BY <1>1, <1>2 DEF KidsIn, Formed
<1>4. NodeCount(ms, c) = 0
  BY <1>1, <1>3, CountLength
<1>5. Linked(ms, more, c)
  BY <1>1 DEF Linked
<1>6. Shaped(ms, c) /\ Ready(ms, c)
  BY <1>1, <1>2, <1>4 DEF Shaped, Ready, Formed
<1> QED
  BY <1>1, <1>4, <1>5, <1>6 DEF Bare

(* A ramp is put in curnode and becomes it.                                *)
LEMMA GrowOne ==
    ASSUME NEW ns \in Seq(NodeRec), NEW len \in Nat, Tree(ns, len),
           NEW cur \in 1 .. Len(ns), NEW st, Growing(ns, cur, st),
           NEW type \in {"poly", "mono"}, NEW m \in Modifiers,
           NEW node, node = GestNode(type, m, cur),
           IF ns[cur].type = "poly"
           THEN NodeCount(ns, cur) + Ramps(node) <= ns[cur].modifier
           ELSE type = "poly",
           NEW ms, ms = Attach(ns, cur, node), NEW c, c = Len(ns) + 1
    PROVE  ms \in Seq(NodeRec) /\ Tree(ms, len) /\ Growing(ms, c, st) /\ c = Len(ms)
<1>1. /\ Rooted(ns) /\ WayUp(ns, cur) /\ Ready(ns, cur) /\ Filled(ns, cur, st)
      /\ OfTree(ns, st) /\ \A n \in 1 .. Len(ns) : Wanting(ns, cur, st, n)
  BY GrowingShape
<1>2. node \in NodeRec /\ node.parent = cur
  BY GestNodeFormed DEF GestNode
<1>3. /\ ms \in Seq(NodeRec) /\ Len(ms) = c /\ ms[c] = node
      /\ ms[cur] = [ns[cur] EXCEPT !.children = Append(@, c)]
      /\ \A n \in 1 .. Len(ns) : n # cur => ms[n] = ns[n]
      /\ Skeleton(ns, ms)
  <2>1. Attached(ns, ms, cur, node)
    BY <1>2, Attaching
  <2> QED
    BY <2>1 DEF Attached
<1>4. Grafted(ns, ms, cur, c)
  BY <1>2, <1>3 DEF Grafted, GestNode
<1>5. c \in 1 .. Len(ms) /\ cur \in 1 .. c - 1 /\ Fresh(ms, c, cur)
  BY <1>3 DEF Fresh, GestNode
<1>6. Linked(ms, len, c) /\ Shaped(ms, c) /\ Ready(ms, c)
  BY <1>3, <1>5, FreshNode
<1>7. Tree(ms, len)
  <2>1. \A n \in c .. Len(ms) : Linked(ms, len, n) /\ Shaped(ms, n)
    <3>1. \A n \in c .. Len(ms) : n = c
      BY <1>3
    <3> QED
      BY <1>6, <3>1
  <2> QED
    BY <1>1, <1>3, <1>4, <2>1, GraftedTree
<1>8. Rooted(ms)
  BY <1>3, <1>7, TreeRooted
<1>9. Above(ms, c) = {c} \cup Above(ns, cur)
  <2>1. Above(ms, c) = {c} \cup Above(ms, cur)
    <3>1. ms[c].parent = cur /\ cur # c
      BY <1>4, <1>5 DEF Grafted
    <3> QED
      BY <1>5, <1>8, <3>1, AboveStep
  <2> QED
    BY <1>1, <1>3, <1>8, <2>1, AboveGrafted
<1>10. \A n \in 1 .. Len(ns) : ms[n].meta = ns[n].meta /\ ms[n].pos = ns[n].pos
  BY <1>4, GraftedSame
<1>11. \A n : Waiting(ms, st, n) <=> Waiting(ns, st, n)
  BY <1>1, <1>10, WaitingSame
<1>12. \A n \in 1 .. Len(ns) : Wanting(ms, c, st, n)
  <2>1. /\ Above(ns, cur) \subseteq Above(ms, c)
        /\ \A n \in Above(ms, c) : n \in Above(ns, cur) \/ n > Len(ns)
    BY <1>9
  <2> QED
    BY <1>3, <1>4, <1>11, <2>1, GrowDown
<1>13. Wanting(ms, c, st, c)
  <2>1. ~Waiting(ns, st, c)
    BY <1>1, WaitingChild
  <2> QED
    BY <1>9, <1>11, <2>1 DEF Wanting
<1>14. Filled(ms, c, st)
  BY <1>1, <1>9, <1>10, FilledDown
<1>15. \A n \in 1 .. Len(ms) : Wanting(ms, c, st, n)
  BY <1>3, <1>12, <1>13
<1>16. c # 0 /\ c <= Len(ms)
  BY <1>3
<1> QED
  BY <1>3, <1>6, <1>7, <1>14, <1>15, <1>16 DEF Growing

(* A metanode is put in curnode, and its first node becomes it.            *)
Placeholder(w, cur, made) == [GestNode("mono", w, cur) EXCEPT !.meta = made, !.pos = 1]

LEMMA PlaceholderIs ==
    ASSUME NEW w \in Modifiers, NEW cur \in Nat, NEW made \in Seq(Nat), NEW m,
           m = Placeholder(w, cur, made)
    PROVE  /\ m \in NodeRec
           /\ m.type = "mono" /\ m.modifier = w /\ m.parent = cur
           /\ m.children = <<>> /\ m.target = 0 /\ m.meta = made /\ m.pos = 1
<1>1. PICK g : g = GestNode("mono", w, cur)
  OBVIOUS
<1>2. g \in NodeRec
  BY <1>1, GestNodeFormed
<1>3. g.type = "mono" /\ g.modifier = w /\ g.parent = cur
      /\ g.children = <<>> /\ g.target = 0
  BY <1>1 DEF GestNode
<1>4. m = [g EXCEPT !.meta = made, !.pos = 1]
  BY <1>1 DEF Placeholder
<1>5. PICK a : a = [g EXCEPT !.meta = made]
  OBVIOUS
<1>6. a \in NodeRec /\ a.meta = made /\ a.type = "mono" /\ a.modifier = w
      /\ a.parent = cur /\ a.children = <<>> /\ a.target = 0
  BY <1>2, <1>3, <1>5 DEF NodeRec
<1>7. m = [a EXCEPT !.pos = 1]
  BY <1>4, <1>5
<1>8. m = At(a, 1) /\ 1 \in Nat
  BY <1>7 DEF At
<1> QED
  BY ONLY <1>6, <1>8, AtPosition

\* What AddMetanode makes of ns.
Stacked(ns, ms, cur, w, sz, ph) ==
    /\ ms \in Seq(NodeRec) /\ Len(ms) = ph + sz /\ Skeleton(ns, ms)
    /\ ms[cur] = [ns[cur] EXCEPT !.children = Append(@, ph)]
    /\ \A n \in 1 .. Len(ns) : n # cur => ms[n] = ns[n]
    /\ ms[ph] = Placeholder(w, cur, [i \in 1 .. sz |-> ph + i])
    /\ \A i \in 1 .. sz : ms[ph + i] = GestNode("mono", w, ph)

LEMMA Stacking ==
    ASSUME NEW ns \in Seq(NodeRec), NEW cur \in 1 .. Len(ns), NEW w \in Modifiers,
           NEW sz \in Nat, sz >= 2, NEW ph, ph = Len(ns) + 1, NEW ms,
           ms = Attach(ns, cur, Placeholder(w, cur, [i \in 1 .. sz |-> ph + i]))
                  \o [i \in 1 .. sz |-> GestNode("mono", w, ph)]
    PROVE  Stacked(ns, ms, cur, w, sz, ph)
<1>1. PICK made : made = [i \in 1 .. sz |-> ph + i]
  OBVIOUS
<1>2. ph \in Nat /\ cur \in Nat /\ Len(ns) \in Nat
  OBVIOUS
<1>3. made \in Seq(Nat)
  BY <1>1, <1>2
<1>4. PICK node : node = Placeholder(w, cur, made)
  OBVIOUS
<1>5. node \in NodeRec
  BY <1>2, <1>3, <1>4, PlaceholderIs
<1>6. PICK ks : ks = Attach(ns, cur, node)
  OBVIOUS
<1>7. Attached(ns, ks, cur, node)
  BY <1>5, <1>6, Attaching
<1>8. PICK nd : nd = GestNode("mono", w, ph)
  OBVIOUS
<1>9. nd \in NodeRec
  BY <1>2, <1>8, GestNodeFormed
<1>10. PICK more : more = [i \in 1 .. sz |-> nd]
  OBVIOUS
<1>11. more \in Seq(NodeRec) /\ Len(more) = sz /\ \A i \in 1 .. sz : more[i] = nd
  BY <1>9, <1>10
<1>12. ms = ks \o more
  BY <1>1, <1>4, <1>6, <1>8, <1>10
<1>13. /\ ks \in Seq(NodeRec) /\ Len(ks) = ph /\ ks[ph] = node
       /\ ks[cur] = [ns[cur] EXCEPT !.children = Append(@, ph)]
       /\ \A n \in 1 .. Len(ns) : n # cur => ks[n] = ns[n]
       /\ Skeleton(ns, ks)
  BY <1>7 DEF Attached
<1>14. /\ ms \in Seq(NodeRec) /\ Len(ms) = ph + sz
       /\ \A n \in 1 .. ph + sz : ms[n] = IF n <= ph THEN ks[n] ELSE more[n - ph]
  <2>1. /\ ks \o more \in Seq(NodeRec) /\ Len(ks \o more) = Len(ks) + Len(more)
        /\ \A n \in 1 .. Len(ks) + Len(more) :
              (ks \o more)[n] = IF n <= Len(ks) THEN ks[n] ELSE more[n - Len(ks)]
    <3>1. ks \in Seq(NodeRec) /\ more \in Seq(NodeRec)
      BY <1>11, <1>13
    <3> QED
      BY ONLY <3>1, ConcatProperties
  <2> QED
    BY ONLY <1>11, <1>12, <1>13, <2>1
<1>15. \A n \in 1 .. ph : ms[n] = ks[n]
  <2>1. \A n \in 1 .. ph : n \in 1 .. ph + sz /\ n <= ph
    BY <1>2
  <2> QED
    BY <1>14, <2>1
<1>16. \A i \in 1 .. sz : ms[ph + i] = nd
  <2> TAKE i \in 1 .. sz
  <2>1. ph + i \in 1 .. ph + sz /\ ~(ph + i <= ph) /\ (ph + i) - ph = i
    BY <1>2
  <2> QED
    BY <1>11, <1>14, <2>1
<1>17. ph \in 1 .. ph /\ cur \in 1 .. ph /\ \A n \in 1 .. Len(ns) : n \in 1 .. ph
  BY <1>2
<1>18. Skeleton(ns, ms)
  <2>1. Len(ns) <= Len(ms)
    BY <1>2, <1>14
  <2>2. \A n \in 1 .. Len(ns) : ms[n] = ks[n]
    BY <1>15, <1>17
  <2> QED
    BY <1>13, <2>1, <2>2 DEF Skeleton
<1> QED
  BY <1>1, <1>4, <1>8, <1>13, <1>14, <1>15, <1>16, <1>17, <1>18 DEF Stacked

LEMMA GrowMeta ==
    ASSUME NEW ns \in Seq(NodeRec), NEW len \in Nat, Tree(ns, len),
           NEW cur \in 1 .. Len(ns), NEW st \in Seq(Nat), Growing(ns, cur, st),
           NEW w \in Modifiers, NEW sz \in Nat, sz >= 2, NEW ph, ph = Len(ns) + 1,
           ns[cur].type = "poly", NodeCount(ns, cur) + w <= ns[cur].modifier,
           NEW ms, Stacked(ns, ms, cur, w, sz, ph)
    PROVE  Tree(ms, len) /\ Growing(ms, ph + 1, Append(st, ph))
<1>1. /\ Rooted(ns) /\ WayUp(ns, cur) /\ Ready(ns, cur) /\ Filled(ns, cur, st)
      /\ OfTree(ns, st) /\ \A n \in 1 .. Len(ns) : Wanting(ns, cur, st, n)
  BY GrowingShape
<1>2. /\ ms \in Seq(NodeRec) /\ Len(ms) = ph + sz /\ Skeleton(ns, ms)
      /\ ms[cur] = [ns[cur] EXCEPT !.children = Append(@, ph)]
      /\ \A n \in 1 .. Len(ns) : n # cur => ms[n] = ns[n]
  BY DEF Stacked
<1>3. PICK made : made = [i \in 1 .. sz |-> ph + i]
  OBVIOUS
<1>4. ph \in Nat /\ cur \in Nat /\ Len(ns) \in Nat
  OBVIOUS
<1>5. made \in Seq(Nat) /\ Len(made) = sz /\ made # <<>>
      /\ \A i \in 1 .. sz : made[i] = ph + i
  <2>1. made \in Seq(Nat) /\ Len(made) = sz /\ \A i \in 1 .. sz : made[i] = ph + i
    BY <1>3, <1>4
  <2>2. made # <<>>
    BY <2>1
  <2> QED
    BY <2>1, <2>2
<1>6. /\ ms[ph].type = "mono" /\ ms[ph].modifier = w /\ ms[ph].parent = cur
      /\ ms[ph].children = <<>> /\ ms[ph].target = 0 /\ ms[ph].meta = made
      /\ ms[ph].pos = 1
  <2>1. ms[ph] = Placeholder(w, cur, made)
    BY <1>3 DEF Stacked
  <2>2. w \in Modifiers
    OBVIOUS
  <2> QED
    BY ONLY <1>4, <1>5, <2>1, <2>2, PlaceholderIs
<1>7. \A i \in 1 .. sz : Fresh(ms, ph + i, ph) /\ ms[ph + i].type = "mono"
  <2> TAKE i \in 1 .. sz
  <2>1. ms[ph + i] = GestNode("mono", w, ph)
    BY DEF Stacked
  <2> QED
    BY <2>1 DEF Fresh, GestNode
<1>8. Grafted(ns, ms, cur, ph)
  <2>1. Ramps(ms[ph]) = w
    BY <1>6 DEF Ramps
  <2> QED
    BY <1>2, <1>4, <1>6, <2>1 DEF Grafted
<1>9. \A i \in 1 .. sz : /\ Linked(ms, len, ph + i) /\ Shaped(ms, ph + i)
                         /\ Ready(ms, ph + i) /\ Bare(ms, ph + i)
  <2> TAKE i \in 1 .. sz
  <2>1. ph + i \in 1 .. Len(ms) /\ ph \in 1 .. (ph + i) - 1
    BY <1>2, <1>4
  <2> QED
    BY <1>2, <1>7, <2>1, FreshNode
<1>10. Linked(ms, len, ph) /\ Shaped(ms, ph) /\ WholeIn(ms, ph)
  <2>1. Len(ms[ph].children) = 0 /\ Len(ms[ph].meta) = sz /\ cur \in 1 .. ph - 1
    BY <1>4, <1>5, <1>6
  <2>2. \A i \in 1 .. sz : ms[ph + i].parent = ph
    BY <1>7 DEF Fresh
  <2>3. Linked(ms, len, ph)
    BY <1>2, <1>5, <1>6, <2>1, <2>2 DEF Linked
  <2>4. Shaped(ms, ph) /\ WholeIn(ms, ph)
    BY <1>5, <1>6, <2>1 DEF Shaped, WholeIn
  <2> QED
    BY <2>3, <2>4
<1>11. \A n \in ph .. Len(ms) : n = ph \/ \E i \in 1 .. sz : n = ph + i
  <2> TAKE n \in ph .. Len(ms)
  <2>1. n = ph \/ (n - ph \in 1 .. sz /\ n = ph + (n - ph))
    BY <1>2, <1>4
  <2> QED
    BY <2>1
<1>12. Tree(ms, len)
  <2>1. \A n \in ph .. Len(ms) : Linked(ms, len, n) /\ Shaped(ms, n)
    BY <1>9, <1>10, <1>11
  <2> QED
    BY <1>1, <1>2, <1>8, <2>1, GraftedTree
<1>13. Rooted(ms)
  BY <1>2, <1>12, TreeRooted
<1>14. Above(ms, ph + 1) = {ph, ph + 1} \cup Above(ns, cur)
  <2>1. Above(ms, ph) = {ph} \cup Above(ms, cur)
    <3>1. ph \in 1 .. Len(ms) /\ cur # ph
      BY <1>2, <1>4
    <3> QED
      BY <1>6, <1>13, <3>1, AboveStep
  <2>2. Above(ms, ph + 1) = {ph + 1} \cup Above(ms, ph)
    <3>1. ph + 1 \in 1 .. Len(ms) /\ ph # ph + 1 /\ 1 \in 1 .. sz
      BY <1>2, <1>4
    <3>2. ms[ph + 1].parent = ph
      BY <1>7, <3>1 DEF Fresh
    <3> QED
      BY <1>13, <3>1, <3>2, AboveStep
  <2>3. Above(ms, cur) = Above(ns, cur)
    BY <1>1, <1>2, <1>13, AboveGrafted
  <2> QED
    BY <2>1, <2>2, <2>3
<1>15. PICK st2 : st2 = Append(st, ph)
  OBVIOUS
<1>16. /\ Len(st) \in Nat /\ Len(st2) = Len(st) + 1 /\ st2[Len(st) + 1] = ph
       /\ \A k \in 1 .. Len(st) : st2[k] = st[k]
  BY <1>4, <1>15
<1>17. \A n \in 1 .. Len(ns) : ms[n].meta = ns[n].meta /\ ms[n].pos = ns[n].pos
  BY <1>8, GraftedSame
<1>18. \A n : Waiting(ms, st2, n) <=>
                Waiting(ns, st, n) \/ \E j \in 2 .. sz : n = ph + j
  <2> TAKE n
  <2>1. Waiting(ms, st2, n) <=>
           \/ Waiting(ms, st, n)
           \/ \E j \in ms[ph].pos + 1 .. Len(ms[ph].meta) : n = ph + j
    <3> DEFINE Slot(p) == \E j \in ms[p].pos + 1 .. Len(ms[p].meta) : n = p + j
    <3>1. Waiting(ms, st2, n) <=> \E k \in 1 .. Len(st2) : Slot(st2[k])
      BY DEF Waiting
    <3>2. Waiting(ms, st, n) <=> \E k \in 1 .. Len(st) : Slot(st[k])
      BY DEF Waiting
    <3>3. Slot(ph) <=> \E j \in ms[ph].pos + 1 .. Len(ms[ph].meta) : n = ph + j
      OBVIOUS
    <3> HIDE DEF Slot
    <3>4. \A k : k \in 1 .. Len(st2) <=> k \in 1 .. Len(st) \/ k = Len(st) + 1
      BY <1>16
    <3>5. (\E k \in 1 .. Len(st2) : Slot(st2[k])) <=>
             (\E k \in 1 .. Len(st) : Slot(st[k])) \/ Slot(ph)
      BY <1>16, <3>4
    <3> QED
      BY <3>1, <3>2, <3>3, <3>5
  <2>2. ms[ph].pos + 1 = 2 /\ Len(ms[ph].meta) = sz
    BY <1>5, <1>6
  <2>3. Waiting(ms, st, n) <=> Waiting(ns, st, n)
    BY <1>1, <1>17, WaitingSame
  <2> QED
    BY <2>1, <2>2, <2>3
<1>19. \A n : Waiting(ns, st, n) => n \in 1 .. Len(ns)
  BY <1>1, WaitingChild
<1>20. Above(ns, cur) \subseteq 1 .. Len(ns)
  BY <1>1, <1>4 DEF WayUp
<1>21. \A n \in 1 .. Len(ns) : Wanting(ms, ph + 1, st2, n)
  <2>1. \A n \in 1 .. Len(ns) : Waiting(ms, st2, n) <=> Waiting(ns, st, n)
    BY <1>4, <1>18
  <2>2. /\ Above(ns, cur) \subseteq Above(ms, ph + 1)
        /\ \A n \in Above(ms, ph + 1) : n \in Above(ns, cur) \/ n > Len(ns)
    BY <1>4, <1>14
  <2> QED
    BY <1>2, <1>8, <2>1, <2>2, GrowDown
<1>22. Wanting(ms, ph + 1, st2, ph)
  <2>1. ~Waiting(ms, st2, ph)
    BY <1>4, <1>18, <1>19
  <2> QED
    BY <1>10, <2>1 DEF Wanting
<1>23. \A i \in 1 .. sz : Wanting(ms, ph + 1, st2, ph + i)
  <2> TAKE i \in 1 .. sz
  <2>1. CASE i = 1
    <3>1. ~Waiting(ms, st2, ph + 1)
      BY <1>4, <1>18, <1>19
    <3> QED
      BY <1>14, <2>1, <3>1 DEF Wanting
  <2>2. CASE i # 1
    <3>1. Waiting(ms, st2, ph + i)
      <4>1. i \in 2 .. sz
        BY <2>2
      <4> QED
        BY <1>18, <4>1
    <3>2. ph + i \notin Above(ms, ph + 1)
      BY <1>4, <1>14, <1>20, <2>2
    <3> QED
      BY <1>9, <3>1, <3>2 DEF Wanting
  <2> QED
    BY <2>1, <2>2
<1>24. Filled(ms, ph + 1, st2)
  <2>1. Filled(ms, ph + 1, st)
    <3>1. Above(ns, cur) \subseteq Above(ms, ph + 1)
      BY <1>14
    <3> QED
      BY <1>1, <1>17, <3>1, FilledDown
  <2>2. ph \in Above(ms, ph + 1) /\ ms[ph].pos \in 1 .. Len(ms[ph].meta) - 1
    BY <1>5, <1>6, <1>14
  <2>3. \A l \in 1 .. Len(st) : st[l] < ph
    BY <1>1, <1>4 DEF OfTree
  <2> SUFFICES ASSUME NEW k \in 1 .. Len(st2)
               PROVE  /\ st2[k] \in Above(ms, ph + 1)
                      /\ ms[st2[k]].pos \in 1 .. Len(ms[st2[k]].meta) - 1
                      /\ \A l \in 1 .. k - 1 : st2[l] < st2[k]
    BY DEF Filled
  <2>4. CASE k \in 1 .. Len(st)
    <3>1. /\ st[k] \in Above(ms, ph + 1)
          /\ ms[st[k]].pos \in 1 .. Len(ms[st[k]].meta) - 1
          /\ \A l \in 1 .. k - 1 : st[l] < st[k]
      BY <2>1, <2>4 DEF Filled
    <3>2. \A l \in 1 .. k - 1 : l \in 1 .. Len(st)
      BY <1>16, <2>4
    <3> QED
      BY <1>16, <2>4, <3>1, <3>2
  <2>5. CASE k = Len(st) + 1
    BY <1>16, <2>2, <2>3, <2>5
  <2> QED
    BY <1>16, <2>4, <2>5
<1>25. \A n \in 1 .. Len(ms) : Wanting(ms, ph + 1, st2, n)
  <2> TAKE n \in 1 .. Len(ms)
  <2>1. n \in 1 .. Len(ns) \/ n \in ph .. Len(ms)
    BY <1>2, <1>4
  <2> QED
    BY <1>11, <1>21, <1>22, <1>23, <2>1
<1>26. Ready(ms, ph + 1) /\ ph + 1 # 0 /\ ph + 1 <= Len(ms)
  <2>1. 1 \in 1 .. sz
    OBVIOUS
  <2>2. Ready(ms, ph + 1)
    BY <1>9, <2>1
  <2> QED
    BY <1>2, <1>4, <2>2
<1> QED
  BY <1>12, <1>15, <1>24, <1>25, <1>26 DEF Growing

-----------------------------------------------------------------------------
(* A leaf is placed, and curnode goes up to where the next one goes.       *)

\* The leaf is in curnode, which may be whole now.
Settled(ns, cur, st) ==
    /\ Filled(ns, cur, st)
    /\ \A n \in 1 .. Len(ns) :
          /\ Waiting(ns, st, n) => Bare(ns, n) /\ n \notin Above(ns, cur)
          /\ \/ WholeIn(ns, n) \/ Waiting(ns, st, n)
             \/ n \in Above(ns, cur) /\ ns[n].type = "poly"

(* No child of curnode is empty: a target never goes into the last child.  *)
LEMMA NoEmptyChild ==
    ASSUME NEW ns \in Seq(NodeRec), NEW len, Tree(ns, len),
           NEW cur \in 1 .. Len(ns), NEW st, Growing(ns, cur, st),
           NEW i \in 1 .. Len(ns[cur].children)
    PROVE  ~Bare(ns, ns[cur].children[i])
<1> SUFFICES ASSUME Bare(ns, ns[cur].children[i])  PROVE FALSE
  OBVIOUS
<1>1. WayUp(ns, cur) /\ OfTree(ns, st) /\ \A n \in 1 .. Len(ns) : Wanting(ns, cur, st, n)
  BY GrowingShape
<1>2. Linked(ns, len, cur) /\ Formed(ns[cur])
  BY TreeKids
<1>3. PICK c : c = ns[cur].children[i]
  OBVIOUS
<1>4. c \in 2 .. Len(ns) /\ ns[c].parent = cur /\ Bare(ns, c)
  BY <1>2, <1>3 DEF Linked
<1>5. c \in 1 .. Len(ns)
  BY <1>4
<1>6. Linked(ns, len, c) /\ Wanting(ns, cur, st, c)
  BY <1>1, <1>5, TreeKids
<1>7. cur \in 1 .. c - 1
  BY <1>4, <1>6 DEF Linked
<1>8. c \notin Above(ns, cur)
  BY <1>1, <1>7 DEF WayUp
<1>9. ~WholeIn(ns, c)
  <2>1. Len(<<>>) = 0
    OBVIOUS
  <2> QED
    BY <1>4, <2>1 DEF Bare, WholeIn
<1>10. Waiting(ns, st, c)
  BY <1>6, <1>8, <1>9 DEF Wanting
<1>11. ns[cur].meta # <<>>
  <2>1. \E k \in 1 .. Len(st) : ns[c].parent = st[k] /\ ns[st[k]].meta # <<>>
    BY <1>1, <1>10, WaitingChild
  <2> QED
    BY <1>4, <2>1
<1> QED
  BY <1>11, GrowingShape DEF Ready

\* The target t is put in n.
Hit(ns, n, t) == [ns EXCEPT ![n].target = t]
LeafFor(cur, t) == [GestNode("mono", 1, cur) EXCEPT !.target = t]

(* Where Place puts a target.                                              *)
LEMMA Placing ==
    ASSUME Typed, NEW len, Tree(nodes, len), curnode \in 1 .. Len(nodes),
           NEW st, Growing(nodes, curnode, st), NEW t
    PROVE  Place(t) = IF nodes[curnode].type = "mono" THEN Hit(nodes, curnode, t)
                      ELSE Attach(nodes, curnode, LeafFor(curnode, t))
<1> DEFINE kids == nodes[curnode].children
           last == IF kids = <<>> THEN 0 ELSE kids[Len(kids)]
           Empty(n) == nodes[n].type = "mono" /\ nodes[n].target = 0
           InLast == /\ last # 0 /\ Empty(last) /\ nodes[last].meta = <<>>
                     /\ nodes[last].children = <<>>
<1>1. nodes \in Seq(NodeRec)
  BY DEF Typed
<1>2. ~InLast
  <2> SUFFICES ASSUME InLast  PROVE FALSE
    OBVIOUS
  <2>1. kids # <<>> /\ Bare(nodes, kids[Len(kids)])
    BY DEF Bare
  <2>2. kids \in Seq(Nat)
    BY <1>1, TreeKids DEF Formed
  <2>3. Len(kids) \in 1 .. Len(kids)
    BY <2>1, <2>2
  <2> QED
    BY <1>1, <2>1, <2>3, NoEmptyChild
<1>3. Place(t) = IF InLast THEN [nodes EXCEPT ![last].target = t]
                 ELSE IF Empty(curnode) THEN [nodes EXCEPT ![curnode].target = t]
                 ELSE Attach(nodes, curnode,
                             [GestNode("mono", 1, curnode) EXCEPT !.target = t])
  BY DEF Place
<1>4. nodes[curnode].target = 0
  BY <1>1, GrowingShape DEF Ready
<1> HIDE DEF InLast
<1> QED
  BY <1>2, <1>3, <1>4 DEF Hit, LeafFor

\* What the tree placed has kept of the tree ns.
SameMeta(ns, placed) ==
    /\ Len(ns) <= Len(placed)
    /\ \A n \in 1 .. Len(ns) : placed[n].meta = ns[n].meta /\ placed[n].pos = ns[n].pos

LEMMA HitSettles ==
    ASSUME NEW ns \in Seq(NodeRec), NEW len \in Nat, Tree(ns, len),
           NEW cur \in 1 .. Len(ns), NEW st, Growing(ns, cur, st),
           ns[cur].type = "mono", NEW ms, ms = Hit(ns, cur, len + 1)
    PROVE  /\ ms \in Seq(NodeRec) /\ Tree(ms, len + 1) /\ Settled(ms, cur, st)
           /\ SameMeta(ns, ms)
<1>1. /\ Rooted(ns) /\ WayUp(ns, cur) /\ Ready(ns, cur) /\ Filled(ns, cur, st)
      /\ OfTree(ns, st) /\ \A n \in 1 .. Len(ns) : Wanting(ns, cur, st, n)
  BY GrowingShape
<1>2. PICK m : m = [ns[cur] EXCEPT !.target = len + 1]
  OBVIOUS
<1>3. ns[cur] \in NodeRec /\ len + 1 \in Nat /\ len <= len + 1
  OBVIOUS
<1>4. m \in NodeRec
  BY <1>2, <1>3 DEF NodeRec
<1>5. /\ m.type = ns[cur].type /\ m.modifier = ns[cur].modifier
      /\ m.parent = ns[cur].parent /\ m.children = ns[cur].children
      /\ m.target = len + 1 /\ m.meta = ns[cur].meta /\ m.pos = ns[cur].pos
  BY <1>2, <1>3 DEF NodeRec
<1>6. ms = [ns EXCEPT ![cur] = m]
  BY <1>2 DEF Hit
<1>7. ms \in Seq(NodeRec) /\ Len(ms) = Len(ns) /\ ms[cur] = m
      /\ \A n \in 1 .. Len(ns) : n # cur => ms[n] = ns[n]
  BY <1>4, <1>6
<1>8. \A n \in 1 .. Len(ns) :
         /\ ms[n].type = ns[n].type /\ ms[n].modifier = ns[n].modifier
         /\ ms[n].parent = ns[n].parent
         /\ ms[n].meta = ns[n].meta /\ ms[n].pos = ns[n].pos
  BY <1>5, <1>7
<1>9. Skeleton(ns, ms) /\ SameMeta(ns, ms)
  BY <1>7, <1>8 DEF Skeleton, SameMeta
<1>10. ASSUME NEW n \in 1 .. Len(ns), n # cur  PROVE Kept(ns, ms, len + 1, n)
  <2>1. SameHold(ns, ms, n)
    BY <1>7, <1>10 DEF SameHold
  <2>2. ms[n].pos <= Len(ms[n].meta)
    BY <1>7, <1>10, TreeKids DEF Shaped
  <2> QED
    BY <1>3, <1>7, <1>9, <2>1, <2>2, Keeping
<1>11. ms[cur].children = <<>> /\ ms[cur].meta = <<>> /\ ms[cur].target = len + 1
       /\ ms[cur].type = "mono" /\ ms[cur].parent = ns[cur].parent
  BY <1>1, <1>5, <1>7 DEF Ready
<1>12. Linked(ms, len + 1, cur) /\ Shaped(ms, cur) /\ WholeIn(ms, cur)
  <2>1. Len(ms[cur].children) = 0 /\ Len(ms[cur].meta) = 0
    BY <1>11
  <2>2. Linked(ns, len, cur) /\ Shaped(ns, cur)
    BY TreeKids
  <2>3. Linked(ms, len + 1, cur)
    BY <1>7, <1>11, <2>1, <2>2 DEF Linked
  <2>4. Shaped(ms, cur)
    BY <1>8, <1>11, <2>2 DEF Shaped
  <2>5. WholeIn(ms, cur)
    BY <1>11 DEF WholeIn
  <2> QED
    BY <2>3, <2>4, <2>5
<1>13. Tree(ms, len + 1)
  <2>1. \A n \in 1 .. Len(ms) : Linked(ms, len + 1, n) /\ Shaped(ms, n)
    BY <1>7, <1>10, <1>12 DEF Kept
  <2>2. ms[1].parent = 1 /\ Len(ms) >= 1
    BY <1>7, <1>8 DEF Tree
  <2> QED
    BY <2>1, <2>2 DEF Tree
<1>14. Rooted(ms)
  BY <1>7, <1>13, TreeRooted
<1>15. Above(ms, cur) = Above(ns, cur)
  BY <1>1, <1>9, <1>14, AboveGrafted
<1>16. Filled(ms, cur, st)
  BY <1>1, <1>8, <1>15, FilledDown
<1>17. ASSUME NEW n \in 1 .. Len(ms)
       PROVE  /\ Waiting(ms, st, n) => Bare(ms, n) /\ n \notin Above(ms, cur)
              /\ \/ WholeIn(ms, n) \/ Waiting(ms, st, n)
                 \/ n \in Above(ms, cur) /\ ms[n].type = "poly"
  <2>1. n \in 1 .. Len(ns) /\ Wanting(ns, cur, st, n) /\ cur \in Above(ns, cur)
    BY <1>1, <1>7 DEF WayUp
  <2>2. Waiting(ms, st, n) <=> Waiting(ns, st, n)
    BY <1>1, <1>8, WaitingSame
  <2>3. CASE n # cur
    BY <1>8, <1>10, <1>15, <2>1, <2>2, <2>3 DEF Wanting, Kept
  <2>4. CASE n = cur
    BY <1>12, <2>1, <2>2, <2>4 DEF Wanting
  <2> QED
    BY <2>3, <2>4
<1> QED
  BY <1>7, <1>9, <1>13, <1>16, <1>17 DEF Settled

LEMMA LeafIs ==
    ASSUME NEW cur \in Nat, NEW t \in Nat, NEW m, m = LeafFor(cur, t)
    PROVE  /\ m \in NodeRec
           /\ m.type = "mono" /\ m.modifier = 1 /\ m.parent = cur
           /\ m.children = <<>> /\ m.target = t /\ m.meta = <<>> /\ m.pos = 0
<1>1. PICK g : g = GestNode("mono", 1, cur)
  OBVIOUS
<1>2. 1 \in Modifiers
  BY DEF Modifiers
<1>3. g \in NodeRec
  BY <1>1, <1>2, GestNodeFormed
<1>4. g.type = "mono" /\ g.modifier = 1 /\ g.parent = cur
      /\ g.children = <<>> /\ g.meta = <<>> /\ g.pos = 0
  BY <1>1 DEF GestNode
<1>5. m = [g EXCEPT !.target = t]
  BY <1>1 DEF LeafFor
<1>6. m \in NodeRec
  BY <1>3, <1>5 DEF NodeRec
<1>7. m.type = g.type /\ m.modifier = g.modifier /\ m.parent = g.parent
      /\ m.children = g.children
  BY <1>3, <1>5 DEF NodeRec
<1>8. m.target = t /\ m.meta = g.meta /\ m.pos = g.pos
  BY <1>3, <1>5 DEF NodeRec
<1> QED
  BY ONLY <1>4, <1>6, <1>7, <1>8

LEMMA LeafSettles ==
    ASSUME NEW ns \in Seq(NodeRec), NEW len \in Nat, Tree(ns, len),
           NEW cur \in 1 .. Len(ns), NEW st, Growing(ns, cur, st),
           ns[cur].type = "poly",
           NEW ms, ms = Attach(ns, cur, LeafFor(cur, len + 1))
    PROVE  /\ ms \in Seq(NodeRec) /\ Tree(ms, len + 1) /\ Settled(ms, cur, st)
           /\ SameMeta(ns, ms)
<1>1. /\ Rooted(ns) /\ WayUp(ns, cur) /\ Ready(ns, cur) /\ Filled(ns, cur, st)
      /\ OfTree(ns, st) /\ \A n \in 1 .. Len(ns) : Wanting(ns, cur, st, n)
  BY GrowingShape
<1>2. PICK c \in Nat : c = Len(ns) + 1
  OBVIOUS
<1>3. PICK node : node = LeafFor(cur, len + 1)
  OBVIOUS
<1>4. /\ node \in NodeRec
      /\ node.type = "mono" /\ node.modifier = 1 /\ node.parent = cur
      /\ node.children = <<>> /\ node.target = len + 1 /\ node.meta = <<>> /\ node.pos = 0
  BY <1>3, LeafIs
<1>5. /\ ms \in Seq(NodeRec) /\ Len(ms) = c /\ ms[c] = node
      /\ ms[cur] = [ns[cur] EXCEPT !.children = Append(@, c)]
      /\ \A n \in 1 .. Len(ns) : n # cur => ms[n] = ns[n]
      /\ Skeleton(ns, ms)
  <2>1. Attached(ns, ms, cur, node)
    BY <1>3, <1>4, Attaching
  <2> QED
    BY <1>2, <2>1 DEF Attached
<1>6. Grafted(ns, ms, cur, c)
  <2>1. Ramps(ms[c]) = 1
    BY <1>4, <1>5 DEF Ramps
  <2>2. NodeCount(ns, cur) \in Nat /\ ns[cur].modifier \in Nat
    BY TreeKids, CountLength DEF Formed
  <2>3. NodeCount(ns, cur) + 1 <= ns[cur].modifier
    BY <1>1, <2>2 DEF Ready
  <2> QED
    BY <1>2, <1>4, <1>5, <2>1, <2>3 DEF Grafted
<1>7. Linked(ms, len + 1, c) /\ Shaped(ms, c) /\ WholeIn(ms, c)
  <2>1. Len(ms[c].children) = 0 /\ Len(ms[c].meta) = 0 /\ cur \in 1 .. c - 1
    BY <1>2, <1>4, <1>5
  <2>2. Linked(ms, len + 1, c)
    BY <1>4, <1>5, <2>1 DEF Linked
  <2>3. Shaped(ms, c) /\ WholeIn(ms, c)
    BY <1>4, <1>5, <2>1 DEF Shaped, WholeIn
  <2> QED
    BY <2>2, <2>3
<1>8. Tree(ms, len + 1)
  <2>1. \A n \in c .. Len(ms) : n = c
    BY <1>5
  <2>2. \A n \in c .. Len(ms) : Linked(ms, len + 1, n) /\ Shaped(ms, n)
    BY <1>7, <2>1
  <2>3. len + 1 \in Nat /\ len <= len + 1
    OBVIOUS
  <2> QED
    BY <1>1, <1>5, <1>6, <2>2, <2>3, GraftedTree
<1>9. Rooted(ms)
  BY <1>5, <1>8, TreeRooted
<1>10. Above(ms, cur) = Above(ns, cur)
  BY <1>1, <1>5, <1>9, AboveGrafted
<1>11. \A n \in 1 .. Len(ns) : /\ ms[n].type = ns[n].type
                               /\ ms[n].meta = ns[n].meta /\ ms[n].pos = ns[n].pos
  BY <1>6, GraftedSame
<1>12. Filled(ms, cur, st)
  BY <1>1, <1>10, <1>11, FilledDown
<1>13. \A n : Waiting(ms, st, n) <=> Waiting(ns, st, n)
  BY <1>1, <1>11, WaitingSame
<1>14. \A n \in 1 .. Len(ns) : Wanting(ms, cur, st, n)
  BY <1>5, <1>6, <1>10, <1>13, GrowDown
<1>15. ASSUME NEW n \in 1 .. Len(ms)
       PROVE  /\ Waiting(ms, st, n) => Bare(ms, n) /\ n \notin Above(ms, cur)
              /\ \/ WholeIn(ms, n) \/ Waiting(ms, st, n)
                 \/ n \in Above(ms, cur) /\ ms[n].type = "poly"
  <2>1. n \in 1 .. Len(ns) \/ n = c
    BY <1>2, <1>5
  <2>2. CASE n \in 1 .. Len(ns)
    <3>1. ms[cur].type = "poly"
      BY <1>11
    <3> QED
      BY <1>14, <2>2, <3>1 DEF Wanting
  <2>3. CASE n = c
    <3>1. ~Waiting(ns, st, c)
      BY <1>1, <1>2, WaitingChild
    <3> QED
      BY <1>7, <1>13, <2>3, <3>1
  <2> QED
    BY <2>1, <2>2, <2>3
<1>16. SameMeta(ns, ms)
  BY <1>2, <1>5, <1>11 DEF SameMeta
<1> QED
  BY <1>5, <1>8, <1>12, <1>15, <1>16 DEF Settled

\* Where the hunt may end: the metanode being filled, or a node with room.
Hunted(ms, cur, st) ==
    {n \in Above(ms, cur) : (st # <<>> /\ n = st[Len(st)]) \/ HasRoom(ms, n)}

(* Only a polyramp has room, and is ready then.                            *)
LEMMA RoomIsReady ==
    ASSUME NEW ms \in Seq(NodeRec), NEW len, Tree(ms, len), NEW n \in 1 .. Len(ms)
    PROVE  /\ HasRoom(ms, n) => ms[n].type = "poly" /\ Ready(ms, n)
           /\ ms[n].type = "poly" /\ ~HasRoom(ms, n) => WholeIn(ms, n)
<1>1. KidsIn(ms, n) /\ Formed(ms[n]) /\ Shaped(ms, n)
  BY TreeKids
<1>2. NodeCount(ms, n) \in Nat /\ NodeCount(ms, n) >= Len(ms[n].children)
  BY <1>1, CountLength
<1>3. /\ ms[n].modifier \in Nat /\ Len(ms[n].children) \in Nat
      /\ ms[n].type = "poly" \/ ms[n].type = "mono"
  BY <1>1 DEF Formed
<1>4. ASSUME HasRoom(ms, n)  PROVE ms[n].type = "poly" /\ Ready(ms, n)
  <2>1. ms[n].type = "poly" /\ NodeCount(ms, n) < ms[n].modifier
    BY <1>2, <1>3, <1>4 DEF HasRoom
  <2> QED
    BY <1>1, <2>1 DEF Shaped, Ready
<1>5. ASSUME ms[n].type = "poly", ~HasRoom(ms, n)  PROVE WholeIn(ms, n)
  <2>1. NodeCount(ms, n) = ms[n].modifier
    BY <1>1, <1>2, <1>3, <1>5 DEF HasRoom, Shaped
  <2> QED
    BY <1>1, <1>5, <2>1 DEF Shaped, WholeIn
<1> QED
  BY <1>4, <1>5

LEMMA SettledShape ==
    ASSUME NEW ms \in Seq(NodeRec), NEW len, Tree(ms, len), NEW cur \in 1 .. Len(ms),
           NEW st \in Seq(Nat), Settled(ms, cur, st)
    PROVE  /\ Rooted(ms) /\ WayUp(ms, cur) /\ OfTree(ms, st)
           /\ Above(ms, cur) \subseteq 1 .. Len(ms)
           /\ st # <<>> => /\ Len(st) \in 1 .. Len(st)
                           /\ st[Len(st)] \in Hunted(ms, cur, st)
<1>1. Rooted(ms)
  BY TreeRooted
<1>2. WayUp(ms, cur)
  BY <1>1, AboveShape
<1>3. Above(ms, cur) \subseteq 1 .. Len(ms)
  BY <1>2 DEF WayUp
<1>4. OfTree(ms, st)
  BY <1>3 DEF Settled, Filled, OfTree
<1>5. st # <<>> => Len(st) \in 1 .. Len(st)
  OBVIOUS
<1>6. st # <<>> => st[Len(st)] \in Hunted(ms, cur, st)
  BY <1>5 DEF Settled, Filled, Hunted
<1> QED
  BY <1>1, <1>2, <1>3, <1>4, <1>5, <1>6

(* Nothing is found: nothing is missing.                                   *)
LEMMA HuntOver ==
    ASSUME NEW ms \in Seq(NodeRec), NEW len, Tree(ms, len), NEW cur \in 1 .. Len(ms),
           NEW st \in Seq(Nat), Settled(ms, cur, st), Hunted(ms, cur, st) = {}
    PROVE  Growing(ms, 0, st)
<1>1. Above(ms, cur) \subseteq 1 .. Len(ms) /\ st = <<>>
  BY SettledShape
<1>2. Len(st) = 0
  BY <1>1
<1>3. ASSUME NEW n \in 1 .. Len(ms)  PROVE WholeIn(ms, n)
  <2>1. ~Waiting(ms, st, n)
    BY <1>2 DEF Waiting
  <2>2. WholeIn(ms, n) \/ (n \in Above(ms, cur) /\ ms[n].type = "poly")
    BY <2>1 DEF Settled
  <2>3. n \in Above(ms, cur) => ~HasRoom(ms, n)
    BY DEF Hunted
  <2> QED
    BY <2>2, <2>3, RoomIsReady
<1> QED
  BY <1>1, <1>3 DEF Growing

\* What is left wanting when the hunt ends at next.
LEMMA HuntLeaves ==
    ASSUME NEW ms \in Seq(NodeRec), NEW len, Tree(ms, len), NEW cur \in 1 .. Len(ms),
           NEW st \in Seq(Nat), Settled(ms, cur, st), Hunted(ms, cur, st) # {},
           NEW next, next = Max(Hunted(ms, cur, st))
    PROVE  /\ next \in Hunted(ms, cur, st) /\ next \in 1 .. Len(ms)
           /\ Above(ms, next) = {x \in Above(ms, cur) : x <= next}
           /\ \A n \in 1 .. Len(ms) :
                 \/ WholeIn(ms, n) \/ Waiting(ms, st, n)
                 \/ n \in Above(ms, next) /\ ms[n].type = "poly"
           /\ \A k \in 1 .. Len(st) : st[k] \in Above(ms, next)
<1>1. /\ Rooted(ms) /\ WayUp(ms, cur) /\ OfTree(ms, st)
      /\ Above(ms, cur) \subseteq 1 .. Len(ms)
      /\ st # <<>> => /\ Len(st) \in 1 .. Len(st)
                      /\ st[Len(st)] \in Hunted(ms, cur, st)
  BY SettledShape
<1>2. PICK l \in Nat : l = Len(ms)
  OBVIOUS
<1>3. Hunted(ms, cur, st) \in SUBSET (0 .. l)
  <2>1. Hunted(ms, cur, st) \subseteq Above(ms, cur)
    BY DEF Hunted
  <2> QED
    BY <1>1, <1>2, <2>1
<1>4. next \in Hunted(ms, cur, st) /\ \A n \in Hunted(ms, cur, st) : n <= next
  BY <1>2, <1>3, Greatest
<1>5. next \in Above(ms, cur) /\ next \in 1 .. Len(ms)
  BY <1>1, <1>4 DEF Hunted
<1>6. Above(ms, next) = {x \in Above(ms, cur) : x <= next}
  BY <1>1, <1>5 DEF WayUp
<1>7. ASSUME NEW n \in 1 .. Len(ms)
      PROVE  \/ WholeIn(ms, n) \/ Waiting(ms, st, n)
             \/ n \in Above(ms, next) /\ ms[n].type = "poly"
  <2>1. \/ WholeIn(ms, n) \/ Waiting(ms, st, n)
        \/ n \in Above(ms, cur) /\ ms[n].type = "poly"
    BY DEF Settled
  <2>2. ASSUME n \in Above(ms, cur), ~(n <= next), ms[n].type = "poly"
        PROVE  WholeIn(ms, n)
    <3>1. ~HasRoom(ms, n)
      BY <1>4, <2>2 DEF Hunted
    <3> QED
      BY <2>2, <3>1, RoomIsReady
  <2> QED
    BY <1>6, <2>1, <2>2
<1>8. ASSUME NEW k \in 1 .. Len(st)  PROVE st[k] \in Above(ms, next)
  <2>1. Len(st) \in Nat /\ st # <<>>
    BY <1>8
  <2>2. st[Len(st)] <= next /\ Len(st) \in 1 .. Len(st)
    BY <1>1, <1>4, <2>1
  <2>3. k = Len(st) \/ k \in 1 .. Len(st) - 1
    BY <2>1
  <2>4. k \in 1 .. Len(st) - 1 => st[k] < st[Len(st)]
    BY <2>2 DEF Settled, Filled
  <2>5. st[k] \in Nat /\ st[Len(st)] \in Nat /\ next \in Nat
    BY <1>5, <2>2
  <2>6. st[k] <= next
    BY <2>2, <2>3, <2>4, <2>5
  <2>7. st[k] \in Above(ms, cur)
    BY DEF Settled, Filled
  <2> QED
    BY <1>6, <2>6, <2>7
<1> QED
  BY <1>4, <1>5, <1>6, <1>7, <1>8

(* A polyramp with room is found: it is the one to fill.                   *)
LEMMA HuntRoom ==
    ASSUME NEW ms \in Seq(NodeRec), NEW len, Tree(ms, len), NEW cur \in 1 .. Len(ms),
           NEW st \in Seq(Nat), Settled(ms, cur, st), Hunted(ms, cur, st) # {},
           NEW next, next = Max(Hunted(ms, cur, st)),
           ~(st # <<>> /\ next = st[Len(st)])
    PROVE  next \in 1 .. Len(ms) /\ Growing(ms, next, st)
<1>1. /\ next \in Hunted(ms, cur, st) /\ next \in 1 .. Len(ms)
      /\ Above(ms, next) = {x \in Above(ms, cur) : x <= next}
      /\ \A n \in 1 .. Len(ms) :
            \/ WholeIn(ms, n) \/ Waiting(ms, st, n)
            \/ n \in Above(ms, next) /\ ms[n].type = "poly"
      /\ \A k \in 1 .. Len(st) : st[k] \in Above(ms, next)
  BY HuntLeaves
<1>2. HasRoom(ms, next)
  BY <1>1 DEF Hunted
<1>3. Ready(ms, next)
  BY <1>1, <1>2, RoomIsReady
<1>4. Filled(ms, next, st)
  BY <1>1 DEF Settled, Filled
<1>5. \A n \in 1 .. Len(ms) : Wanting(ms, next, st, n)
  <2> TAKE n \in 1 .. Len(ms)
  <2>1. Waiting(ms, st, n) => Bare(ms, n) /\ n \notin Above(ms, cur)
    BY DEF Settled
  <2> QED
    BY <1>1, <2>1 DEF Wanting
<1>6. next # 0 /\ next <= Len(ms)
  BY <1>1
<1> QED
  BY <1>1, <1>3, <1>4, <1>5, <1>6 DEF Growing

\* The metanode p of ms has one node more, the last of its nodes when full.
Turned(ms, p, full) ==
    [ms EXCEPT ![p].pos = IF full THEN 0 ELSE @ + 1]
Rest(st, full) == IF full THEN SubSeq(st, 1, Len(st) - 1) ELSE st

(* The metanode being filled is found: its next node is the one to fill.   *)
\* The metanode p, the last of st, gives way to its next node, cur2.
Moved(ms, st, p, full, ks, cur2, st2) ==
    /\ st # <<>> /\ p = st[Len(st)]
    /\ full \in BOOLEAN
    /\ full <=> ms[p].pos + 1 >= Len(ms[p].meta)
    /\ ks = Turned(ms, p, full) /\ cur2 = ms[p].meta[ms[p].pos + 1]
    /\ st2 = Rest(st, full)

LEMMA HuntMeta ==
    ASSUME NEW ms \in Seq(NodeRec), NEW len \in Nat, Tree(ms, len),
           NEW cur \in 1 .. Len(ms),
           NEW st \in Seq(Nat), Settled(ms, cur, st), Hunted(ms, cur, st) # {},
           NEW p, p = Max(Hunted(ms, cur, st)),
           NEW full, NEW ks, NEW cur2, NEW st2, Moved(ms, st, p, full, ks, cur2, st2)
    PROVE  /\ ks \in Seq(NodeRec) /\ Tree(ks, len) /\ cur2 \in 1 .. Len(ks)
           /\ st2 \in Seq(Nat) /\ Growing(ks, cur2, st2)
<1> SUFFICES ASSUME st # <<>>, p = st[Len(st)], full \in BOOLEAN,
                    full <=> ms[p].pos + 1 >= Len(ms[p].meta),
                    ks = Turned(ms, p, full), cur2 = ms[p].meta[ms[p].pos + 1],
                    st2 = Rest(st, full)
             PROVE  /\ ks \in Seq(NodeRec) /\ Tree(ks, len) /\ cur2 \in 1 .. Len(ks)
                    /\ st2 \in Seq(Nat) /\ Growing(ks, cur2, st2)
  BY DEF Moved
<1>1. /\ p \in Hunted(ms, cur, st) /\ p \in 1 .. Len(ms)
      /\ Above(ms, p) = {x \in Above(ms, cur) : x <= p}
      /\ \A n \in 1 .. Len(ms) :
            \/ WholeIn(ms, n) \/ Waiting(ms, st, n)
            \/ n \in Above(ms, p) /\ ms[n].type = "poly"
      /\ \A k \in 1 .. Len(st) : st[k] \in Above(ms, p)
  BY HuntLeaves
<1>2. /\ Rooted(ms) /\ WayUp(ms, cur) /\ OfTree(ms, st)
      /\ Above(ms, cur) \subseteq 1 .. Len(ms) /\ Len(st) \in 1 .. Len(st)
  BY SettledShape
<1>3. Linked(ms, len, p) /\ Shaped(ms, p) /\ Formed(ms[p]) /\ ms[p] \in NodeRec
  BY <1>1, TreeKids
<1>4. PICK q \in Nat : q = ms[p].pos
  BY <1>3 DEF Formed
<1>5. PICK z \in Nat : z = Len(ms[p].meta)
  BY <1>3 DEF Formed
<1>6. q \in 1 .. z - 1
  BY <1>2, <1>4, <1>5 DEF Settled, Filled
<1>7. cur2 = p + (q + 1) /\ ms[cur2].parent = p /\ cur2 \in 1 .. Len(ms) /\ cur2 > p
      /\ p \in Nat
  <2>1. q + 1 \in 1 .. Len(ms[p].meta)
    BY ONLY q \in Nat, z \in Nat, <1>5, <1>6
  <2>2. ms[p].meta[q + 1] = p + (q + 1) /\ ms[p + (q + 1)].parent = p
    BY <1>3, <2>1 DEF Linked
  <2>3. p + z <= Len(ms) /\ p \in Nat /\ Len(ms) \in Nat
    BY <1>1, <1>3, <1>5 DEF Linked
  <2>4. p + (q + 1) \in 1 .. Len(ms) /\ p + (q + 1) > p
    BY ONLY q \in Nat, z \in Nat, <1>6, <2>3
  <2> QED
    BY <1>4, <2>2, <2>3, <2>4
<1>8. PICK r \in Nat : r = IF full THEN 0 ELSE q + 1
  OBVIOUS
<1>9. r <= z /\ (~full => r = q + 1 /\ q + 1 < z) /\ (full => q + 1 = z)
  <2>1. full <=> q + 1 >= z
    BY <1>4, <1>5
  <2>2. q + 1 >= z \/ q + 1 < z
    BY ONLY q \in Nat, z \in Nat
  <2>3. q + 1 >= z => q + 1 = z
    BY ONLY q \in Nat, z \in Nat, <1>6
  <2>4. 0 <= z /\ (q + 1 < z => q + 1 <= z)
    BY ONLY q \in Nat, z \in Nat
  <2> QED
    BY <1>8, <2>1, <2>2, <2>3, <2>4
<1>10. PICK m : m = At(ms[p], r)
  OBVIOUS
<1>11. /\ m \in NodeRec /\ m.pos = r
       /\ m.type = ms[p].type /\ m.modifier = ms[p].modifier
       /\ m.parent = ms[p].parent /\ m.children = ms[p].children
       /\ m.target = ms[p].target /\ m.meta = ms[p].meta
  BY <1>3, <1>10, AtPosition
<1>12. ks = [ms EXCEPT ![p] = m]
  BY <1>4, <1>8, <1>10 DEF Turned, At
<1>13. ks \in Seq(NodeRec) /\ Len(ks) = Len(ms) /\ ks[p] = m
       /\ \A n \in 1 .. Len(ms) : n # p => ks[n] = ms[n]
  BY <1>1, <1>11, <1>12
<1>14. Skeleton(ms, ks) /\ \A n \in 1 .. Len(ms) : ks[n].meta = ms[n].meta
  <2>1. Len(ms) <= Len(ks)
    BY <1>13
  <2>2. \A n \in 1 .. Len(ms) :
           /\ ks[n].type = ms[n].type /\ ks[n].modifier = ms[n].modifier
           /\ ks[n].parent = ms[n].parent /\ ks[n].meta = ms[n].meta
    BY ONLY <1>11, <1>13
  <2> QED
    BY <2>1, <2>2 DEF Skeleton
<1>15. ASSUME NEW n \in 1 .. Len(ms)  PROVE Kept(ms, ks, len, n)
  <2>1. SameHold(ms, ks, n)
    BY <1>11, <1>13 DEF SameHold
  <2>2. ks[n].pos <= Len(ks[n].meta)
    <3>1. n # p => ms[n].pos <= Len(ms[n].meta)
      BY TreeKids DEF Shaped
    <3> QED
      BY <1>5, <1>9, <1>11, <1>13, <3>1
  <2>3. len <= len
    OBVIOUS
  <2> QED
    BY <1>13, <1>14, <2>1, <2>2, <2>3, Keeping
<1>16. Tree(ks, len)
  <2>1. ks[1].parent = 1 /\ Len(ks) >= 1
    BY <1>13, <1>14 DEF Tree, Skeleton
  <2> QED
    BY <1>13, <1>15, <2>1 DEF Tree, Kept
<1>17. Rooted(ks)
  BY <1>13, <1>16, TreeRooted
<1>18. Above(ks, cur2) = {cur2} \cup Above(ms, p)
  <2>1. ks[cur2].parent = p
    BY <1>7, <1>14 DEF Skeleton
  <2>2. cur2 \in 1 .. Len(ks) /\ cur2 # p
    BY ONLY <1>7, <1>13, q \in Nat
  <2>3. Above(ks, cur2) = {cur2} \cup Above(ks, p)
    BY <1>17, <2>1, <2>2, AboveStep
  <2>4. Above(ks, p) = Above(ms, p)
    BY <1>1, <1>2, <1>14, <1>17, AboveGrafted
  <2> QED
    BY <2>3, <2>4
<1>19. Waiting(ms, st, cur2)
  <2>1. q + 1 \in ms[p].pos + 1 .. Len(ms[p].meta)
    BY ONLY q \in Nat, z \in Nat, <1>4, <1>5, <1>6
  <2> QED
    BY <1>2, <1>7, <2>1 DEF Waiting
<1>20. /\ Len(st) \in Nat /\ st2 \in Seq(Nat)
       /\ Len(st2) = IF full THEN Len(st) - 1 ELSE Len(st)
       /\ \A k \in 1 .. Len(st2) : st2[k] = st[k] /\ k \in 1 .. Len(st)
  BY ONLY <1>2, full \in BOOLEAN, st \in Seq(Nat), st2 = Rest(st, full) DEF Rest
<1>21. \A k \in 1 .. Len(st) : st[k] = p <=> k = Len(st)
  <2> TAKE k \in 1 .. Len(st)
  <2>1. k \in 1 .. Len(st) - 1 => st[k] < st[Len(st)]
    BY <1>2 DEF Settled, Filled
  <2>2. k = Len(st) \/ k \in 1 .. Len(st) - 1
    BY <1>20
  <2> QED
    BY <1>7, <2>1, <2>2
<1> DEFINE Slot(x, k, n) == \E j \in x[st[k]].pos + 1 .. Len(x[st[k]].meta) : n = st[k] + j
<1>22. \A n : Waiting(ms, st, n) <=> \E k \in 1 .. Len(st) : Slot(ms, k, n)
  BY DEF Waiting
<1>23. \A n : Waiting(ks, st2, n) <=> \E k \in 1 .. Len(st2) : Slot(ks, k, n)
  BY ONLY <1>20 DEF Waiting
<1>24. \A k \in 1 .. Len(st) : \A n :
         k # Len(st) => (Slot(ks, k, n) <=> Slot(ms, k, n))
  BY <1>2, <1>13, <1>21 DEF OfTree
<1>25. \A n : Slot(ms, Len(st), n) <=> \E j \in q + 1 .. z : n = p + j
  BY <1>4, <1>5
<1>26. \A n : Slot(ks, Len(st), n) <=> \E j \in r + 1 .. z : n = p + j
  BY <1>5, <1>11, <1>13
<1>27. ASSUME NEW k \in 1 .. Len(st), k # Len(st)  PROVE ~Slot(ms, k, cur2)
  <2> SUFFICES ASSUME Slot(ms, k, cur2)  PROVE FALSE
    OBVIOUS
  <2>1. PICK d \in 1 .. Len(ms) : d = st[k]
    BY <1>2 DEF OfTree
  <2>2. PICK j \in ms[d].pos + 1 .. Len(ms[d].meta) : cur2 = d + j
    BY <2>1
  <2>3. Linked(ms, len, d) /\ Formed(ms[d])
    BY TreeKids
  <2>4. j \in 1 .. Len(ms[d].meta)
    <3>1. ms[d].pos \in Nat /\ Len(ms[d].meta) \in Nat
      BY <2>3 DEF Formed
    <3> QED
      BY <3>1
  <2>5. ms[cur2].parent = d
    BY <2>2, <2>3, <2>4 DEF Linked
  <2> QED
    BY <1>7, <1>21, <1>27, <2>1, <2>5
<1> HIDE DEF Slot
<1>28. \A n : Waiting(ks, st2, n) <=> Waiting(ms, st, n) /\ n # cur2
  <2> TAKE n
  <2>1. \A k \in 1 .. Len(st) : k # Len(st) => k \in 1 .. Len(st2)
    BY <1>20
  <2>2. CASE full
    <3>1. \A k \in 1 .. Len(st2) : k # Len(st)
      <4>1. Len(st2) = Len(st) - 1
        BY <1>20, <2>2
      <4> QED
        BY ONLY <1>20, <4>1
    <3>2. Slot(ms, Len(st), n) <=> n = cur2
      <4>1. \A j \in q + 1 .. z : j = q + 1
        BY <1>9, <2>2
      <4>2. q + 1 \in q + 1 .. z
        BY <1>6
      <4> QED
        BY <1>7, <1>25, <4>1, <4>2
    <3>3. \A k \in 1 .. Len(st) : k # Len(st) => ~Slot(ms, k, cur2)
      BY <1>27
    <3>4. Waiting(ms, st, n) => n = cur2 \/ Waiting(ks, st2, n)
      BY ONLY <1>22, <1>23, <1>24, <2>1, <3>2
    <3>5. Waiting(ks, st2, n) => Waiting(ms, st, n) /\ n # cur2
      BY ONLY <1>20, <1>22, <1>23, <1>24, <3>1, <3>3
    <3> QED
      BY <3>4, <3>5
  <2>3. CASE ~full
    <3>1. Len(st2) = Len(st)
      BY <1>20, <2>3
    <3>2. Slot(ks, Len(st), n) <=> Slot(ms, Len(st), n) /\ n # cur2
      <4>1. Slot(ks, Len(st), n) <=> \E j \in q + 2 .. z : n = p + j
        BY <1>9, <1>26, <2>3
      <4>2. \A j \in q + 1 .. z : j = q + 1 \/ j \in q + 2 .. z
        OBVIOUS
      <4>3. \A j \in q + 2 .. z : j \in q + 1 .. z /\ p + j # p + (q + 1)
        BY <1>7
      <4> QED
        BY <1>7, <1>25, <4>1, <4>2, <4>3
    <3> QED
      BY <1>2, <1>22, <1>23, <1>24, <1>27, <3>1, <3>2
  <2> QED
    BY <2>2, <2>3
<1>29. Ready(ks, cur2)
  <2>1. Bare(ms, cur2)
    BY <1>7, <1>19 DEF Settled
  <2>2. Ready(ms, cur2)
    BY <2>1 DEF Bare, Ready
  <2> QED
    BY <1>7, <1>15, <2>2 DEF Kept
<1>30. Filled(ks, cur2, st2)
  <2> SUFFICES ASSUME NEW k \in 1 .. Len(st2)
               PROVE  /\ st2[k] \in Above(ks, cur2)
                      /\ ks[st2[k]].pos \in 1 .. Len(ks[st2[k]].meta) - 1
                      /\ \A l \in 1 .. k - 1 : st2[l] < st2[k]
    BY DEF Filled
  <2>1. /\ k \in 1 .. Len(st) /\ st2[k] = st[k]
        /\ \A l \in 1 .. k - 1 : l \in 1 .. Len(st2)
    <3>1. k \in 1 .. Len(st) /\ st2[k] = st[k]
      BY <1>20
    <3>2. Len(st2) \in Nat
      BY <1>20
    <3> QED
      BY ONLY k \in 1 .. Len(st2), <3>1, <3>2
  <2>2. /\ ms[st[k]].pos \in 1 .. Len(ms[st[k]].meta) - 1
        /\ \A l \in 1 .. k - 1 : st[l] < st[k]
    BY <2>1 DEF Settled, Filled
  <2>3. \A l \in 1 .. k - 1 : st2[l] < st2[k]
    BY <1>20, <2>1, <2>2
  <2>4. st2[k] \in Above(ks, cur2)
    BY <1>1, <1>18, <2>1
  <2>5. ks[st2[k]].pos \in 1 .. Len(ks[st2[k]].meta) - 1
    <3>1. CASE k = Len(st)
      <4>1. ~full /\ st2[k] = p
        <5>1. ~full
          <6> SUFFICES ASSUME full  PROVE FALSE
            OBVIOUS
          <6>1. Len(st2) = Len(st) - 1
            BY <1>20
          <6> QED
            BY ONLY k \in 1 .. Len(st2), <1>20, <3>1, <6>1
        <5> QED
          BY <2>1, <3>1, <5>1
      <4> QED
        <5>1. ks[p].pos = r /\ Len(ks[p].meta) = z /\ r = q + 1 /\ q + 1 < z
          BY <1>5, <1>9, <1>11, <1>13, <4>1
        <5> QED
          BY ONLY q \in Nat, z \in Nat, <4>1, <5>1
    <3>2. CASE k # Len(st)
      <4>1. st[k] # p /\ st[k] \in 1 .. Len(ms)
        BY <1>2, <1>21, <2>1, <3>2 DEF OfTree
      <4> QED
        BY <1>13, <2>1, <2>2, <4>1
    <3> QED
      BY <3>1, <3>2
  <2> QED
    BY <2>3, <2>4, <2>5
<1>31. \A n \in 1 .. Len(ks) : Wanting(ks, cur2, st2, n)
  <2> TAKE n \in 1 .. Len(ks)
  <2>1. n \in 1 .. Len(ms) /\ Kept(ms, ks, len, n) /\ ks[n].type = ms[n].type
    BY <1>13, <1>14, <1>15 DEF Skeleton
  <2>2. Waiting(ms, st, n) => Bare(ms, n) /\ n \notin Above(ms, cur)
    BY <2>1 DEF Settled
  <2>3. Waiting(ks, st2, n) => Bare(ks, n) /\ n \notin Above(ks, cur2)
    BY <1>1, <1>18, <1>28, <2>1, <2>2 DEF Kept
  <2>4. \/ WholeIn(ms, n) \/ Waiting(ms, st, n)
        \/ n \in Above(ms, p) /\ ms[n].type = "poly"
    BY <1>1, <2>1
  <2>5. \/ WholeIn(ks, n) \/ Waiting(ks, st2, n)
        \/ n \in Above(ks, cur2) /\ (n = cur2 \/ ks[n].type = "poly")
    BY <1>18, <1>28, <2>1, <2>4 DEF Kept
  <2> QED
    BY <2>3, <2>5 DEF Wanting
<1>32. cur2 # 0 /\ cur2 <= Len(ks) /\ cur2 \in 1 .. Len(ks)
  BY <1>7, <1>13
<1> QED
  BY <1>13, <1>16, <1>20, <1>29, <1>30, <1>31, <1>32 DEF Growing

-----------------------------------------------------------------------------
(* The slots of the metatargets. *)

\* The parts of a target.
TargetFormed(m) ==
    m.meta \in Seq(Nat) /\ Len(m.meta) \in Nat /\ m.pos \in Nat

LEMMA TargetIsFormed ==
    ASSUME NEW m \in TargetRec
    PROVE  TargetFormed(m)
BY DEF TargetRec, TargetFormed

\* What is left of the stack st.
Left(st, full, rest) ==
    /\ Len(st) \in Nat /\ rest \in Seq(Nat)
    /\ Len(rest) = IF full THEN Len(st) - 1 ELSE Len(st)
    /\ \A k \in 1 .. Len(rest) : rest[k] = st[k] /\ k \in 1 .. Len(st)

LEMMA RestLeft ==
    ASSUME NEW st \in Seq(Nat), st # <<>>, NEW full \in BOOLEAN,
           NEW rest, rest = Rest(st, full)
    PROVE  Left(st, full, rest)
BY DEF Rest, Left

\* ts with x in the slot that the target mt waits for.
FilledSlot(ts, mt, x, full) ==
    [ts EXCEPT ![mt].meta[ts[mt].pos + 1] = x,
               ![mt].pos = IF full THEN 0 ELSE @ + 1]

\* us differs from ts in mt, whose next slot holds x.
Filling1(ts, us, mt, x, full) ==
    /\ us \in Seq(TargetRec) /\ Len(us) = Len(ts)
    /\ \A t \in 1 .. Len(ts) : t # mt => us[t] = ts[t]
    /\ us[mt].pos = IF full THEN 0 ELSE ts[mt].pos + 1
    /\ Len(us[mt].meta) = Len(ts[mt].meta)
    /\ us[mt].meta[ts[mt].pos + 1] = x
    /\ \A i \in 1 .. Len(ts[mt].meta) :
          i # ts[mt].pos + 1 => us[mt].meta[i] = ts[mt].meta[i]

\* Filling a slot, field by field.
LEMMA SlotFilled ==
    ASSUME NEW ts \in Seq(TargetRec), NEW mt \in 1 .. Len(ts), NEW x \in Nat,
           NEW full \in BOOLEAN, ts[mt].pos < Len(ts[mt].meta),
           NEW us, us = FilledSlot(ts, mt, x, full)
    PROVE  Filling1(ts, us, mt, x, full)
<1>1. TargetFormed(ts[mt])
  BY TargetIsFormed
<1>2. PICK q \in Nat : q = ts[mt].pos
  BY <1>1 DEF TargetFormed
<1>3. PICK w \in Seq(Nat) : w = ts[mt].meta
  BY <1>1 DEF TargetFormed
<1>4. PICK r \in Nat : r = IF full THEN 0 ELSE q + 1
  OBVIOUS
<1>5. PICK v : v = [w EXCEPT ![q + 1] = x]
  OBVIOUS
<1>6. q + 1 \in 1 .. Len(w)
  <2>1. Len(w) \in Nat /\ q < Len(w)
    BY <1>2, <1>3
  <2> QED
    BY <2>1
<1>7. /\ v \in Seq(Nat) /\ Len(v) = Len(w) /\ v[q + 1] = x
      /\ \A i \in 1 .. Len(w) : i # q + 1 => v[i] = w[i]
  BY <1>5, <1>6
<1>8. PICK m : m = [meta |-> v, pos |-> r]
  OBVIOUS
<1>9. m \in TargetRec /\ m.meta = v /\ m.pos = r
  BY <1>7, <1>8 DEF TargetRec
<1>10. us = [ts EXCEPT ![mt] = m]
  <2>1. ts[mt] = [meta |-> w, pos |-> q]
    <3>1. \A y \in TargetRec : y = [meta |-> y.meta, pos |-> y.pos]
      BY DEF TargetRec
    <3>2. ts[mt] \in TargetRec
      OBVIOUS
    <3> QED
      BY <1>2, <1>3, <3>1, <3>2
  <2>2. us = [ts EXCEPT ![mt] = [[ts[mt] EXCEPT !.meta[q + 1] = x]
                                   EXCEPT !.pos = IF full THEN 0 ELSE @ + 1]]
    BY <1>2 DEF FilledSlot
  <2>3. [ts[mt] EXCEPT !.meta[q + 1] = x] = [meta |-> v, pos |-> q]
    <3>1. PICK y : y = [meta |-> w, pos |-> q]
      OBVIOUS
    <3>2. [y EXCEPT !.meta[q + 1] = x] = [y EXCEPT !.meta = [w EXCEPT ![q + 1] = x]]
      BY <3>1
    <3>3. [y EXCEPT !.meta = v] = [meta |-> v, pos |-> q]
      BY <3>1
    <3> QED
      BY <1>5, <2>1, <3>1, <3>2, <3>3
  <2>4. [[meta |-> v, pos |-> q] EXCEPT !.pos = IF full THEN 0 ELSE @ + 1] = m
    BY <1>4, <1>8
  <2> QED
    BY <2>2, <2>3, <2>4
<1>11. /\ us \in Seq(TargetRec) /\ Len(us) = Len(ts) /\ us[mt] = m
       /\ \A t \in 1 .. Len(ts) : t # mt => us[t] = ts[t]
  BY <1>9, <1>10
<1> QED
  BY <1>2, <1>3, <1>4, <1>7, <1>9, <1>11 DEF Filling1

\* A target of the gesture fills the slot that the newest metatarget waits
\* for, and the metatarget leaves the stack when that was its last.
LEMMA TopFilled ==
    ASSUME NEW ts \in Seq(TargetRec), NEW st \in Seq(Nat), NEW len \in Nat,
           NEW more \in Nat, len <= more, NEW x \in 1 .. more, Slots(ts, st, len),
           st # <<>>, NEW mt, mt = st[Len(st)],
           NEW full \in BOOLEAN, full <=> ts[mt].pos + 1 >= Len(ts[mt].meta),
           NEW us, us = FilledSlot(ts, mt, x, full), NEW rest, rest = Rest(st, full)
    PROVE  /\ us \in Seq(TargetRec) /\ Len(us) = Len(ts) /\ rest \in Seq(Nat)
           /\ Slots(us, rest, more)
<1>1. Left(st, full, rest)
  BY RestLeft
<1>2. Len(st) \in 1 .. Len(st)
  OBVIOUS
<1>3. /\ mt \in 1 .. Len(ts) /\ \A l \in 1 .. Len(st) - 1 : st[l] < mt
      /\ ts[mt].pos < Len(ts[mt].meta)
      /\ \A i \in 1 .. Len(ts[mt].meta) : ts[mt].meta[i] # 0 <=> i <= ts[mt].pos
      /\ SlotsOf(ts, st, len, mt)
  BY <1>2 DEF Slots, Unfilled
<1>4. Filling1(ts, us, mt, x, full)
  BY <1>3, SlotFilled
<1>5. TargetFormed(ts[mt])
  BY <1>3, TargetIsFormed
<1>6. PICK q \in Nat : q = ts[mt].pos
  BY <1>5 DEF TargetFormed
<1>7. PICK z \in Nat : z = Len(ts[mt].meta)
  BY <1>5 DEF TargetFormed
<1>8. /\ us \in Seq(TargetRec) /\ Len(us) = Len(ts)
      /\ \A t \in 1 .. Len(ts) : t # mt => us[t] = ts[t]
      /\ us[mt].pos = IF full THEN 0 ELSE q + 1
      /\ Len(us[mt].meta) = z /\ us[mt].meta[q + 1] = x
      /\ \A i \in 1 .. z : i # q + 1 => us[mt].meta[i] = ts[mt].meta[i]
  BY <1>4, <1>6, <1>7 DEF Filling1
<1>9. q < z /\ (full <=> q + 1 >= z)
  BY <1>3, <1>6, <1>7
<1>10. \A k \in 1 .. Len(st) : st[k] = mt <=> k = Len(st)
  <2> TAKE k \in 1 .. Len(st)
  <2>1. k = Len(st) \/ k \in 1 .. Len(st) - 1
    OBVIOUS
  <2>2. mt \in Nat /\ st[k] \in Nat
    BY <1>2
  <2>3. k \in 1 .. Len(st) - 1 => st[k] < mt /\ k # Len(st)
    BY <1>3
  <2>4. k \in 1 .. Len(st) - 1 => st[k] # mt
    BY <2>2, <2>3
  <2> QED
    BY <2>1, <2>3, <2>4
<1>11. \A i \in 1 .. z : ts[mt].meta[i] # 0 <=> i <= q
  BY <1>3, <1>6, <1>7
<1>12. \A i \in 1 .. z : us[mt].meta[i] # 0 <=> i <= q + 1
  <2> TAKE i \in 1 .. z
  <2>1. i = q + 1 => us[mt].meta[i] # 0
    BY <1>8
  <2>2. i # q + 1 => (us[mt].meta[i] # 0 <=> i <= q)
    BY <1>8, <1>11
  <2>3. (i = q + 1 \/ i # q + 1) /\ (i # q + 1 => (i <= q <=> i <= q + 1))
        /\ (i = q + 1 => i <= q + 1)
    BY ONLY q \in Nat, z \in Nat, i \in 1 .. z
  <2> QED
    BY <2>1, <2>2, <2>3
<1>13. \A i \in 0 .. len : i \in 0 .. more
  OBVIOUS
<1>14. ASSUME NEW t \in 1 .. Len(us)  PROVE SlotsOf(us, rest, more, t)
  <2>1. SlotsOf(ts, st, len, t)
    BY <1>8, <1>14 DEF Slots
  <2>2. CASE t # mt
    <3>1. us[t] = ts[t]
      BY <1>8, <1>14, <2>2
    <3>2. (\A k \in 1 .. Len(rest) : rest[k] # t) => (\A k \in 1 .. Len(st) : st[k] # t)
      <4> SUFFICES ASSUME \A k \in 1 .. Len(rest) : rest[k] # t, NEW k \in 1 .. Len(st)
                   PROVE  st[k] # t
        OBVIOUS
      <4>1. Len(st) \in Nat /\ Len(rest) = IF full THEN Len(st) - 1 ELSE Len(st)
        BY <1>1 DEF Left
      <4>2. k = Len(st) \/ k \in 1 .. Len(rest)
        BY ONLY k \in 1 .. Len(st), <4>1
      <4>3. k \in 1 .. Len(rest) => rest[k] = st[k]
        BY <1>1 DEF Left
      <4> QED
        BY <1>10, <2>2, <4>2, <4>3
    <3> QED
      BY <1>13, <2>1, <3>1, <3>2 DEF SlotsOf
  <2>3. CASE t = mt
    <3>1. \A i \in 1 .. z : us[mt].meta[i] \in 0 .. more
      <4> TAKE i \in 1 .. z
      <4>1. ts[mt].meta[i] \in 0 .. len
        BY <1>3, <1>7 DEF SlotsOf
      <4>2. x \in 0 .. more
        OBVIOUS
      <4> QED
        BY <1>8, <1>13, <4>1, <4>2
    <3>2. us[mt].pos <= z
      BY ONLY q \in Nat, z \in Nat, <1>8, <1>9
    <3>3. full \/ \E k \in 1 .. Len(rest) : rest[k] = mt
      BY <1>1, <1>2 DEF Left
    <3>4. full => \A i \in 1 .. z : us[mt].meta[i] # 0
      <4>1. full => \A i \in 1 .. z : i <= q + 1
        BY ONLY q \in Nat, z \in Nat, <1>9
      <4> QED
        BY <1>12, <4>1
    <3> QED
      BY <1>8, <2>3, <3>1, <3>2, <3>3, <3>4 DEF SlotsOf
  <2> QED
    BY <2>2, <2>3
<1>15. ASSUME NEW k \in 1 .. Len(rest)  PROVE Unfilled(us, rest, k)
  <2>1. k \in 1 .. Len(st) /\ rest[k] = st[k] /\ Len(rest) \in Nat
        /\ \A l \in 1 .. k - 1 : rest[l] = st[l]
    <3>1. Len(rest) \in Nat /\ k \in 1 .. Len(rest)
      BY <1>1, <1>15
    <3>2. \A l \in 1 .. k - 1 : l \in 1 .. Len(rest)
      BY ONLY <3>1
    <3> QED
      BY <1>1, <1>15, <3>1, <3>2 DEF Left
  <2>2. Unfilled(ts, st, k)
    BY <2>1 DEF Slots
  <2>3. CASE k # Len(st)
    <3>1. us[st[k]] = ts[st[k]]
      BY <1>8, <1>10, <2>1, <2>2, <2>3 DEF Unfilled
    <3> QED
      BY <1>8, <2>1, <2>2, <3>1 DEF Unfilled
  <2>4. CASE k = Len(st)
    <3>1. ~full
      <4>1. Len(st) \in Nat /\ Len(rest) = IF full THEN Len(st) - 1 ELSE Len(st)
        BY <1>1 DEF Left
      <4> QED
        BY ONLY k \in 1 .. Len(rest), <2>4, <4>1
    <3>2. us[mt].pos = q + 1 /\ q + 1 < z
      <4>1. q + 1 < z
        BY ONLY q \in Nat, z \in Nat, <1>9, <3>1
      <4> QED
        BY <1>8, <3>1, <4>1
    <3>3. rest[k] = mt
      BY <1>10, <2>1, <2>4
    <3>4. /\ us[rest[k]].pos = q + 1 /\ Len(us[rest[k]].meta) = z
          /\ \A i \in 1 .. z : us[rest[k]].meta[i] # 0 <=> i <= q + 1
      BY <1>8, <1>12, <3>2, <3>3
    <3>5. rest[k] \in 1 .. Len(us) /\ \A l \in 1 .. k - 1 : rest[l] < rest[k]
      BY <1>3, <1>8, <2>1, <2>2, <3>3 DEF Unfilled
    <3> QED
      BY ONLY <3>2, <3>4, <3>5 DEF Unfilled
  <2> QED
    BY <2>3, <2>4
<1> QED
  BY <1>1, <1>8, <1>14, <1>15 DEF Left, Slots

\* A target of sz slots, as it is made.
NewTarget(sz) == [Target EXCEPT !.meta = [i \in 1 .. sz |-> 0]]

\* us is ts with a new target, and st2 is st with it, when it has slots.
Extended(ts, st, sz, us, st2) ==
    /\ us = Append(ts, NewTarget(sz))
    /\ st2 = IF sz = 0 THEN st ELSE Append(st, Len(ts) + 1)

\* A new target is put on the stack when it has slots of its own.
LEMMA Appended ==
    ASSUME NEW ts \in Seq(TargetRec), NEW st \in Seq(Nat), NEW len \in Nat,
           Slots(ts, st, len), NEW sz \in Nat, NEW us, NEW st2,
           Extended(ts, st, sz, us, st2)
    PROVE  /\ us \in Seq(TargetRec) /\ Len(us) = Len(ts) + 1 /\ st2 \in Seq(Nat)
           /\ Slots(us, st2, len)
<1>1. PICK c \in Nat : c = Len(ts)
  OBVIOUS
<1>2. PICK n : n = NewTarget(sz)
  OBVIOUS
<1>3. /\ n \in TargetRec /\ n.pos = 0 /\ Len(n.meta) = sz
      /\ \A i \in 1 .. sz : n.meta[i] = 0
  <2>1. PICK w : w = [i \in 1 .. sz |-> 0]
    OBVIOUS
  <2>2. w \in Seq(Nat) /\ Len(w) = sz /\ \A i \in 1 .. sz : w[i] = 0
    BY <2>1
  <2>3. n = [meta |-> w, pos |-> 0]
    BY <1>2, <2>1 DEF NewTarget, Target
  <2> QED
    BY <2>2, <2>3 DEF TargetRec
<1>4. /\ us \in Seq(TargetRec) /\ Len(us) = c + 1 /\ us[c + 1] = n
      /\ \A t \in 1 .. c : us[t] = ts[t]
  BY <1>1, <1>2, <1>3 DEF Extended
<1>5. \A k \in 1 .. Len(st) : Unfilled(ts, st, k) /\ st[k] \in 1 .. c
  BY <1>1 DEF Slots, Unfilled
<1>6. /\ st2 \in Seq(Nat) /\ Len(st2) = IF sz = 0 THEN Len(st) ELSE Len(st) + 1
      /\ \A k \in 1 .. Len(st) : st2[k] = st[k] /\ k \in 1 .. Len(st2)
      /\ sz # 0 => st2[Len(st) + 1] = c + 1
  BY <1>1, <1>4 DEF Extended
<1>7. ASSUME NEW y \in 1 .. Len(us)  PROVE SlotsOf(us, st2, len, y)
  <2>1. CASE y \in 1 .. c
    <3>1. us[y] = ts[y] /\ SlotsOf(ts, st, len, y)
      BY <1>1, <1>4, <2>1 DEF Slots
    <3> QED
      BY <1>6, <3>1 DEF SlotsOf
  <2>2. CASE y = c + 1
    <3>1. sz = 0 \/ \E k \in 1 .. Len(st2) : st2[k] = y
      <4>1. sz # 0 => Len(st) + 1 \in 1 .. Len(st2)
        BY <1>6
      <4> QED
        BY <1>6, <2>2, <4>1
    <3>2. 0 \in 0 .. len /\ 0 <= sz /\ (sz = 0 => 1 .. sz = {})
      OBVIOUS
    <3>3. us[y].pos = 0 /\ Len(us[y].meta) = sz /\ \A i \in 1 .. sz : us[y].meta[i] = 0
      BY <1>3, <1>4, <2>2
    <3> QED
      BY ONLY <3>1, <3>2, <3>3 DEF SlotsOf
  <2>3. y \in 1 .. c \/ y = c + 1
    BY ONLY c \in Nat, y \in 1 .. Len(us), <1>4
  <2> QED
    BY <2>1, <2>2, <2>3
<1>8. ASSUME NEW k \in 1 .. Len(st2)  PROVE Unfilled(us, st2, k)
  <2>1. k \in 1 .. Len(st) \/ (sz # 0 /\ k = Len(st) + 1)
    <3>1. PICK d \in Nat : d = Len(st)
      OBVIOUS
    <3>2. CASE sz = 0
      BY <1>6, <3>2
    <3>3. CASE sz # 0
      <4>1. k \in 1 .. d + 1
        BY <1>6, <3>1, <3>3
      <4>2. k \in 1 .. d \/ k = d + 1
        BY ONLY d \in Nat, <4>1
      <4> QED
        BY <3>1, <3>3, <4>2
    <3> QED
      BY <3>2, <3>3
  <2>2. \A l \in 1 .. k - 1 : l \in 1 .. Len(st)
    <3>1. Len(st) \in Nat
      OBVIOUS
    <3> QED
      BY ONLY <2>1, <3>1
  <2>3. CASE k \in 1 .. Len(st)
    <3>1. Unfilled(ts, st, k) /\ st2[k] = st[k] /\ \A l \in 1 .. k - 1 : st2[l] = st[l]
      BY <1>5, <1>6, <2>2, <2>3
    <3>2. us[st[k]] = ts[st[k]] /\ st[k] \in 1 .. Len(us)
      BY <1>4, <1>5, <2>3
    <3> QED
      BY <3>1, <3>2 DEF Unfilled
  <2>4. CASE sz # 0 /\ k = Len(st) + 1
    <3>1. st2[k] = c + 1 /\ us[st2[k]] = n
      BY <1>4, <1>6, <2>4
    <3>2. \A l \in 1 .. k - 1 : st2[l] \in 1 .. c
      BY <1>5, <1>6, <2>2
    <3>3. c + 1 \in 1 .. Len(us) /\ \A x \in 1 .. c : x < c + 1
      BY ONLY c \in Nat, <1>4
    <3>4. 0 < sz /\ \A i \in 1 .. sz : ~(i <= 0)
      BY <2>4
    <3> QED
      BY <1>3, <3>1, <3>2, <3>3, <3>4 DEF Unfilled
  <2> QED
    BY <2>1, <2>3, <2>4
<1> QED
  BY <1>1, <1>4, <1>6, <1>7, <1>8 DEF Slots

\* The bound on the targets may grow.
LEMMA SlotsMore ==
    ASSUME NEW ts, NEW st, NEW len \in Nat, NEW more \in Nat, len <= more,
           Slots(ts, st, len)
    PROVE  Slots(ts, st, more)
<1>1. \A i \in 0 .. len : i \in 0 .. more
  OBVIOUS
<1> QED
  BY <1>1 DEF Slots, SlotsOf

LEMMA TreeMore ==
    ASSUME NEW ns \in Seq(NodeRec), NEW len \in Nat, NEW more \in Nat, len <= more,
           Tree(ns, len)
    PROVE  Tree(ns, more)
<1>1. ASSUME NEW n \in 1 .. Len(ns)  PROVE Linked(ns, more, n)
  <2>1. Linked(ns, len, n) /\ Formed(ns[n])
    BY TreeKids
  <2>2. ns[n].target \in Nat /\ ns[n].target <= len
    BY <2>1 DEF Linked, Formed
  <2>3. ns[n].target <= more
    BY <2>2
  <2> QED
    BY <2>1, <2>3 DEF Linked
<1> QED
  BY <1>1 DEF Tree

-----------------------------------------------------------------------------
(* The steps that build. *)

LEMMA InvShape ==
    ASSUME Inv
    PROVE  /\ Typed /\ Tree(nodes, Len(targets)) /\ Slots(targets, mtstack, Len(targets))
           /\ nodes \in Seq(NodeRec) /\ targets \in Seq(TargetRec)
           /\ mtstack \in Seq(Nat) /\ mnstack \in Seq(Nat) /\ Len(targets) \in Nat
           /\ curnode \in 0 .. Len(nodes) /\ num \in Positive /\ den \in Positive
           /\ step = "build" => Growing(nodes, curnode, mnstack)
           /\ step # "build" => Playable /\ Walking
BY DEF Inv, Typed

\* Inv after a step that builds.
LEMMA Built ==
    ASSUME Inv, step = "build", UNCHANGED <<step, num, den, walk, nxtstate>>,
           nodes' \in Seq(NodeRec), targets' \in Seq(TargetRec),
           curnode' \in 0 .. Len(nodes'), mtstack' \in Seq(Nat), mnstack' \in Seq(Nat),
           Tree(nodes', Len(targets')), Slots(targets', mtstack', Len(targets')),
           Growing(nodes', curnode', mnstack')
    PROVE  Inv'
<1>1. curnode' \in Nat
  OBVIOUS
<1>2. Typed'
  BY <1>1 DEF Inv, Typed
<1>3. step' = "build"
  OBVIOUS
<1> QED
  BY <1>2, <1>3 DEF Inv

LEMMA InvInit == Init => Inv
<1> SUFFICES ASSUME Init  PROVE Inv
  OBVIOUS
<1>1. PICK div \in Divs : nodes = <<GestNode("poly", div, 1)>>
  BY DEF Init
<1>2. div \in Modifiers /\ div \in Nat /\ div >= 1
  BY ModifiersPositive DEF Modifiers, Positive
<1>3. PICK node : node = GestNode("poly", div, 1)
  OBVIOUS
<1>4. /\ node \in NodeRec /\ node.type = "poly" /\ node.modifier = div /\ node.parent = 1
      /\ node.children = <<>> /\ node.target = 0 /\ node.meta = <<>> /\ node.pos = 0
  BY <1>2, <1>3, GestNodeFormed DEF GestNode
<1>5. nodes \in Seq(NodeRec) /\ Len(nodes) = 1 /\ nodes[1] = node
  BY <1>1, <1>3, <1>4
<1>6. NodeCount(nodes, 1) = 0
  <2>1. KidsIn(nodes, 1)
    <3>1. nodes[1].children = <<>> /\ <<>> \in Seq(Nat) /\ 1 .. Len(<<>>) = {}
      BY <1>4, <1>5
    <3> QED
      BY <3>1 DEF KidsIn
  <2> QED
    BY <1>4, <1>5, <2>1, CountLength
<1>7. Linked(nodes, 0, 1) /\ Shaped(nodes, 1)
  BY <1>2, <1>4, <1>5, <1>6 DEF Linked, Shaped
<1>8. Tree(nodes, 0)
  BY <1>4, <1>5, <1>7 DEF Tree
<1>9. Above(nodes, 1) = {1}
  <2>1. Rooted(nodes)
    BY <1>5, <1>8, TreeRooted
  <2>2. 1 \in 1 .. Len(nodes) /\ nodes[1].parent = 1
    BY <1>4, <1>5
  <2> QED
    BY <2>1, <2>2, AboveStep
<1>10. Ready(nodes, 1)
  BY <1>2, <1>4, <1>5, <1>6 DEF Ready
<1>11. Growing(nodes, 1, <<>>)
  <2>1. Len(<<>>) = 0 /\ (1 .. 0 = {}) /\ \A n \in 1 .. Len(nodes) : n = 1
    BY <1>5
  <2>2. ~Waiting(nodes, <<>>, 1)
    BY <2>1 DEF Waiting
  <2>3. Filled(nodes, 1, <<>>)
    BY <2>1 DEF Filled
  <2>4. \A n \in 1 .. Len(nodes) : Wanting(nodes, 1, <<>>, n)
    BY <1>9, <2>1, <2>2 DEF Wanting
  <2> QED
    BY <1>5, <1>10, <2>3, <2>4 DEF Growing
<1>12. /\ targets = <<>> /\ curnode = 1 /\ mtstack = <<>> /\ mnstack = <<>>
       /\ step = "build" /\ num = 1 /\ den = 1 /\ walk = Walk("cur", 0, 1, 1)
       /\ nxtstate = NoState
  BY DEF Init
<1>13. Slots(targets, mtstack, Len(targets))
  <2>1. Len(targets) = 0 /\ Len(mtstack) = 0 /\ 1 .. 0 = {}
    BY <1>12
  <2> QED
    BY <2>1 DEF Slots
<1>14. Typed
  <2>1. 1 \in Positive
    BY DEF Positive
  <2>2. walk \in WalkRec
    BY <1>12, <2>1 DEF Walk, WalkRec
  <2>3. nxtstate \in StateRec
    BY <1>12, <2>1 DEF NoState, StateRec
  <2> QED
    BY <1>5, <1>12, <2>1, <2>2, <2>3 DEF Typed, Steps
<1> QED
  BY <1>5, <1>8, <1>11, <1>12, <1>13, <1>14 DEF Inv

LEMMA PolyrampStep ==
    ASSUME Inv, NEW div \in Divs, Polyramp(div)
    PROVE  Inv'
<1>1. /\ step = "build" /\ curnode # 0 /\ UNCHANGED <<step, num, den, walk, nxtstate>>
      /\ NodeCount(nodes, curnode) < nodes[curnode].modifier
      /\ nodes' = Attach(nodes, curnode, GestNode("poly", div, curnode))
      /\ curnode' = Len(nodes) + 1 /\ UNCHANGED <<targets, mtstack, mnstack>>
  BY DEF Polyramp, Building
<1>2. /\ nodes \in Seq(NodeRec) /\ Tree(nodes, Len(targets)) /\ Len(targets) \in Nat
      /\ curnode \in 1 .. Len(nodes) /\ Growing(nodes, curnode, mnstack)
      /\ Slots(targets, mtstack, Len(targets))
      /\ targets \in Seq(TargetRec) /\ mtstack \in Seq(Nat) /\ mnstack \in Seq(Nat)
  BY <1>1, InvShape
<1>3. PICK node : node = GestNode("poly", div, curnode)
  OBVIOUS
<1>4. Ramps(node) = 1 /\ div \in Modifiers
  BY <1>3 DEF Ramps, GestNode, Modifiers
<1>5. KidsIn(nodes, curnode) /\ Formed(nodes[curnode])
  BY <1>2, TreeKids
<1>6. IF nodes[curnode].type = "poly"
      THEN NodeCount(nodes, curnode) + Ramps(node) <= nodes[curnode].modifier
      ELSE "poly" = "poly"
  <2>1. NodeCount(nodes, curnode) \in Nat /\ nodes[curnode].modifier \in Nat
    BY <1>2, <1>5, CountLength DEF Formed
  <2> QED
    BY <1>1, <1>4, <2>1
<1>7. PICK c : c = Len(nodes) + 1
  OBVIOUS
<1>8. nodes' = Attach(nodes, curnode, node)
  BY <1>1, <1>3
<1>9. /\ nodes' \in Seq(NodeRec) /\ Tree(nodes', Len(targets))
      /\ Growing(nodes', c, mnstack) /\ c = Len(nodes')
  BY <1>2, <1>3, <1>4, <1>6, <1>7, <1>8, GrowOne
<1>10. curnode' = c /\ c \in 0 .. Len(nodes')
  <2>1. c \in Nat
    BY <1>7, <1>2
  <2> QED
    BY <1>1, <1>7, <1>9, <2>1
<1> QED
  BY <1>1, <1>2, <1>9, <1>10, Built

LEMMA MonorampStep ==
    ASSUME Inv, NEW w \in Beats, Monoramp(w)
    PROVE  Inv'
<1>1. /\ step = "build" /\ curnode # 0 /\ UNCHANGED <<step, num, den, walk, nxtstate>>
      /\ nodes[curnode].type = "poly"
      /\ NodeCount(nodes, curnode) + w <= nodes[curnode].modifier
      /\ nodes' = Attach(nodes, curnode, GestNode("mono", w, curnode))
      /\ curnode' = Len(nodes) + 1 /\ UNCHANGED <<targets, mtstack, mnstack>>
  BY DEF Monoramp, CanMonoramp, Building
<1>2. /\ nodes \in Seq(NodeRec) /\ Tree(nodes, Len(targets)) /\ Len(targets) \in Nat
      /\ curnode \in 1 .. Len(nodes) /\ Growing(nodes, curnode, mnstack)
      /\ Slots(targets, mtstack, Len(targets))
      /\ targets \in Seq(TargetRec) /\ mtstack \in Seq(Nat) /\ mnstack \in Seq(Nat)
  BY <1>1, InvShape
<1>3. PICK node : node = GestNode("mono", w, curnode)
  OBVIOUS
<1>4. Ramps(node) = w /\ w \in Modifiers
  BY <1>3 DEF Ramps, GestNode, Modifiers
<1>5. IF nodes[curnode].type = "poly"
      THEN NodeCount(nodes, curnode) + Ramps(node) <= nodes[curnode].modifier
      ELSE "mono" = "poly"
  BY <1>1, <1>4
<1>6. PICK c : c = Len(nodes) + 1
  OBVIOUS
<1>7. nodes' = Attach(nodes, curnode, node)
  BY <1>1, <1>3
<1>8. /\ nodes' \in Seq(NodeRec) /\ Tree(nodes', Len(targets))
      /\ Growing(nodes', c, mnstack) /\ c = Len(nodes')
  BY <1>2, <1>3, <1>4, <1>5, <1>6, <1>7, GrowOne
<1>9. curnode' = c /\ c \in 0 .. Len(nodes')
  <2>1. c \in Nat
    BY <1>6, <1>2
  <2> QED
    BY <1>1, <1>6, <1>8, <2>1
<1> QED
  BY <1>1, <1>2, <1>8, <1>9, Built

LEMMA AddMetanodeStep ==
    ASSUME Inv, NEW w \in Beats, NEW sz \in MetaSizes, AddMetanode(w, sz)
    PROVE  Inv'
<1>1. PICK ph : ph = Len(nodes) + 1
  OBVIOUS
<1>2. PICK made : made = [i \in 1 .. sz |-> ph + i]
  OBVIOUS
<1>3. /\ step = "build" /\ curnode # 0 /\ UNCHANGED <<step, num, den, walk, nxtstate>>
      /\ nodes[curnode].type = "poly"
      /\ NodeCount(nodes, curnode) + w <= nodes[curnode].modifier
      /\ nodes' = Attach(nodes, curnode, Placeholder(w, curnode, made))
                    \o [i \in 1 .. sz |-> GestNode("mono", w, ph)]
      /\ curnode' = made[1] /\ mnstack' = Append(mnstack, ph)
      /\ UNCHANGED <<targets, mtstack>>
  BY <1>1, <1>2 DEF AddMetanode, CanMonoramp, Building, Placeholder
<1>4. /\ nodes \in Seq(NodeRec) /\ Tree(nodes, Len(targets)) /\ Len(targets) \in Nat
      /\ curnode \in 1 .. Len(nodes) /\ Growing(nodes, curnode, mnstack)
      /\ Slots(targets, mtstack, Len(targets))
      /\ targets \in Seq(TargetRec) /\ mtstack \in Seq(Nat) /\ mnstack \in Seq(Nat)
  BY <1>3, InvShape
<1>5. sz \in Nat /\ sz >= 2 /\ w \in Modifiers /\ ph \in Nat
  BY SizesAssumption, <1>1, <1>4 DEF Modifiers
<1>6. nodes' = Attach(nodes, curnode, Placeholder(w, curnode, [i \in 1 .. sz |-> ph + i]))
                 \o [i \in 1 .. sz |-> GestNode("mono", w, ph)]
  BY <1>2, <1>3
<1>7. Stacked(nodes, nodes', curnode, w, sz, ph)
  BY <1>1, <1>4, <1>5, <1>6, Stacking
<1>8. Tree(nodes', Len(targets)) /\ Growing(nodes', ph + 1, Append(mnstack, ph))
  BY <1>1, <1>3, <1>4, <1>5, <1>7, GrowMeta
<1>9. nodes' \in Seq(NodeRec) /\ Len(nodes') = ph + sz
  BY <1>7 DEF Stacked
<1>10. curnode' = ph + 1 /\ ph + 1 \in 0 .. Len(nodes')
  BY <1>2, <1>3, <1>5, <1>9
<1>11. mnstack' \in Seq(Nat)
  BY <1>3, <1>4, <1>5
<1> QED
  BY <1>3, <1>4, <1>8, <1>9, <1>10, <1>11, Built

LEMMA FillSlotStep ==
    ASSUME Inv, NEW sz \in Nat, FillSlot(sz)
    PROVE  Inv'
<1>1. PICK t : t = Len(targets) + 1
  OBVIOUS
<1>2. PICK mt : mt = mtstack[Len(mtstack)]
  OBVIOUS
<1>3. PICK full \in BOOLEAN : full <=> FilledBy(targets[mt])
  OBVIOUS
<1>4. PICK rest : rest = Rest(mtstack, full)
  OBVIOUS
<1>5. PICK us : us = FilledSlot(targets, mt, t, full)
  OBVIOUS
<1>6. /\ step = "build" /\ UNCHANGED <<step, num, den, walk, nxtstate>>
      /\ mtstack # <<>> /\ targets' = Append(us, NewTarget(sz))
      /\ mtstack' = IF sz = 0 THEN rest ELSE Append(rest, t)
      /\ UNCHANGED <<nodes, curnode, mnstack>>
  BY <1>1, <1>2, <1>3, <1>4, <1>5 DEF FillSlot, Building, Rest, FilledSlot, NewTarget
<1>7. /\ nodes \in Seq(NodeRec) /\ Tree(nodes, Len(targets)) /\ Len(targets) \in Nat
      /\ curnode \in 0 .. Len(nodes) /\ Growing(nodes, curnode, mnstack)
      /\ Slots(targets, mtstack, Len(targets))
      /\ targets \in Seq(TargetRec) /\ mtstack \in Seq(Nat) /\ mnstack \in Seq(Nat)
  BY <1>6, InvShape
<1>8. t \in Nat /\ t \in 1 .. t /\ Len(targets) <= t
  BY <1>1, <1>7
<1>9. full <=> targets[mt].pos + 1 >= Len(targets[mt].meta)
  BY <1>3 DEF FilledBy
<1>10. /\ us \in Seq(TargetRec) /\ Len(us) = Len(targets) /\ rest \in Seq(Nat)
       /\ Slots(us, rest, t)
  BY <1>2, <1>4, <1>5, <1>6, <1>7, <1>8, <1>9, TopFilled
<1>11. Extended(us, rest, sz, targets', mtstack')
  BY <1>1, <1>6, <1>10 DEF Extended
<1>12. /\ targets' \in Seq(TargetRec) /\ Len(targets') = Len(us) + 1
       /\ mtstack' \in Seq(Nat) /\ Slots(targets', mtstack', t)
  BY <1>8, <1>10, <1>11, Appended
<1>13. Len(targets') = t
  BY <1>1, <1>10, <1>12
<1>14. Tree(nodes, t)
  BY <1>7, <1>8, TreeMore
<1> QED
  BY <1>6, <1>7, <1>12, <1>13, <1>14, Built

\* mktarget's target is in the tree, and nothing is hunted for yet.
LEMMA LeafPlaced ==
    ASSUME Inv, step = "build", curnode # 0, NEW t, t = Len(targets) + 1,
           NEW placed, placed = Place(t)
    PROVE  /\ placed \in Seq(NodeRec) /\ Tree(placed, t) /\ t \in Nat
           /\ Settled(placed, curnode, mnstack) /\ SameMeta(nodes, placed)
           /\ curnode \in 1 .. Len(placed)
<1>1. /\ Typed /\ nodes \in Seq(NodeRec) /\ Tree(nodes, Len(targets))
      /\ Len(targets) \in Nat
      /\ curnode \in 1 .. Len(nodes) /\ Growing(nodes, curnode, mnstack)
  BY InvShape
<1>2. Place(t) = IF nodes[curnode].type = "mono" THEN Hit(nodes, curnode, t)
                 ELSE Attach(nodes, curnode, LeafFor(curnode, t))
  BY <1>1, Placing
<1>3. Formed(nodes[curnode])
  BY <1>1, TreeKids
<1>4. CASE nodes[curnode].type = "mono"
  <2>1. placed = Hit(nodes, curnode, Len(targets) + 1)
    BY <1>2, <1>4
  <2>2. /\ placed \in Seq(NodeRec) /\ Tree(placed, Len(targets) + 1)
        /\ Settled(placed, curnode, mnstack) /\ SameMeta(nodes, placed)
    BY <1>1, <1>4, <2>1, HitSettles
  <2>3. curnode \in 1 .. Len(placed)
    BY <1>1, <2>2 DEF SameMeta
  <2> QED
    BY <1>1, <2>2, <2>3
<1>5. CASE nodes[curnode].type = "poly"
  <2>1. placed = Attach(nodes, curnode, LeafFor(curnode, Len(targets) + 1))
    BY <1>2, <1>5
  <2>2. /\ placed \in Seq(NodeRec) /\ Tree(placed, Len(targets) + 1)
        /\ Settled(placed, curnode, mnstack) /\ SameMeta(nodes, placed)
    BY <1>1, <1>5, <2>1, LeafSettles
  <2>3. curnode \in 1 .. Len(placed)
    BY <1>1, <2>2 DEF SameMeta
  <2> QED
    BY <1>1, <2>2, <2>3
<1> QED
  BY <1>3, <1>4, <1>5 DEF Formed

\* Where the hunt of mktarget leaves the tree, curnode and the metanodes.
LEMMA LeafHunted ==
    ASSUME Inv, NEW sz \in Nat, PlaceLeaf(sz)
    PROVE  /\ nodes' \in Seq(NodeRec) /\ Tree(nodes', Len(targets) + 1)
           /\ curnode' \in 0 .. Len(nodes') /\ mnstack' \in Seq(Nat)
           /\ Growing(nodes', curnode', mnstack')
<1>1. PICK t : t = Len(targets) + 1
  OBVIOUS
<1>2. PICK placed : placed = Place(t)
  OBVIOUS
<1>3. PICK next : next = Hunt(placed)
  OBVIOUS
<1>4. PICK full \in BOOLEAN : full <=> FilledBy(nodes[next])
  OBVIOUS
<1>5. /\ step = "build" /\ curnode # 0
      /\ IF next # 0 /\ Filling(next)
         THEN /\ nodes' = Turned(placed, next, full)
              /\ curnode' = nodes[next].meta[nodes[next].pos + 1]
              /\ mnstack' = Rest(mnstack, full)
         ELSE nodes' = placed /\ curnode' = next /\ mnstack' = mnstack
  BY <1>1, <1>2, <1>3, <1>4 DEF PlaceLeaf, Building, Turned, Rest
<1>6. /\ placed \in Seq(NodeRec) /\ Tree(placed, t) /\ t \in Nat
      /\ Settled(placed, curnode, mnstack) /\ SameMeta(nodes, placed)
      /\ curnode \in 1 .. Len(placed)
  BY <1>1, <1>2, <1>5, LeafPlaced
<1>7. /\ nodes \in Seq(NodeRec) /\ Tree(nodes, Len(targets)) /\ mnstack \in Seq(Nat)
      /\ curnode \in 1 .. Len(nodes) /\ Growing(nodes, curnode, mnstack)
  BY <1>5, InvShape
<1>8. PICK found : found = Hunted(placed, curnode, mnstack)
  OBVIOUS
<1>9. next = IF found = {} THEN 0 ELSE Max(found)
  BY <1>3, <1>8 DEF Hunt, Hunted, Filling
<1>10. CASE found = {}
  <2>1. nodes' = placed /\ curnode' = 0 /\ mnstack' = mnstack
    BY <1>5, <1>9, <1>10
  <2>2. Growing(placed, 0, mnstack)
    BY <1>6, <1>7, <1>8, <1>10, HuntOver
  <2>3. 0 \in 0 .. Len(placed)
    BY <1>6
  <2> QED
    BY <1>1, <1>6, <1>7, <2>1, <2>2, <2>3
<1>11. CASE found # {}
  <2>1. /\ next = Max(Hunted(placed, curnode, mnstack))
        /\ Hunted(placed, curnode, mnstack) # {}
    BY <1>8, <1>9, <1>11
  <2>2. next \in 1 .. Len(placed) /\ next # 0
    BY <1>6, <1>7, <2>1, HuntLeaves
  <2>3. CASE Filling(next)
    <3>1. mnstack # <<>> /\ next = mnstack[Len(mnstack)]
      BY <2>3 DEF Filling
    <3>2. next \in 1 .. Len(nodes)
      <4>1. OfTree(nodes, mnstack)
        BY <1>7, GrowingShape
      <4>2. Len(mnstack) \in 1 .. Len(mnstack)
        BY <1>7, <3>1
      <4> QED
        BY <3>1, <4>1, <4>2 DEF OfTree
    <3>3. placed[next].meta = nodes[next].meta /\ placed[next].pos = nodes[next].pos
      BY <1>6, <3>2 DEF SameMeta
    <3>4. full <=> placed[next].pos + 1 >= Len(placed[next].meta)
      BY <1>4, <3>3 DEF FilledBy
    <3>5. /\ nodes' = Turned(placed, next, full)
          /\ curnode' = placed[next].meta[placed[next].pos + 1]
          /\ mnstack' = Rest(mnstack, full)
      BY <1>5, <2>2, <2>3, <3>3
    <3>6. PICK ks : ks = nodes'
      OBVIOUS
    <3>7. PICK cur2 : cur2 = curnode'
      OBVIOUS
    <3>8. PICK st2 : st2 = mnstack'
      OBVIOUS
    <3>9. /\ ks \in Seq(NodeRec) /\ Tree(ks, t) /\ cur2 \in 1 .. Len(ks)
          /\ st2 \in Seq(Nat) /\ Growing(ks, cur2, st2)
      <4>1. Moved(placed, mnstack, next, full, ks, cur2, st2)
        BY <3>1, <3>4, <3>5, <3>6, <3>7, <3>8 DEF Moved
      <4> QED
        BY <1>6, <1>7, <2>1, <4>1, HuntMeta
    <3> QED
      BY <1>1, <3>6, <3>7, <3>8, <3>9
  <2>4. CASE ~Filling(next)
    <3>1. ~(mnstack # <<>> /\ next = mnstack[Len(mnstack)])
      BY <2>4 DEF Filling
    <3>2. Growing(placed, next, mnstack)
      BY <1>6, <1>7, <2>1, <3>1, HuntRoom
    <3>3. nodes' = placed /\ curnode' = next /\ mnstack' = mnstack
      BY <1>5, <2>4
    <3> QED
      BY <1>1, <1>6, <1>7, <2>2, <3>2, <3>3
  <2> QED
    BY <2>3, <2>4
<1> QED
  BY <1>10, <1>11

LEMMA PlaceLeafStep ==
    ASSUME Inv, NEW sz \in Nat, PlaceLeaf(sz)
    PROVE  Inv'
<1>1. /\ step = "build" /\ UNCHANGED <<step, num, den, walk, nxtstate>>
      /\ Extended(targets, mtstack, sz, targets', mtstack')
  <2>1. Append(<<>>, Len(targets) + 1) = <<Len(targets) + 1>>
    OBVIOUS
  <2> QED
    BY <2>1 DEF PlaceLeaf, Building, NewTarget, Extended
<1>2. /\ Slots(targets, mtstack, Len(targets)) /\ Len(targets) \in Nat
      /\ targets \in Seq(TargetRec) /\ mtstack \in Seq(Nat)
  BY InvShape
<1>3. PICK t : t = Len(targets) + 1
  OBVIOUS
<1>4. t \in Nat /\ Len(targets) <= t
  BY <1>2, <1>3
<1>5. Slots(targets, mtstack, t)
  BY <1>2, <1>4, SlotsMore
<1>6. /\ targets' \in Seq(TargetRec) /\ Len(targets') = Len(targets) + 1
      /\ mtstack' \in Seq(Nat) /\ Slots(targets', mtstack', t)
  BY <1>1, <1>2, <1>4, <1>5, Appended
<1>7. /\ nodes' \in Seq(NodeRec) /\ Tree(nodes', Len(targets) + 1)
      /\ curnode' \in 0 .. Len(nodes') /\ mnstack' \in Seq(Nat)
      /\ Growing(nodes', curnode', mnstack')
  BY LeafHunted
<1> QED
  BY <1>1, <1>3, <1>6, <1>7, Built

-----------------------------------------------------------------------------
(* The steps that play. *)

\* Inv after a step that plays.
LEMMA Played ==
    ASSUME Inv, step # "build", UNCHANGED <<mtstack, mnstack>>,
           nodes' \in Seq(NodeRec), targets' \in Seq(TargetRec),
           Tree(nodes', Len(targets')), Slots(targets', mtstack, Len(targets')),
           curnode' \in 0 .. Len(nodes'), step' \in Steps \ {"build"},
           num' \in Positive, den' \in Positive, walk' \in WalkRec,
           nxtstate' \in StateRec, AllWhole(nodes'), Walking'
    PROVE  Inv'
<1>1. Playable'
  BY DEF Inv, Playable
<1>2. curnode' \in Nat
  OBVIOUS
<1>3. Typed'
  BY <1>2 DEF Inv, Typed
<1>4. Slots(targets', mtstack', Len(targets'))
  OBVIOUS
<1> QED
  BY <1>1, <1>3, <1>4 DEF Inv

\* A step that only walks.
LEMMA Walked ==
    ASSUME Inv, step # "build", UNCHANGED <<nodes, targets, mtstack, mnstack>>,
           curnode' \in 0 .. Len(nodes), step' \in Steps \ {"build"},
           num' \in Positive, den' \in Positive, walk' \in WalkRec,
           nxtstate' \in StateRec, Walking'
    PROVE  Inv'
<1>1. AllWhole(nodes')
  BY DEF Inv, Playable
<1>2. /\ nodes' \in Seq(NodeRec) /\ targets' \in Seq(TargetRec)
      /\ Tree(nodes', Len(targets')) /\ Slots(targets', mtstack, Len(targets'))
      /\ curnode' \in 0 .. Len(nodes')
  BY InvShape
<1> QED
  BY <1>1, <1>2, Played

\* The parts of a walk, and of what it found.
LEMMA WalkFormed ==
    ASSUME Inv
    PROVE  /\ walk \in WalkRec /\ nxtstate \in StateRec
           /\ walk.for \in {"cur", "nxt"} /\ walk.top \in Nat /\ walk.reverted \in Nat
           /\ walk.target \in Nat /\ walk.wait \in BOOLEAN
           /\ walk.num \in Positive /\ walk.den \in Positive
           /\ nxtstate.num \in Positive /\ nxtstate.den \in Positive
           /\ nxtstate.node \in Nat /\ nxtstate.wait \in BOOLEAN
<1>1. walk \in WalkRec /\ nxtstate \in StateRec
  BY DEF Inv, Typed
<1> QED
  BY <1>1 DEF WalkRec, StateRec

\* What a node of a tree that plays holds.
Holding(ns, len, n) ==
    /\ ns[n].type \in {"poly", "mono"} /\ ns[n].modifier \in Positive
    /\ n # 1 => ns[n].parent \in 1 .. n - 1
    /\ ns[n].meta # <<>> =>
          \A i \in 1 .. Len(ns[n].meta) :
             ns[n].meta[i] \in 2 .. Len(ns) /\ ns[ns[n].meta[i]].parent = n
    /\ ns[n].target # 0 =>
          ns[n].type = "mono" /\ ns[n].meta = <<>> /\ ns[n].target \in 1 .. len
    /\ ns[n].meta = <<>> /\ ns[n].target = 0 =>
          /\ ns[n].children # <<>> /\ ns[n].children[1] \in 2 .. Len(ns)
          /\ ns[ns[n].children[1]].parent = n

LEMMA NodeHolds ==
    ASSUME NEW ns \in Seq(NodeRec), NEW len \in Nat, Tree(ns, len), AllWhole(ns),
           NEW n \in 1 .. Len(ns)
    PROVE  Holding(ns, len, n)
<1>1. /\ KidsIn(ns, n) /\ Formed(ns[n]) /\ Linked(ns, len, n) /\ Shaped(ns, n)
      /\ WholeIn(ns, n)
  BY TreeKids DEF AllWhole
<1>2. ns[n].type \in {"poly", "mono"} /\ ns[n].modifier \in Positive
  BY <1>1 DEF Formed, Positive
<1>3. n # 1 => ns[n].parent \in 1 .. n - 1
  BY <1>1 DEF Linked
<1>4. \A i \in 1 .. Len(ns[n].meta) :
         ns[n].meta[i] \in 2 .. Len(ns) /\ ns[ns[n].meta[i]].parent = n
  <2> TAKE i \in 1 .. Len(ns[n].meta)
  <2>1. PICK z \in Nat : z = Len(ns[n].meta)
    BY <1>1 DEF Formed
  <2>2. PICK d \in Nat : d = Len(ns)
    OBVIOUS
  <2>3. n + z <= d /\ i \in 1 .. z /\ n \in 1 .. d
    BY <1>1, <2>1, <2>2 DEF Linked
  <2>4. n + i \in 2 .. d
    BY ONLY z \in Nat, d \in Nat, <2>3
  <2> QED
    BY <1>1, <2>2, <2>4 DEF Linked
<1>5. ns[n].target # 0 =>
         ns[n].type = "mono" /\ ns[n].meta = <<>> /\ ns[n].target \in 1 .. len
  <2> SUFFICES ASSUME ns[n].target # 0
               PROVE  ns[n].type = "mono" /\ ns[n].meta = <<>> /\ ns[n].target \in 1 .. len
    OBVIOUS
  <2>1. ns[n].type = "mono" /\ ns[n].meta = <<>>
    BY <1>1 DEF Shaped, Formed
  <2>2. ns[n].target \in Nat /\ ns[n].target <= len
    BY <1>1 DEF Formed, Linked
  <2> QED
    BY <2>1, <2>2
<1>6. ns[n].meta = <<>> /\ ns[n].target = 0 =>
         /\ ns[n].children # <<>> /\ ns[n].children[1] \in 2 .. Len(ns)
         /\ ns[ns[n].children[1]].parent = n
  <2> SUFFICES ASSUME ns[n].meta = <<>>, ns[n].target = 0
               PROVE  /\ ns[n].children # <<>> /\ ns[n].children[1] \in 2 .. Len(ns)
                      /\ ns[ns[n].children[1]].parent = n
    OBVIOUS
  <2>1. ns[n].children # <<>>
    <3>1. CASE ns[n].type = "poly"
      <4>1. NodeCount(ns, n) = ns[n].modifier
        BY <1>1, <3>1 DEF WholeIn
      <4>2. ns[n].children = <<>> => NodeCount(ns, n) = 0
        BY <1>1, CountLength
      <4> QED
        BY <1>2, <4>1, <4>2 DEF Positive
    <3>2. CASE ns[n].type = "mono"
      <4>1. ns[n].type # "poly"
        BY <3>2
      <4>2. Len(ns[n].children) = 1
        BY ONLY <1>1, <4>1, ns[n].meta = <<>>, ns[n].target = 0 DEF WholeIn
      <4> SUFFICES ASSUME ns[n].children = <<>>  PROVE FALSE
        OBVIOUS
      <4> QED
        BY <4>2
    <3> QED
      BY <1>2, <3>1, <3>2
  <2>2. 1 \in 1 .. Len(ns[n].children)
    BY <1>1, <2>1 DEF Formed
  <2> QED
    BY <1>1, <2>1, <2>2 DEF Linked
<1> QED
  BY <1>2, <1>3, <1>4, <1>5, <1>6 DEF Holding

\* The tree that plays.
LEMMA PlayShape ==
    ASSUME Inv, step # "build"
    PROVE  /\ Rooted(nodes) /\ AllWhole(nodes) /\ Len(nodes) >= 1 /\ Walking
           /\ nodes[1].parent = 1
           /\ \A n \in 1 .. Len(nodes) : Holding(nodes, Len(targets), n)
<1>1. /\ nodes \in Seq(NodeRec) /\ Tree(nodes, Len(targets)) /\ Len(targets) \in Nat
      /\ Playable /\ Walking
  BY InvShape
<1>2. AllWhole(nodes) /\ Len(nodes) >= 1 /\ nodes[1].parent = 1
  BY <1>1 DEF Playable, Tree
<1> QED
  BY <1>1, <1>2, NodeHolds, TreeRooted

\* The product over a node is the product at its parent.
LEMMA OverParent ==
    ASSUME NEW ns, Rooted(ns), NEW type
    PROVE  /\ \A n \in 2 .. Len(ns) :
                 /\ ns[n].parent \in 1 .. Len(ns)
                 /\ Over(ns, type, n) = ProductOf(ns, type, ns[n].parent)
           /\ Over(ns, type, 1) = 1
<1>1. ASSUME NEW n \in 2 .. Len(ns)
      PROVE  /\ ns[n].parent \in 1 .. Len(ns)
             /\ Over(ns, type, n) = ProductOf(ns, type, ns[n].parent)
  <2>1. ns[n].parent \in 1 .. n - 1 /\ Len(ns) \in Nat
    BY DEF Rooted
  <2>2. ns[n].parent \in 1 .. Len(ns) /\ ns[n].parent # n
    BY ONLY n \in 2 .. Len(ns), <2>1
  <2> QED
    BY <2>2 DEF Over
<1>2. Over(ns, type, 1) = 1
  BY DEF Rooted, Over
<1> QED
  BY <1>1, <1>2

\* What a factor that was multiplied in comes to when it is divided out.
LEMMA DividedIs ==
    ASSUME Rooted(nodes), NEW n \in 1 .. Len(nodes), NEW type, NEW x \in Positive,
           x = ProductOf(nodes, type, n)
    PROVE  Divided(x, type, n) = Over(nodes, type, n)
<1>1. PICK f : f = Factor(nodes, type, n)
  OBVIOUS
<1>2. PICK y : y = Over(nodes, type, n)
  OBVIOUS
<1>3. x = f * y /\ y \in Positive
  BY <1>1, <1>2, ProductStep
<1>4. f \in Positive
  BY <1>1, FactorPositive DEF Rooted
<1>5. n # 0
  OBVIOUS
<1>6. CASE nodes[n].type = type /\ nodes[n].meta = <<>>
  <2>1. f = nodes[n].modifier
    BY <1>1, <1>6 DEF Factor
  <2>2. Divided(x, type, n) = x \div f
    BY <1>5, <1>6, <2>1 DEF Divided
  <2>3. (f * y) \div f = y
    BY <1>3, <1>4, Undone
  <2> QED
    BY <1>2, <1>3, <2>2, <2>3
<1>7. CASE ~(nodes[n].type = type /\ nodes[n].meta = <<>>)
  <2>1. f = 1
    BY <1>1, <1>7 DEF Factor
  <2>2. Divided(x, type, n) = x
    BY <1>7 DEF Divided
  <2>3. 1 * y = y
    BY <1>3 DEF Positive
  <2> QED
    BY <1>2, <1>3, <2>1, <2>2, <2>3
<1> QED
  BY <1>6, <1>7

\* A leaf that is not reverted when it is left has nothing to revert.
LEMMA LeftOff ==
    ASSUME Inv, step = "search"
    PROVE  /\ Divided(num, "poly", LeftBehind) = Over(nodes, "poly", walk.top)
           /\ Divided(den, "mono", LeftBehind) = Over(nodes, "mono", walk.top)
<1>1. /\ Rooted(nodes) /\ Walking
      /\ \A n \in 1 .. Len(nodes) : Holding(nodes, Len(targets), n)
      /\ num \in Positive /\ den \in Positive
  BY PlayShape, InvShape
<1>2. PICK n : n = walk.top
  OBVIOUS
<1>3. n \in 1 .. Len(nodes) /\ n # 0
  BY <1>1, <1>2 DEF Walking
<1>4. CASE walk.reverted = walk.top
  <2>1. LeftBehind = 0
    BY <1>4 DEF LeftBehind
  <2>2. AtSpeedOver(nodes, num, den, n)
    BY <1>1, <1>2, <1>4 DEF Walking
  <2> QED
    BY <1>2, <2>1, <2>2 DEF Divided, AtSpeedOver
<1>5. CASE walk.reverted # walk.top
  <2>1. Leaf(nodes, n) /\ AtSpeed(nodes, num, den, n)
    BY <1>1, <1>2, <1>5 DEF Walking
  <2>2. nodes[n].type = "mono" /\ nodes[n].meta = <<>> /\ nodes[n].modifier \in Positive
    BY <1>1, <1>3, <2>1 DEF Leaf, Holding
  <2>3. num = ProductOf(nodes, "poly", n) /\ den = ProductOf(nodes, "mono", n)
    BY <2>1 DEF AtSpeed
  <2>4. CASE nodes[n].modifier > 1
    <3>1. LeftBehind = n
      BY <1>2, <1>5, <2>2, <2>4 DEF LeftBehind
    <3> QED
      BY <1>1, <1>2, <1>3, <2>3, <3>1, DividedIs
  <2>5. CASE ~(nodes[n].modifier > 1)
    <3>1. LeftBehind = 0
      BY <1>2, <2>5 DEF LeftBehind
    <3>2. nodes[n].modifier = 1
      BY <2>2, <2>5 DEF Positive
    <3>3. Factor(nodes, "poly", n) = 1 /\ Factor(nodes, "mono", n) = 1
      BY <2>2, <3>2 DEF Factor
    <3>4. /\ num = 1 * Over(nodes, "poly", n) /\ Over(nodes, "poly", n) \in Positive
          /\ den = 1 * Over(nodes, "mono", n) /\ Over(nodes, "mono", n) \in Positive
      BY <1>1, <1>3, <2>3, <3>3, ProductStep
    <3>5. \A y \in Positive : 1 * y = y
      BY DEF Positive
    <3> QED
      BY <1>2, <3>1, <3>4, <3>5 DEF Divided
  <2> QED
    BY <2>4, <2>5
<1> QED
  BY <1>4, <1>5

LEMMA ClimbStep ==
    ASSUME Inv, Climb
    PROVE  Inv'
<1>1. PICK parent : parent = nodes[walk.top].parent
  OBVIOUS
<1>2. /\ step = "search" /\ walk.top # 1
      /\ num' = Divided(Divided(num, "poly", LeftBehind), "poly", parent)
      /\ den' = Divided(Divided(den, "mono", LeftBehind), "mono", parent)
      /\ walk' = [walk EXCEPT !.top = parent, !.reverted = parent]
      /\ UNCHANGED <<nodes, targets, curnode, mtstack, mnstack, step, nxtstate>>
  BY <1>1 DEF Climb, Reverted, Top, build
<1>3. Rooted(nodes) /\ Walking
  BY <1>2, PlayShape
<1>4. /\ walk \in WalkRec /\ nxtstate \in StateRec /\ curnode \in 0 .. Len(nodes)
      /\ walk.top \in 1 .. Len(nodes)
  BY <1>3, InvShape, WalkFormed DEF Walking
<1>5. walk.top \in 2 .. Len(nodes)
  BY <1>2, <1>4
<1>6. /\ parent \in 1 .. Len(nodes)
      /\ Over(nodes, "poly", walk.top) = ProductOf(nodes, "poly", parent)
      /\ Over(nodes, "mono", walk.top) = ProductOf(nodes, "mono", parent)
  BY <1>1, <1>3, <1>5, OverParent
<1>7. /\ Divided(num, "poly", LeftBehind) = ProductOf(nodes, "poly", parent)
      /\ Divided(den, "mono", LeftBehind) = ProductOf(nodes, "mono", parent)
  BY <1>2, <1>6, LeftOff
<1>8. /\ ProductOf(nodes, "poly", parent) \in Positive
      /\ Over(nodes, "poly", parent) \in Positive
      /\ ProductOf(nodes, "mono", parent) \in Positive
      /\ Over(nodes, "mono", parent) \in Positive
  BY <1>3, <1>6, ProductStep
<1>9. num' = Over(nodes, "poly", parent) /\ den' = Over(nodes, "mono", parent)
  BY <1>2, <1>3, <1>6, <1>7, <1>8, DividedIs
<1>10. /\ walk' \in WalkRec /\ walk'.top = parent /\ walk'.reverted = parent
       /\ walk'.for = walk.for /\ walk'.num = walk.num /\ walk'.den = walk.den
  <2>1. parent \in Nat
    BY <1>6
  <2>2. PICK u : u = [walk EXCEPT !.top = parent]
    OBVIOUS
  <2>3. u \in WalkRec /\ u.top = parent /\ u.for = walk.for /\ u.num = walk.num
        /\ u.den = walk.den
    BY <1>4, <2>1, <2>2 DEF WalkRec
  <2>4. walk' = [u EXCEPT !.reverted = parent]
    BY <1>2, <2>2
  <2> QED
    BY <1>4, <2>1, <2>3, <2>4 DEF WalkRec
<1>11. AtSpeedOver(nodes', num', den', walk'.top)
  BY <1>2, <1>6, <1>9, <1>10 DEF AtSpeedOver
<1>12. walk.for = "nxt" /\ AtSpeed(nodes', walk'.num, walk'.den, curnode')
  BY <1>2, <1>3, <1>10 DEF Walking
<1>13. Walking'
  BY <1>2, <1>6, <1>10, <1>11, <1>12 DEF Walking
<1> QED
  BY <1>2, <1>4, <1>8, <1>9, <1>10, <1>13, Walked DEF Steps

\* The sibling that comes next.
LEMMA NextSibling ==
    ASSUME Inv, step # "build", NEW n \in 2 .. Len(nodes), NextOf(n) # 0
    PROVE  NextOf(n) \in 2 .. Len(nodes) /\ nodes[NextOf(n)].parent = nodes[n].parent
<1>1. /\ Rooted(nodes) /\ nodes \in Seq(NodeRec) /\ Tree(nodes, Len(targets))
  BY PlayShape, InvShape
<1>2. PICK p : p = nodes[n].parent
  OBVIOUS
<1>3. p \in 1 .. Len(nodes)
  BY <1>1, <1>2, OverParent
<1>4. Formed(nodes[p]) /\ Linked(nodes, Len(targets), p)
  BY <1>1, <1>3, TreeKids
<1>5. PICK kids \in Seq(Nat) : kids = nodes[p].children
  BY <1>4 DEF Formed
<1>6. PICK after : after = {i \in 2 .. Len(kids) : kids[i - 1] = n}
  OBVIOUS
<1>7. NextOf(n) = IF after = {} THEN 0 ELSE kids[Max(after)]
  BY <1>2, <1>5, <1>6 DEF NextOf
<1>8. after \in SUBSET (0 .. Len(kids)) /\ Len(kids) \in Nat /\ after # {}
  <2>1. after \in SUBSET (0 .. Len(kids)) /\ Len(kids) \in Nat
    BY <1>6
  <2>2. after # {}
    BY <1>7
  <2> QED
    BY <2>1, <2>2
<1>9. Max(after) \in after
  BY <1>8, Greatest
<1>10. Max(after) \in 1 .. Len(kids)
  BY <1>6, <1>9
<1>11. kids[Max(after)] \in 2 .. Len(nodes) /\ nodes[kids[Max(after)]].parent = p
  BY <1>4, <1>5, <1>10 DEF Linked
<1> QED
  BY <1>2, <1>7, <1>8, <1>11

LEMMA AcrossStep ==
    ASSUME Inv, Across
    PROVE  Inv'
<1>1. PICK next : next = NextOf(walk.top)
  OBVIOUS
<1>2. /\ step = "search" /\ walk.top # 1 /\ next # 0
      /\ num' = Divided(Divided(num, "poly", LeftBehind), "poly", 0)
      /\ den' = Divided(Divided(den, "mono", LeftBehind), "mono", 0)
      /\ walk' = [walk EXCEPT !.top = next] /\ step' = "dive"
      /\ UNCHANGED <<nodes, targets, curnode, mtstack, mnstack, nxtstate>>
  BY <1>1 DEF Across, Reverted, Top, build
<1>3. Rooted(nodes) /\ Walking
  BY <1>2, PlayShape
<1>4. /\ walk \in WalkRec /\ nxtstate \in StateRec /\ curnode \in 0 .. Len(nodes)
      /\ walk.top \in 1 .. Len(nodes)
  BY <1>3, InvShape, WalkFormed DEF Walking
<1>5. walk.top \in 2 .. Len(nodes)
  BY <1>2, <1>4
<1>6. next \in 2 .. Len(nodes) /\ nodes[next].parent = nodes[walk.top].parent
  BY <1>1, <1>2, <1>5, NextSibling
<1>7. /\ Over(nodes, "poly", walk.top) = Over(nodes, "poly", next)
      /\ Over(nodes, "mono", walk.top) = Over(nodes, "mono", next)
  <2>1. \A type : /\ Over(nodes, type, walk.top)
                       = ProductOf(nodes, type, nodes[walk.top].parent)
                  /\ Over(nodes, type, next)
                       = ProductOf(nodes, type, nodes[next].parent)
    BY <1>3, <1>5, <1>6, OverParent
  <2> QED
    BY <1>6, <2>1
<1>8. num' = Over(nodes, "poly", next) /\ den' = Over(nodes, "mono", next)
  <2>1. /\ num' = Divided(num, "poly", LeftBehind)
        /\ den' = Divided(den, "mono", LeftBehind)
    BY <1>2 DEF Divided
  <2> QED
    BY <1>2, <1>7, <2>1, LeftOff
<1>9. next \in 1 .. Len(nodes)
  BY <1>6
<1>10. Over(nodes, "poly", next) \in Positive /\ Over(nodes, "mono", next) \in Positive
  BY <1>3, <1>9, ProductStep
<1>11. /\ walk' \in WalkRec /\ walk'.top = next
       /\ walk'.for = walk.for /\ walk'.num = walk.num /\ walk'.den = walk.den
  BY <1>2, <1>4, <1>9 DEF WalkRec
<1>12. AtSpeedOver(nodes', num', den', walk'.top)
  BY <1>2, <1>8, <1>9, <1>11 DEF AtSpeedOver
<1>13. AtSpeed(nodes', walk'.num, walk'.den, curnode')
  BY <1>2, <1>3, <1>11 DEF Walking
<1>14. Walking'
  BY <1>2, <1>9, <1>11, <1>12, <1>13 DEF Walking
<1> QED
  BY <1>2, <1>4, <1>8, <1>10, <1>11, <1>14, Walked DEF Steps

LEMMA NextPhraseStep ==
    ASSUME Inv, NextPhrase
    PROVE  Inv'
<1>1. /\ step = "search" /\ walk.top = 1 /\ num' = 1 /\ den' = 1
      /\ walk' = [walk EXCEPT !.wait = TRUE] /\ step' = "dive"
      /\ UNCHANGED <<nodes, targets, curnode, mtstack, mnstack, nxtstate>>
  BY DEF NextPhrase, Top, build
<1>2. Rooted(nodes) /\ Walking
  BY <1>1, PlayShape
<1>3. /\ walk \in WalkRec /\ nxtstate \in StateRec /\ curnode \in 0 .. Len(nodes)
      /\ 1 \in 1 .. Len(nodes)
  BY <1>1, <1>2, InvShape, WalkFormed DEF Walking
<1>4. /\ walk' \in WalkRec /\ walk'.top = 1
      /\ walk'.for = walk.for /\ walk'.num = walk.num /\ walk'.den = walk.den
  BY <1>1, <1>3 DEF WalkRec
<1>5. 1 \in Positive
  BY DEF Positive
<1>6. AtSpeedOver(nodes', num', den', walk'.top)
  BY <1>1, <1>2, <1>3, <1>4, OverParent DEF AtSpeedOver
<1>7. AtSpeed(nodes', walk'.num, walk'.den, curnode')
  BY <1>1, <1>2, <1>4 DEF Walking
<1>8. Walking'
  BY <1>1, <1>3, <1>4, <1>6, <1>7 DEF Walking
<1> QED
  BY <1>1, <1>3, <1>4, <1>5, <1>8, Walked DEF Steps

\* The fraction is multiplied as the factors of a node say.
LEMMA AppliedIs ==
    ASSUME Inv, step = "dive", nodes[walk.top].meta = <<>>, Applied(walk.top)
    PROVE  /\ num' = ProductOf(nodes, "poly", walk.top) /\ num' \in Positive
           /\ den' = ProductOf(nodes, "mono", walk.top) /\ den' \in Positive
<1>1. /\ Rooted(nodes) /\ Walking
      /\ \A n \in 1 .. Len(nodes) : Holding(nodes, Len(targets), n)
  BY PlayShape
<1>2. PICK n : n = walk.top
  OBVIOUS
<1>3. n \in 1 .. Len(nodes) /\ AtSpeedOver(nodes, num, den, n)
  BY <1>1, <1>2 DEF Walking
<1>4. PICK x : x = Over(nodes, "poly", n)
  OBVIOUS
<1>5. PICK y : y = Over(nodes, "mono", n)
  OBVIOUS
<1>6. num = x /\ den = y
  BY <1>3, <1>4, <1>5 DEF AtSpeedOver
<1>7. /\ ProductOf(nodes, "poly", n) = Factor(nodes, "poly", n) * x
      /\ ProductOf(nodes, "mono", n) = Factor(nodes, "mono", n) * y
      /\ ProductOf(nodes, "poly", n) \in Positive /\ x \in Positive
      /\ ProductOf(nodes, "mono", n) \in Positive /\ y \in Positive
  BY <1>1, <1>3, <1>4, <1>5, ProductStep
<1>8. nodes[n].type \in {"poly", "mono"} /\ nodes[n].modifier \in Positive
  BY <1>1, <1>3 DEF Holding
<1>9. PICK m \in Positive : m = nodes[n].modifier
  BY <1>8
<1>10. /\ \A u, v \in Positive : u * v = v * u
       /\ \A u \in Positive : 1 * u = u
  BY DEF Positive
<1>11. CASE nodes[n].type = "poly"
  <2>1. num' = x * m /\ den' = y
    BY <1>2, <1>6, <1>9, <1>11 DEF Applied
  <2>2. Factor(nodes, "poly", n) = m /\ Factor(nodes, "mono", n) = 1
    BY <1>2, <1>9, <1>11 DEF Factor
  <2> QED
    BY <1>2, <1>7, <1>9, <1>10, <2>1, <2>2
<1>12. CASE nodes[n].type = "mono"
  <2>1. num' = x /\ den' = y * m
    BY <1>2, <1>6, <1>9, <1>12 DEF Applied
  <2>2. Factor(nodes, "poly", n) = 1 /\ Factor(nodes, "mono", n) = m
    BY <1>2, <1>9, <1>12 DEF Factor
  <2> QED
    BY <1>2, <1>7, <1>9, <1>10, <2>1, <2>2
<1> QED
  BY <1>8, <1>11, <1>12

LEMMA DescendStep ==
    ASSUME Inv, Descend
    PROVE  Inv'
<1>1. PICK n : n = walk.top
  OBVIOUS
<1>2. PICK c : c = nodes[n].children[1]
  OBVIOUS
<1>3. /\ step = "dive" /\ nodes[n].meta = <<>> /\ nodes[n].target = 0 /\ Applied(walk.top)
      /\ walk' = [walk EXCEPT !.top = c]
      /\ UNCHANGED <<nodes, targets, curnode, mtstack, mnstack, step, nxtstate>>
  BY <1>1, <1>2 DEF Descend, build
<1>4. /\ Rooted(nodes) /\ Walking
      /\ \A d \in 1 .. Len(nodes) : Holding(nodes, Len(targets), d)
  BY <1>3, PlayShape
<1>5. /\ walk \in WalkRec /\ nxtstate \in StateRec /\ curnode \in 0 .. Len(nodes)
      /\ n \in 1 .. Len(nodes)
  BY <1>1, <1>4, InvShape, WalkFormed DEF Walking
<1>6. c \in 2 .. Len(nodes) /\ c \in 1 .. Len(nodes) /\ nodes[c].parent = n
  <2>1. c \in 2 .. Len(nodes) /\ nodes[c].parent = n
    BY <1>2, <1>3, <1>4, <1>5 DEF Holding
  <2> QED
    BY <2>1
<1>7. /\ num' = ProductOf(nodes, "poly", n) /\ num' \in Positive
      /\ den' = ProductOf(nodes, "mono", n) /\ den' \in Positive
  BY <1>1, <1>3, AppliedIs
<1>8. /\ Over(nodes, "poly", c) = ProductOf(nodes, "poly", n)
      /\ Over(nodes, "mono", c) = ProductOf(nodes, "mono", n)
  BY <1>4, <1>6, OverParent
<1>9. /\ walk' \in WalkRec /\ walk'.top = c
      /\ walk'.for = walk.for /\ walk'.num = walk.num /\ walk'.den = walk.den
  BY <1>3, <1>5, <1>6 DEF WalkRec
<1>10. AtSpeedOver(nodes', num', den', walk'.top)
  BY <1>3, <1>6, <1>7, <1>8, <1>9 DEF AtSpeedOver
<1>11. walk'.for = "nxt" => AtSpeed(nodes', walk'.num, walk'.den, curnode')
  BY <1>3, <1>4, <1>9 DEF Walking
<1>12. Walking'
  BY <1>3, <1>6, <1>9, <1>10, <1>11 DEF Walking
<1> QED
  BY <1>3, <1>5, <1>7, <1>9, <1>12, Walked DEF Steps

LEMMA LandStep ==
    ASSUME Inv, Land
    PROVE  Inv'
<1>1. PICK n : n = walk.top
  OBVIOUS
<1>2. PICK t : t = nodes[n].target
  OBVIOUS
<1>3. /\ step = "dive" /\ nodes[n].meta = <<>> /\ t # 0 /\ Applied(walk.top)
      /\ walk' = [walk EXCEPT !.target = t] /\ step' = "pick"
      /\ UNCHANGED <<nodes, targets, curnode, mtstack, mnstack, nxtstate>>
  BY <1>1, <1>2 DEF Land, build
<1>4. /\ Rooted(nodes) /\ Walking
      /\ \A d \in 1 .. Len(nodes) : Holding(nodes, Len(targets), d)
  BY <1>3, PlayShape
<1>5. /\ walk \in WalkRec /\ nxtstate \in StateRec /\ curnode \in 0 .. Len(nodes)
      /\ n \in 1 .. Len(nodes)
  BY <1>1, <1>4, InvShape, WalkFormed DEF Walking
<1>6. t \in 1 .. Len(targets)
  BY <1>2, <1>3, <1>4, <1>5 DEF Holding
<1>7. /\ num' = ProductOf(nodes, "poly", n) /\ num' \in Positive
      /\ den' = ProductOf(nodes, "mono", n) /\ den' \in Positive
  BY <1>1, <1>3, AppliedIs
<1>8. /\ walk' \in WalkRec /\ walk'.top = n /\ walk'.target = t
      /\ walk'.for = walk.for /\ walk'.num = walk.num /\ walk'.den = walk.den
  <2>1. t \in Nat
    BY <1>6
  <2> QED
    BY <1>1, <1>3, <1>5, <2>1 DEF WalkRec
<1>9. Leaf(nodes', walk'.top) /\ AtSpeed(nodes', num', den', walk'.top)
  BY <1>2, <1>3, <1>5, <1>7, <1>8 DEF Leaf, AtSpeed
<1>10. walk'.for = "nxt" => AtSpeed(nodes', walk'.num, walk'.den, curnode')
  BY <1>3, <1>4, <1>8 DEF Walking
<1>11. Walking'
  BY <1>3, <1>5, <1>6, <1>8, <1>9, <1>10 DEF Walking
<1> QED
  BY <1>3, <1>5, <1>7, <1>8, <1>11, Walked DEF Steps

LEMMA FirstLeafStep ==
    ASSUME Inv, FirstLeaf
    PROVE  Inv'
<1>1. /\ step = "pick" /\ curnode' = walk.top /\ nxtstate' = NoState
      /\ walk' = Walk("nxt", walk.top, num, den) /\ step' = "search"
      /\ UNCHANGED <<nodes, targets, mtstack, mnstack, num, den>>
  BY DEF FirstLeaf
<1>2. /\ Walking /\ num \in Positive /\ den \in Positive
  BY <1>1, PlayShape, InvShape
<1>3. /\ walk.top \in 1 .. Len(nodes) /\ walk.top # 0
      /\ Leaf(nodes, walk.top) /\ AtSpeed(nodes, num, den, walk.top)
  BY <1>1, <1>2 DEF Walking
<1>4. /\ walk' \in WalkRec /\ walk'.for = "nxt" /\ walk'.top = walk.top
      /\ walk'.reverted = 0 /\ walk'.num = num /\ walk'.den = den
  BY <1>1, <1>2, <1>3 DEF Walk, WalkRec
<1>5. nxtstate' \in StateRec
  BY <1>1 DEF NoState, StateRec, Positive
<1>6. Walking'
  BY <1>1, <1>3, <1>4 DEF Walking
<1>7. curnode' \in 0 .. Len(nodes)
  BY <1>1, <1>3
<1> QED
  BY <1>1, <1>2, <1>4, <1>5, <1>6, <1>7, Walked DEF Steps

LEMMA FoundStep ==
    ASSUME Inv, Found
    PROVE  Inv'
<1>1. /\ step = "pick" /\ walk.for = "nxt"
      /\ nxtstate' = [num |-> num, den |-> den, node |-> walk.top,
                      target |-> walk.target, wait |-> walk.wait]
      /\ num' = walk.num /\ den' = walk.den /\ step' = "play"
      /\ UNCHANGED <<nodes, targets, curnode, mtstack, mnstack, walk>>
  BY DEF Found, build
<1>2. /\ Walking /\ num \in Positive /\ den \in Positive /\ curnode \in 0 .. Len(nodes)
  BY <1>1, PlayShape, InvShape
<1>3. /\ walk.top \in 1 .. Len(nodes) /\ Leaf(nodes, walk.top)
      /\ AtSpeed(nodes, num, den, walk.top) /\ AtSpeed(nodes, walk.num, walk.den, curnode)
  BY <1>1, <1>2 DEF Walking
<1>4. /\ walk \in WalkRec /\ walk.target \in Nat /\ walk.wait \in BOOLEAN
      /\ walk.num \in Positive /\ walk.den \in Positive /\ walk.top \in Nat
  BY WalkFormed
<1>5. /\ nxtstate' \in StateRec /\ nxtstate'.node = walk.top
      /\ nxtstate'.num = num /\ nxtstate'.den = den
  BY <1>1, <1>2, <1>4 DEF StateRec
<1>6. Walking'
  BY <1>1, <1>3, <1>5 DEF Walking
<1> QED
  BY <1>1, <1>2, <1>4, <1>5, <1>6, Walked DEF Steps

LEMMA TargetOnDeckStep ==
    ASSUME Inv, TargetOnDeck
    PROVE  Inv'
<1>1. PICK s : s = nxtstate
  OBVIOUS
<1>2. /\ step = "play" /\ num' = s.num /\ den' = s.den /\ curnode' = s.node
      /\ nxtstate' = NoState /\ walk' = Walk("nxt", s.node, s.num, s.den)
      /\ step' = "search" /\ UNCHANGED <<nodes, targets, mtstack, mnstack>>
  BY <1>1 DEF TargetOnDeck
<1>3. Walking
  BY <1>2, PlayShape
<1>4. Leaf(nodes, s.node) /\ AtSpeed(nodes, s.num, s.den, s.node)
  BY <1>1, <1>2, <1>3 DEF Walking
<1>5. s.num \in Positive /\ s.den \in Positive /\ s.node \in Nat
  BY <1>1, WalkFormed
<1>6. s.node \in 1 .. Len(nodes) /\ s.node # 0 /\ s.node \in 0 .. Len(nodes)
  <2>1. s.node \in 1 .. Len(nodes)
    BY <1>4 DEF Leaf
  <2> QED
    BY <2>1
<1>7. /\ walk' \in WalkRec /\ walk'.for = "nxt" /\ walk'.top = s.node
      /\ walk'.reverted = 0 /\ walk'.num = s.num /\ walk'.den = s.den
  BY <1>2, <1>5 DEF Walk, WalkRec
<1>8. nxtstate' \in StateRec
  BY <1>2 DEF NoState, StateRec, Positive
<1>9. Walking'
  BY <1>2, <1>4, <1>6, <1>7 DEF Walking
<1> QED
  BY <1>2, <1>5, <1>6, <1>7, <1>8, <1>9, Walked DEF Steps

\* A choice in turn is one there is.
LEMMA InTurnIs ==
    ASSUME NEW m, m.pos \in Nat, Len(m.meta) \in Nat, Len(m.meta) >= 1
    PROVE  InTurn(m) \in 1 .. Len(m.meta) /\ InTurn(m) \in Nat
<1>1. PICK q \in Nat : q = m.pos
  OBVIOUS
<1>2. PICK z \in Nat : z = Len(m.meta)
  OBVIOUS
<1>3. PICK i : i = IF q >= z THEN 1 ELSE q + 1
  OBVIOUS
<1>4. i \in 1 .. z /\ i \in Nat
  <2>1. z >= 1
    BY <1>2
  <2> QED
    BY ONLY q \in Nat, z \in Nat, <1>3, <2>1
<1> QED
  BY <1>1, <1>2, <1>3, <1>4 DEF InTurn

\* ms is ns with the metanode n at the position q.
Repositions(ns, n, q, ms) == ms = [ns EXCEPT ![n].pos = q]

\* The position of a metanode is nothing that the tree, the products of its
\* paths or what is missing in it depend on.
LEMMA Repositioned ==
    ASSUME NEW ns \in Seq(NodeRec), NEW len \in Nat, Tree(ns, len), AllWhole(ns),
           NEW n \in 1 .. Len(ns), NEW q \in Nat, q <= Len(ns[n].meta),
           NEW ms, Repositions(ns, n, q, ms)
    PROVE  /\ ms \in Seq(NodeRec) /\ Tree(ms, len) /\ AllWhole(ms) /\ Len(ms) = Len(ns)
           /\ SameProducts(ns, ms) /\ \A k \in 1 .. Len(ns) : ms[k].target = ns[k].target
<1>1. ns[n] \in NodeRec
  OBVIOUS
<1>2. PICK m : m = At(ns[n], q)
  OBVIOUS
<1>3. /\ m \in NodeRec /\ m.pos = q
      /\ m.type = ns[n].type /\ m.modifier = ns[n].modifier
      /\ m.parent = ns[n].parent /\ m.children = ns[n].children
      /\ m.target = ns[n].target /\ m.meta = ns[n].meta
  BY <1>1, <1>2, AtPosition
<1>4. ms = [ns EXCEPT ![n] = m]
  BY <1>2 DEF At, Repositions
<1>5. ms \in Seq(NodeRec) /\ Len(ms) = Len(ns) /\ ms[n] = m
      /\ \A k \in 1 .. Len(ns) : k # n => ms[k] = ns[k]
  <2>1. m \in NodeRec
    BY <1>3
  <2> QED
    BY ONLY ns \in Seq(NodeRec), n \in 1 .. Len(ns), <1>4, <2>1
<1>6. \A k \in 1 .. Len(ns) :
         /\ ms[k].type = ns[k].type /\ ms[k].modifier = ns[k].modifier
         /\ ms[k].parent = ns[k].parent /\ ms[k].children = ns[k].children
         /\ ms[k].target = ns[k].target /\ ms[k].meta = ns[k].meta
  BY ONLY <1>3, <1>5
<1>7. Skeleton(ns, ms) /\ SameProducts(ns, ms)
  <2>1. Len(ns) <= Len(ms)
    BY <1>5
  <2> QED
    BY <1>5, <1>6, <2>1 DEF Skeleton, SameProducts
<1>8. ASSUME NEW k \in 1 .. Len(ns)  PROVE Kept(ns, ms, len, k)
  <2>1. SameHold(ns, ms, k)
    BY <1>6, <1>8 DEF SameHold
  <2>2. ms[k].pos <= Len(ms[k].meta)
    <3>1. ns[k].pos <= Len(ns[k].meta)
      BY TreeKids DEF Shaped
    <3> QED
      BY <1>3, <1>5, <3>1
  <2>3. len <= len
    OBVIOUS
  <2> QED
    BY <1>5, <1>7, <2>1, <2>2, <2>3, Keeping
<1>9. Tree(ms, len)
  <2>1. Len(ms) >= 1 /\ ms[1].parent = 1
    BY <1>5, <1>6 DEF Tree
  <2> QED
    BY <1>5, <1>8, <2>1 DEF Tree, Kept
<1>10. AllWhole(ms)
  BY <1>5, <1>8 DEF AllWhole, Kept
<1> QED
  BY <1>5, <1>6, <1>7, <1>9, <1>10

LEMMA ChooseNodeStep ==
    ASSUME Inv, ChooseNode
    PROVE  Inv'
<1>1. PICK n : n = walk.top
  OBVIOUS
<1>2. PICK q : q = InTurn(nodes[n])
  OBVIOUS
<1>3. PICK c : c = nodes[n].meta[q]
  OBVIOUS
<1>4. PICK ms : ms = nodes'
  OBVIOUS
<1>5. /\ step = "dive" /\ nodes[n].meta # <<>> /\ ms = [nodes EXCEPT ![n].pos = q]
      /\ walk' = [walk EXCEPT !.top = c]
      /\ UNCHANGED <<targets, curnode, mtstack, mnstack, step, num, den, nxtstate>>
  BY <1>1, <1>2, <1>3, <1>4 DEF ChooseNode, build
<1>6. /\ Rooted(nodes) /\ Walking /\ AllWhole(nodes)
      /\ \A d \in 1 .. Len(nodes) : Holding(nodes, Len(targets), d)
  BY <1>5, PlayShape
<1>7. /\ nodes \in Seq(NodeRec) /\ Tree(nodes, Len(targets)) /\ Len(targets) \in Nat
      /\ Slots(targets, mtstack, Len(targets)) /\ targets \in Seq(TargetRec)
      /\ num \in Positive /\ den \in Positive /\ curnode \in 0 .. Len(nodes)
  BY InvShape
<1>8. walk \in WalkRec /\ nxtstate \in StateRec /\ n \in 1 .. Len(nodes)
  BY <1>1, <1>6, WalkFormed DEF Walking
<1>9. q \in 1 .. Len(nodes[n].meta) /\ q \in Nat /\ q <= Len(nodes[n].meta)
  <2>1. Formed(nodes[n])
    BY <1>7, <1>8, TreeKids
  <2>2. nodes[n].meta \in Seq(Nat) /\ nodes[n].pos \in Nat
    BY <2>1 DEF Formed
  <2>3. Len(nodes[n].meta) \in Nat /\ Len(nodes[n].meta) >= 1
    BY <1>5, <2>2
  <2>4. q \in 1 .. Len(nodes[n].meta) /\ q \in Nat
    BY <1>2, <2>2, <2>3, InTurnIs
  <2> QED
    BY <2>3, <2>4
<1>10. c \in 2 .. Len(nodes) /\ nodes[c].parent = n
  BY <1>3, <1>5, <1>6, <1>8, <1>9 DEF Holding
<1>11. /\ ms \in Seq(NodeRec) /\ Tree(ms, Len(targets)) /\ AllWhole(ms)
       /\ Len(ms) = Len(nodes) /\ SameProducts(nodes, ms)
       /\ \A k \in 1 .. Len(nodes) : ms[k].target = nodes[k].target
  <2>1. Repositions(nodes, n, q, ms)
    BY <1>5 DEF Repositions
  <2> QED
    BY <1>6, <1>7, <1>8, <1>9, <2>1, Repositioned
<1>12. Rooted(ms)
  BY <1>11, TreeRooted
<1>13. \A type, k : k \in 1 .. Len(nodes) =>
          /\ ProductOf(nodes, type, k) = ProductOf(ms, type, k)
          /\ Over(nodes, type, k) = Over(ms, type, k)
  BY <1>6, <1>11, <1>12, ProductAgree
<1>14. c \in 1 .. Len(ms) /\ c \in 1 .. Len(nodes) /\ c \in Nat
  BY <1>10, <1>11
<1>15. \A type : Over(nodes, type, c) = Over(nodes, type, n)
  <2> TAKE type
  <2>1. Over(nodes, type, c) = ProductOf(nodes, type, n)
    BY <1>6, <1>10, OverParent
  <2>2. Factor(nodes, type, n) = 1
    BY <1>5 DEF Factor
  <2>3. /\ ProductOf(nodes, type, n) = 1 * Over(nodes, type, n)
        /\ Over(nodes, type, n) \in Positive
    BY <1>6, <1>8, <2>2, ProductStep
  <2>4. \A y \in Positive : 1 * y = y
    BY DEF Positive
  <2> QED
    BY <2>1, <2>3, <2>4
<1>16. /\ walk' \in WalkRec /\ walk'.top = c
       /\ walk'.for = walk.for /\ walk'.num = walk.num /\ walk'.den = walk.den
  BY <1>5, <1>8, <1>14 DEF WalkRec
<1>17. AtSpeedOver(ms, num', den', walk'.top)
  <2>1. AtSpeedOver(nodes, num, den, n)
    BY <1>1, <1>5, <1>6 DEF Walking
  <2> QED
    <3>1. num = Over(nodes, "poly", n) /\ den = Over(nodes, "mono", n)
      BY <2>1 DEF AtSpeedOver
    <3>2. num = Over(nodes, "poly", c) /\ den = Over(nodes, "mono", c)
      BY ONLY <1>15, <3>1
    <3>3. /\ Over(nodes, "poly", c) = Over(ms, "poly", c)
          /\ Over(nodes, "mono", c) = Over(ms, "mono", c)
      BY ONLY <1>13, <1>14
    <3>4. num' = num /\ den' = den
      BY <1>5
    <3> QED
      BY ONLY <1>14, <1>16, <3>2, <3>3, <3>4 DEF AtSpeedOver
<1>18. walk'.for = "nxt" => AtSpeed(ms, walk'.num, walk'.den, curnode')
  <2>1. walk.for = "nxt" => AtSpeed(nodes, walk.num, walk.den, curnode)
    BY <1>5, <1>6 DEF Walking
  <2> QED
    <3>1. curnode' = curnode /\ Len(ms) = Len(nodes)
      BY <1>5, <1>11
    <3>2. curnode \in 1 .. Len(nodes) =>
             /\ ProductOf(nodes, "poly", curnode) = ProductOf(ms, "poly", curnode)
             /\ ProductOf(nodes, "mono", curnode) = ProductOf(ms, "mono", curnode)
      BY ONLY <1>13
    <3> QED
      BY ONLY <1>16, <2>1, <3>1, <3>2 DEF AtSpeed
<1>19. Walking'
  BY <1>4, <1>5, <1>14, <1>16, <1>17, <1>18 DEF Walking
<1>20. curnode' \in 0 .. Len(nodes')
  BY <1>4, <1>5, <1>7, <1>11
<1> QED
  BY <1>4, <1>5, <1>7, <1>8, <1>11, <1>16, <1>19, <1>20, Played DEF Steps

LEMMA ChooseTargetStep ==
    ASSUME Inv, ChooseTarget
    PROVE  Inv'
<1>1. PICK t : t = walk.target
  OBVIOUS
<1>2. PICK q : q = InTurn(targets[t])
  OBVIOUS
<1>3. PICK x : x = targets[t].meta[q]
  OBVIOUS
<1>4. /\ step = "pick" /\ targets[t].meta # <<>>
      /\ targets' = [targets EXCEPT ![t].pos = q]
      /\ walk' = [walk EXCEPT !.target = x]
      /\ UNCHANGED <<nodes, curnode, mtstack, mnstack, step, num, den, nxtstate>>
  BY <1>1, <1>2, <1>3 DEF ChooseTarget, build
<1>5. /\ Walking /\ AllWhole(nodes)
  BY <1>4, PlayShape
<1>6. /\ nodes \in Seq(NodeRec) /\ Tree(nodes, Len(targets)) /\ Len(targets) \in Nat
      /\ Slots(targets, mtstack, Len(targets)) /\ targets \in Seq(TargetRec)
      /\ num \in Positive /\ den \in Positive /\ curnode \in 0 .. Len(nodes)
      /\ walk \in WalkRec /\ nxtstate \in StateRec
  BY InvShape, WalkFormed
<1>7. mtstack = <<>>
  BY <1>4 DEF Inv, Playable
<1>8. t \in 1 .. Len(targets) /\ targets[t] \in TargetRec
  BY <1>1, <1>4, <1>5, <1>6 DEF Walking
<1>9. q \in 1 .. Len(targets[t].meta) /\ q \in Nat /\ q <= Len(targets[t].meta)
  <2>1. TargetFormed(targets[t])
    BY <1>8, TargetIsFormed
  <2>2. targets[t].meta \in Seq(Nat) /\ targets[t].pos \in Nat
    BY <2>1 DEF TargetFormed
  <2>3. Len(targets[t].meta) \in Nat /\ Len(targets[t].meta) >= 1
    BY <1>4, <2>2
  <2>4. q \in 1 .. Len(targets[t].meta) /\ q \in Nat
    BY <1>2, <2>2, <2>3, InTurnIs
  <2> QED
    BY <2>3, <2>4
<1>10. x \in 1 .. Len(targets)
  <2>1. SlotsOf(targets, mtstack, Len(targets), t)
    BY <1>6, <1>8 DEF Slots
  <2>2. \A k \in 1 .. Len(mtstack) : mtstack[k] # t
    BY <1>7
  <2>3. x \in 0 .. Len(targets) /\ x # 0
    BY <1>3, <1>9, <2>1, <2>2 DEF SlotsOf
  <2> QED
    BY <1>6, <2>3
<1>11. PICK m : m = [targets[t] EXCEPT !.pos = q]
  OBVIOUS
<1>12. m \in TargetRec /\ m.meta = targets[t].meta /\ m.pos = q
  BY <1>8, <1>9, <1>11 DEF TargetRec
<1>13. /\ targets' \in Seq(TargetRec) /\ Len(targets') = Len(targets)
       /\ targets'[t] = m /\ \A k \in 1 .. Len(targets) : k # t => targets'[k] = targets[k]
  <2>1. targets' = [targets EXCEPT ![t] = m]
    BY <1>4, <1>11
  <2> QED
    BY <1>6, <1>8, <1>12, <2>1
<1>14. Slots(targets', mtstack, Len(targets'))
  <2>1. ASSUME NEW k \in 1 .. Len(targets)
        PROVE  SlotsOf(targets', mtstack, Len(targets), k)
    <3>1. SlotsOf(targets, mtstack, Len(targets), k)
      BY <1>6, <2>1 DEF Slots
    <3>2. targets'[k].meta = targets[k].meta
      BY <1>12, <1>13, <2>1
    <3>3. targets'[k].pos <= Len(targets[k].meta)
      BY <1>9, <1>12, <1>13, <2>1, <3>1 DEF SlotsOf
    <3> QED
      BY <3>1, <3>2, <3>3 DEF SlotsOf
  <2>2. 1 .. Len(mtstack) = {}
    BY <1>7
  <2> QED
    BY <1>13, <2>1, <2>2 DEF Slots
<1>15. /\ walk' \in WalkRec /\ walk'.top = walk.top /\ walk'.target = x
       /\ walk'.for = walk.for /\ walk'.num = walk.num /\ walk'.den = walk.den
  <2>1. x \in Nat
    BY <1>10
  <2> QED
    BY <1>4, <1>6, <2>1 DEF WalkRec
<1>16. Walking'
  BY <1>4, <1>5, <1>10, <1>13, <1>15 DEF Walking
<1>17. Tree(nodes', Len(targets')) /\ AllWhole(nodes')
  BY <1>4, <1>5, <1>6, <1>13
<1> QED
  BY <1>4, <1>6, <1>13, <1>14, <1>15, <1>16, <1>17, Played DEF Steps

LEMMA StutterStep ==
    ASSUME Inv, vars' = vars
    PROVE  Inv'
<1>1. /\ UNCHANGED <<nodes, targets, curnode, mtstack, mnstack, step, num, den, walk,
                     nxtstate>>
  BY DEF vars
<1>2. CASE step = "build"
  <2>1. /\ nodes' \in Seq(NodeRec) /\ targets' \in Seq(TargetRec)
        /\ curnode' \in 0 .. Len(nodes') /\ mtstack' \in Seq(Nat) /\ mnstack' \in Seq(Nat)
        /\ Tree(nodes', Len(targets')) /\ Slots(targets', mtstack', Len(targets'))
        /\ Growing(nodes', curnode', mnstack')
    BY <1>1, <1>2, InvShape
  <2> QED
    BY <1>1, <1>2, <2>1, Built
<1>3. CASE step # "build"
  <2>1. Walking
    BY <1>3, PlayShape
  <2>2. Walking'
    BY <1>1, <2>1 DEF Walking
  <2>3. /\ curnode' \in 0 .. Len(nodes) /\ step' \in Steps \ {"build"}
        /\ num' \in Positive /\ den' \in Positive /\ walk' \in WalkRec
        /\ nxtstate' \in StateRec
    BY <1>1, <1>3, InvShape DEF Typed
  <2> QED
    BY <1>1, <1>3, <2>2, <2>3, Walked
<1> QED
  BY <1>2, <1>3

LEMMA FinishStep ==
    ASSUME Inv, Finish
    PROVE  Inv'
<1>1. /\ step = "build" /\ curnode = 0 /\ mtstack = <<>> /\ step' = "dive"
      /\ walk' = Walk("cur", 1, 1, 1) /\ num' = 1 /\ den' = 1
      /\ UNCHANGED <<nodes, targets, curnode, mtstack, mnstack, nxtstate>>
  BY DEF Finish, Top, build
<1>2. /\ Typed /\ Tree(nodes, Len(targets)) /\ Slots(targets, mtstack, Len(targets))
      /\ nodes \in Seq(NodeRec) /\ curnode \in 0 .. Len(nodes)
      /\ Growing(nodes, curnode, mnstack)
  BY <1>1, InvShape
<1>3. mnstack = <<>> /\ AllWhole(nodes)
  BY <1>1, <1>2 DEF Growing, AllWhole
<1>4. Rooted(nodes) /\ 1 \in 1 .. Len(nodes)
  BY <1>2, TreeRooted DEF Tree
<1>5. AtSpeedOver(nodes, 1, 1, 1)
  BY <1>4, OverParent DEF AtSpeedOver
<1>6. 1 \in Positive
  BY DEF Positive
<1>7. walk' \in WalkRec /\ walk'.for = "cur" /\ walk'.top = 1
  BY <1>1, <1>6 DEF Walk, WalkRec
<1>8. Walking'
  BY <1>1, <1>4, <1>5, <1>7 DEF Walking
<1>9. Typed'
  BY <1>1, <1>2, <1>6, <1>7 DEF Typed, Steps
<1>10. Playable'
  BY <1>1, <1>3 DEF Playable
<1>11. /\ Tree(nodes', Len(targets')) /\ Slots(targets', mtstack', Len(targets'))
       /\ curnode' \in 0 .. Len(nodes') /\ step' # "build"
  BY <1>1, <1>2
<1> QED
  BY <1>8, <1>9, <1>10, <1>11 DEF Inv

LEMMA InvNext == Inv /\ [Next]_vars => Inv'
<1> SUFFICES ASSUME Inv, [Next]_vars  PROVE Inv'
  OBVIOUS
<1>1. CASE Build
  <2>1. CASE \E div \in Divs : Polyramp(div)
    BY <2>1, PolyrampStep
  <2>2. CASE \E w \in Beats : Monoramp(w)
    BY <2>2, MonorampStep
  <2>3. CASE \E w \in Beats, sz \in MetaSizes : AddMetanode(w, sz)
    BY <2>3, AddMetanodeStep
  <2>4. CASE AddTarget
    BY <2>4, FillSlotStep, PlaceLeafStep DEF AddTarget
  <2>5. CASE \E sz \in MetaSizes : AddMetatarget(sz)
    <3>1. \A sz \in MetaSizes : sz \in Nat
      BY SizesAssumption
    <3> QED
      BY <2>5, <3>1, FillSlotStep, PlaceLeafStep DEF AddMetatarget
  <2>6. CASE Finish
    BY <2>6, FinishStep
  <2> QED
    BY <1>1, <2>1, <2>2, <2>3, <2>4, <2>5, <2>6 DEF Build
<1>2. CASE Play
  <2>1. CASE Climb
    BY <2>1, ClimbStep
  <2>2. CASE Across
    BY <2>2, AcrossStep
  <2>3. CASE NextPhrase
    BY <2>3, NextPhraseStep
  <2>4. CASE ChooseNode
    BY <2>4, ChooseNodeStep
  <2>5. CASE Descend
    BY <2>5, DescendStep
  <2>6. CASE Land
    BY <2>6, LandStep
  <2>7. CASE ChooseTarget
    BY <2>7, ChooseTargetStep
  <2>8. CASE FirstLeaf
    BY <2>8, FirstLeafStep
  <2>9. CASE Found
    BY <2>9, FoundStep
  <2>10. CASE TargetOnDeck
    BY <2>10, TargetOnDeckStep
  <2> QED
    BY <1>2, <2>1, <2>2, <2>3, <2>4, <2>5, <2>6, <2>7, <2>8, <2>9, <2>10 DEF Play
<1>3. CASE UNCHANGED vars
  BY <1>3, StutterStep
<1> QED
  BY <1>1, <1>2, <1>3 DEF Next

(* In every state the tree is a forest of ramps that fit, nothing is        *)
(* missing but where curnode, the metanodes and the metatargets say, and    *)
(* the walk is at the speed of its path.                                    *)
THEOREM RampsSound == Spec => []Inv
<1> QED
  BY InvInit, InvNext, PTL DEF Spec

\* Whole, and the conditions of the invariant.
LEMMA WholeIs == \A n : Whole(n) <=> WholeIn(nodes, n)
BY DEF Whole, WholeIn

LEMMA CursorSound == Inv => CursorAtEnd
<1> SUFFICES ASSUME Inv, step = "build"
             PROVE  /\ (curnode = 0 /\ mtstack = <<>>) <=> Complete
                    /\ curnode # 0 => /\ ~Whole(curnode) /\ nodes[curnode].meta = <<>>
                                      /\ NodeCount(nodes, curnode) < nodes[curnode].modifier
  BY DEF CursorAtEnd
<1>1. /\ nodes \in Seq(NodeRec) /\ Tree(nodes, Len(targets))
      /\ Slots(targets, mtstack, Len(targets)) /\ targets \in Seq(TargetRec)
      /\ mtstack \in Seq(Nat) /\ curnode \in 0 .. Len(nodes)
      /\ Growing(nodes, curnode, mnstack)
  BY InvShape
<1>2. ASSUME curnode # 0
      PROVE  /\ ~Whole(curnode) /\ nodes[curnode].meta = <<>>
             /\ NodeCount(nodes, curnode) < nodes[curnode].modifier
  <2>1. Ready(nodes, curnode) /\ curnode \in 1 .. Len(nodes)
    BY <1>1, <1>2 DEF Growing
  <2>2. KidsIn(nodes, curnode) /\ Formed(nodes[curnode])
    BY <1>1, <2>1, TreeKids
  <2>3. /\ NodeCount(nodes, curnode) \in Nat
        /\ nodes[curnode].children = <<>> => NodeCount(nodes, curnode) = 0
    BY <1>1, <2>2, CountLength
  <2>4. PICK k \in Nat : k = NodeCount(nodes, curnode)
    BY <2>3
  <2>5. PICK m \in Nat : m = nodes[curnode].modifier /\ m >= 1
    BY <2>2 DEF Formed
  <2>6. CASE nodes[curnode].type = "poly"
    <3>1. k < m /\ nodes[curnode].meta = <<>> /\ nodes[curnode].target = 0
      BY <2>1, <2>4, <2>5, <2>6 DEF Ready
    <3>2. k # m
      BY <3>1
    <3> QED
      BY <2>4, <2>5, <2>6, <3>1, <3>2 DEF Whole
  <2>7. CASE nodes[curnode].type # "poly"
    <3>1. /\ nodes[curnode].children = <<>>
          /\ nodes[curnode].meta = <<>> /\ nodes[curnode].target = 0
      BY <2>1, <2>7 DEF Ready
    <3>2. k < m
      BY <2>3, <2>4, <2>5, <3>1
    <3>3. Len(nodes[curnode].children) # 1
      BY <3>1
    <3> QED
      BY <2>4, <2>5, <2>7, <3>1, <3>2, <3>3 DEF Whole
  <2> QED
    BY <2>6, <2>7
<1>3. ASSUME NEW t \in 1 .. Len(targets)
      PROVE  /\ targets[t].meta \in Seq(Nat)
             /\ 0 \notin Range(targets[t].meta) <=>
                   \A i \in 1 .. Len(targets[t].meta) : targets[t].meta[i] # 0
  <2>1. targets[t] \in TargetRec
    BY <1>1
  <2>2. targets[t].meta \in Seq(Nat)
    BY <2>1, TargetIsFormed DEF TargetFormed
  <2> QED
    BY <2>2 DEF Range
<1>4. ASSUME curnode = 0, mtstack = <<>>  PROVE Complete
  <2>1. \A n \in Ids : Whole(n)
    BY <1>1, <1>4, WholeIs DEF Growing, Ids
  <2>2. ASSUME NEW t \in DOMAIN targets  PROVE 0 \notin Range(targets[t].meta)
    <3>1. t \in 1 .. Len(targets)
      BY <1>1
    <3>2. SlotsOf(targets, mtstack, Len(targets), t)
      BY <1>1, <3>1 DEF Slots
    <3>3. \A k \in 1 .. Len(mtstack) : mtstack[k] # t
      BY <1>4
    <3> QED
      BY <1>3, <3>1, <3>2, <3>3 DEF SlotsOf
  <2> QED
    BY <2>1, <2>2 DEF Complete
<1>5. ASSUME Complete  PROVE curnode = 0
  <2> SUFFICES ASSUME curnode # 0  PROVE FALSE
    OBVIOUS
  <2>1. curnode \in Ids
    BY <1>1 DEF Ids
  <2> QED
    BY <1>2, <1>5, <2>1 DEF Complete
<1>6. ASSUME Complete  PROVE mtstack = <<>>
  <2> SUFFICES ASSUME mtstack # <<>>  PROVE FALSE
    OBVIOUS
  <2>1. PICK k : k = Len(mtstack)
    OBVIOUS
  <2>2. k \in 1 .. Len(mtstack)
    BY <1>1, <2>1
  <2>3. PICK t : t = mtstack[k]
    OBVIOUS
  <2>4. /\ t \in 1 .. Len(targets) /\ targets[t].pos < Len(targets[t].meta)
        /\ \A i \in 1 .. Len(targets[t].meta) :
              targets[t].meta[i] # 0 <=> i <= targets[t].pos
    BY <1>1, <2>2, <2>3 DEF Slots, Unfilled
  <2>5. TargetFormed(targets[t])
    BY <1>1, <2>4, TargetIsFormed
  <2>6. PICK q \in Nat : q = targets[t].pos
    BY <2>5 DEF TargetFormed
  <2>7. PICK z \in Nat : z = Len(targets[t].meta)
    BY <2>5 DEF TargetFormed
  <2>8. z \in 1 .. z /\ ~(z <= q)
    <3>1. q < z
      BY <2>4, <2>6, <2>7
    <3> QED
      BY ONLY q \in Nat, z \in Nat, <3>1
  <2>9. targets[t].meta[z] = 0
    BY <2>4, <2>6, <2>7, <2>8
  <2>10. 0 \in Range(targets[t].meta)
    BY <1>3, <2>4, <2>7, <2>8, <2>9
  <2>11. t \in DOMAIN targets
    BY <1>1, <2>4
  <2> QED
    BY <1>6, <2>10, <2>11 DEF Complete
<1> QED
  BY <1>2, <1>4, <1>5, <1>6

LEMMA NullSound == Inv => NoNullDeref
<1> SUFFICES ASSUME Inv
             PROVE  /\ step = "dive" => \/ nodes[walk.top].meta # <<>>
                                        \/ nodes[walk.top].target # 0
                                        \/ nodes[walk.top].children # <<>>
                    /\ step = "pick" => walk.target # 0
  BY DEF NoNullDeref
<1>1. CASE step = "build"
  BY <1>1
<1>2. CASE step # "build"
  <2>1. Walking /\ \A n \in 1 .. Len(nodes) : Holding(nodes, Len(targets), n)
    BY <1>2, PlayShape
  <2>2. Holding(nodes, Len(targets), walk.top)
    BY <2>1 DEF Walking
  <2>3. step = "pick" => walk.target \in 1 .. Len(targets)
    BY <2>1 DEF Walking
  <2>4. 0 \notin 1 .. Len(targets)
    BY InvShape
  <2> QED
    BY <2>2, <2>3, <2>4 DEF Holding
<1> QED
  BY <1>1, <1>2

LEMMA SpeedSound == Inv => SpeedOfPath
<1> SUFFICES ASSUME Inv, step = "play"  PROVE SpeedOfPath
  BY DEF SpeedOfPath
<1>1. Walking
  BY PlayShape
<1>2. AtSpeed(nodes, num, den, curnode)
      /\ AtSpeed(nodes, nxtstate.num, nxtstate.den, nxtstate.node)
  BY <1>1 DEF Walking
<1> QED
  BY <1>2 DEF SpeedOfPath, AtSpeed

(* The caller can trust curnode: while a phrase is built it is NULL exactly *)
(* when every node and every metatarget has what it needs, and until then   *)
(* it is a node with room (mkpolyramp, mkmetanode, mktarget).               *)
THEOREM CursorTellsAll == Spec => []CursorAtEnd
<1> QED
  BY RampsSound, CursorSound, PTL

(* No walk over a finished phrase meets a node or a target that is not      *)
(* there (find_next_node, dive_to_target).                                  *)
THEOREM NeverIntoNull == Spec => []NoNullDeref
<1> QED
  BY RampsSound, NullSound, PTL

(* However the walk came to a leaf, by diving, climbing and metanodes put   *)
(* in place, num / den is the product of the ramps above it, with no        *)
(* remainder lost in a division (apply_modifier, revert_modifier).          *)
THEOREM SpeedIsOfPath == Spec => []SpeedOfPath
<1> QED
  BY RampsSound, SpeedSound, PTL

-----------------------------------------------------------------------------
(* The type invariant. *)

LEMMA SeqOver ==
    ASSUME NEW S, NEW T, NEW w \in Seq(S), \A i \in 1 .. Len(w) : w[i] \in T
    PROVE  w \in Seq(T)
OBVIOUS

LEMMA NodesTyped ==
    ASSUME Inv, NEW n \in 1 .. Len(nodes)
    PROVE  nodes[n] \in NodeSet
<1>1. /\ nodes \in Seq(NodeRec) /\ Tree(nodes, Len(targets)) /\ Len(targets) \in Nat
      /\ targets \in Seq(TargetRec)
  BY InvShape
<1>2. /\ nodes[n] \in NodeRec /\ Formed(nodes[n]) /\ Linked(nodes, Len(targets), n)
      /\ Rooted(nodes)
  BY <1>1, TreeKids, TreeRooted
<1>3. DOMAIN nodes = 1 .. Len(nodes) /\ DOMAIN targets = 1 .. Len(targets)
  BY <1>1
<1>4. nodes[n].parent \in 1 .. Len(nodes)
  <2>1. CASE n = 1
    BY <1>2, <2>1 DEF Rooted
  <2>2. CASE n # 1
    <3>1. nodes[n].parent \in 1 .. n - 1
      BY <1>2, <2>2 DEF Linked
    <3>2. Len(nodes) \in Nat
      BY <1>1
    <3> QED
      BY ONLY n \in 1 .. Len(nodes), <3>1, <3>2
  <2> QED
    BY <2>1, <2>2
<1>5. nodes[n].children \in Seq(1 .. Len(nodes))
  <2>1. \A i \in 1 .. Len(nodes[n].children) : nodes[n].children[i] \in 1 .. Len(nodes)
    BY <1>2 DEF Linked
  <2>2. nodes[n].children \in Seq(Nat)
    BY <1>2 DEF Formed
  <2> QED
    BY <2>1, <2>2, SeqOver
<1>6. nodes[n].meta \in Seq(1 .. Len(nodes))
  <2>1. PICK z \in Nat : z = Len(nodes[n].meta)
    BY <1>2 DEF Formed
  <2>2. PICK d \in Nat : d = Len(nodes)
    BY <1>1
  <2>3. n + z <= d /\ n \in 1 .. d
    BY <1>2, <2>1, <2>2 DEF Linked
  <2>4. \A i \in 1 .. z : n + i \in 1 .. d
    BY ONLY z \in Nat, d \in Nat, <2>3
  <2>5. \A i \in 1 .. Len(nodes[n].meta) : nodes[n].meta[i] \in 1 .. Len(nodes)
    BY <1>2, <2>1, <2>2, <2>4 DEF Linked
  <2>6. nodes[n].meta \in Seq(Nat)
    BY <1>2 DEF Formed
  <2> QED
    BY <2>5, <2>6, SeqOver
<1>7. nodes[n].target \in {0} \cup 1 .. Len(targets)
  <2>1. nodes[n].target \in Nat /\ nodes[n].target <= Len(targets)
    BY <1>2 DEF Formed, Linked
  <2> QED
    BY <1>1, <2>1
<1>8. /\ nodes[n] = [type |-> nodes[n].type, modifier |-> nodes[n].modifier,
                     parent |-> nodes[n].parent, children |-> nodes[n].children,
                     target |-> nodes[n].target, meta |-> nodes[n].meta,
                     pos |-> nodes[n].pos]
      /\ nodes[n].type \in {"poly", "mono"} /\ nodes[n].modifier \in Modifiers
      /\ nodes[n].pos \in Nat
  BY <1>2 DEF NodeRec
<1> QED
  BY <1>3, <1>4, <1>5, <1>6, <1>7, <1>8 DEF NodeSet, Ids, Modifiers

LEMMA TargetsTyped ==
    ASSUME Inv, NEW t \in 1 .. Len(targets)
    PROVE  targets[t] \in TargetSet /\ targets[t].pos <= Len(targets[t].meta)
<1>1. targets \in Seq(TargetRec) /\ Slots(targets, mtstack, Len(targets))
  BY InvShape
<1>2. targets[t] \in TargetRec /\ SlotsOf(targets, mtstack, Len(targets), t)
  BY <1>1 DEF Slots
<1>3. targets[t].meta \in Seq(0 .. Len(targets))
  <2>1. \A i \in 1 .. Len(targets[t].meta) : targets[t].meta[i] \in 0 .. Len(targets)
    BY <1>2 DEF SlotsOf
  <2>2. targets[t].meta \in Seq(Nat)
    BY <1>2, TargetIsFormed DEF TargetFormed
  <2> QED
    BY <2>1, <2>2, SeqOver
<1>4. targets[t] = [meta |-> targets[t].meta, pos |-> targets[t].pos]
      /\ targets[t].pos \in Nat
  BY <1>2 DEF TargetRec
<1>5. {0} \cup DOMAIN targets = 0 .. Len(targets)
  <2>1. DOMAIN targets = 1 .. Len(targets) /\ Len(targets) \in Nat
    BY <1>1
  <2> QED
    BY <2>1
<1>6. targets[t] \in TargetSet
  BY <1>3, <1>4, <1>5 DEF TargetSet
<1> QED
  BY <1>2, <1>6 DEF SlotsOf

LEMMA TypeSound == Inv => TypeOK
<1> SUFFICES ASSUME Inv  PROVE TypeOK
  OBVIOUS
<1>1. /\ Typed /\ nodes \in Seq(NodeRec) /\ Tree(nodes, Len(targets))
      /\ targets \in Seq(TargetRec) /\ curnode \in 0 .. Len(nodes)
      /\ mnstack \in Seq(Nat)
  BY InvShape
<1>2. Ids = 1 .. Len(nodes) /\ DOMAIN targets = 1 .. Len(targets)
      /\ DOMAIN mnstack = 1 .. Len(mnstack)
  BY <1>1 DEF Ids
<1>3. nodes \in Seq(NodeSet)
  <2>1. \A n \in 1 .. Len(nodes) : nodes[n] \in NodeSet
    BY NodesTyped
  <2> QED
    BY <1>1, <2>1, SeqOver
<1>4. targets \in Seq(TargetSet)
  <2>1. \A t \in 1 .. Len(targets) : targets[t] \in TargetSet
    BY TargetsTyped
  <2> QED
    BY <1>1, <2>1, SeqOver
<1>5. curnode \in {0} \cup Ids /\ step \in Steps
  <2>1. 0 .. Len(nodes) = {0} \cup 1 .. Len(nodes)
    <3>1. Len(nodes) \in Nat
      BY <1>1
    <3> QED
      BY <3>1
  <2> QED
    BY <1>1, <1>2, <2>1 DEF Typed
<1>6. ASSUME NEW n \in Ids
      PROVE  /\ NodeCount(nodes, n) <= nodes[n].modifier
             /\ nodes[n].pos <= Len(nodes[n].meta)
  <2>1. KidsIn(nodes, n) /\ Formed(nodes[n]) /\ Shaped(nodes, n)
    BY <1>1, <1>2, <1>6, TreeKids
  <2>2. CASE nodes[n].type = "poly"
    BY <2>1, <2>2 DEF Shaped
  <2>3. CASE nodes[n].type = "mono"
    <3>1. nodes[n].modifier \in Nat /\ nodes[n].modifier >= 1
      BY <2>1 DEF Formed
    <3>2. CASE nodes[n].children = <<>>
      <4>1. NodeCount(nodes, n) = 0
        BY <1>1, <2>1, <3>2, CountLength
      <4> QED
        BY <2>1, <3>1, <4>1 DEF Shaped
    <3>3. CASE nodes[n].children # <<>>
      <4>1. Len(nodes[n].children) = 1 /\ nodes[nodes[n].children[1]].type = "poly"
        BY <2>1, <2>3, <3>3 DEF Shaped
      <4>2. NodeCount(nodes, n) = 1
        BY <1>1, <2>1, <4>1, CountOne
      <4> QED
        BY <2>1, <3>1, <4>2 DEF Shaped
    <3> QED
      BY <3>2, <3>3
  <2> QED
    BY <2>1, <2>2, <2>3 DEF Formed
<1>7. \A t \in DOMAIN targets : targets[t].pos <= Len(targets[t].meta)
  BY <1>2, TargetsTyped
<1>8. ASSUME NEW n \in Ids, NEW p \in Ids, n \in Range(nodes[p].children)
      PROVE  nodes[n].parent = p
  <2>1. Formed(nodes[p]) /\ Linked(nodes, Len(targets), p)
    BY <1>1, <1>2, <1>8, TreeKids
  <2>2. nodes[p].children \in Seq(Nat)
    BY <2>1 DEF Formed
  <2>3. PICK i \in 1 .. Len(nodes[p].children) : n = nodes[p].children[i]
    BY <1>8, <2>2 DEF Range
  <2> QED
    BY <2>1, <2>3 DEF Linked
<1>9. \A i \in DOMAIN mnstack :
         nodes[mnstack[i]].pos \in 1 .. Len(nodes[mnstack[i]].meta) - 1
  <2>1. CASE mnstack = <<>>
    <3>1. DOMAIN mnstack = {}
      BY <2>1
    <3> QED
      BY <3>1
  <2>2. CASE mnstack # <<>>
    <3>1. step = "build"
      BY <2>2 DEF Inv, Playable
    <3>2. curnode # 0 /\ Growing(nodes, curnode, mnstack)
      BY <2>2, <3>1, InvShape DEF Growing
    <3>3. Filled(nodes, curnode, mnstack)
      BY <3>2 DEF Growing
    <3> QED
      BY <1>2, <3>3 DEF Filled
  <2> QED
    BY <2>1, <2>2
<1> QED
  BY <1>3, <1>4, <1>5, <1>6, <1>7, <1>8, <1>9 DEF TypeOK

(* The tree stays well formed: no ramp holds more than its division, a node *)
(* has one parent, and the metanodes being filled have nodes left           *)
(* (mkpolyramp, mkmonoramp, append_node, mktarget).                         *)
THEOREM RampsTyped == Spec => []TypeOK
<1> QED
  BY RampsSound, TypeSound, PTL

-----------------------------------------------------------------------------
(* The time that a ramp takes. *)

Cut(S) == {x \div d : x \in S, d \in Divs}

\* h is the lengths after up to k divisions.
Levels(k, h) == h = [i \in 0 .. k |-> IF i = 0 THEN {Unit} ELSE Cut(h[i - 1])]

LEMMA LevelsExist ==
    \A k \in Nat : \E h : Levels(k, h)
<1> DEFINE T == {k \in Nat : \E h : Levels(k, h)}
<1>1. 0 \in T
  <2>1. Levels(0, [i \in 0 .. 0 |-> {Unit}])
    BY DEF Levels
  <2> QED
    BY <2>1
<1>2. ASSUME NEW k \in Nat, k \in T  PROVE k + 1 \in T
  <2>1. PICK h : Levels(k, h)
    BY <1>2
  <2> DEFINE g == [i \in 0 .. k + 1 |-> IF i <= k THEN h[i] ELSE Cut(h[k])]
  <2>2. \A i \in 0 .. k : h[i] = IF i = 0 THEN {Unit} ELSE Cut(h[i - 1])
    BY <2>1 DEF Levels
  <2>3. \A i \in 0 .. k : g[i] = h[i]
    OBVIOUS
  <2>4. g[k + 1] = Cut(h[k])
    OBVIOUS
  <2>5. g = [i \in 0 .. k + 1 |-> g[i]]
    OBVIOUS
  <2> HIDE DEF g
  <2>6. \A i \in 0 .. k + 1 : g[i] = IF i = 0 THEN {Unit} ELSE Cut(g[i - 1])
    <3> TAKE i \in 0 .. k + 1
    <3>1. CASE i \in 0 .. k
      <4>1. i # 0 => i - 1 \in 0 .. k
        BY <3>1
      <4> QED
        BY <2>2, <2>3, <3>1, <4>1
    <3>2. CASE i = k + 1
      <4>1. i # 0 /\ i - 1 = k /\ k \in 0 .. k
        BY <3>2
      <4> QED
        BY <2>3, <2>4, <3>2, <4>1
    <3> QED
      BY <3>1, <3>2
  <2>7. Levels(k + 1, g)
    BY <2>5, <2>6 DEF Levels
  <2> QED
    BY <2>7
<1>3. Nat \subseteq T
  BY <1>1, <1>2, Induction
<1> QED
  BY <1>3

\* The recursion of Lengths.
LEMMA LengthsAre ==
    /\ Lengths[0] = {Unit}
    /\ \A k \in 1 .. MaxNodes :
          Lengths[k] = Cut(Lengths[k - 1])
<1>1. MaxNodes \in Nat
  BY SizesAssumption
<1>2. \E h : Levels(MaxNodes, h)
  BY <1>1, LevelsExist
<1>3. Levels(MaxNodes, Lengths)
  <2> DEFINE Eq(h) == h = [k \in 0 .. MaxNodes |->
                              IF k = 0 THEN {Unit}
                              ELSE {x \div d : x \in h[k - 1], d \in Divs}]
  <2>1. \A h : Eq(h) <=> Levels(MaxNodes, h)
    BY DEF Levels, Cut
  <2>2. Lengths = CHOOSE h : Eq(h)
    BY DEF Lengths
  <2>3. \E h : Eq(h)
    BY <1>2, <2>1
  <2> HIDE DEF Eq
  <2>4. Eq(CHOOSE h : Eq(h))
    BY <2>3
  <2> QED
    BY <2>1, <2>2, <2>4
<1>4. \A i \in 0 .. MaxNodes :
         Lengths[i] = IF i = 0 THEN {Unit} ELSE Cut(Lengths[i - 1])
  <2>1. PICK h : h = Lengths
    OBVIOUS
  <2>2. \A i \in 0 .. MaxNodes : h[i] = IF i = 0 THEN {Unit} ELSE Cut(h[i - 1])
    BY <1>3, <2>1 DEF Levels
  <2> QED
    BY <2>1, <2>2
<1>5. 0 \in 0 .. MaxNodes /\ \A k \in 1 .. MaxNodes : k \in 0 .. MaxNodes /\ k # 0
  BY <1>1
<1> QED
  BY <1>4, <1>5

LEMMA CutWhole ==
    ASSUME NEW y \in Nat, NEW d \in Positive, y % d = 0
    PROVE  y \div d \in Nat /\ y = d * (y \div d)
BY DEF Positive

\* What the node n of a tree is, and where.
Kind(ns, n) ==
    /\ ns[n].type = "poly" => ns[n].modifier \in Divs
    /\ \A i \in 1 .. Len(ns[n].meta) :
          /\ ns[ns[n].meta[i]].type = "mono"
          /\ ns[ns[n].meta[i]].modifier = ns[n].modifier
Held(ns, n, p) ==
    \/ \E i \in 1 .. Len(ns[p].children) : ns[p].children[i] = n
    \/ \E i \in 1 .. Len(ns[p].meta) : ns[p].meta[i] = n
Sound(ns) ==
    /\ Len(ns) <= MaxNodes /\ ns[1].type = "poly"
    /\ \A n \in 1 .. Len(ns) : Kind(ns, n) /\ (n # 1 => Held(ns, n, ns[n].parent))

\* The unit divided as the ramps above n divide it; a ramp of n, stretched.
Beat(ns, n) == Unit \div Over(ns, "poly", n)
Part(ns, n) == Beat(ns, n) * Over(ns, "mono", n)
Takes(ns, n) == Ramps(ns[n]) * Part(ns, n)

LEMMA Exactly ==
    ASSUME NEW x \in Positive, NEW y \in Nat
    PROVE  (x * y) \div x = y
BY DEF Positive

\* The divisions above a node leave no remainder.
LEMMA WholeBeats ==
    ASSUME NEW ns, Rooted(ns), Sound(ns)
    PROVE  \A n \in 1 .. Len(ns) :
              \E k \in 0 .. n - 1 : \E y \in Lengths[k] :
                 y \in Nat /\ Unit = Over(ns, "poly", n) * y
<1> DEFINE Fits(n, k, y) == y \in Lengths[k] /\ y \in Nat /\ Unit = Over(ns, "poly", n) * y
           Fit(n) == \E k \in 0 .. n - 1 : \E y : Fits(n, k, y)
           T == {j \in Nat : \A n \in 1 .. j : n <= Len(ns) => Fit(n)}
<1>1. Unit \in Nat /\ MaxNodes \in Nat /\ Len(ns) \in Nat /\ Len(ns) <= MaxNodes
      /\ Divs \subseteq Positive
  BY SizesAssumption DEF Sound, Rooted, Positive
<1>2. 0 \in T
  OBVIOUS
<1>3. ASSUME NEW j \in Nat, j \in T  PROVE j + 1 \in T
  <2> HIDE DEF Fit
  <2> SUFFICES ASSUME j + 1 <= Len(ns)  PROVE Fit(j + 1)
    BY <1>3
  <2> USE DEF Fit
  <2>1. CASE j = 0
    <3>1. Over(ns, "poly", 1) = 1
      BY OverParent
    <3>2. Unit \in Lengths[0]
      BY LengthsAre
    <3>3. Fits(1, 0, Unit)
      BY <1>1, <3>1, <3>2
    <3> HIDE DEF Fits
    <3> QED
      BY <2>1, <3>3
  <2>2. CASE j # 0
    <3>1. PICK n : n = j + 1
      OBVIOUS
    <3>2. n \in 2 .. Len(ns) /\ n \in 1 .. Len(ns)
      BY <1>1, <2>2, <3>1
    <3>3. PICK p : p = ns[n].parent
      OBVIOUS
    <3>4. p \in 1 .. j /\ p \in 1 .. Len(ns) /\ p <= Len(ns)
      BY <1>1, <3>1, <3>2, <3>3 DEF Rooted
    <3>5. PICK k \in 0 .. p - 1 : \E y : Fits(p, k, y)
      BY <1>3, <3>4
    <3>6. PICK y : Fits(p, k, y)
      BY <3>5
    <3>7. Over(ns, "poly", n) = ProductOf(ns, "poly", p)
      BY <3>2, <3>3, OverParent
    <3>8. PICK o \in Positive : o = Over(ns, "poly", p)
      BY <3>4, ProductStep
    <3>9. Over(ns, "poly", n) = Factor(ns, "poly", p) * o
      BY <3>4, <3>7, <3>8, ProductStep
    <3>10. CASE ns[p].type = "poly" /\ ns[p].meta = <<>>
      <4>1. PICK d \in Divs : d = ns[p].modifier
        BY <3>4, <3>10 DEF Sound, Kind
      <4>2. d \in Positive /\ Over(ns, "poly", n) = d * o
        BY <1>1, <3>9, <3>10, <4>1 DEF Factor
      <4>3. k + 1 \in 1 .. MaxNodes /\ (k + 1) - 1 = k /\ k + 1 \in 0 .. n - 1
        BY <1>1, <3>1, <3>4
      <4>4. y \in Lengths[(k + 1) - 1]
        BY <3>6, <4>3
      <4>5. y % d = 0
        BY <4>1, <4>3, <4>4, UnitAssumption
      <4>6. y \div d \in Lengths[k + 1]
        <5>1. Lengths[k + 1] = Cut(Lengths[(k + 1) - 1])
          BY <4>3, LengthsAre
        <5> QED
          BY <4>1, <4>4, <5>1 DEF Cut
      <4>7. PICK z : z = y \div d
        OBVIOUS
      <4>8. z \in Nat /\ y = d * z
        BY <3>6, <4>2, <4>5, <4>7, CutWhole
      <4>9. Unit = (d * o) * z
        <5>1. Unit = o * (d * z)
          BY <3>6, <3>8, <4>8
        <5> QED
          BY ONLY <5>1, <4>2, <4>8, o \in Positive DEF Positive
      <4>10. Fits(n, k + 1, z)
        BY <4>2, <4>6, <4>7, <4>8, <4>9
      <4> HIDE DEF Fits
      <4> QED
        BY <3>1, <4>3, <4>10
    <3>11. CASE ~(ns[p].type = "poly" /\ ns[p].meta = <<>>)
      <4>1. Over(ns, "poly", n) = o
        BY <3>8, <3>9, <3>11 DEF Factor, Positive
      <4>2. Fits(n, k, y) /\ k \in 0 .. n - 1
        BY <3>1, <3>4, <3>6, <3>8, <4>1
      <4> HIDE DEF Fits
      <4> QED
        BY <3>1, <4>2
    <3> QED
      BY <3>10, <3>11
  <2> QED
    BY <2>1, <2>2
<1>4. Nat \subseteq T
  BY <1>2, <1>3, Induction
<1> QED
  <2> TAKE n \in 1 .. Len(ns)
  <2>1. n \in T /\ n \in 1 .. n /\ n <= Len(ns)
    BY <1>1, <1>4
  <2>2. Fit(n)
    BY <2>1
  <2> QED
    BY <2>2

\* The time of a ramp, from the unit.
LEMMA BeatIs ==
    ASSUME NEW ns, Rooted(ns), Sound(ns), NEW n \in 1 .. Len(ns)
    PROVE  /\ Beat(ns, n) \in Nat /\ Unit = Over(ns, "poly", n) * Beat(ns, n)
           /\ Part(ns, n) \in Nat /\ Takes(ns, n) \in Nat
<1>1. PICK o \in Positive : o = Over(ns, "poly", n)
  BY ProductStep
<1>2. PICK y \in Nat : Unit = o * y
  BY <1>1, WholeBeats
<1>3. Beat(ns, n) = y
  BY <1>1, <1>2, Exactly DEF Beat
<1>4. PICK m \in Positive : m = Over(ns, "mono", n)
  BY ProductStep
<1>5. Part(ns, n) = y * m
  BY <1>3, <1>4 DEF Part
<1>6. y * m \in Nat
  BY DEF Positive
<1>7. PICK r \in Positive : r = Ramps(ns[n])
  BY RampsPositive DEF Rooted
<1>8. PICK x \in Nat : x = Part(ns, n)
  BY <1>5, <1>6
<1>9. r * x \in Nat
  BY DEF Positive
<1> QED
  BY <1>1, <1>2, <1>3, <1>7, <1>8, <1>9 DEF Takes

LEMMA Cancel ==
    ASSUME NEW o \in Positive, NEW x \in Nat, NEW y \in Nat, o * x = o * y
    PROVE  x = y
BY Exactly

LEMMA OneTimes ==
    ASSUME NEW x \in Nat
    PROVE  1 * x = x /\ x * 1 = x
OBVIOUS

\* What is divided into a and then by b, is divided into both.
LEMMA Regroup ==
    ASSUME NEW a \in Nat, NEW b \in Nat, NEW c \in Nat
    PROVE  (a * b) * c = a * (b * c) /\ (a * b) * c = b * (a * c)
           /\ a * b \in Nat
OBVIOUS

\* A polyramp divides its part, a monoramp stretches it, and a metanode
\* hands it on.
LEMMA PartOf ==
    ASSUME NEW ns, Rooted(ns), Sound(ns), NEW n \in 2 .. Len(ns),
           NEW p, p = ns[n].parent
    PROVE  /\ p \in 1 .. Len(ns) /\ ns[p].modifier \in Positive
           /\ ns[p].type \in {"poly", "mono"}
           /\ ns[p].meta = <<>> /\ ns[p].type = "poly" =>
                 Part(ns, p) = ns[p].modifier * Part(ns, n)
           /\ ns[p].meta = <<>> /\ ns[p].type = "mono" =>
                 Part(ns, n) = ns[p].modifier * Part(ns, p)
           /\ ns[p].meta # <<>> => Part(ns, n) = Part(ns, p)
<1>1. p \in 1 .. Len(ns) /\ n \in 1 .. Len(ns)
  BY DEF Rooted
<1>2. ns[p] \in NodeRec
  BY <1>1 DEF Rooted
<1>3. PICK d \in Positive : d = ns[p].modifier
  BY <1>2, ModifiersPositive DEF NodeRec
<1>4. ns[p].type \in {"poly", "mono"}
  BY <1>2 DEF NodeRec
<1>5. PICK o \in Positive : o = Over(ns, "poly", p)
  BY <1>1, ProductStep
<1>6. PICK m \in Positive : m = Over(ns, "mono", p)
  BY <1>1, ProductStep
<1>7. /\ Over(ns, "poly", n) = Factor(ns, "poly", p) * o
      /\ Over(ns, "mono", n) = Factor(ns, "mono", p) * m
  <2>1. \A type : /\ Over(ns, type, n) = ProductOf(ns, type, p)
                  /\ ProductOf(ns, type, p) = Factor(ns, type, p) * Over(ns, type, p)
    BY <1>1, OverParent, ProductStep
  <2> QED
    BY ONLY <1>5, <1>6, <2>1
<1>8. PICK b \in Nat : b = Beat(ns, p) /\ Unit = o * b
  BY <1>1, <1>5, BeatIs
<1>9. PICK c \in Nat : c = Beat(ns, n) /\ Unit = Over(ns, "poly", n) * c
  BY <1>1, BeatIs
<1>10. /\ o \in Nat /\ m \in Nat /\ d \in Nat
       /\ Part(ns, p) = b * m /\ Part(ns, n) = c * Over(ns, "mono", n)
  BY <1>6, <1>8, <1>9 DEF Part, Positive
<1>11. CASE ns[p].meta = <<>> /\ ns[p].type = "poly"
  <2>1. Over(ns, "poly", n) = d * o /\ Over(ns, "mono", n) = m
    BY <1>3, <1>7, <1>10, <1>11, OneTimes DEF Factor
  <2>2. o * b = o * (d * c) /\ d * c \in Nat
    <3>1. (d * o) * c = o * (d * c) /\ d * c \in Nat
      BY ONLY <1>10, c \in Nat, Regroup
    <3> QED
      BY ONLY <1>8, <1>9, <2>1, <3>1
  <2>3. b = d * c
    BY <2>2, Cancel
  <2>4. Part(ns, p) = d * Part(ns, n)
    BY ONLY <1>10, <2>1, <2>3, c \in Nat, Regroup
  <2> QED
    BY <1>1, <1>3, <1>4, <1>11, <2>4
<1>12. CASE ~(ns[p].meta = <<>> /\ ns[p].type = "poly")
  <2>1. Over(ns, "poly", n) = o
    BY <1>7, <1>10, <1>12, OneTimes DEF Factor
  <2>2. b = c
    BY <1>8, <1>9, <2>1, Cancel
  <2>3. CASE ns[p].meta = <<>> /\ ns[p].type = "mono"
    <3>1. Over(ns, "mono", n) = d * m
      BY <1>3, <1>7, <2>3 DEF Factor
    <3>2. Part(ns, n) = b * (d * m) /\ Part(ns, p) = b * m
      BY <1>10, <2>2, <3>1
    <3>3. b * (d * m) = d * (b * m)
      BY ONLY <1>10, b \in Nat, Regroup
    <3> QED
      BY <1>1, <1>3, <1>4, <2>3, <3>2, <3>3
  <2>4. CASE ns[p].meta # <<>>
    <3>1. Over(ns, "mono", n) = m
      BY <1>7, <1>10, <2>4, OneTimes DEF Factor
    <3> QED
      BY <1>1, <1>3, <1>4, <1>10, <2>2, <2>4, <3>1
  <2> QED
    BY <1>4, <1>12, <2>3, <2>4
<1> QED
  BY <1>11, <1>12

\* The part of the phrase is the unit.
LEMMA PartTop ==
    ASSUME NEW ns, Rooted(ns), Sound(ns)
    PROVE  Part(ns, 1) = Unit /\ Takes(ns, 1) = Unit
<1>1. /\ 1 \in 1 .. Len(ns) /\ Over(ns, "poly", 1) = 1 /\ Over(ns, "mono", 1) = 1
      /\ Unit \in Nat
  BY OverParent, SizesAssumption DEF Rooted
<1>2. PICK b \in Nat : b = Beat(ns, 1) /\ Unit = 1 * b
  BY <1>1, BeatIs
<1>3. Part(ns, 1) = Unit
  BY <1>1, <1>2, OneTimes DEF Part
<1>4. Ramps(ns[1]) = 1
  BY DEF Ramps, Sound
<1> QED
  BY <1>1, <1>3, <1>4, OneTimes DEF Takes

\* f is when the ramp of a node starts, in the round: where its parent does,
\* after the ramps before it; a node in the place of a metanode, where that
\* does.
KidStarts(ns, f, n, i) ==
    IF i = 1 THEN f[n]
    ELSE f[ns[n].children[i - 1]] + Takes(ns, ns[n].children[i - 1])
Schedule(ns, f) ==
    /\ f \in [1 .. Len(ns) -> Nat] /\ f[1] = 0
    /\ \A n \in 1 .. Len(ns) :
          /\ \A i \in 1 .. Len(ns[n].children) :
                f[ns[n].children[i]] = KidStarts(ns, f, n, i)
          /\ \A i \in 1 .. Len(ns[n].meta) : f[ns[n].meta[i]] = f[n]

\* When the ramp of n ends.
Ends(ns, f, n) == f[n] + Takes(ns, n)

\* The children of a polyramp, one after the other, take its time.
LEMMA LastOfPoly ==
    ASSUME NEW ns \in Seq(NodeRec), NEW len, Tree(ns, len), Sound(ns),
           NEW f, Schedule(ns, f), NEW p \in 1 .. Len(ns),
           ns[p].meta = <<>>, ns[p].type = "poly", ns[p].children # <<>>,
           NodeCount(ns, p) = ns[p].modifier,
           NEW last, last = ns[p].children[Len(ns[p].children)]
    PROVE  Ends(ns, f, last) = Ends(ns, f, p)
<1>1. /\ Rooted(ns) /\ KidsIn(ns, p) /\ Formed(ns[p]) /\ Linked(ns, len, p)
      /\ f \in [1 .. Len(ns) -> Nat]
  BY TreeRooted, TreeKids DEF Schedule
<1>2. PICK kids \in Seq(Nat) : kids = ns[p].children
  BY <1>1 DEF Formed
<1>3. PICK k \in Nat : k = Len(kids) /\ k >= 1
  BY <1>2
<1>4. PICK d \in Positive : d = ns[p].modifier
  BY <1>1 DEF Formed, Positive
<1>5. PICK w \in Seq(Positive) : w = Widths(ns, p)
  BY <1>1, WidthsPositive
<1>6. Len(w) = k /\ Total(w) = d /\ w \in Seq(Nat)
      /\ \A i \in 1 .. k : w[i] = Ramps(ns[kids[i]]) /\ w[i] \in Nat
  <2>1. Len(w) = k /\ Total(w) = d
    BY <1>1, <1>2, <1>3, <1>4, <1>5, WidthsPositive
  <2>2. w \in Seq(Nat)
    BY DEF Positive
  <2> QED
    BY <1>2, <1>3, <1>5, <2>1, <2>2 DEF Widths
<1>7. \A i \in 1 .. k : kids[i] \in 2 .. Len(ns) /\ ns[kids[i]].parent = p
  BY <1>1, <1>2, <1>3 DEF Linked
<1>8. \A c \in 2 .. Len(ns) : Part(ns, c) \in Nat
  <2> TAKE c \in 2 .. Len(ns)
  <2>1. c \in 1 .. Len(ns)
    OBVIOUS
  <2> QED
    BY <1>1, <2>1, BeatIs
<1>9. PICK x \in Nat : x = Part(ns, kids[1]) /\ Part(ns, p) = d * x
  <2>1. kids[1] \in 2 .. Len(ns) /\ ns[kids[1]].parent = p
    BY <1>3, <1>7
  <2>2. Part(ns, kids[1]) \in Nat
    BY <1>8, <2>1
  <2>3. Part(ns, p) = d * Part(ns, kids[1])
    BY <1>1, <1>4, <2>1, PartOf
  <2> QED
    BY <2>2, <2>3
<1>10. \A i \in 1 .. k : Takes(ns, kids[i]) = w[i] * x
  <2> TAKE i \in 1 .. k
  <2>1. kids[i] \in 2 .. Len(ns) /\ ns[kids[i]].parent = p
    BY <1>7
  <2>2. PICK y \in Nat : y = Part(ns, kids[i])
    BY <1>8, <2>1
  <2>3. Part(ns, p) = d * y
    BY <1>1, <1>4, <2>1, <2>2, PartOf
  <2>4. y = x
    BY <1>9, <2>3, Cancel
  <2> QED
    BY <1>6, <2>2, <2>4 DEF Takes
<1>11. PICK W \in [0 .. k -> Nat] :
          W[0] = 0 /\ W[k] = d /\ \A i \in 1 .. k : W[i] = W[i - 1] + w[i]
  BY <1>6, TotalIs DEF Sums
<1>12. /\ f[kids[1]] = f[p]
       /\ \A i \in 2 .. k : f[kids[i]] = f[kids[i - 1]] + w[i - 1] * x
  <2>1. \A i \in 1 .. k : f[kids[i]] = KidStarts(ns, f, p, i)
    BY <1>2, <1>3 DEF Schedule
  <2>2. 1 \in 1 .. k /\ \A i \in 2 .. k : i \in 1 .. k /\ i - 1 \in 1 .. k /\ i # 1
    BY <1>3
  <2>3. f[kids[1]] = f[p]
    BY <2>1, <2>2 DEF KidStarts
  <2>4. \A i \in 2 .. k : f[kids[i]] = f[kids[i - 1]] + Takes(ns, kids[i - 1])
    BY <1>2, <2>1, <2>2 DEF KidStarts
  <2> QED
    BY <1>10, <2>2, <2>3, <2>4
<1>13. PICK s \in Nat : s = f[p]
  BY <1>1
<1> DEFINE Starts(i) == f[kids[i + 1]] = s + W[i] * x
           T == {i \in Nat : i + 1 <= k => Starts(i)}
<1>14. 0 \in T
  <2>1. s + 0 * x = s
    OBVIOUS
  <2> QED
    BY ONLY <1>11, <1>12, <1>13, <2>1
<1>15. ASSUME NEW i \in Nat, i \in T  PROVE i + 1 \in T
  <2> HIDE DEF Starts
  <2> SUFFICES ASSUME (i + 1) + 1 <= k  PROVE Starts(i + 1)
    OBVIOUS
  <2> USE DEF Starts
  <2>1. f[kids[i + 1]] = s + W[i] * x
    BY <1>15
  <2>2. f[kids[(i + 1) + 1]] = f[kids[i + 1]] + w[i + 1] * x
    BY <1>3, <1>12
  <2>3. W[i + 1] = W[i] + w[i + 1] /\ W[i] \in Nat /\ w[i + 1] \in Nat
    <3>1. i \in 0 .. k /\ i + 1 \in 1 .. k /\ (i + 1) - 1 = i
      BY <1>3
    <3> QED
      BY ONLY <1>6, <1>11, <3>1
  <2>4. PICK a \in Nat : a = W[i]
    BY <2>3
  <2>5. PICK b \in Nat : b = w[i + 1]
    BY <2>3
  <2>6. (s + a * x) + b * x = s + (a + b) * x
    OBVIOUS
  <2> QED
    BY ONLY <2>1, <2>2, <2>3, <2>4, <2>5, <2>6
<1>16. Nat \subseteq T
  BY <1>14, <1>15, Induction
<1>17. PICK j \in Nat : k = j + 1
  <2>1. k - 1 \in Nat /\ k = (k - 1) + 1
    BY <1>3
  <2> QED
    BY <2>1
<1>18. f[kids[k]] = s + W[j] * x
  <2>1. j \in T
    BY <1>16
  <2> QED
    BY <1>17, <2>1
<1>19. Takes(ns, kids[k]) = w[k] * x /\ d = W[j] + w[k] /\ W[j] \in Nat /\ w[k] \in Nat
  <2>1. k \in 1 .. k /\ j \in 0 .. k /\ k - 1 = j
    BY <1>3, <1>17
  <2> QED
    BY ONLY <1>6, <1>10, <1>11, <2>1
<1>20. PICK a \in Nat : a = W[j]
  BY <1>19
<1>21. PICK b \in Nat : b = w[k]
  BY <1>19
<1>22. (s + a * x) + b * x = s + (a + b) * x
  OBVIOUS
<1>23. Takes(ns, p) = d * x
  <2>1. Ramps(ns[p]) = 1 /\ d * x \in Nat
    BY DEF Ramps, Positive
  <2> QED
    BY <1>9, <2>1, OneTimes DEF Takes
<1>24. last = kids[k]
  BY <1>2, <1>3
<1> QED
  BY ONLY <1>13, <1>18, <1>19, <1>20, <1>21, <1>22, <1>23, <1>24 DEF Ends

\* A monoramp takes the time of the polyramp in it.
LEMMA LastOfMono ==
    ASSUME NEW ns \in Seq(NodeRec), NEW len, Tree(ns, len), Sound(ns),
           NEW f, Schedule(ns, f), NEW p \in 1 .. Len(ns),
           ns[p].meta = <<>>, ns[p].type = "mono", ns[p].children # <<>>,
           NEW last, last = ns[p].children[Len(ns[p].children)]
    PROVE  Ends(ns, f, last) = Ends(ns, f, p)
<1>1. Rooted(ns) /\ Linked(ns, len, p) /\ Shaped(ns, p) /\ Formed(ns[p])
  BY TreeRooted, TreeKids
<1>2. Len(ns[p].children) = 1 /\ last = ns[p].children[1] /\ ns[last].type = "poly"
  BY <1>1 DEF Shaped
<1>3. last \in 2 .. Len(ns) /\ ns[last].parent = p
  BY <1>1, <1>2 DEF Linked
<1>4. f[last] = f[p]
  <2>1. 1 \in 1 .. Len(ns[p].children)
    BY <1>2
  <2> QED
    BY <1>2, <2>1 DEF Schedule, KidStarts
<1>5. PICK y \in Nat : y = Part(ns, last)
  <2>1. last \in 1 .. Len(ns)
    BY <1>3
  <2> QED
    BY <1>1, <2>1, BeatIs
<1>6. y = ns[p].modifier * Part(ns, p)
  BY <1>1, <1>3, <1>5, PartOf
<1>7. Takes(ns, last) = y
  <2>1. Ramps(ns[last]) = 1
    BY <1>2 DEF Ramps
  <2> QED
    BY <1>5, <2>1, OneTimes DEF Takes
<1>8. Takes(ns, p) = y
  BY <1>6 DEF Takes, Ramps
<1> QED
  BY <1>4, <1>7, <1>8 DEF Ends

\* A node in the place of a metanode takes its time.
LEMMA EndOfMeta ==
    ASSUME NEW ns \in Seq(NodeRec), NEW len, Tree(ns, len), Sound(ns),
           NEW f, Schedule(ns, f), NEW p \in 1 .. Len(ns),
           NEW i \in 1 .. Len(ns[p].meta), NEW c, c = ns[p].meta[i]
    PROVE  f[c] = f[p] /\ Ends(ns, f, c) = Ends(ns, f, p)
<1>1. Rooted(ns) /\ Linked(ns, len, p) /\ Shaped(ns, p) /\ Formed(ns[p])
  BY TreeRooted, TreeKids
<1>2. PICK made \in Seq(Nat) : made = ns[p].meta
  BY <1>1 DEF Formed
<1>3. ns[p].meta # <<>>
  <2> SUFFICES ASSUME made = <<>>  PROVE FALSE
    BY <1>2
  <2> QED
    BY <1>2
<1>4. ns[p].type = "mono"
  BY <1>1, <1>3 DEF Shaped, Formed
<1>5. c \in 2 .. Len(ns) /\ ns[c].parent = p
  <2>1. c = p + i /\ ns[p + i].parent = p /\ p + Len(made) <= Len(ns)
    BY <1>1, <1>2 DEF Linked
  <2>2. i \in 1 .. Len(made)
    BY <1>2
  <2> QED
    BY ONLY <2>1, <2>2, p \in 1 .. Len(ns), made \in Seq(Nat), ns \in Seq(NodeRec)
<1>6. ns[c].type = "mono" /\ ns[c].modifier = ns[p].modifier
  BY DEF Sound, Kind
<1>7. Part(ns, c) = Part(ns, p)
  BY <1>1, <1>3, <1>5, PartOf
<1>8. Takes(ns, c) = Takes(ns, p)
  BY <1>4, <1>6, <1>7 DEF Takes, Ramps
<1>9. f[c] = f[p]
  BY DEF Schedule
<1> QED
  BY <1>8, <1>9 DEF Ends

\* The last ramp in a node ends when the node does.
LEMMA LastEnds ==
    ASSUME NEW ns \in Seq(NodeRec), NEW len, Tree(ns, len), AllWhole(ns), Sound(ns),
           NEW f, Schedule(ns, f), NEW p \in 1 .. Len(ns), ns[p].children # <<>>,
           NEW last, last = ns[p].children[Len(ns[p].children)]
    PROVE  Ends(ns, f, last) = Ends(ns, f, p)
<1>1. WholeIn(ns, p) /\ Formed(ns[p])
  BY TreeKids DEF AllWhole
<1>2. ns[p].meta = <<>> /\ (ns[p].type = "poly" => NodeCount(ns, p) = ns[p].modifier)
  BY <1>1 DEF WholeIn
<1> QED
  BY <1>1, <1>2, LastOfPoly, LastOfMono DEF Formed

\* Where the walk goes up, the ramp above ends too.
LEMMA EndsAbove ==
    ASSUME Inv, step # "build", Sound(nodes), NEW f, Schedule(nodes, f),
           NEW n \in 2 .. Len(nodes), NextOf(n) = 0, NEW p, p = nodes[n].parent
    PROVE  Ends(nodes, f, n) = Ends(nodes, f, p)
<1>1. /\ Rooted(nodes) /\ nodes \in Seq(NodeRec) /\ Tree(nodes, Len(targets))
      /\ AllWhole(nodes)
  BY PlayShape, InvShape
<1>2. p \in 1 .. Len(nodes) /\ n \in 1 .. Len(nodes) /\ n # 1
  BY <1>1, OverParent
<1>3. Held(nodes, n, p)
  BY <1>2 DEF Sound
<1>4. CASE \E i \in 1 .. Len(nodes[p].children) : nodes[p].children[i] = n
  <2>1. Formed(nodes[p]) /\ Linked(nodes, Len(targets), p)
    BY <1>1, <1>2, TreeKids
  <2>2. PICK kids \in Seq(Nat) : kids = nodes[p].children
    BY <2>1 DEF Formed
  <2>3. PICK k \in Nat : k = Len(kids)
    OBVIOUS
  <2>4. PICK i \in 1 .. k : kids[i] = n
    BY <1>4, <2>2, <2>3
  <2>5. PICK after : after = {j \in 2 .. k : kids[j - 1] = n}
    OBVIOUS
  <2>6. 0 = IF after = {} THEN 0 ELSE kids[Max(after)]
    BY <2>2, <2>3, <2>5 DEF NextOf
  <2>7. after = {}
    <3> SUFFICES ASSUME after # {}  PROVE FALSE
      OBVIOUS
    <3>1. after \in SUBSET (0 .. k)
      BY <2>5
    <3>2. Max(after) \in after
      BY <3>1, Greatest
    <3>3. Max(after) \in 1 .. k
      BY <2>5, <3>2
    <3>4. kids[Max(after)] \in 2 .. Len(nodes)
      BY <2>1, <2>2, <2>3, <3>3 DEF Linked
    <3> QED
      BY <2>6, <3>4
  <2>8. i = k
    <3> SUFFICES ASSUME i # k  PROVE FALSE
      OBVIOUS
    <3>1. i + 1 \in 2 .. k /\ (i + 1) - 1 = i
      OBVIOUS
    <3>2. i + 1 \in after
      BY <2>4, <2>5, <3>1
    <3> QED
      BY <2>7, <3>2
  <2>9. nodes[p].children # <<>>
    <3> SUFFICES ASSUME kids = <<>>  PROVE FALSE
      BY <2>2
    <3> QED
      BY <2>3
  <2>10. n = nodes[p].children[Len(nodes[p].children)]
    BY <2>2, <2>3, <2>4, <2>8
  <2> QED
    BY ONLY <1>1, <1>2, <2>9, <2>10, Sound(nodes), Schedule(nodes, f), LastEnds
<1>5. CASE \E i \in 1 .. Len(nodes[p].meta) : nodes[p].meta[i] = n
  <2>1. PICK i \in 1 .. Len(nodes[p].meta) : nodes[p].meta[i] = n
    BY <1>5
  <2> QED
    BY <1>1, <1>2, <2>1, EndOfMeta
<1> QED
  BY <1>3, <1>4, <1>5 DEF Held

\* Where it goes sideways, the ramp there starts.
LEMMA StartsAfter ==
    ASSUME Inv, step # "build", Sound(nodes), NEW f, Schedule(nodes, f),
           NEW n \in 2 .. Len(nodes), NextOf(n) # 0
    PROVE  f[NextOf(n)] = Ends(nodes, f, n)
<1>1. Rooted(nodes) /\ nodes \in Seq(NodeRec) /\ Tree(nodes, Len(targets))
  BY PlayShape, InvShape
<1>2. PICK p : p = nodes[n].parent
  OBVIOUS
<1>3. p \in 1 .. Len(nodes)
  BY <1>1, <1>2, OverParent
<1>4. Formed(nodes[p])
  BY <1>1, <1>3, TreeKids
<1>5. PICK kids \in Seq(Nat) : kids = nodes[p].children
  BY <1>4 DEF Formed
<1>6. PICK k \in Nat : k = Len(kids)
  OBVIOUS
<1>7. PICK after : after = {i \in 2 .. k : kids[i - 1] = n}
  OBVIOUS
<1>8. NextOf(n) = IF after = {} THEN 0 ELSE kids[Max(after)]
  BY <1>2, <1>5, <1>6, <1>7 DEF NextOf
<1>9. after # {} /\ after \in SUBSET (0 .. k)
  <2>1. after \in SUBSET (0 .. k)
    BY <1>7
  <2> QED
    BY <1>8, <2>1
<1>10. PICK j : j = Max(after)
  OBVIOUS
<1>11. j \in 2 .. k /\ kids[j - 1] = n
  <2>1. j \in after
    BY <1>9, <1>10, Greatest
  <2> QED
    BY <1>7, <2>1
<1>12. f[kids[j]] = KidStarts(nodes, f, p, j)
  <2>1. j \in 1 .. Len(nodes[p].children)
    BY <1>5, <1>6, <1>11
  <2> QED
    BY <1>3, <1>5, <2>1 DEF Schedule
<1>13. KidStarts(nodes, f, p, j) = f[n] + Takes(nodes, n)
  BY <1>5, <1>11 DEF KidStarts
<1> QED
  BY <1>8, <1>9, <1>10, <1>12, <1>13 DEF Ends

-----------------------------------------------------------------------------
(* The schedule of a tree that is built. *)

LEMMA TakesKept ==
    ASSUME NEW ns, NEW ms, Rooted(ns), Rooted(ms), SameProducts(ns, ms)
    PROVE  \A n \in 1 .. Len(ns) : Takes(ms, n) = Takes(ns, n)
<1> TAKE n \in 1 .. Len(ns)
<1>1. \A type : Over(ns, type, n) = Over(ms, type, n)
  BY ProductAgree
<1>2. Part(ms, n) = Part(ns, n)
  BY <1>1 DEF Part, Beat
<1>3. ms[n].type = ns[n].type /\ ms[n].modifier = ns[n].modifier
  BY DEF SameProducts
<1>4. Ramps(ms[n]) = Ramps(ns[n])
  BY <1>3 DEF Ramps
<1> QED
  BY <1>2, <1>4 DEF Takes

\* The parts of a tree are in it.
Within(ns, n) ==
    /\ ns[n].parent \in 1 .. Len(ns)
    /\ \A i \in 1 .. Len(ns[n].meta) : ns[n].meta[i] \in 1 .. Len(ns)
    /\ ns[n].children \in Seq(Nat)
    /\ \A i \in 1 .. Len(ns[n].children) : ns[n].children[i] \in 1 .. Len(ns)

LEMMA AllWithin ==
    ASSUME NEW ns \in Seq(NodeRec), NEW len, Tree(ns, len), NEW n \in 1 .. Len(ns)
    PROVE  Within(ns, n)
<1>1. Rooted(ns) /\ Linked(ns, len, n) /\ Formed(ns[n])
  BY TreeRooted, TreeKids
<1>2. PICK l \in Nat : l = Len(ns)
  OBVIOUS
<1>3. n \in 1 .. l /\ ns[n].parent \in 1 .. l
  BY <1>1, <1>2 DEF Rooted
<1>4. PICK made \in Seq(Nat) : made = ns[n].meta
  BY <1>1 DEF Formed
<1>5. PICK k \in Nat : k = Len(made)
  OBVIOUS
<1>6. n + k <= l /\ \A i \in 1 .. k : made[i] = n + i
  BY <1>1, <1>2, <1>4, <1>5 DEF Linked
<1>7. \A i \in 1 .. k : made[i] \in 1 .. l
  BY ONLY <1>3, <1>6, k \in Nat, l \in Nat
<1>8. /\ ns[n].children \in Seq(Nat)
      /\ \A i \in 1 .. Len(ns[n].children) : ns[n].children[i] \in 2 .. l
  BY <1>1, <1>2 DEF Linked, Formed
<1>9. \A m \in 2 .. l : m \in 1 .. l
  OBVIOUS
<1> QED
  BY ONLY <1>2, <1>3, <1>4, <1>5, <1>7, <1>8, <1>9 DEF Within

\* The node n is in ms what it was in ns, but for new children.
Stays(ns, ms, n) ==
    /\ ms[n].type = ns[n].type /\ ms[n].modifier = ns[n].modifier
    /\ ms[n].parent = ns[n].parent /\ ms[n].meta = ns[n].meta
    /\ Len(ns[n].children) <= Len(ms[n].children)
    /\ \A i \in 1 .. Len(ns[n].children) : ms[n].children[i] = ns[n].children[i]
AllStay(ns, ms) ==
    /\ Len(ns) <= Len(ms) /\ \A n \in 1 .. Len(ns) : Stays(ns, ms, n) /\ Within(ns, n)
    /\ \A n \in 1 .. Len(ns) : ms[n].children \in Seq(Nat)

LEMMA KindStays ==
    ASSUME NEW ns, NEW ms, AllStay(ns, ms), NEW n \in 1 .. Len(ns), Kind(ns, n)
    PROVE  Kind(ms, n)
<1>1. Stays(ns, ms, n) /\ Within(ns, n)
  BY DEF AllStay
<1>2. PICK made : made = ns[n].meta
  OBVIOUS
<1>3. /\ ms[n].meta = made /\ ms[n].type = ns[n].type /\ ms[n].modifier = ns[n].modifier
      /\ \A i \in 1 .. Len(made) : made[i] \in 1 .. Len(ns)
  BY <1>1, <1>2 DEF Stays, Within
<1>4. \A i \in 1 .. Len(made) :
         ns[made[i]].type = "mono" /\ ns[made[i]].modifier = ns[n].modifier
  BY <1>2 DEF Kind
<1>5. \A m \in 1 .. Len(ns) : ms[m].type = ns[m].type /\ ms[m].modifier = ns[m].modifier
  BY DEF AllStay, Stays
<1>6. \A i \in 1 .. Len(made) :
         ms[made[i]].type = "mono" /\ ms[made[i]].modifier = ms[n].modifier
  <2> TAKE i \in 1 .. Len(made)
  <2>1. PICK m \in 1 .. Len(ns) : m = made[i]
    BY <1>3
  <2> QED
    BY ONLY <1>3, <1>4, <1>5, <2>1, i \in 1 .. Len(made)
<1>7. ms[n].type = "poly" => ms[n].modifier \in Divs
  BY <1>3 DEF Kind
<1> QED
  BY ONLY <1>3, <1>6, <1>7 DEF Kind

LEMMA HeldStays ==
    ASSUME NEW ns \in Seq(NodeRec), NEW ms, AllStay(ns, ms), NEW n \in 1 .. Len(ns),
           Held(ns, n, ns[n].parent)
    PROVE  Held(ms, n, ms[n].parent)
<1>1. PICK p \in 1 .. Len(ns) : p = ns[n].parent /\ p = ms[n].parent
  BY DEF AllStay, Stays, Within
<1>2. Stays(ns, ms, p) /\ Within(ns, p) /\ ms[p].children \in Seq(Nat)
  BY <1>1 DEF AllStay
<1>3. CASE \E i \in 1 .. Len(ns[p].children) : ns[p].children[i] = n
  <2>1. PICK i \in 1 .. Len(ns[p].children) : ns[p].children[i] = n
    BY <1>3
  <2>2. PICK a \in Nat : a = Len(ns[p].children)
    BY <1>2 DEF Within
  <2>3. PICK b \in Nat : b = Len(ms[p].children)
    BY <1>2
  <2>4. a <= b /\ ms[p].children[i] = n
    BY <1>2, <2>1, <2>2, <2>3 DEF Stays
  <2>5. i \in 1 .. b
    BY <2>1, <2>2, <2>4
  <2> QED
    BY <1>1, <2>3, <2>4, <2>5 DEF Held
<1>4. CASE \E i \in 1 .. Len(ns[p].meta) : ns[p].meta[i] = n
  BY <1>1, <1>2, <1>4 DEF Stays, Held
<1> QED
  BY <1>1, <1>3, <1>4 DEF Held

LEMMA FirstStays ==
    ASSUME NEW ns, NEW ms, Rooted(ns), AllStay(ns, ms), Sound(ns)
    PROVE  ms[1].type = "poly"
<1>1. 1 \in 1 .. Len(ns)
  BY DEF Rooted
<1> QED
  BY <1>1 DEF AllStay, Stays, Sound

\* A child starts in ms when it does in ns.
LEMMA StartStays ==
    ASSUME NEW ns \in Seq(NodeRec), NEW ms, AllStay(ns, ms),
           \A n \in 1 .. Len(ns) : Takes(ms, n) = Takes(ns, n),
           NEW f, NEW g, \A n \in 1 .. Len(ns) : g[n] = f[n], Schedule(ns, f),
           NEW n \in 1 .. Len(ns)
    PROVE  /\ \A i \in 1 .. Len(ns[n].children) :
                 g[ms[n].children[i]] = KidStarts(ms, g, n, i)
           /\ \A i \in 1 .. Len(ns[n].meta) : g[ms[n].meta[i]] = g[n]
<1>1. Stays(ns, ms, n) /\ Within(ns, n)
  BY DEF AllStay
<1>2. ASSUME NEW i \in 1 .. Len(ns[n].children)
      PROVE  g[ms[n].children[i]] = KidStarts(ms, g, n, i)
  <2>1. PICK c \in 1 .. Len(ns) : c = ns[n].children[i] /\ c = ms[n].children[i]
    BY <1>1 DEF Stays, Within
  <2>2. f[c] = KidStarts(ns, f, n, i)
    BY <2>1 DEF Schedule
  <2>3. CASE i = 1
    <3>1. KidStarts(ns, f, n, i) = f[n] /\ KidStarts(ms, g, n, i) = g[n]
      BY <2>3 DEF KidStarts
    <3> QED
      BY <2>1, <2>2, <3>1
  <2>4. CASE i # 1
    <3>1. i - 1 \in 1 .. Len(ns[n].children)
      BY <1>1, <2>4 DEF Within
    <3>2. PICK b \in 1 .. Len(ns) : b = ns[n].children[i - 1] /\ b = ms[n].children[i - 1]
      BY <1>1, <3>1 DEF Stays, Within
    <3>3. /\ KidStarts(ns, f, n, i) = f[b] + Takes(ns, b)
          /\ KidStarts(ms, g, n, i) = g[b] + Takes(ms, b)
      BY <2>4, <3>2 DEF KidStarts
    <3> QED
      BY <2>1, <2>2, <3>2, <3>3
  <2> QED
    BY <2>3, <2>4
<1>3. ASSUME NEW i \in 1 .. Len(ns[n].meta)  PROVE g[ms[n].meta[i]] = g[n]
  <2>1. PICK c \in 1 .. Len(ns) : c = ns[n].meta[i] /\ c = ms[n].meta[i]
    BY <1>1 DEF Stays, Within
  <2>2. f[c] = f[n]
    BY <2>1 DEF Schedule
  <2> QED
    BY <2>1, <2>2
<1> QED
  BY <1>2, <1>3

\* What the schedule depends on is the same in ms.
SameTimes(ns, ms) ==
    /\ Len(ms) = Len(ns) /\ SameProducts(ns, ms)
    /\ \A n \in 1 .. Len(ns) : ms[n].children = ns[n].children

LEMMA TimesKept ==
    ASSUME NEW ns \in Seq(NodeRec), NEW ms \in Seq(NodeRec), NEW len, Tree(ns, len),
           Rooted(ms), SameTimes(ns, ms), Sound(ns), NEW f, Schedule(ns, f)
    PROVE  /\ Sound(ms) /\ Schedule(ms, f)
           /\ \A n \in 1 .. Len(ns) : Takes(ms, n) = Takes(ns, n)
<1>1. Rooted(ns) /\ SameProducts(ns, ms) /\ Len(ms) = Len(ns)
  BY TreeRooted DEF SameTimes
<1>2. \A n \in 1 .. Len(ns) : Takes(ms, n) = Takes(ns, n)
  BY <1>1, TakesKept
<1>3. AllStay(ns, ms) /\ \A n \in 1 .. Len(ns) : ms[n].children = ns[n].children
                                              /\ ms[n].meta = ns[n].meta
  <2>1. ASSUME NEW n \in 1 .. Len(ns)
        PROVE  /\ Stays(ns, ms, n) /\ Within(ns, n) /\ ms[n].children \in Seq(Nat)
               /\ ms[n].children = ns[n].children /\ ms[n].meta = ns[n].meta
    <3>1. Within(ns, n)
      BY AllWithin
    <3>2. PICK kids \in Seq(Nat) : kids = ns[n].children /\ kids = ms[n].children
      BY <3>1 DEF Within, SameTimes
    <3>3. Len(kids) <= Len(kids)
      OBVIOUS
    <3> QED
      BY <3>1, <3>2, <3>3 DEF Stays, SameTimes, SameProducts
  <2> QED
    BY <1>1, <2>1 DEF AllStay, SameProducts
<1>4. Sound(ms)
  <2>1. \A n \in 1 .. Len(ns) : Kind(ms, n)
    BY <1>3, KindStays DEF Sound
  <2>2. \A n \in 1 .. Len(ns) : n # 1 => Held(ms, n, ms[n].parent)
    BY <1>3, HeldStays DEF Sound
  <2>3. ms[1].type = "poly" /\ Len(ns) <= MaxNodes
    BY <1>1, <1>3, FirstStays DEF Sound
  <2> QED
    BY ONLY <1>1, <2>1, <2>2, <2>3 DEF Sound
<1>5. Schedule(ms, f)
  <2>1. f \in [1 .. Len(ms) -> Nat] /\ f[1] = 0
    BY <1>1 DEF Schedule
  <2>2. ASSUME NEW n \in 1 .. Len(ns)
        PROVE  /\ \A i \in 1 .. Len(ms[n].children) :
                     f[ms[n].children[i]] = KidStarts(ms, f, n, i)
               /\ \A i \in 1 .. Len(ms[n].meta) : f[ms[n].meta[i]] = f[n]
    <3>1. /\ \A i \in 1 .. Len(ns[n].children) :
                f[ms[n].children[i]] = KidStarts(ms, f, n, i)
          /\ \A i \in 1 .. Len(ns[n].meta) : f[ms[n].meta[i]] = f[n]
      BY <1>2, <1>3, StartStays
    <3> QED
      BY <1>3, <3>1
  <2> QED
    BY ONLY <1>1, <2>1, <2>2 DEF Schedule
<1> QED
  BY <1>2, <1>4, <1>5

\* A new node c, the last child of cur, with the sz nodes of a metanode.
Grown(ns, ms, cur, sz, c) ==
    /\ c = Len(ns) + 1 /\ Len(ms) = c + sz /\ SameProducts(ns, ms)
    /\ \A n \in 1 .. Len(ns) : n # cur => ms[n].children = ns[n].children
    /\ ms[cur].children = Append(ns[cur].children, c)
    /\ ms[c].parent = cur /\ ms[c].children = <<>> /\ Len(ms[c].meta) = sz
    /\ \A i \in 1 .. sz : ms[c].meta[i] = c + i
    /\ ms[c].type = "poly" => ms[c].modifier \in Divs
    /\ \A i \in 1 .. sz :
          /\ ms[c + i].type = "mono" /\ ms[c + i].modifier = ms[c].modifier
          /\ ms[c + i].parent = c
          /\ ms[c + i].children = <<>> /\ ms[c + i].meta = <<>>

\* The old nodes of a grown tree stay, and cur has the child c.
LEMMA GrownStays ==
    ASSUME NEW ns \in Seq(NodeRec), NEW ms, NEW len, Tree(ns, len),
           NEW cur \in 1 .. Len(ns), NEW sz \in Nat, NEW c, Grown(ns, ms, cur, sz, c)
    PROVE  /\ AllStay(ns, ms)
           /\ Len(ms[cur].children) = Len(ns[cur].children) + 1
           /\ ms[cur].children[Len(ns[cur].children) + 1] = c
           /\ \A n \in 1 .. Len(ns) : ms[n].meta = ns[n].meta
           /\ \A n \in 1 .. Len(ns) : n # cur => ms[n].children = ns[n].children
<1>1. c = Len(ns) + 1 /\ Len(ns) <= Len(ms) /\ c \in Nat
  BY DEF Grown, SameProducts
<1>2. PICK old \in Seq(Nat) : old = ns[cur].children
  BY AllWithin DEF Within
<1>3. ms[cur].children = Append(old, c)
  BY <1>2 DEF Grown
<1>4. PICK new \in Seq(Nat) : new = Append(old, c)
  <2>1. Append(old, c) \in Seq(Nat)
    BY <1>1
  <2> QED
    BY <2>1
<1>5. /\ Len(new) = Len(old) + 1 /\ new[Len(old) + 1] = c
      /\ Len(old) <= Len(new) /\ \A i \in 1 .. Len(old) : new[i] = old[i]
  BY <1>1, <1>4
<1>6. ASSUME NEW n \in 1 .. Len(ns)
      PROVE  /\ Stays(ns, ms, n) /\ Within(ns, n) /\ ms[n].children \in Seq(Nat)
             /\ ms[n].meta = ns[n].meta
             /\ n # cur => ms[n].children = ns[n].children
  <2>1. Within(ns, n)
    BY AllWithin
  <2>2. /\ ms[n].type = ns[n].type /\ ms[n].modifier = ns[n].modifier
        /\ ms[n].parent = ns[n].parent /\ ms[n].meta = ns[n].meta
        /\ n # cur => ms[n].children = ns[n].children
    BY DEF Grown, SameProducts
  <2>3. CASE n = cur
    BY <1>2, <1>3, <1>4, <1>5, <2>1, <2>2, <2>3 DEF Stays
  <2>4. CASE n # cur
    <3>1. PICK kids \in Seq(Nat) : kids = ns[n].children /\ kids = ms[n].children
      BY <2>1, <2>2, <2>4 DEF Within
    <3>2. Len(kids) <= Len(kids)
      OBVIOUS
    <3> QED
      BY <2>1, <2>2, <2>4, <3>1, <3>2 DEF Stays
  <2> QED
    BY <2>3, <2>4
<1> QED
  BY <1>1, <1>2, <1>3, <1>4, <1>5, <1>6 DEF AllStay

\* The new nodes.
LEMMA GrownNew ==
    ASSUME NEW ns \in Seq(NodeRec), NEW ms, NEW sz \in Nat, NEW c, NEW cur,
           Grown(ns, ms, cur, sz, c)
    PROVE  \A n \in 1 .. Len(ms) :
              n \in 1 .. Len(ns) \/ n = c \/ \E i \in 1 .. sz : n = c + i
<1> TAKE n \in 1 .. Len(ms)
<1>1. PICK l \in Nat : l = Len(ns) /\ c = l + 1 /\ Len(ms) = c + sz
  BY DEF Grown
<1>2. n \in 1 .. l \/ n = c \/ (n - c \in 1 .. sz /\ n = c + (n - c))
  BY <1>1
<1> QED
  BY <1>1, <1>2

LEMMA SoundGrown ==
    ASSUME NEW ns \in Seq(NodeRec), NEW ms \in Seq(NodeRec), NEW len, Tree(ns, len),
           NEW cur \in 1 .. Len(ns), NEW sz \in Nat, NEW c, Grown(ns, ms, cur, sz, c),
           Sound(ns), Len(ms) <= MaxNodes
    PROVE  Sound(ms)
<1>1. /\ AllStay(ns, ms) /\ Rooted(ns)
      /\ Len(ms[cur].children) = Len(ns[cur].children) + 1
      /\ ms[cur].children[Len(ns[cur].children) + 1] = c
  BY GrownStays, TreeRooted
<1>2. /\ ms[c].parent = cur /\ Len(ms[c].meta) = sz
      /\ \A i \in 1 .. sz : ms[c].meta[i] = c + i
      /\ ms[c].type = "poly" => ms[c].modifier \in Divs
      /\ \A i \in 1 .. sz :
            /\ ms[c + i].type = "mono" /\ ms[c + i].modifier = ms[c].modifier
            /\ ms[c + i].parent = c /\ ms[c + i].meta = <<>>
  BY DEF Grown
<1>3. \A n \in 1 .. Len(ns) : Kind(ms, n) /\ (n # 1 => Held(ms, n, ms[n].parent))
  <2>1. \A n \in 1 .. Len(ns) : Kind(ns, n) /\ (n # 1 => Held(ns, n, ns[n].parent))
    BY DEF Sound
  <2>2. \A n \in 1 .. Len(ns) : Kind(ms, n)
    BY <1>1, <2>1, KindStays
  <2>3. \A n \in 1 .. Len(ns) : n # 1 => Held(ms, n, ms[n].parent)
    BY <1>1, <2>1, HeldStays
  <2> QED
    BY <2>2, <2>3
<1>4. Kind(ms, c)
  BY <1>2 DEF Kind
<1>5. Held(ms, c, ms[c].parent)
  <2>1. PICK k \in Nat : k = Len(ns[cur].children)
    BY AllWithin DEF Within
  <2>2. k + 1 \in 1 .. Len(ms[cur].children) /\ ms[cur].children[k + 1] = c
    BY <1>1, <2>1
  <2> QED
    BY <1>2, <2>2 DEF Held
<1>6. ASSUME NEW i \in 1 .. sz, NEW n, n = c + i
      PROVE  Kind(ms, n) /\ Held(ms, n, ms[n].parent)
  <2>1. ms[n].type = "mono" /\ ms[n].meta = <<>> /\ ms[n].parent = c
    BY <1>2, <1>6
  <2>2. Kind(ms, n)
    BY <2>1 DEF Kind
  <2>3. ms[c].meta[i] = n /\ i \in 1 .. Len(ms[c].meta)
    BY <1>2, <1>6
  <2> QED
    BY <2>1, <2>2, <2>3 DEF Held
<1>7. \A n \in 1 .. Len(ms) : Kind(ms, n) /\ (n # 1 => Held(ms, n, ms[n].parent))
  <2> TAKE n \in 1 .. Len(ms)
  <2>1. n \in 1 .. Len(ns) \/ n = c \/ \E i \in 1 .. sz : n = c + i
    BY GrownNew
  <2> QED
    BY <1>3, <1>4, <1>5, <1>6, <2>1
<1>8. ms[1].type = "poly"
  BY <1>1, FirstStays
<1> QED
  BY ONLY <1>7, <1>8, Len(ms) <= MaxNodes DEF Sound

\* The new nodes of a grown tree start where the last child of cur ends.
LEMMA ScheduleGrown ==
    ASSUME NEW ns \in Seq(NodeRec), NEW ms \in Seq(NodeRec), NEW len, Tree(ns, len),
           NEW more, Tree(ms, more), NEW cur \in 1 .. Len(ns), NEW sz \in Nat, NEW c,
           Grown(ns, ms, cur, sz, c), Sound(ns), NEW f, Schedule(ns, f)
    PROVE  \E g : Schedule(ms, g)
<1>1. /\ AllStay(ns, ms) /\ Rooted(ns) /\ Rooted(ms) /\ SameProducts(ns, ms)
      /\ Len(ms[cur].children) = Len(ns[cur].children) + 1
      /\ ms[cur].children[Len(ns[cur].children) + 1] = c
      /\ \A n \in 1 .. Len(ns) : ms[n].meta = ns[n].meta
      /\ \A n \in 1 .. Len(ns) : n # cur => ms[n].children = ns[n].children
  <2>1. SameProducts(ns, ms)
    BY DEF Grown
  <2> QED
    BY <2>1, GrownStays, TreeRooted
<1>2. \A n \in 1 .. Len(ms) : n \in 1 .. Len(ns) \/ n = c \/ \E i \in 1 .. sz : n = c + i
  BY GrownNew
<1>3. PICK l \in Nat : l = Len(ns) /\ l >= 1 /\ c = l + 1 /\ Len(ms) = c + sz
  BY <1>1 DEF Rooted, Grown
<1>4. PICK k \in Nat : k = Len(ns[cur].children)
  <2>1. Within(ns, cur)
    BY AllWithin
  <2>2. PICK kids \in Seq(Nat) : kids = ns[cur].children
    BY <2>1 DEF Within
  <2> QED
    BY ONLY <2>2
<1>5. \A n \in 1 .. l : Takes(ms, n) = Takes(ns, n)
  BY <1>1, <1>3, TakesKept
<1>6. \A n \in 1 .. l : f[n] \in Nat
  BY <1>3 DEF Schedule
<1>7. \A i \in 1 .. k : /\ ns[cur].children[i] \in 1 .. l
                       /\ ms[cur].children[i] = ns[cur].children[i]
  BY <1>1, <1>3, <1>4 DEF AllStay, Stays, Within
<1> DEFINE b == ns[cur].children[k]
<1>8. PICK s \in Nat : s = IF k = 0 THEN f[cur] ELSE f[b] + Takes(ns, b)
  <2>1. CASE k = 0
    BY <1>3, <1>6, <2>1
  <2>2. CASE k # 0
    <3>1. PICK d \in 1 .. l : d = b
      BY <1>7, <2>2
    <3>2. Takes(ns, d) \in Nat /\ f[d] \in Nat
      BY <1>1, <1>3, <1>6, <3>1, BeatIs
    <3>3. f[d] + Takes(ns, d) \in Nat
      BY <3>2
    <3> QED
      BY <2>2, <3>1, <3>3
  <2> QED
    BY <2>1, <2>2
<1> DEFINE g == [n \in 1 .. Len(ms) |-> IF n <= l THEN f[n] ELSE s]
<1>9. /\ g \in [1 .. Len(ms) -> Nat] /\ g[1] = 0
      /\ \A n \in 1 .. l : g[n] = f[n]
      /\ g[c] = s /\ \A i \in 1 .. sz : g[c + i] = s
  <2>1. g \in [1 .. Len(ms) -> Nat]
    BY <1>3, <1>6
  <2>2. 1 \in 1 .. Len(ms) /\ 1 <= l /\ f[1] = 0
    BY <1>3 DEF Schedule
  <2>3. \A n \in 1 .. l : n \in 1 .. Len(ms) /\ n <= l
    BY <1>3
  <2>4. c \in 1 .. Len(ms) /\ ~(c <= l)
    BY <1>3
  <2>5. \A i \in 1 .. sz : c + i \in 1 .. Len(ms) /\ ~(c + i <= l)
    BY <1>3
  <2> QED
    BY <2>1, <2>2, <2>3, <2>4, <2>5
<1> HIDE DEF g
<1> DEFINE Kids(n) == \A i \in 1 .. Len(ms[n].children) :
                         g[ms[n].children[i]] = KidStarts(ms, g, n, i)
           Made(n) == \A i \in 1 .. Len(ms[n].meta) : g[ms[n].meta[i]] = g[n]
<1>10. ASSUME NEW n \in 1 .. l
      PROVE  /\ \A i \in 1 .. Len(ns[n].children) :
                   g[ms[n].children[i]] = KidStarts(ms, g, n, i)
             /\ \A i \in 1 .. Len(ns[n].meta) : g[ms[n].meta[i]] = g[n]
  <2>1. /\ n \in 1 .. Len(ns)
        /\ \A m \in 1 .. Len(ns) : Takes(ms, m) = Takes(ns, m)
        /\ \A m \in 1 .. Len(ns) : g[m] = f[m]
    BY <1>3, <1>5, <1>9
  <2> QED
    BY ONLY <1>1, <2>1, ns \in Seq(NodeRec), Schedule(ns, f), StartStays
<1>11. ASSUME NEW n \in 1 .. l  PROVE Made(n)
  BY <1>1, <1>3, <1>10
<1>12. ASSUME NEW n \in 1 .. l, n # cur  PROVE Kids(n)
  BY <1>1, <1>3, <1>10, <1>12
<1>13. Kids(cur)
  <2> SUFFICES ASSUME NEW i \in 1 .. k + 1
               PROVE  g[ms[cur].children[i]] = KidStarts(ms, g, cur, i)
    BY <1>1, <1>4
  <2>1. cur \in 1 .. l
    BY <1>3
  <2>2. CASE i \in 1 .. k
    BY <1>4, <1>10, <2>1, <2>2
  <2>3. CASE i = k + 1
    <3>1. g[ms[cur].children[i]] = s
      BY <1>1, <1>4, <1>9, <2>3
    <3>2. CASE k = 0
      BY <1>8, <1>9, <2>1, <2>3, <3>1, <3>2 DEF KidStarts
    <3>3. CASE k # 0
      <4>1. PICK d \in 1 .. l : d = b /\ d = ms[cur].children[k]
        BY <1>7, <3>3
      <4>2. i # 1 /\ i - 1 = k
        BY <2>3, <3>3
      <4>3. KidStarts(ms, g, cur, i) = g[d] + Takes(ms, d)
        BY <4>1, <4>2 DEF KidStarts
      <4> QED
        BY <1>5, <1>8, <1>9, <3>1, <3>3, <4>1, <4>3
    <3> QED
      BY <3>2, <3>3
  <2> QED
    BY <2>2, <2>3
<1>14. Kids(c) /\ Made(c)
  <2>1. /\ ms[c].children = <<>> /\ Len(ms[c].meta) = sz
        /\ \A i \in 1 .. sz : ms[c].meta[i] = c + i
    BY DEF Grown
  <2>2. Kids(c)
    BY <2>1
  <2> QED
    BY <1>9, <2>1, <2>2
<1>15. ASSUME NEW i \in 1 .. sz, NEW n, n = c + i  PROVE Kids(n) /\ Made(n)
  <2>1. ms[n].children = <<>> /\ ms[n].meta = <<>>
    BY <1>15 DEF Grown
  <2> QED
    BY <2>1
<1> HIDE DEF Kids, Made
<1>16. \A n \in 1 .. Len(ms) : Kids(n) /\ Made(n)
  <2> TAKE n \in 1 .. Len(ms)
  <2>1. n \in 1 .. l \/ n = c \/ \E i \in 1 .. sz : n = c + i
    BY <1>3, <1>2
  <2> QED
    BY <1>11, <1>12, <1>13, <1>14, <1>15, <2>1
<1>17. Schedule(ms, g)
  BY <1>9, <1>16 DEF Schedule, Kids, Made
<1> QED
  BY <1>17

\* The schedule exists; the walk keeps it.
Scheduled(ns) == Sound(ns) /\ \E f : Schedule(ns, f)

LEMMA ScheduledGrown ==
    ASSUME NEW ns \in Seq(NodeRec), NEW ms \in Seq(NodeRec), NEW len, Tree(ns, len),
           NEW more, Tree(ms, more), NEW cur \in 1 .. Len(ns), NEW sz \in Nat, NEW c,
           Grown(ns, ms, cur, sz, c), Scheduled(ns), Len(ms) <= MaxNodes
    PROVE  Scheduled(ms)
<1>1. PICK f : Sound(ns) /\ Schedule(ns, f)
  BY DEF Scheduled
<1>2. Sound(ms)
  BY <1>1, SoundGrown
<1>3. \E g : Schedule(ms, g)
  BY <1>1, ScheduleGrown
<1> QED
  BY <1>2, <1>3 DEF Scheduled

LEMMA ScheduledSame ==
    ASSUME NEW ns \in Seq(NodeRec), NEW ms \in Seq(NodeRec), NEW len, Tree(ns, len),
           NEW more, Tree(ms, more), SameTimes(ns, ms), Scheduled(ns)
    PROVE  Scheduled(ms)
<1>1. PICK f : Sound(ns) /\ Schedule(ns, f)
  BY DEF Scheduled
<1>2. Rooted(ms)
  BY TreeRooted
<1>3. Sound(ms) /\ Schedule(ms, f)
  BY <1>1, <1>2, TimesKept
<1> QED
  BY <1>3 DEF Scheduled

LEMMA AttachedGrown ==
    ASSUME NEW ns \in Seq(NodeRec), NEW ms, NEW cur \in 1 .. Len(ns), NEW node,
           Attached(ns, ms, cur, node), node.parent = cur, node.children = <<>>,
           node.meta = <<>>, node.type = "poly" => node.modifier \in Divs
    PROVE  Grown(ns, ms, cur, 0, Len(ns) + 1)
<1>1. PICK l \in Nat : l = Len(ns)
  OBVIOUS
<1>2. /\ Len(ms) = l + 1 /\ ms[l + 1] = node
      /\ ms[cur] = [ns[cur] EXCEPT !.children = Append(@, l + 1)]
      /\ \A n \in 1 .. l : n # cur => ms[n] = ns[n]
      /\ Skeleton(ns, ms)
  BY <1>1 DEF Attached
<1>3. ns[cur] \in NodeRec
  OBVIOUS
<1>4. ms[cur].children = Append(ns[cur].children, l + 1) /\ ms[cur].meta = ns[cur].meta
  BY <1>2, <1>3 DEF NodeRec
<1>5. SameProducts(ns, ms)
  <2>1. \A n \in 1 .. l : ms[n].meta = ns[n].meta
    BY <1>1, <1>2, <1>4
  <2> QED
    BY <1>1, <1>2, <2>1 DEF SameProducts, Skeleton
<1>6. Len(<<>>) = 0 /\ (l + 1) + 0 = l + 1
  OBVIOUS
<1> QED
  BY <1>1, <1>2, <1>4, <1>5, <1>6 DEF Grown

LEMMA StackedGrown ==
    ASSUME NEW ns \in Seq(NodeRec), NEW ms, NEW cur \in 1 .. Len(ns), NEW w \in Modifiers,
           NEW sz \in Nat, NEW ph, ph = Len(ns) + 1, Stacked(ns, ms, cur, w, sz, ph)
    PROVE  Grown(ns, ms, cur, sz, ph)
<1>1. PICK l \in Nat : l = Len(ns)
  OBVIOUS
<1>2. PICK made : made = [i \in 1 .. sz |-> ph + i]
  OBVIOUS
<1>3. /\ ph \in Nat /\ made \in Seq(Nat) /\ Len(made) = sz
      /\ \A i \in 1 .. sz : made[i] = ph + i
  BY <1>1, <1>2
<1>4. /\ Len(ms) = ph + sz
      /\ ms[cur] = [ns[cur] EXCEPT !.children = Append(@, ph)]
      /\ \A n \in 1 .. l : n # cur => ms[n] = ns[n]
      /\ Skeleton(ns, ms) /\ ms[ph] = Placeholder(w, cur, made)
      /\ \A i \in 1 .. sz : ms[ph + i] = GestNode("mono", w, ph)
  BY <1>1, <1>2 DEF Stacked
<1>5. ns[cur] \in NodeRec /\ cur \in Nat
  OBVIOUS
<1>6. ms[cur].children = Append(ns[cur].children, ph) /\ ms[cur].meta = ns[cur].meta
  BY <1>4, <1>5 DEF NodeRec
<1>7. SameProducts(ns, ms)
  <2>1. \A n \in 1 .. l : ms[n].meta = ns[n].meta
    BY <1>1, <1>4, <1>6
  <2> QED
    BY <1>1, <1>4, <2>1 DEF SameProducts, Skeleton
<1>8. /\ ms[ph].type = "mono" /\ ms[ph].modifier = w /\ ms[ph].parent = cur
      /\ ms[ph].children = <<>> /\ ms[ph].meta = made
  BY <1>3, <1>4, <1>5, PlaceholderIs
<1>9. \A i \in 1 .. sz :
         /\ ms[ph + i].type = "mono" /\ ms[ph + i].modifier = w
         /\ ms[ph + i].parent = ph
         /\ ms[ph + i].children = <<>> /\ ms[ph + i].meta = <<>>
  BY <1>4 DEF GestNode
<1> QED
  BY <1>1, <1>3, <1>4, <1>6, <1>7, <1>8, <1>9 DEF Grown

LEMMA AttachScheduled ==
    ASSUME NEW ns \in Seq(NodeRec), NEW ms, NEW len, Tree(ns, len), NEW more,
           Tree(ms, more), NEW cur \in 1 .. Len(ns), NEW node \in NodeRec,
           ms = Attach(ns, cur, node), node.parent = cur, node.children = <<>>,
           node.meta = <<>>, node.type = "poly" => node.modifier \in Divs,
           Scheduled(ns), Len(ns) + 1 <= MaxNodes
    PROVE  Scheduled(ms)
<1>1. Attached(ns, ms, cur, node)
  BY Attaching
<1>2. Grown(ns, ms, cur, 0, Len(ns) + 1)
  BY <1>1, AttachedGrown
<1>3. ms \in Seq(NodeRec) /\ Len(ms) <= MaxNodes /\ 0 \in Nat
  BY <1>1 DEF Attached
<1> QED
  BY <1>2, <1>3, ScheduledGrown

\* A node that has got a target, or another position, is where it was.
LEMMA HitTimes ==
    ASSUME NEW ns \in Seq(NodeRec), NEW n \in 1 .. Len(ns), NEW t, NEW ms,
           ms = Hit(ns, n, t)
    PROVE  SameTimes(ns, ms)
<1>1. ns[n] \in NodeRec
  OBVIOUS
<1>2. PICK m : m = [ns[n] EXCEPT !.target = t]
  OBVIOUS
<1>3. /\ m.type = ns[n].type /\ m.modifier = ns[n].modifier /\ m.parent = ns[n].parent
      /\ m.children = ns[n].children /\ m.meta = ns[n].meta
  BY <1>1, <1>2 DEF NodeRec
<1>4. ms = [ns EXCEPT ![n] = m]
  BY <1>2 DEF Hit
<1>5. Len(ms) = Len(ns) /\ ms[n] = m /\ \A k \in 1 .. Len(ns) : k # n => ms[k] = ns[k]
  BY <1>4
<1> QED
  BY <1>3, <1>5 DEF SameTimes, SameProducts

LEMMA TurnedTimes ==
    ASSUME NEW ns \in Seq(NodeRec), NEW n \in 1 .. Len(ns), NEW full \in BOOLEAN,
           NEW ms, ms = Turned(ns, n, full)
    PROVE  SameTimes(ns, ms)
<1>1. ns[n] \in NodeRec
  OBVIOUS
<1>2. PICK m : m = [ns[n] EXCEPT !.pos = IF full THEN 0 ELSE @ + 1]
  OBVIOUS
<1>3. /\ m.type = ns[n].type /\ m.modifier = ns[n].modifier /\ m.parent = ns[n].parent
      /\ m.children = ns[n].children /\ m.meta = ns[n].meta
  BY <1>1, <1>2 DEF NodeRec
<1>4. ms = [ns EXCEPT ![n] = m]
  BY <1>2 DEF Turned
<1>5. Len(ms) = Len(ns) /\ ms[n] = m /\ \A k \in 1 .. Len(ns) : k # n => ms[k] = ns[k]
  BY <1>4
<1> QED
  BY <1>3, <1>5 DEF SameTimes, SameProducts

LEMMA RepositionedTimes ==
    ASSUME NEW ns \in Seq(NodeRec), NEW n \in 1 .. Len(ns), NEW q, NEW ms,
           Repositions(ns, n, q, ms)
    PROVE  SameTimes(ns, ms)
<1>1. ns[n] \in NodeRec
  OBVIOUS
<1>2. PICK m : m = [ns[n] EXCEPT !.pos = q]
  OBVIOUS
<1>3. /\ m.type = ns[n].type /\ m.modifier = ns[n].modifier /\ m.parent = ns[n].parent
      /\ m.children = ns[n].children /\ m.meta = ns[n].meta
  BY <1>1, <1>2 DEF NodeRec
<1>4. ms = [ns EXCEPT ![n] = m]
  BY <1>2 DEF Repositions
<1>5. Len(ms) = Len(ns) /\ ms[n] = m /\ \A k \in 1 .. Len(ns) : k # n => ms[k] = ns[k]
  BY <1>4
<1> QED
  BY <1>3, <1>5 DEF SameTimes, SameProducts

LEMMA PolyrampTimes ==
    ASSUME Inv, Inv', Scheduled(nodes), NEW div \in Divs, Polyramp(div)
    PROVE  Scheduled(nodes')
<1>1. /\ step = "build" /\ curnode # 0 /\ Len(nodes) + 1 <= MaxNodes
      /\ nodes' = Attach(nodes, curnode, GestNode("poly", div, curnode))
  BY DEF Polyramp, Building
<1>2. /\ nodes \in Seq(NodeRec) /\ Tree(nodes, Len(targets)) /\ Tree(nodes', Len(targets'))
      /\ curnode \in 1 .. Len(nodes) /\ curnode \in Nat
  BY <1>1, InvShape DEF Inv
<1>3. PICK node : node = GestNode("poly", div, curnode)
  OBVIOUS
<1>4. node \in NodeRec
  BY <1>2, <1>3, GestNodeFormed DEF Modifiers
<1>5. /\ node.parent = curnode /\ node.children = <<>> /\ node.meta = <<>>
      /\ node.modifier \in Divs
  BY <1>3 DEF GestNode
<1> QED
  BY <1>1, <1>2, <1>3, <1>4, <1>5, AttachScheduled

LEMMA MonorampTimes ==
    ASSUME Inv, Inv', Scheduled(nodes), NEW w \in Beats, Monoramp(w)
    PROVE  Scheduled(nodes')
<1>1. /\ step = "build" /\ curnode # 0 /\ Len(nodes) + 1 <= MaxNodes
      /\ nodes' = Attach(nodes, curnode, GestNode("mono", w, curnode))
  BY DEF Monoramp, CanMonoramp, Building
<1>2. /\ nodes \in Seq(NodeRec) /\ Tree(nodes, Len(targets)) /\ Tree(nodes', Len(targets'))
      /\ curnode \in 1 .. Len(nodes) /\ curnode \in Nat
  BY <1>1, InvShape DEF Inv
<1>3. PICK node : node = GestNode("mono", w, curnode)
  OBVIOUS
<1>4. node \in NodeRec
  BY <1>2, <1>3, GestNodeFormed DEF Modifiers
<1>5. /\ node.parent = curnode /\ node.children = <<>> /\ node.meta = <<>>
      /\ node.type = "mono"
  BY <1>3 DEF GestNode
<1> QED
  BY <1>1, <1>2, <1>3, <1>4, <1>5, AttachScheduled

LEMMA AddMetanodeTimes ==
    ASSUME Inv, Inv', Scheduled(nodes), NEW w \in Beats, NEW sz \in MetaSizes,
           AddMetanode(w, sz)
    PROVE  Scheduled(nodes')
<1>1. PICK ph : ph = Len(nodes) + 1
  OBVIOUS
<1>2. /\ step = "build" /\ curnode # 0 /\ Len(nodes) + (1 + sz) <= MaxNodes
      /\ nodes' = Attach(nodes, curnode,
                         Placeholder(w, curnode, [i \in 1 .. sz |-> ph + i]))
                    \o [i \in 1 .. sz |-> GestNode("mono", w, ph)]
  BY <1>1 DEF AddMetanode, CanMonoramp, Building, Placeholder
<1>3. /\ nodes \in Seq(NodeRec) /\ Tree(nodes, Len(targets)) /\ Tree(nodes', Len(targets'))
      /\ curnode \in 1 .. Len(nodes)
  BY <1>2, InvShape DEF Inv
<1>4. sz \in Nat /\ sz >= 2 /\ w \in Modifiers
  BY SizesAssumption DEF Modifiers
<1>5. PICK ms : ms = nodes'
  OBVIOUS
<1>6. Stacked(nodes, ms, curnode, w, sz, ph)
  BY <1>1, <1>2, <1>3, <1>4, <1>5, Stacking
<1>7. Grown(nodes, ms, curnode, sz, ph)
  BY <1>1, <1>3, <1>4, <1>6, StackedGrown
<1>8. ms \in Seq(NodeRec) /\ Len(ms) <= MaxNodes
  BY <1>1, <1>2, <1>3, <1>4, <1>6, SizesAssumption DEF Stacked
<1> QED
  BY <1>3, <1>4, <1>5, <1>7, <1>8, ScheduledGrown

LEMMA PlacedTimes ==
    ASSUME Inv, Scheduled(nodes), step = "build", curnode # 0,
           NEW t, t = Len(targets) + 1, NEW placed, placed = Place(t),
           Len(nodes) + 1 <= MaxNodes
    PROVE  Scheduled(placed)
<1>1. /\ Typed /\ nodes \in Seq(NodeRec) /\ Tree(nodes, Len(targets))
      /\ curnode \in 1 .. Len(nodes) /\ Growing(nodes, curnode, mnstack)
      /\ curnode \in Nat
  BY InvShape
<1>2. placed \in Seq(NodeRec) /\ Tree(placed, t) /\ t \in Nat
  BY LeafPlaced
<1>3. placed = IF nodes[curnode].type = "mono" THEN Hit(nodes, curnode, t)
               ELSE Attach(nodes, curnode, LeafFor(curnode, t))
  BY <1>1, Placing
<1>4. CASE nodes[curnode].type = "mono"
  <2>1. SameTimes(nodes, placed)
    BY <1>1, <1>3, <1>4, HitTimes
  <2> QED
    BY <1>1, <1>2, <2>1, ScheduledSame
<1>5. CASE nodes[curnode].type # "mono"
  <2>1. PICK node : node = LeafFor(curnode, t)
    OBVIOUS
  <2>2. /\ node \in NodeRec /\ node.type = "mono" /\ node.parent = curnode
        /\ node.children = <<>> /\ node.meta = <<>>
    BY <1>1, <1>2, <2>1, LeafIs
  <2>3. placed = Attach(nodes, curnode, node)
    BY <1>3, <1>5, <2>1
  <2> QED
    BY <1>1, <1>2, <2>2, <2>3, AttachScheduled
<1> QED
  BY <1>4, <1>5

LEMMA PlaceLeafTimes ==
    ASSUME Inv, Inv', Scheduled(nodes), NEW sz \in Nat, PlaceLeaf(sz)
    PROVE  Scheduled(nodes')
<1>1. PICK t : t = Len(targets) + 1
  OBVIOUS
<1>2. PICK placed : placed = Place(t)
  OBVIOUS
<1>3. PICK next : next = Hunt(placed)
  OBVIOUS
<1>4. PICK full \in BOOLEAN : full <=> FilledBy(nodes[next])
  OBVIOUS
<1>5. /\ step = "build" /\ curnode # 0 /\ Len(nodes) + 1 <= MaxNodes
      /\ \/ Filling(next) /\ nodes' = Turned(placed, next, full)
         \/ nodes' = placed
  BY <1>1, <1>2, <1>3, <1>4 DEF PlaceLeaf, Building, Turned
<1>6. /\ placed \in Seq(NodeRec) /\ Tree(placed, t) /\ SameMeta(nodes, placed)
  BY <1>1, <1>2, <1>5, LeafPlaced
<1>7. Scheduled(placed)
  BY <1>1, <1>2, <1>5, PlacedTimes
<1>8. CASE Filling(next) /\ nodes' = Turned(placed, next, full)
  <2>1. /\ nodes \in Seq(NodeRec) /\ Tree(nodes, Len(targets)) /\ mnstack \in Seq(Nat)
        /\ curnode \in 1 .. Len(nodes) /\ Growing(nodes, curnode, mnstack)
    BY <1>5, InvShape
  <2>2. next \in 1 .. Len(nodes)
    <3>1. OfTree(nodes, mnstack)
      BY <2>1, GrowingShape
    <3>2. mnstack # <<>> /\ next = mnstack[Len(mnstack)]
      BY <1>8 DEF Filling
    <3>3. Len(mnstack) \in 1 .. Len(mnstack)
      BY <2>1, <3>2
    <3> QED
      BY <3>1, <3>2, <3>3 DEF OfTree
  <2>3. next \in 1 .. Len(placed)
    BY <1>6, <2>1, <2>2 DEF SameMeta
  <2>4. PICK ms : ms = nodes'
    OBVIOUS
  <2>5. ms \in Seq(NodeRec) /\ Tree(ms, Len(targets'))
    BY <2>4 DEF Inv, Typed
  <2>6. SameTimes(placed, ms)
    BY <1>6, <1>8, <2>3, <2>4, TurnedTimes
  <2> QED
    BY <1>6, <1>7, <2>4, <2>5, <2>6, ScheduledSame
<1> QED
  BY <1>5, <1>7, <1>8

-----------------------------------------------------------------------------
(* The clock. *)

\* A round is n into, at the time x; or it is over and starts again at n.
Reached(f, x, n, over) ==
    IF over THEN x = Unit /\ f[n] = 0 ELSE x = f[n]

\* What has been played is the time before the leaf that is looked for; the
\* leaf in curnode is counted when it starts.
Clock(f) ==
    /\ step = "search" => ~walk.wait /\ played = Ends(nodes, f, walk.top)
    /\ step \in {"dive", "pick"} /\ walk.for = "cur" => f[walk.top] = 0
    /\ step \in {"dive", "pick"} /\ walk.for = "nxt" =>
          Reached(f, played, walk.top, walk.wait)
    /\ step = "play" => Reached(f, played, nxtstate.node, nxtstate.wait)

Timed ==
    /\ Scheduled(nodes)
    /\ step # "build" => \E f : Schedule(nodes, f) /\ Clock(f)

\* The schedule that the clock goes by.
LEMMA TimedShape ==
    ASSUME Inv, Timed, step # "build"
    PROVE  /\ Sound(nodes) /\ \E f : Schedule(nodes, f) /\ Clock(f)
           /\ walk.top \in 1 .. Len(nodes) /\ walk \in WalkRec
           /\ walk.for \in {"cur", "nxt"} /\ walk.wait \in BOOLEAN
BY PlayShape, WalkFormed DEF Timed, Scheduled, Walking

LEMMA ClockKept ==
    ASSUME Sound(nodes), UNCHANGED nodes, NEW f, Schedule(nodes, f), Clock(f)'
    PROVE  Timed'
<1>1. Sound(nodes') /\ Schedule(nodes', f)
  <2>1. PICK ms : ms = nodes'
    OBVIOUS
  <2>2. ms = nodes
    BY <2>1
  <2>3. Sound(ms) /\ Schedule(ms, f)
    BY <2>2
  <2> QED
    BY <2>1, <2>3
<1> QED
  BY <1>1 DEF Timed, Scheduled

LEMMA FinishTimes ==
    ASSUME Inv, Timed, Finish
    PROVE  Timed'
<1>1. step' = "dive" /\ walk' = Walk("cur", 1, 1, 1) /\ UNCHANGED nodes
  BY DEF Finish, Top
<1>2. PICK f : Sound(nodes) /\ Schedule(nodes, f)
  BY DEF Timed, Scheduled
<1>3. walk'.for = "cur" /\ walk'.top = 1
  BY <1>1 DEF Walk
<1>4. f[1] = 0
  BY <1>2 DEF Schedule
<1>5. Clock(f)'
  BY <1>1, <1>3, <1>4 DEF Clock
<1> QED
  BY <1>1, <1>2, <1>5, ClockKept

LEMMA ClimbTimes ==
    ASSUME Inv, Timed, Climb
    PROVE  Timed'
<1>1. PICK p : p = nodes[walk.top].parent
  OBVIOUS
<1>2. /\ step = "search" /\ walk.top # 1 /\ NextOf(walk.top) = 0
      /\ walk' = [walk EXCEPT !.top = p, !.reverted = p]
      /\ UNCHANGED <<nodes, step, nxtstate, played>>
  BY <1>1 DEF Climb, Top
<1>3. /\ Sound(nodes) /\ walk.top \in 1 .. Len(nodes) /\ walk \in WalkRec
      /\ step # "build"
  BY <1>2, TimedShape
<1>4. PICK f : Schedule(nodes, f) /\ Clock(f)
  BY <1>2, TimedShape
<1>5. walk.top \in 2 .. Len(nodes)
  BY <1>2, <1>3
<1>6. Ends(nodes, f, walk.top) = Ends(nodes, f, p)
  BY <1>1, <1>2, <1>3, <1>4, <1>5, EndsAbove
<1>7. walk'.top = p /\ walk'.wait = walk.wait
  BY <1>2, <1>3 DEF WalkRec
<1>8. ~walk.wait /\ played = Ends(nodes, f, walk.top)
  BY <1>2, <1>4 DEF Clock
<1>9. Ends(nodes', f, walk'.top) = Ends(nodes, f, p)
  BY <1>2, <1>7
<1>10. Clock(f)'
  BY <1>2, <1>6, <1>7, <1>8, <1>9 DEF Clock
<1> QED
  BY <1>2, <1>3, <1>4, <1>10, ClockKept

LEMMA AcrossTimes ==
    ASSUME Inv, Timed, Across
    PROVE  Timed'
<1>1. PICK next : next = NextOf(walk.top)
  OBVIOUS
<1>2. /\ step = "search" /\ walk.top # 1 /\ next # 0
      /\ walk' = [walk EXCEPT !.top = next] /\ step' = "dive"
      /\ UNCHANGED <<nodes, nxtstate, played>>
  BY <1>1 DEF Across, Top
<1>3. /\ Sound(nodes) /\ walk.top \in 1 .. Len(nodes) /\ walk \in WalkRec
      /\ step # "build"
  BY <1>2, TimedShape
<1>4. PICK f : Schedule(nodes, f) /\ Clock(f)
  BY <1>2, TimedShape
<1>5. walk.top \in 2 .. Len(nodes)
  BY <1>2, <1>3
<1>6. f[next] = Ends(nodes, f, walk.top)
  BY <1>1, <1>2, <1>3, <1>4, <1>5, StartsAfter
<1>7. walk'.top = next /\ walk'.wait = walk.wait /\ walk'.for = "nxt"
  <2>1. walk.for = "nxt"
    BY <1>2, PlayShape DEF Walking
  <2> QED
    BY <1>2, <1>3, <2>1 DEF WalkRec
<1>8. ~walk.wait /\ played = Ends(nodes, f, walk.top)
  BY <1>2, <1>4 DEF Clock
<1>9. Reached(f, played', walk'.top, walk'.wait)
  BY <1>2, <1>6, <1>7, <1>8 DEF Reached
<1>10. Clock(f)'
  BY <1>2, <1>7, <1>9 DEF Clock
<1> QED
  BY <1>2, <1>3, <1>4, <1>10, ClockKept

LEMMA NextPhraseTimes ==
    ASSUME Inv, Timed, NextPhrase
    PROVE  Timed'
<1>1. /\ step = "search" /\ walk.top = 1 /\ walk' = [walk EXCEPT !.wait = TRUE]
      /\ step' = "dive" /\ UNCHANGED <<nodes, nxtstate, played>>
  BY DEF NextPhrase, Top
<1>2. Sound(nodes) /\ walk \in WalkRec /\ Rooted(nodes)
  BY <1>1, TimedShape, PlayShape
<1>3. PICK f : Schedule(nodes, f) /\ Clock(f)
  BY <1>1, TimedShape
<1>4. walk'.top = 1 /\ walk'.wait = TRUE /\ walk'.for = "nxt"
  <2>1. walk.for = "nxt"
    BY <1>1, PlayShape DEF Walking
  <2> QED
    BY <1>1, <1>2, <2>1 DEF WalkRec
<1>5. f[1] = 0 /\ Takes(nodes, 1) = Unit /\ Unit \in Nat
  BY <1>2, <1>3, PartTop, SizesAssumption DEF Schedule
<1>6. played = Unit
  BY <1>1, <1>3, <1>5 DEF Clock, Ends
<1>7. Reached(f, played', walk'.top, walk'.wait)
  BY <1>1, <1>4, <1>5, <1>6 DEF Reached
<1>8. Clock(f)'
  BY <1>1, <1>4, <1>7 DEF Clock
<1> QED
  BY <1>1, <1>2, <1>3, <1>8, ClockKept

\* A dive goes on at a node that starts when the one it is at does.
LEMMA DivesOn ==
    ASSUME NEW f, step = "dive", step' = "dive", walk \in WalkRec, Clock(f),
           NEW c, walk' = [walk EXCEPT !.top = c], played' = played,
           f[c] = f[walk.top]
    PROVE  Clock(f)'
<1>1. walk'.top = c /\ walk'.for = walk.for /\ walk'.wait = walk.wait
  BY DEF WalkRec
<1>2. walk.for = "cur" => f[walk.top] = 0
  BY DEF Clock
<1>3. walk.for = "nxt" => Reached(f, played, walk.top, walk.wait)
  BY DEF Clock
<1>4. walk.for = "nxt" => Reached(f, played', walk'.top, walk'.wait)
  BY <1>1, <1>3 DEF Reached
<1> QED
  BY <1>1, <1>2, <1>4 DEF Clock

LEMMA ChooseNodeTimes ==
    ASSUME Inv, Inv', Timed, ChooseNode
    PROVE  Timed'
<1>1. PICK n : n = walk.top
  OBVIOUS
<1>2. PICK q : q = InTurn(nodes[n])
  OBVIOUS
<1>3. PICK c : c = nodes[n].meta[q]
  OBVIOUS
<1>4. PICK ms : ms = nodes'
  OBVIOUS
<1>5. /\ step = "dive" /\ nodes[n].meta # <<>> /\ ms = [nodes EXCEPT ![n].pos = q]
      /\ walk' = [walk EXCEPT !.top = c] /\ step' = "dive" /\ played' = played
  BY <1>1, <1>2, <1>3, <1>4 DEF ChooseNode
<1>6. /\ Sound(nodes) /\ n \in 1 .. Len(nodes) /\ walk \in WalkRec
      /\ nodes \in Seq(NodeRec) /\ Tree(nodes, Len(targets))
  BY <1>1, <1>5, TimedShape, InvShape
<1>7. PICK f : Schedule(nodes, f) /\ Clock(f)
  BY <1>5, TimedShape
<1>8. q \in 1 .. Len(nodes[n].meta)
  <2>1. Formed(nodes[n])
    BY <1>6, TreeKids
  <2>2. nodes[n].meta \in Seq(Nat) /\ nodes[n].pos \in Nat
    BY <2>1 DEF Formed
  <2>3. Len(nodes[n].meta) \in Nat /\ Len(nodes[n].meta) >= 1
    BY <1>5, <2>2
  <2> QED
    BY <1>2, <2>2, <2>3, InTurnIs
<1>9. f[c] = f[n]
  BY <1>3, <1>6, <1>7, <1>8, EndOfMeta
<1>10. Clock(f)'
  BY <1>1, <1>5, <1>6, <1>7, <1>9, DivesOn
<1>11. Sound(ms) /\ Schedule(ms, f)
  <2>1. Repositions(nodes, n, q, ms)
    BY <1>5 DEF Repositions
  <2>2. SameTimes(nodes, ms)
    BY <1>6, <2>1, RepositionedTimes
  <2>3. ms \in Seq(NodeRec) /\ Tree(ms, Len(targets'))
    BY <1>4 DEF Inv, Typed
  <2>4. Rooted(ms)
    BY <2>3, TreeRooted
  <2> QED
    BY <1>6, <1>7, <2>2, <2>3, <2>4, TimesKept
<1> QED
  BY <1>4, <1>10, <1>11 DEF Timed, Scheduled

LEMMA DescendTimes ==
    ASSUME Inv, Timed, Descend
    PROVE  Timed'
<1>1. PICK n : n = walk.top
  OBVIOUS
<1>2. PICK c : c = nodes[n].children[1]
  OBVIOUS
<1>3. /\ step = "dive" /\ nodes[n].meta = <<>> /\ nodes[n].target = 0
      /\ walk' = [walk EXCEPT !.top = c] /\ step' = "dive"
      /\ UNCHANGED <<nodes, played>>
  BY <1>1, <1>2 DEF Descend
<1>4. /\ Sound(nodes) /\ n \in 1 .. Len(nodes) /\ walk \in WalkRec
      /\ nodes \in Seq(NodeRec) /\ Tree(nodes, Len(targets))
  BY <1>1, <1>3, TimedShape, InvShape
<1>5. PICK f : Schedule(nodes, f) /\ Clock(f)
  BY <1>3, TimedShape
<1>6. 1 \in 1 .. Len(nodes[n].children)
  <2>1. nodes[n].children # <<>>
    BY <1>3, <1>4, PlayShape DEF Holding
  <2>2. nodes[n].children \in Seq(Nat)
    BY <1>4, AllWithin DEF Within
  <2> QED
    BY <2>1, <2>2
<1>7. f[c] = f[n]
  BY <1>2, <1>4, <1>5, <1>6 DEF Schedule, KidStarts
<1>8. Clock(f)'
  BY <1>1, <1>3, <1>4, <1>5, <1>7, DivesOn
<1> QED
  BY <1>3, <1>4, <1>5, <1>8, ClockKept

\* Landing and picking a target leave the walk at its leaf.
LEMMA StaysAtLeaf ==
    ASSUME Inv, Timed, step \in {"dive", "pick"}, step' = "pick", NEW t,
           walk' = [walk EXCEPT !.target = t], UNCHANGED <<nodes, played>>
    PROVE  Timed'
<1>1. Sound(nodes) /\ walk \in WalkRec
  BY TimedShape
<1>2. PICK f : Schedule(nodes, f) /\ Clock(f)
  BY TimedShape
<1>3. walk'.top = walk.top /\ walk'.for = walk.for /\ walk'.wait = walk.wait
  BY <1>1 DEF WalkRec
<1>4. Clock(f)'
  BY <1>2, <1>3 DEF Clock, Reached
<1> QED
  BY <1>1, <1>2, <1>4, ClockKept

LEMMA LandTimes ==
    ASSUME Inv, Timed, Land
    PROVE  Timed'
BY StaysAtLeaf DEF Land

LEMMA ChooseTargetTimes ==
    ASSUME Inv, Timed, ChooseTarget
    PROVE  Timed'
<1>1. PICK t : t = targets[walk.target].meta[InTurn(targets[walk.target])]
  OBVIOUS
<1>2. /\ step = "pick" /\ step' = "pick" /\ walk' = [walk EXCEPT !.target = t]
      /\ UNCHANGED <<nodes, played>>
  BY <1>1 DEF ChooseTarget
<1> QED
  BY <1>2, StaysAtLeaf

\* A leaf is played in the time it has.
LEMMA LeafShare ==
    ASSUME Inv, step # "build", Sound(nodes), NEW n, Leaf(nodes, n), NEW x, NEW y,
           AtSpeed(nodes, x, y, n)
    PROVE  Share(x, y) = Takes(nodes, n) /\ Takes(nodes, n) \in Nat
<1>1. /\ n \in 1 .. Len(nodes) /\ nodes[n].target # 0
      /\ x = ProductOf(nodes, "poly", n) /\ y = ProductOf(nodes, "mono", n)
  BY DEF Leaf, AtSpeed
<1>2. Rooted(nodes) /\ nodes[n].type = "mono" /\ nodes[n].meta = <<>>
      /\ nodes[n].modifier \in Positive
  BY <1>1, PlayShape DEF Holding
<1>3. PICK d \in Positive : d = nodes[n].modifier
  BY <1>2
<1>4. PICK o \in Positive : o = Over(nodes, "poly", n)
  BY <1>1, <1>2, ProductStep
<1>5. PICK m \in Positive : m = Over(nodes, "mono", n)
  BY <1>1, <1>2, ProductStep
<1>6. x = 1 * o /\ y = d * m
  <2>1. Factor(nodes, "poly", n) = 1 /\ Factor(nodes, "mono", n) = d
    BY <1>2, <1>3 DEF Factor
  <2>2. \A type : ProductOf(nodes, type, n) = Factor(nodes, type, n) * Over(nodes, type, n)
    BY <1>1, <1>2, ProductStep
  <2> QED
    BY ONLY <1>1, <1>4, <1>5, <2>1, <2>2
<1>7. PICK b \in Nat : b = Beat(nodes, n) /\ Unit = o * b
  BY <1>1, <1>2, <1>4, BeatIs
<1>8. d \in Nat /\ m \in Nat /\ o \in Nat
  BY DEF Positive
<1>9. x = o
  BY <1>6, <1>8, OneTimes
<1>10. Unit * y = o * (b * (d * m)) /\ b * (d * m) \in Nat
  <2>1. PICK e \in Nat : e = d * m
    BY <1>8, Regroup
  <2>2. (o * b) * e = o * (b * e) /\ b * e \in Nat
    BY ONLY <1>8, b \in Nat, e \in Nat, Regroup
  <2> QED
    BY ONLY <1>6, <1>7, <2>1, <2>2
<1>11. Share(x, y) = b * (d * m)
  <2>1. PICK e \in Nat : e = b * (d * m)
    BY <1>10
  <2>2. (o * e) \div o = e
    BY Exactly
  <2> QED
    BY ONLY <1>9, <1>10, <2>1, <2>2 DEF Share
<1>12. Takes(nodes, n) = d * (b * m)
  BY <1>2, <1>3, <1>5, <1>7 DEF Takes, Ramps, Part
<1>13. b * (d * m) = d * (b * m)
  BY ONLY <1>8, b \in Nat, Regroup
<1> QED
  BY <1>10, <1>11, <1>12, <1>13

LEMMA FirstLeafTimes ==
    ASSUME Inv, Timed, FirstLeaf
    PROVE  Timed'
<1>1. /\ step = "pick" /\ walk.for = "cur" /\ played' = Share(num, den)
      /\ walk' = Walk("nxt", walk.top, num, den) /\ step' = "search"
      /\ UNCHANGED nodes
  BY DEF FirstLeaf
<1>2. Sound(nodes)
  BY <1>1, TimedShape
<1>3. PICK f : Schedule(nodes, f) /\ Clock(f)
  BY <1>1, TimedShape
<1>4. Leaf(nodes, walk.top) /\ AtSpeed(nodes, num, den, walk.top)
  BY <1>1, PlayShape DEF Walking
<1>5. Share(num, den) = Takes(nodes, walk.top) /\ Takes(nodes, walk.top) \in Nat
  BY <1>1, <1>2, <1>4, LeafShare
<1>6. f[walk.top] = 0
  BY <1>1, <1>3 DEF Clock
<1>7. walk'.top = walk.top /\ walk'.wait = FALSE
  BY <1>1 DEF Walk
<1>8. played' = Ends(nodes, f, walk.top)
  BY <1>1, <1>5, <1>6 DEF Ends
<1>9. Ends(nodes', f, walk'.top) = Ends(nodes, f, walk.top)
  BY <1>1, <1>7
<1>10. Clock(f)'
  BY <1>1, <1>7, <1>8, <1>9 DEF Clock
<1> QED
  BY <1>1, <1>2, <1>3, <1>10, ClockKept

LEMMA FoundTimes ==
    ASSUME Inv, Timed, Found
    PROVE  Timed'
<1>1. /\ step = "pick" /\ walk.for = "nxt"
      /\ nxtstate' = [num |-> num, den |-> den, node |-> walk.top,
                      target |-> walk.target, wait |-> walk.wait]
      /\ step' = "play" /\ UNCHANGED <<nodes, played>>
  BY DEF Found
<1>2. Sound(nodes)
  BY <1>1, TimedShape
<1>3. PICK f : Schedule(nodes, f) /\ Clock(f)
  BY <1>1, TimedShape
<1>4. Reached(f, played, walk.top, walk.wait)
  BY <1>1, <1>3 DEF Clock
<1>5. nxtstate'.node = walk.top /\ nxtstate'.wait = walk.wait
  BY <1>1
<1>6. Reached(f, played', nxtstate'.node, nxtstate'.wait)
  BY <1>1, <1>4, <1>5
<1>7. Clock(f)'
  BY <1>1, <1>6 DEF Clock
<1> QED
  BY <1>1, <1>2, <1>3, <1>7, ClockKept

LEMMA TargetOnDeckTimes ==
    ASSUME Inv, Timed, TargetOnDeck
    PROVE  Timed'
<1>1. PICK n : n = nxtstate.node
  OBVIOUS
<1>2. PICK s : s = Share(nxtstate.num, nxtstate.den)
  OBVIOUS
<1>3. /\ step = "play" /\ played' = s + IF nxtstate.wait THEN 0 ELSE played
      /\ walk' = Walk("nxt", n, nxtstate.num, nxtstate.den)
      /\ step' = "search" /\ UNCHANGED nodes
  BY <1>1, <1>2 DEF TargetOnDeck
<1>4. Sound(nodes)
  BY <1>3, TimedShape
<1>5. PICK f : Schedule(nodes, f) /\ Clock(f)
  BY <1>3, TimedShape
<1>6. Leaf(nodes, n) /\ AtSpeed(nodes, nxtstate.num, nxtstate.den, n)
  BY <1>1, <1>3, PlayShape DEF Walking
<1>7. s = Takes(nodes, n) /\ s \in Nat
  BY <1>2, <1>3, <1>4, <1>6, LeafShare
<1>8. f[n] \in Nat
  BY <1>5, <1>6 DEF Schedule, Leaf
<1>9. Reached(f, played, n, nxtstate.wait)
  BY <1>1, <1>3, <1>5 DEF Clock
<1>10. f[n] = IF nxtstate.wait THEN 0 ELSE played
  BY <1>9 DEF Reached
<1>11. played' = Ends(nodes, f, n)
  BY <1>3, <1>7, <1>8, <1>10 DEF Ends
<1>12. walk'.top = n /\ walk'.wait = FALSE
  BY <1>3 DEF Walk
<1>13. Ends(nodes', f, walk'.top) = Ends(nodes, f, n)
  BY <1>3, <1>12
<1>14. Clock(f)'
  BY <1>3, <1>11, <1>12, <1>13 DEF Clock
<1> QED
  BY <1>3, <1>4, <1>5, <1>14, ClockKept

LEMMA InitTimes ==
    ASSUME Init
    PROVE  Timed
<1>1. PICK div \in Divs : nodes = <<GestNode("poly", div, 1)>>
  BY DEF Init
<1>2. step = "build"
  BY DEF Init
<1>3. /\ Len(nodes) = 1 /\ nodes[1].type = "poly" /\ nodes[1].modifier = div
      /\ nodes[1].children = <<>> /\ nodes[1].meta = <<>>
  BY <1>1 DEF GestNode
<1>4. 1 <= MaxNodes
  BY SizesAssumption
<1>5. Kind(nodes, 1)
  BY <1>3 DEF Kind
<1>6. Sound(nodes)
  BY <1>3, <1>4, <1>5 DEF Sound
<1>7. PICK f : f = [n \in 1 .. 1 |-> 0]
  OBVIOUS
<1>8. f \in [1 .. 1 -> Nat] /\ f[1] = 0
  BY <1>7
<1>9. Schedule(nodes, f)
  BY <1>3, <1>8 DEF Schedule
<1> QED
  BY <1>2, <1>6, <1>9 DEF Timed, Scheduled

\* A step that builds leaves the walk where it has not begun.
LEMMA BuildTimes ==
    ASSUME step' = "build", Scheduled(nodes')
    PROVE  Timed'
BY DEF Timed

LEMMA NodesStay ==
    ASSUME Timed, UNCHANGED <<nodes, step, walk, nxtstate, played>>
    PROVE  Timed'
<1>1. \A f : Clock(f) => Clock(f)'
  BY DEF Clock, Reached, Ends, Takes, Part, Beat
<1> QED
  BY <1>1 DEF Timed, Scheduled

LEMMA TimedNext == Inv /\ Timed /\ [Next]_vars => Timed'
<1> SUFFICES ASSUME Inv, Timed, [Next]_vars  PROVE Timed'
  OBVIOUS
<1>1. Inv'
  BY InvNext
<1>2. Scheduled(nodes)
  BY DEF Timed
<1>3. CASE Build
  <2>1. ASSUME NEW div \in Divs, Polyramp(div)  PROVE Timed'
    <3>1. step' = "build"
      BY <2>1 DEF Polyramp, Building
    <3> QED
      BY <1>1, <1>2, <2>1, <3>1, PolyrampTimes, BuildTimes
  <2>2. ASSUME NEW w \in Beats, Monoramp(w)  PROVE Timed'
    <3>1. step' = "build"
      BY <2>2 DEF Monoramp, Building
    <3> QED
      BY <1>1, <1>2, <2>2, <3>1, MonorampTimes, BuildTimes
  <2>3. ASSUME NEW w \in Beats, NEW sz \in MetaSizes, AddMetanode(w, sz)  PROVE Timed'
    <3>1. step' = "build"
      BY <2>3 DEF AddMetanode, Building
    <3> QED
      BY <1>1, <1>2, <2>3, <3>1, AddMetanodeTimes, BuildTimes
  <2>4. ASSUME NEW sz \in Nat, FillSlot(sz)  PROVE Timed'
    <3>1. UNCHANGED <<nodes, step, walk, nxtstate, played>>
      BY <2>4 DEF FillSlot, Building
    <3> QED
      BY <3>1, NodesStay
  <2>5. ASSUME NEW sz \in Nat, PlaceLeaf(sz)  PROVE Timed'
    <3>1. step' = "build"
      BY <2>5 DEF PlaceLeaf, Building
    <3> QED
      BY <1>1, <1>2, <2>5, <3>1, PlaceLeafTimes, BuildTimes
  <2>6. CASE AddTarget
    BY <2>4, <2>5, <2>6 DEF AddTarget
  <2>7. CASE \E sz \in MetaSizes : AddMetatarget(sz)
    <3>1. \A sz \in MetaSizes : sz \in Nat
      BY SizesAssumption
    <3> QED
      BY <2>4, <2>5, <2>7, <3>1 DEF AddMetatarget
  <2>8. CASE Finish
    BY <2>8, FinishTimes
  <2> QED
    BY <1>3, <2>1, <2>2, <2>3, <2>6, <2>7, <2>8 DEF Build
<1>4. CASE Play
  <2>1. CASE Climb
    BY <2>1, ClimbTimes
  <2>2. CASE Across
    BY <2>2, AcrossTimes
  <2>3. CASE NextPhrase
    BY <2>3, NextPhraseTimes
  <2>4. CASE ChooseNode
    BY <1>1, <2>4, ChooseNodeTimes
  <2>5. CASE Descend
    BY <2>5, DescendTimes
  <2>6. CASE Land
    BY <2>6, LandTimes
  <2>7. CASE ChooseTarget
    BY <2>7, ChooseTargetTimes
  <2>8. CASE FirstLeaf
    BY <2>8, FirstLeafTimes
  <2>9. CASE Found
    BY <2>9, FoundTimes
  <2>10. CASE TargetOnDeck
    BY <2>10, TargetOnDeckTimes
  <2> QED
    BY <1>4, <2>1, <2>2, <2>3, <2>4, <2>5, <2>6, <2>7, <2>8, <2>9, <2>10 DEF Play
<1>5. CASE vars' = vars
  <2>1. UNCHANGED <<nodes, step, walk, nxtstate, played>>
    BY <1>5 DEF vars
  <2> QED
    BY <2>1, NodesStay
<1> QED
  BY <1>3, <1>4, <1>5 DEF Next

(* When the walk comes back to the top of the phrase, the leaves of the     *)
(* round have taken its time and no more, in every tree and whatever was    *)
(* put in the place of the metanodes: a gesture does not drift from its     *)
(* conductor by what it plays (find_next_node, dive_to_target).             *)
THEOREM RoundsAreWhole == Spec => []RoundFillsPhrase
<1>1. Init => Inv /\ Timed
  BY InvInit, InitTimes
<1>2. Inv /\ Timed /\ [Next]_vars => (Inv /\ Timed)'
  BY InvNext, TimedNext
<1>3. Inv /\ Timed => RoundFillsPhrase
  BY DEF Timed, Clock, Reached, RoundFillsPhrase
<1> QED
  BY <1>1, <1>2, <1>3, PTL DEF Spec
==============================================================================
