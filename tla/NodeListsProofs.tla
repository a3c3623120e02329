---------------------------- MODULE NodeListsProofs ----------------------------
(***************************************************************************)
(* The lists of nodes of a session, for any memory: each allocated node is *)
(* freed by one list, whatever the scripts do and in whatever order the    *)
(* objects of a session are deleted.                                       *)
(***************************************************************************)
EXTENDS NodeLists, FiniteSetTheorems, WellFoundedInduction, TLAPS

------------------------------------------------------------------------------
(* Induction.                                                               *)

(* Every nonempty set of numbers has a least one.                           *)
LEMMA Least ==
    ASSUME NEW T \in SUBSET Nat, T # {}
    PROVE  \E m \in T : \A n \in T : m <= n
<1> DEFINE R == OpToRel(<, Nat)
<1>1. IsWellFoundedOn(R, Nat)
  BY NatLessThanWellFounded
<1>2. \A m, n \in Nat : <<m, n>> \in R <=> m < n
  BY DEF OpToRel
<1> HIDE DEF R
<1>3. PICK m \in T : \A n \in T : <<n, m>> \notin R
  BY <1>1, WFMin
<1>4. \A n \in T : ~ (n < m)
  BY <1>2, <1>3
<1> QED
  BY <1>4

(* A set with 0 and every successor has every number.                       *)
LEMMA Induction ==
    ASSUME NEW T, 0 \in T, \A n \in Nat : n \in T => n + 1 \in T
    PROVE  Nat \subseteq T
<1> SUFFICES ASSUME Nat \ T # {}  PROVE FALSE
  OBVIOUS
<1>1. PICK m \in Nat \ T : \A n \in Nat \ T : m <= n
  BY Least
<1>2. m # 0 /\ m - 1 \in Nat
  BY <1>1
<1>3. m - 1 \in T
  BY <1>1, <1>2
<1> QED
  BY <1>1, <1>2, <1>3

------------------------------------------------------------------------------
(* Lists as the loops of the code see them.                                 *)

Address == Nodes \cup {Nil}
NodeT == [st : {"free", "live", "destroyed"}, next : Address,
          does : {"nothing", "sound", "sub", "hs"}]
ListT == [nodes : Address, last : Address, nnodes : Nat]

\* The k links from h on, in the memory nd.
Links(nd, h, k) ==
    LET f[i \in 0 .. k] ==
            IF i = 0 THEN h ELSE IF f[i - 1] = Nil THEN Nil ELSE nd[f[i - 1]].next
    IN  f

\* The i-th node of the list L, and all of them.
Nth(nd, L, i) == Links(nd, L.nodes, L.nnodes)[i]
In(nd, L) == {Nth(nd, L, i) : i \in 0 .. L.nnodes - 1}

\* The list has as many nodes as it counts, and the last one is its tail.
Whole(nd, L) ==
    L.nnodes > 0 =>
        /\ \A i \in 0 .. L.nnodes - 1 : Nth(nd, L, i) \in Nodes
        /\ L.last = Nth(nd, L, L.nnodes - 1) /\ nd[L.last].next = Nil

(* The links are what their recursive definition says.                      *)
LEMMA LinksAre ==
    ASSUME NEW nd \in [Nodes -> NodeT], NEW h \in Address, NEW k \in Nat
    PROVE  /\ \A i \in 0 .. k : Links(nd, h, k)[i] \in Address
           /\ Links(nd, h, k)[0] = h
           /\ \A i \in 1 .. k : Links(nd, h, k)[i] =
                 IF Links(nd, h, k)[i - 1] = Nil THEN Nil
                 ELSE nd[Links(nd, h, k)[i - 1]].next
<1> DEFINE Rec(f, n) ==
              f = [i \in 0 .. n |-> IF i = 0 THEN h ELSE IF f[i - 1] = Nil THEN Nil
                                    ELSE nd[f[i - 1]].next]
           T == {n \in Nat : \E f \in [0 .. n -> Address] : Rec(f, n)}
<1>1. 0 \in T
  <2> DEFINE f == [i \in 0 .. 0 |-> h]
  <2>1. f \in [0 .. 0 -> Address] /\ Rec(f, 0)
    OBVIOUS
  <2> QED
    BY <2>1
<1>2. ASSUME NEW n \in Nat, n \in T  PROVE n + 1 \in T
  <2>1. PICK f \in [0 .. n -> Address] : Rec(f, n)
    BY <1>2
  <2> DEFINE e == IF f[n] = Nil THEN Nil ELSE nd[f[n]].next
             g == [i \in 0 .. n + 1 |-> IF i = n + 1 THEN e ELSE f[i]]
  <2>2. f[n] \in Address /\ e \in Address
    BY DEF Address, NodeT
  <2>3. g \in [0 .. n + 1 -> Address]
    BY <2>2
  <2>4. /\ \A i \in 0 .. n : g[i] = f[i]
        /\ g[n + 1] = e
        /\ \A i \in 0 .. n : f[i] = IF i = 0 THEN h ELSE IF f[i - 1] = Nil THEN Nil
                                    ELSE nd[f[i - 1]].next
    <3>1. \A i \in 0 .. n : i \in 0 .. n + 1 /\ i # n + 1
      OBVIOUS
    <3>2. n + 1 \in 0 .. n + 1
      OBVIOUS
    <3> QED
      BY <2>1, <3>1, <3>2
  <2> HIDE DEF e
  <2>5. ASSUME NEW i \in 0 .. n + 1
        PROVE  g[i] = IF i = 0 THEN h ELSE IF g[i - 1] = Nil THEN Nil
                      ELSE nd[g[i - 1]].next
    <3> HIDE DEF g
    <3>1. CASE i = n + 1
      <4>1. i # 0 /\ i - 1 = n /\ n \in 0 .. n
        BY <3>1
      <4> QED
        BY <2>4, <3>1, <4>1 DEF e
    <3>2. CASE i # n + 1
      <4>1. i \in 0 .. n /\ (i # 0 => i - 1 \in 0 .. n)
        BY <3>2
      <4> QED
        BY <2>4, <4>1
    <3> QED
      BY <3>1, <3>2
  <2>6. Rec(g, n + 1)
    <3>1. g = [i \in 0 .. n + 1 |-> g[i]]
      BY <2>3
    <3> HIDE DEF g
    <3> QED
      BY <2>5, <3>1
  <2> HIDE DEF g, Rec
  <2> QED
    BY <2>3, <2>6
<1>3. k \in T
  <2> HIDE DEF T
  <2> QED
    BY <1>1, <1>2, Induction
<1>4. PICK f \in [0 .. k -> Address] : Rec(f, k)
  BY <1>3
<1>5. Links(nd, h, k) = CHOOSE g : Rec(g, k)
  BY DEF Links
<1> DEFINE l == CHOOSE g : Rec(g, k)
<1>6. Rec(l, k)
  <2> HIDE DEF Rec
  <2> QED
    BY <1>4
<1> HIDE DEF l
<1>7. \A i \in 0 .. k : l[i] = IF i = 0 THEN h ELSE IF l[i - 1] = Nil THEN Nil
                               ELSE nd[l[i - 1]].next
  BY <1>6
<1> DEFINE U == {i \in Nat : i \in 0 .. k => l[i] \in Address}
<1>8. 0 \in U
  BY <1>7
<1>9. ASSUME NEW i \in Nat, i \in U  PROVE i + 1 \in U
  <2> SUFFICES ASSUME i + 1 \in 0 .. k  PROVE l[i + 1] \in Address
    OBVIOUS
  <2>1. i \in 0 .. k /\ (i + 1) - 1 = i /\ i + 1 # 0
    OBVIOUS
  <2>2. l[i] \in Address /\ l[i + 1] = IF l[i] = Nil THEN Nil ELSE nd[l[i]].next
    BY <1>7, <1>9, <2>1
  <2> QED
    BY <2>2 DEF Address, NodeT
<1>10. \A i \in 0 .. k : l[i] \in Address
  <2>1. Nat \subseteq U
    <3> HIDE DEF U
    <3> QED
      BY <1>8, <1>9, Induction
  <2> QED
    BY <2>1
<1>11. /\ l[0] = h
       /\ \A i \in 1 .. k : l[i] = IF l[i - 1] = Nil THEN Nil ELSE nd[l[i - 1]].next
  BY <1>7
<1> QED
  BY <1>5, <1>10, <1>11 DEF l

(* Two memories that agree on the first j links give the same ones.         *)
LEMMA LinksAgree ==
    ASSUME NEW nd \in [Nodes -> NodeT], NEW md \in [Nodes -> NodeT], NEW h \in Address,
           NEW k \in Nat, NEW m \in Nat, NEW j \in Nat, j <= k, j <= m,
           \A i \in 0 .. j - 1 :
              Links(nd, h, k)[i] # Nil =>
                  md[Links(nd, h, k)[i]].next = nd[Links(nd, h, k)[i]].next
    PROVE  \A i \in 0 .. j : Links(md, h, m)[i] = Links(nd, h, k)[i]
<1> DEFINE f == Links(nd, h, k)
           g == Links(md, h, m)
           U == {i \in Nat : i \in 0 .. j => g[i] = f[i]}
<1>1. /\ f[0] = h /\ g[0] = h
      /\ \A i \in 1 .. k : f[i] = IF f[i - 1] = Nil THEN Nil ELSE nd[f[i - 1]].next
      /\ \A i \in 1 .. m : g[i] = IF g[i - 1] = Nil THEN Nil ELSE md[g[i - 1]].next
  BY LinksAre
<1>2. \A i \in 0 .. j - 1 : f[i] # Nil => md[f[i]].next = nd[f[i]].next
  OBVIOUS
<1> HIDE DEF f, g
<1>3. 0 \in U
  BY <1>1
<1>4. ASSUME NEW i \in Nat, i \in U  PROVE i + 1 \in U
  <2> SUFFICES ASSUME i + 1 \in 0 .. j  PROVE g[i + 1] = f[i + 1]
    OBVIOUS
  <2>1. /\ i \in 0 .. j /\ i \in 0 .. j - 1 /\ (i + 1) - 1 = i
        /\ i + 1 \in 1 .. k /\ i + 1 \in 1 .. m
    OBVIOUS
  <2>2. g[i] = f[i]
    BY <1>4, <2>1
  <2> QED
    BY <1>1, <1>2, <2>1, <2>2
<1>5. Nat \subseteq U
  <2> HIDE DEF U
  <2> QED
    BY <1>3, <1>4, Induction
<1>6. \A i \in 0 .. j : g[i] = f[i]
  BY <1>5
<1> QED
  BY <1>6 DEF f, g

(* So do those of a list and of the list with one node more.                *)
LEMMA LinksLonger ==
    ASSUME NEW nd \in [Nodes -> NodeT], NEW md \in [Nodes -> NodeT], NEW h \in Address,
           NEW k \in Nat, k > 0,
           \A i \in 0 .. k - 2 :
              Links(nd, h, k)[i] # Nil =>
                  md[Links(nd, h, k)[i]].next = nd[Links(nd, h, k)[i]].next
    PROVE  \A i \in 0 .. k - 1 : Links(md, h, k + 1)[i] = Links(nd, h, k)[i]
<1> DEFINE j == k - 1
           m == k + 1
<1>1. j \in Nat /\ m \in Nat /\ j <= k /\ j <= m /\ j - 1 = k - 2
  OBVIOUS
<1> HIDE DEF j, m
<1>2. \A i \in 0 .. j : Links(md, h, m)[i] = Links(nd, h, k)[i]
  BY <1>1, LinksAgree
<1> QED
  BY <1>2 DEF j, m

(* The nodes of a list.                                                     *)
LEMMA InIs ==
    ASSUME NEW nd \in [Nodes -> NodeT], NEW L \in ListT
    PROVE  /\ In(nd, L) \subseteq Address
           /\ L.nnodes = 0 => In(nd, L) = {} /\ Whole(nd, L)
           /\ L.nnodes > 0 => L.nodes \in In(nd, L)
           /\ Whole(nd, L) => In(nd, L) \subseteq Nodes
<1>1. L.nnodes \in Nat /\ L.nodes \in Address
  BY DEF ListT
<1>2. /\ \A i \in 0 .. L.nnodes : Nth(nd, L, i) \in Address
      /\ Nth(nd, L, 0) = L.nodes
  BY <1>1, LinksAre DEF Nth
<1>3. In(nd, L) \subseteq Address
  <2>1. \A i \in 0 .. L.nnodes - 1 : i \in 0 .. L.nnodes
    BY <1>1
  <2> QED
    BY <1>2, <2>1 DEF In
<1>4. L.nnodes = 0 => In(nd, L) = {} /\ Whole(nd, L)
  BY DEF In, Whole
<1>5. L.nnodes > 0 => L.nodes \in In(nd, L)
  <2>1. L.nnodes > 0 => 0 \in 0 .. L.nnodes - 1
    BY <1>1
  <2> QED
    BY <1>2, <2>1 DEF In
<1>6. Whole(nd, L) => In(nd, L) \subseteq Nodes
  <2>1. L.nnodes > 0 \/ L.nnodes = 0
    BY <1>1
  <2> QED
    BY <1>4, <2>1 DEF In, Whole
<1> QED
  BY <1>3, <1>4, <1>5, <1>6

(* A list does not see what is written to nodes that it does not have.      *)
LEMMA InKept ==
    ASSUME NEW nd \in [Nodes -> NodeT], NEW md \in [Nodes -> NodeT], NEW L \in ListT,
           \A n \in In(nd, L) : n # Nil => md[n].next = nd[n].next
    PROVE  In(md, L) = In(nd, L) /\ (Whole(nd, L) => Whole(md, L))
<1>1. L.nnodes \in Nat /\ L.nodes \in Address
  BY DEF ListT
<1>2. \A i \in 0 .. L.nnodes : Nth(md, L, i) = Nth(nd, L, i)
  <2>1. \A i \in 0 .. L.nnodes - 1 :
           Nth(nd, L, i) # Nil => md[Nth(nd, L, i)].next = nd[Nth(nd, L, i)].next
    BY DEF In
  <2> DEFINE h == L.nodes
             k == L.nnodes
  <2>2. \A i \in 0 .. k - 1 :
           Links(nd, h, k)[i] # Nil =>
               md[Links(nd, h, k)[i]].next = nd[Links(nd, h, k)[i]].next
    BY <2>1 DEF Nth
  <2>3. k \in Nat /\ k <= k /\ h \in Address
    BY <1>1
  <2> HIDE DEF h, k
  <2>4. \A i \in 0 .. k : Links(md, h, k)[i] = Links(nd, h, k)[i]
    BY <2>2, <2>3, LinksAgree
  <2> QED
    BY <2>4 DEF Nth, h, k
<1>3. \A i \in 0 .. L.nnodes - 1 : i \in 0 .. L.nnodes
  BY <1>1
<1>4. In(md, L) = In(nd, L)
  BY <1>2, <1>3 DEF In
<1>5. ASSUME Whole(nd, L), L.nnodes > 0
      PROVE  /\ \A i \in 0 .. L.nnodes - 1 : Nth(md, L, i) \in Nodes
             /\ L.last = Nth(md, L, L.nnodes - 1) /\ md[L.last].next = Nil
  <2>1. L.nnodes - 1 \in 0 .. L.nnodes - 1
    BY <1>1, <1>5
  <2>2. /\ \A i \in 0 .. L.nnodes - 1 : Nth(nd, L, i) \in Nodes
        /\ L.last = Nth(nd, L, L.nnodes - 1) /\ nd[L.last].next = Nil
    BY <1>5 DEF Whole
  <2>3. L.last \in In(nd, L) /\ L.last # Nil
    BY <2>1, <2>2, NodesAssumption DEF In
  <2> QED
    BY <1>2, <1>3, <2>1, <2>2, <2>3
<1> QED
  BY <1>4, <1>5 DEF Whole

(* A list of one node.                                                      *)
LEMMA InOne ==
    ASSUME NEW nd \in [Nodes -> NodeT], NEW n \in Nodes, nd[n].next = Nil,
           NEW L, L = [nodes |-> n, last |-> n, nnodes |-> 1]
    PROVE  L \in ListT /\ In(nd, L) = {n} /\ Whole(nd, L)
<1>1. L \in ListT /\ L.nodes = n /\ L.last = n /\ L.nnodes = 1
  BY DEF ListT, Address
<1>2. Nth(nd, L, 0) = n
  BY <1>1, LinksAre DEF Nth, ListT
<1>3. 0 .. L.nnodes - 1 = {0} /\ L.nnodes - 1 = 0
  BY <1>1
<1> QED
  BY <1>1, <1>2, <1>3 DEF In, Whole

(* One more node at the end of a list.                                      *)
LEMMA InMore ==
    ASSUME NEW nd \in [Nodes -> NodeT], NEW md \in [Nodes -> NodeT], NEW L \in ListT,
           Whole(nd, L), L.nnodes > 0, NEW n \in Nodes, n \notin In(nd, L),
           md[n].next = Nil, md[L.last].next = n,
           \A m \in Nodes : m # n /\ m # L.last => md[m].next = nd[m].next,
           NEW M \in ListT, M.nodes = L.nodes, M.last = n, M.nnodes = L.nnodes + 1
    PROVE  In(md, M) = In(nd, L) \cup {n} /\ Whole(md, M)
<1> DEFINE k == L.nnodes
<1>1. k \in Nat /\ k > 0 /\ k - 1 \in Nat /\ k + 1 \in Nat /\ L.nodes \in Address
  BY DEF ListT
<1>2. M \in ListT /\ M.nodes = L.nodes /\ M.last = n /\ M.nnodes = k + 1
  BY <1>1
<1>3. /\ \A i \in 0 .. k - 1 : Nth(nd, L, i) \in Nodes
      /\ L.last = Nth(nd, L, k - 1) /\ nd[L.last].next = Nil
  BY <1>1 DEF Whole
<1>4. ASSUME NEW i \in 0 .. k - 2  PROVE md[Nth(nd, L, i)].next = nd[Nth(nd, L, i)].next
  <2>1. i \in 0 .. k - 1 /\ i + 1 \in 1 .. k /\ i + 1 \in 0 .. k - 1 /\ (i + 1) - 1 = i
    BY <1>1
  <2>2. Nth(nd, L, i) \in Nodes /\ Nth(nd, L, i + 1) \in Nodes
    BY <1>3, <2>1
  <2>3. Nth(nd, L, i + 1) = nd[Nth(nd, L, i)].next
    <3>1. \A j \in 1 .. k : Nth(nd, L, j) = IF Nth(nd, L, j - 1) = Nil THEN Nil
                                           ELSE nd[Nth(nd, L, j - 1)].next
      BY <1>1, LinksAre DEF Nth
    <3>2. Nth(nd, L, i + 1) = IF Nth(nd, L, (i + 1) - 1) = Nil THEN Nil
                              ELSE nd[Nth(nd, L, (i + 1) - 1)].next
      BY <2>1, <3>1
    <3> QED
      BY <2>1, <2>2, <3>2, NodesAssumption
  <2>4. Nth(nd, L, i) # L.last
    BY <1>3, <2>2, <2>3, NodesAssumption
  <2>5. Nth(nd, L, i) # n
    BY <2>1 DEF In
  <2> QED
    BY <2>2, <2>4, <2>5
<1>5. \A i \in 0 .. k - 1 : Nth(md, M, i) = Nth(nd, L, i)
  <2> DEFINE h == L.nodes
  <2>1. \A i \in 0 .. k - 2 :
           Links(nd, h, k)[i] # Nil =>
               md[Links(nd, h, k)[i]].next = nd[Links(nd, h, k)[i]].next
    BY <1>4 DEF Nth
  <2>2. k \in Nat /\ k > 0 /\ h \in Address
    BY <1>1
  <2> HIDE DEF h, k
  <2>3. \A i \in 0 .. k - 1 : Links(md, h, k + 1)[i] = Links(nd, h, k)[i]
    BY <2>1, <2>2, LinksLonger
  <2> QED
    BY <1>2, <2>3 DEF Nth, h, k
<1>6. Nth(md, M, k) = n
  <2>1. k \in 1 .. k + 1 /\ k - 1 \in 0 .. k - 1
    BY <1>1
  <2>2. Nth(md, M, k) = IF Nth(md, M, k - 1) = Nil THEN Nil ELSE md[Nth(md, M, k - 1)].next
    BY <1>1, <1>2, <2>1, LinksAre DEF Nth
  <2>3. Nth(md, M, k - 1) = L.last /\ L.last \in Nodes
    BY <1>3, <1>5, <2>1
  <2> QED
    BY <2>2, <2>3, NodesAssumption
<1>7. 0 .. M.nnodes - 1 = (0 .. k - 1) \cup {k} /\ M.nnodes - 1 = k
  BY <1>1, <1>2
<1>8. In(md, M) = In(nd, L) \cup {n}
  <2>1. In(md, M) = {Nth(md, M, i) : i \in (0 .. k - 1) \cup {k}}
    BY <1>7 DEF In
  <2>2. In(nd, L) = {Nth(nd, L, i) : i \in 0 .. k - 1}
    BY DEF In
  <2> QED
    BY <1>5, <1>6, <2>1, <2>2
<1>9. Whole(md, M)
  <2>1. \A i \in 0 .. M.nnodes - 1 : Nth(md, M, i) \in Nodes
    BY <1>3, <1>5, <1>6, <1>7
  <2>2. M.last = Nth(md, M, M.nnodes - 1) /\ md[M.last].next = Nil
    BY <1>2, <1>6, <1>7
  <2> QED
    BY <2>1, <2>2 DEF Whole
<1> QED
  BY <1>2, <1>8, <1>9

(* The walk of the code.                                                    *)
LEMMA WalkIs == \A l \in Lists : Walk(l) = In(node, list[l])
  BY DEF Walk, At, In, Nth, Links

------------------------------------------------------------------------------
(* The inductive invariant.                                                 *)

Cables == {"cab0", "cab1"}
Held == {"s", "cab0", "cab1"}
Copies == {<<"patch", "s">>, <<"s", "patch">>, <<"patch", "top">>, <<"top", "patch">>}
Of(l) == In(node, list[l])
Apart(l, m) == Of(l) \cap Of(m) = {}

Typed ==
    /\ node \in [Nodes -> NodeT] /\ list \in [Lists -> ListT]
    /\ hs \in [read : Cables, write : Cables, please_swap : BOOLEAN,
               cfstate : {"none", "standby", "compute", "done"}]
    /\ hs.read # hs.write
    /\ objs \subseteq Objects /\ core \in {"run", "destroyed", "clean"}

\* An object that is not there has no nodes.
Given ==
    /\ "s" \notin objs => list["s"].nnodes = 0
    /\ "hs" \notin objs => \A c \in Cables : list[c].nnodes = 0

\* Two lists have no node in common, or one is a copy of the other.
Distinct ==
    \A l, m \in Lists : l # m => \/ Apart(l, m)
                                 \/ <<l, m>> \in Copies /\ list[l] = list[m]

\* What a list has is allocated, and what is allocated is in some list.
Alive ==
    /\ \A l \in Lists : Whole(node, list[l]) /\ \A n \in Of(l) : node[n].st = "live"
    /\ \A n \in Nodes : node[n].st # "free" =>
          node[n].st = "live" /\ \E l \in Lists : n \in Of(l)

\* The node of a subpatcher is top's, and the patch's while it is top's.
Subs ==
    /\ \A l \in Held : \A n \in Of(l) : node[n].does # "sub"
    /\ Apart("patch", "top") => \A n \in Of("patch") : node[n].does # "sub"

\* The cable that the next swap writes is empty.
Ready ==
    /\ hs.please_swap => hs.cfstate \in {"none", "standby"}
    /\ ~hs.please_swap /\ hs.cfstate \in {"none", "standby"} => list[hs.write].nnodes = 0

\* While a session runs.
Session ==
    /\ Distinct /\ Alive /\ Subs /\ Ready
    /\ "top" \notin objs => list["top"].nnodes = 0
    /\ "rt" \in objs => "hs" \in objs

\* While it ends: the patch first, then what the objects hold.
Ending ==
    /\ "rt" \notin objs
    /\ \A l, m \in Held : l # m => Apart(l, m)
    /\ \A l \in Held : \A n \in Of(l) : n \in Nodes /\ node[n].st = "live"
    /\ core = "destroyed" => \A l \in Held : Apart("patch", l)
    /\ \A n \in Nodes : node[n].st # "free" =>
          \/ core = "destroyed" /\ n \in Of("patch")
          \/ \E l \in Held : n \in Of(l)

Inv == Typed /\ Given /\ (Running => Session) /\ (~Running => Ending)

------------------------------------------------------------------------------
(* What the invariant says of the guards.                                   *)

(* The types of a list and of its nodes.                                    *)
LEMMA ListIs ==
    ASSUME Typed, NEW l \in Lists
    PROVE  /\ list[l] \in ListT /\ list[l].nnodes \in Nat /\ Of(l) \subseteq Address
           /\ list[l].nnodes = 0 => Of(l) = {} /\ Whole(node, list[l])
           /\ list[l].nnodes > 0 => list[l].nodes \in Of(l)
           /\ Whole(node, list[l]) => Of(l) \subseteq Nodes
<1>1. list[l] \in ListT /\ node \in [Nodes -> NodeT]
  BY DEF Typed
<1>2. list[l].nnodes \in Nat
  BY <1>1 DEF ListT
<1> QED
  BY <1>1, <1>2, InIs DEF Of

(* Lists that start with the same node are copies.                          *)
LEMMA SharedIs ==
    ASSUME Typed, Distinct, NEW l \in Lists, NEW m \in Lists, l # m
    PROVE  /\ Shared(l, m) => list[l] = list[m]
           /\ ~Shared(l, m) => Apart(l, m)
<1>1. ASSUME Shared(l, m)  PROVE list[l] = list[m]
  <2>1. list[l].nodes \in Of(l) /\ list[l].nodes \in Of(m)
    BY <1>1, ListIs DEF Shared
  <2>2. ~Apart(l, m)
    BY <2>1 DEF Apart
  <2> QED
    BY <2>2 DEF Distinct
<1>2. ASSUME ~Shared(l, m)  PROVE Apart(l, m)
  <2> SUFFICES ASSUME list[l] = list[m]  PROVE Apart(l, m)
    BY DEF Distinct
  <2>1. ~(list[l].nnodes > 0) /\ list[l].nnodes \in Nat
    BY <1>2, ListIs DEF Shared
  <2>2. Of(l) = {}
    BY <2>1, ListIs
  <2> QED
    BY <2>2 DEF Apart
<1> QED
  BY <1>1, <1>2

(* A patch that is being built is nobody else's.                            *)
LEMMA FreshIs ==
    ASSUME Typed, Distinct, Fresh
    PROVE  \A l \in Lists : l # "patch" => Apart("patch", l)
<1>1. Apart("patch", "s") /\ Apart("patch", "top")
  BY SharedIs DEF Fresh, Lists
<1>2. \A c \in Cables : Apart("patch", c)
  BY DEF Distinct, Lists, Cables, Copies
<1> QED
  BY <1>1, <1>2 DEF Lists, Cables

(* What is saved is in the stash or in top too.                             *)
LEMMA SavedIs ==
    ASSUME Typed, Distinct, Saved, NEW n \in Of("patch")
    PROVE  \/ n \in Of("s") /\ list["patch"] = list["s"]
           \/ n \in Of("top") /\ list["patch"] = list["top"] /\ list["top"].nnodes > 0
<1>1. list["patch"].nnodes # 0
  BY ListIs DEF Lists
<1>2. list["patch"] = list["s"] \/ (list["patch"] = list["top"] /\ list["top"].nnodes > 0)
  BY <1>1, SharedIs DEF Saved, Lists, Shared
<1> QED
  BY <1>2 DEF Of

(* No list has a node that is free.                                         *)
LEMMA FreeIs ==
    ASSUME Alive, NEW n \in Nodes, node[n].st = "free", NEW l \in Lists
    PROVE  n \notin Of(l)
  BY DEF Alive

------------------------------------------------------------------------------
(* Commands that copy lists and leave the nodes alone.                      *)

(* What a step that leaves the nodes alone makes of the lists.              *)
LEMMA Copied ==
    ASSUME Typed, node' = node, NEW l \in Lists, NEW m \in Lists
    PROVE  /\ list'[l] = list[m] =>
                 /\ Of(l)' = Of(m)
                 /\ Whole(node, list[m]) => Whole(node', list'[l])
           /\ list'[l].nnodes = 0 /\ list'[l] \in ListT =>
                 Of(l)' = {} /\ Whole(node', list'[l])
<1>1. list'[l] = list[m] =>
          Of(l)' = Of(m) /\ (Whole(node, list[m]) => Whole(node', list'[l]))
  BY DEF Of
<1>2. ASSUME list'[l].nnodes = 0, list'[l] \in ListT
      PROVE  Of(l)' = {} /\ Whole(node', list'[l])
  <2>1. node \in [Nodes -> NodeT]
    BY DEF Typed
  <2>2. In(node, list'[l]) = {} /\ Whole(node, list'[l])
    BY <1>2, <2>1, InIs
  <2> QED
    BY <2>2 DEF Of
<1> QED
  BY <1>1, <1>2

(* Objects come, and the client goes; a fade is switched on and off.        *)
LEMMA StepObjects ==
    ASSUME Inv, Running, Running', node' = node, list' = list,
           objs' \subseteq Objects, objs \ {"rt"} \subseteq objs',
           "rt" \in objs' => "hs" \in objs',
           \/ hs' = hs
           \/ /\ ~hs.please_swap /\ hs.cfstate \in {"none", "standby"}
              /\ \E c \in {"none", "standby"} : hs' = [hs EXCEPT !.cfstate = c]
    PROVE  Inv'
<1>1. Typed /\ Given /\ Session
  BY DEF Inv
<1>2. /\ Typed' /\ hs'.read = hs.read /\ hs'.write = hs.write
      /\ hs'.please_swap = hs.please_swap
      /\ hs'.cfstate = hs.cfstate
         \/ (~hs.please_swap /\ hs.cfstate \in {"none", "standby"}
                             /\ hs'.cfstate \in {"none", "standby"})
  BY <1>1 DEF Typed, Running
<1>3. /\ \A l \in Lists : Of(l)' = Of(l)
      /\ \A l, m \in Lists : Apart(l, m)' <=> Apart(l, m)
  BY DEF Of, Apart
<1>4. Distinct' /\ Alive'
  BY <1>1, <1>3 DEF Session, Distinct, Alive
<1>5. Subs'
  BY <1>1, <1>3 DEF Session, Subs, Lists, Held
<1>6. Ready'
  BY <1>1, <1>2 DEF Session, Ready
<1>7. Given' /\ ("top" \notin objs' => list'["top"].nnodes = 0)
  BY <1>1 DEF Given, Session
<1> QED
  BY <1>2, <1>4, <1>5, <1>6, <1>7 DEF Inv, Session

(* The patch is saved.                                                      *)
LEMMA StepPSave == Inv /\ PSave => Inv'
<1> SUFFICES ASSUME Inv, PSave  PROVE Inv'
  OBVIOUS
<1>1. /\ Typed /\ Given /\ Session /\ Distinct /\ Alive /\ Subs /\ Ready
      /\ Running /\ Running' /\ "s" \in objs /\ list["s"].nnodes = 0 /\ Fresh
      /\ list' = [list EXCEPT !["s"] = list["patch"]]
      /\ node' = node /\ hs' = hs /\ objs' = objs /\ core' = core
  BY DEF PSave, Inv, Session, Running
<1>2. /\ list' \in [Lists -> ListT] /\ list'["s"] = list["patch"]
      /\ \A l \in Lists : l # "s" => list'[l] = list[l]
      /\ "s" \in Lists /\ "patch" \in Lists /\ "top" \in Lists /\ Cables \subseteq Lists
  BY <1>1 DEF Typed, Lists, Cables
<1>3. /\ Of("s") = {} /\ Of("s")' = Of("patch")
      /\ \A l \in Lists : l # "s" => Of(l)' = Of(l)
      /\ \A l \in Lists : Whole(node', list'[l])
  BY <1>1, <1>2, Copied, ListIs DEF Alive
<1>4. \A l \in Lists : l # "patch" => Apart("patch", l)
  BY <1>1, FreshIs
<1>5. Distinct'
  <2> SUFFICES ASSUME NEW l \in Lists, NEW m \in Lists, l # m
               PROVE  \/ Of(l)' \cap Of(m)' = {}
                      \/ <<l, m>> \in Copies /\ list'[l] = list'[m]
    BY DEF Distinct, Apart
  <2>1. CASE l = "s"
    <3>1. CASE m = "patch"
      BY <1>2, <2>1, <3>1 DEF Copies
    <3>2. CASE m # "patch"
      BY <1>3, <1>4, <2>1, <3>2 DEF Apart
    <3> QED
      BY <3>1, <3>2
  <2>2. CASE m = "s"
    <3>1. CASE l = "patch"
      BY <1>2, <2>2, <3>1 DEF Copies
    <3>2. CASE l # "patch"
      BY <1>3, <1>4, <2>2, <3>2 DEF Apart
    <3> QED
      BY <3>1, <3>2
  <2>3. CASE l # "s" /\ m # "s"
    BY <1>1, <1>2, <1>3, <2>3 DEF Distinct, Apart
  <2> QED
    BY <2>1, <2>2, <2>3
<1>6. Alive'
  <2>1. \A l \in Lists : \A n \in Of(l)' : node'[n].st = "live"
    BY <1>1, <1>2, <1>3 DEF Alive
  <2>2. ASSUME NEW n \in Nodes, node'[n].st # "free"
        PROVE  node'[n].st = "live" /\ \E l \in Lists : n \in Of(l)'
    BY <1>1, <1>3, <2>2 DEF Alive
  <2> QED
    BY <1>3, <2>1, <2>2 DEF Alive
<1>7. Subs'
  <2>1. \A n \in Of("patch") : node[n].does # "sub"
    BY <1>1, <1>2, <1>4 DEF Subs
  <2> QED
    BY <1>1, <1>2, <1>3, <2>1 DEF Subs, Held, Lists
<1>8. Ready' /\ Given' /\ Typed'
  <2>1. hs.write \in Cables /\ hs.write # "s" /\ hs.write \in Lists
    BY <1>1 DEF Typed, Cables, Lists
  <2> QED
    BY <1>1, <1>2, <2>1 DEF Ready, Given, Typed, Cables, Lists
<1> QED
  BY <1>1, <1>2, <1>5, <1>6, <1>7, <1>8 DEF Inv, Session

(* The patch is let go, or a saved one loaded.                              *)
LEMMA StepLoad ==
    ASSUME Inv, Running, Running', Saved, node' = node, hs' = hs, objs' = objs,
           core' = core,
           NEW L, list' = [list EXCEPT !["patch"] = L],
           L = Empty \/ \E o \in {"s", "top"} : L = list[o]
    PROVE  Inv'
<1>1. Typed /\ Given /\ Session /\ Distinct /\ Alive /\ Subs /\ Ready
  BY DEF Inv, Session
<1>2. /\ "s" \in Lists /\ "patch" \in Lists /\ "top" \in Lists /\ Cables \subseteq Lists
      /\ L \in ListT
      /\ list' \in [Lists -> ListT] /\ list'["patch"] = L
      /\ \A l \in Lists : l # "patch" => list'[l] = list[l]
  <2>1. Empty \in ListT
    BY DEF Empty, ListT, Address
  <2> QED
    BY <1>1, <2>1 DEF Typed, Lists, Cables
<1>3. /\ \A l \in Lists : l # "patch" => Of(l)' = Of(l) /\ Whole(node', list'[l])
      /\ Whole(node', list'["patch"])
      /\ L = Empty => Of("patch")' = {}
      /\ \A o \in {"s", "top"} : L = list[o] => Of("patch")' = Of(o)
  <2>1. Empty.nnodes = 0
    BY DEF Empty
  <2> QED
    BY <1>1, <1>2, <2>1, Copied DEF Alive
<1>4. /\ Apart("s", "top") /\ Apart("top", "s")
      /\ \A l \in {"s", "top"}, c \in Cables : Apart(l, c) /\ Apart(c, l)
  BY <1>1 DEF Distinct, Lists, Cables, Copies
<1>5. \A m \in Lists : m # "patch" =>
          \/ Of("patch")' \cap Of(m)' = {}
          \/ list'["patch"] = list'[m] /\ <<"patch", m>> \in Copies
                                       /\ <<m, "patch">> \in Copies
  <2> SUFFICES ASSUME NEW m \in Lists, m # "patch"
               PROVE  \/ Of("patch")' \cap Of(m)' = {}
                      \/ list'["patch"] = list'[m] /\ <<"patch", m>> \in Copies
                                                   /\ <<m, "patch">> \in Copies
    OBVIOUS
  <2>1. CASE L = Empty
    BY <1>3, <2>1
  <2>2. ASSUME NEW o \in {"s", "top"}, L = list[o]
        PROVE  \/ Of("patch")' \cap Of(m)' = {}
               \/ list'["patch"] = list'[m] /\ <<"patch", m>> \in Copies
                                            /\ <<m, "patch">> \in Copies
    <3>1. Of("patch")' = Of(o) /\ Of(m)' = Of(m)
      BY <1>3, <2>2
    <3>2. CASE m = o
      BY <1>2, <2>2, <3>2 DEF Copies
    <3>3. CASE m # o
      BY <1>4, <3>1, <3>3 DEF Apart, Lists, Cables
    <3> QED
      BY <3>2, <3>3
  <2> QED
    BY <2>1, <2>2
<1>6. Distinct'
  <2> SUFFICES ASSUME NEW l \in Lists, NEW m \in Lists, l # m
               PROVE  \/ Of(l)' \cap Of(m)' = {}
                      \/ <<l, m>> \in Copies /\ list'[l] = list'[m]
    BY DEF Distinct, Apart
  <2>1. CASE l = "patch"
    BY <1>5, <2>1
  <2>3. CASE m = "patch"
    <3>1. \/ Of("patch")' \cap Of(l)' = {}
          \/ list'["patch"] = list'[l] /\ <<l, "patch">> \in Copies
      BY <1>5, <2>3
    <3> QED
      BY <2>3, <3>1
  <2>2. CASE l # "patch" /\ m # "patch"
    BY <1>1, <1>2, <1>3, <2>2 DEF Distinct, Apart
  <2> QED
    BY <2>1, <2>2, <2>3
<1>7. Alive'
  <2>1. \A l \in Lists : \A n \in Of(l)' : node'[n].st = "live"
    BY <1>1, <1>2, <1>3 DEF Alive
  <2>2. ASSUME NEW n \in Nodes, node'[n].st # "free"
        PROVE  node'[n].st = "live" /\ \E l \in Lists : n \in Of(l)'
    <3>1. node[n].st = "live" /\ \E l \in Lists : n \in Of(l)
      BY <1>1, <2>2 DEF Alive
    <3>2. \E l \in Lists : l # "patch" /\ n \in Of(l)
      BY <1>1, <1>2, <3>1, SavedIs
    <3> QED
      BY <1>3, <3>1, <3>2
  <2> QED
    BY <1>3, <2>1, <2>2 DEF Alive
<1>8. Subs'
  <2>1. \A l \in Held : \A n \in Of(l)' : node'[n].does # "sub"
    BY <1>1, <1>3 DEF Subs, Held, Lists
  <2>2. ASSUME Apart("patch", "top")', NEW n \in Of("patch")'
        PROVE  node'[n].does # "sub"
    <3>1. L # Empty
      BY <1>3, <2>2
    <3>2. Of("patch")' # Of("top")
      BY <1>2, <1>3, <2>2 DEF Apart
    <3>3. Of("patch")' = Of("s")
      BY <1>3, <3>1, <3>2
    <3> QED
      BY <1>1, <2>2, <3>3 DEF Subs, Held
  <2> QED
    BY <2>1, <2>2 DEF Subs
<1>9. Ready' /\ Given' /\ Typed'
  <2>1. hs.write \in Cables /\ hs.write # "patch" /\ hs.write \in Lists
    BY <1>1 DEF Typed, Cables, Lists
  <2> QED
    BY <1>1, <1>2, <2>1 DEF Ready, Given, Typed, Cables, Lists
<1>10. "top" \notin objs' => list'["top"].nnodes = 0
  BY <1>1, <1>2 DEF Session
<1> QED
  BY <1>1, <1>6, <1>7, <1>8, <1>9, <1>10 DEF Inv, Session

(* The patch goes to the hotswapper.                                        *)
LEMMA StepPleaseSwap == Inv /\ PleaseSwap => Inv'
<1> SUFFICES ASSUME Inv, PleaseSwap  PROVE Inv'
  OBVIOUS
<1>0. PICK w : w = hs.write
  OBVIOUS
<1>1. /\ Typed /\ Given /\ Session /\ Distinct /\ Alive /\ Subs /\ Ready
      /\ Running /\ Running' /\ "hs" \in objs /\ Fresh
      /\ ~hs.please_swap /\ hs.cfstate \in {"none", "standby"}
      /\ list' = [list EXCEPT ![w] = list["patch"], !["patch"] = Empty]
      /\ hs' = [hs EXCEPT !.please_swap = TRUE]
      /\ node' = node /\ objs' = objs /\ core' = core
  BY <1>0 DEF PleaseSwap, Inv, Session, Running
<1>2. /\ w \in Cables /\ list[w].nnodes = 0 /\ Empty \in ListT /\ Empty.nnodes = 0
      /\ hs'.write = w /\ hs'.please_swap /\ hs'.cfstate = hs.cfstate /\ Typed'
  BY <1>0, <1>1 DEF Typed, Ready, Empty, ListT, Address, Lists, Cables
<1>3. /\ "s" \in Lists /\ "patch" \in Lists /\ "top" \in Lists /\ Cables \subseteq Lists
      /\ w \in Lists /\ w \notin {"s", "top", "patch"}
      /\ list'[w] = list["patch"] /\ list'["patch"] = Empty
      /\ \A l \in Lists : l # "patch" /\ l # w => list'[l] = list[l]
  BY <1>1, <1>2 DEF Typed, Lists, Cables
<1>4. /\ Of(w) = {} /\ Of(w)' = Of("patch") /\ Of("patch")' = {}
      /\ \A l \in Lists : l # "patch" /\ l # w => Of(l)' = Of(l)
      /\ \A l \in Lists : Whole(node', list'[l])
  <2>1. \A l \in Lists : Whole(node, list[l])
    BY <1>1 DEF Alive
  <2>2. Of(w) = {} /\ Of(w)' = Of("patch") /\ Whole(node', list'[w])
    BY <1>1, <1>2, <1>3, <2>1, Copied, ListIs
  <2>3. Of("patch")' = {} /\ Whole(node', list'["patch"])
    BY <1>1, <1>2, <1>3, Copied DEF Lists
  <2>4. \A l \in Lists : l # "patch" /\ l # w => Of(l)' = Of(l) /\ Whole(node', list'[l])
    BY <1>1, <1>3, <2>1, Copied
  <2> QED
    BY <2>2, <2>3, <2>4
<1>5. \A l \in Lists : l # "patch" => Apart("patch", l)
  BY <1>1, FreshIs
<1>6. Distinct'
  <2> SUFFICES ASSUME NEW l \in Lists, NEW m \in Lists, l # m
               PROVE  \/ Of(l)' \cap Of(m)' = {}
                      \/ <<l, m>> \in Copies /\ list'[l] = list'[m]
    BY DEF Distinct, Apart
  <2>1. CASE l = "patch" \/ m = "patch"
    BY <1>4, <2>1
  <2>2. CASE l # "patch" /\ m # "patch" /\ l # w /\ m # w
    <3>1. Of(l)' = Of(l) /\ Of(m)' = Of(m) /\ list'[l] = list[l] /\ list'[m] = list[m]
      BY <1>3, <1>4, <2>2
    <3>2. Apart(l, m) \/ (<<l, m>> \in Copies /\ list[l] = list[m])
      BY <1>1 DEF Distinct
    <3> QED
      BY <3>1, <3>2 DEF Apart
  <2>3. CASE l = w /\ m # "patch"
    BY <1>4, <1>5, <2>3 DEF Apart
  <2>4. CASE m = w /\ l # "patch"
    BY <1>4, <1>5, <2>4 DEF Apart
  <2> QED
    BY <2>1, <2>2, <2>3, <2>4
<1>7. Alive'
  <2>1. \A l \in Lists : \A n \in Of(l)' : node'[n].st = "live"
    BY <1>1, <1>3, <1>4 DEF Alive
  <2>2. ASSUME NEW n \in Nodes, node'[n].st # "free"
        PROVE  node'[n].st = "live" /\ \E l \in Lists : n \in Of(l)'
    BY <1>1, <1>3, <1>4, <2>2 DEF Alive
  <2> QED
    BY <1>4, <2>1, <2>2 DEF Alive
<1>8. Subs'
  <2>1. \A n \in Of("patch") : node[n].does # "sub"
    BY <1>1, <1>3, <1>5 DEF Subs
  <2> QED
    BY <1>1, <1>3, <1>4, <2>1 DEF Subs, Held, Lists
<1>9. Ready' /\ Given'
  BY <1>0, <1>1, <1>2, <1>3 DEF Ready, Given, Cables, Lists
<1>10. "top" \notin objs' => list'["top"].nnodes = 0
  BY <1>1, <1>3 DEF Session
<1> QED
  BY <1>1, <1>2, <1>6, <1>7, <1>8, <1>9, <1>10 DEF Inv, Session

------------------------------------------------------------------------------
(* Commands that make a node.                                               *)

(* What is at each address when a node is linked to the end of a list.      *)
LEMMA LinkedIs ==
    ASSUME node \in [Nodes -> NodeT], NEW L \in ListT, NEW n \in Nodes,
           NEW what \in {"sound", "sub", "hs"},
           L.nnodes > 0 => L.last \in Nodes /\ L.last # n,
           NEW nd, nd = Linked(L, n, what)
    PROVE  /\ nd \in [Nodes -> NodeT]
           /\ nd[n].st = "live" /\ nd[n].next = Nil /\ nd[n].does = what
           /\ \A m \in Nodes : m # n => nd[m].st = node[m].st /\ nd[m].does = node[m].does
           /\ \A m \in Nodes : m # n /\ ~(L.nnodes > 0 /\ m = L.last) =>
                 nd[m].next = node[m].next
           /\ L.nnodes > 0 => nd[L.last].next = n
<1>1. /\ nd = [m \in Nodes |-> nd[m]]
      /\ nd[n] = [st |-> "live", next |-> Nil, does |-> what]
      /\ \A m \in Nodes : m # n /\ ~(L.nnodes > 0 /\ m = L.last) => nd[m] = node[m]
      /\ L.nnodes > 0 => nd[L.last] = [node[L.last] EXCEPT !.next = n]
  BY DEF Linked
<1>2. nd[n] \in NodeT
  BY <1>1 DEF NodeT, Address
<1>3. L.nnodes > 0 => /\ nd[L.last] \in NodeT /\ nd[L.last].next = n
                      /\ nd[L.last].st = node[L.last].st
                      /\ nd[L.last].does = node[L.last].does
  BY <1>1 DEF NodeT, Address
<1>4. \A m \in Nodes : nd[m] \in NodeT
  BY <1>1, <1>2, <1>3
<1> QED
  BY <1>1, <1>3, <1>4

(* The list then has one node more.                                         *)
LEMMA AppendedIs ==
    ASSUME node \in [Nodes -> NodeT], NEW L \in ListT, NEW n \in Nodes,
           NEW what \in {"sound", "sub", "hs"}, Whole(node, L), n \notin In(node, L),
           NEW nd, nd = Linked(L, n, what), NEW M, M = Appended(L, n)
    PROVE  /\ L.nnodes > 0 => L.last \in In(node, L) /\ L.last \in Nodes /\ L.last # n
           /\ M \in ListT /\ In(nd, M) = In(node, L) \cup {n} /\ Whole(nd, M)
<1>1. L.nnodes \in Nat /\ In(node, L) \subseteq Nodes
  BY InIs DEF ListT
<1>2. ASSUME L.nnodes > 0
      PROVE  L.last \in In(node, L) /\ L.last \in Nodes /\ L.last # n
  <2>1. L.nnodes - 1 \in 0 .. L.nnodes - 1 /\ L.last = Nth(node, L, L.nnodes - 1)
    BY <1>1, <1>2 DEF Whole
  <2>2. L.last \in In(node, L)
    BY <2>1 DEF In
  <2> QED
    BY <1>1, <2>2
<1>3. /\ nd \in [Nodes -> NodeT] /\ nd[n].next = Nil
      /\ \A m \in Nodes : m # n /\ ~(L.nnodes > 0 /\ m = L.last) => nd[m].next = node[m].next
      /\ L.nnodes > 0 => nd[L.last].next = n
  BY <1>2, LinkedIs
<1>4. CASE L.nnodes = 0
  <2>1. M = [nodes |-> n, last |-> n, nnodes |-> 1] /\ In(node, L) = {}
    BY <1>4, InIs DEF Appended
  <2>2. M \in ListT /\ In(nd, M) = {n} /\ Whole(nd, M)
    BY <1>3, <2>1, InOne
  <2> QED
    BY <1>2, <2>1, <2>2
<1>5. CASE L.nnodes > 0
  <2>1. M \in ListT /\ M.nodes = L.nodes /\ M.last = n /\ M.nnodes = L.nnodes + 1
    <3>1. M = [L EXCEPT !.last = n, !.nnodes = L.nnodes + 1]
      BY <1>5 DEF Appended
    <3>2. n \in Address /\ L.nnodes + 1 \in Nat
      BY <1>1 DEF Address
    <3> QED
      BY <3>1, <3>2 DEF ListT
  <2>2. nd[L.last].next = n
    BY <1>3, <1>5
  <2>3. \A m \in Nodes : m # n /\ m # L.last => nd[m].next = node[m].next
    BY <1>3
  <2>4. nd \in [Nodes -> NodeT] /\ nd[n].next = Nil
    BY <1>3
  <2>5. In(nd, M) = In(node, L) \cup {n} /\ Whole(nd, M)
    BY <1>5, <2>1, <2>2, <2>3, <2>4, InMore
  <2> QED
    BY <1>2, <2>1, <2>5
<1> QED
  BY <1>1, <1>4, <1>5

(* A node is appended to the patch.                                         *)
LEMMA StepNewNode ==
    ASSUME Inv, NEW n \in Nodes, NEW what \in {"sound", "hs"}, NewNode(n, what)
    PROVE  Inv'
<1>1. /\ Typed /\ Given /\ Session /\ Distinct /\ Alive /\ Subs /\ Ready
      /\ Running /\ Running' /\ Fresh /\ node[n].st = "free"
      /\ node' = Linked(list["patch"], n, what)
      /\ list' = [list EXCEPT !["patch"] = Appended(list["patch"], n)]
      /\ hs' = hs /\ objs' = objs /\ core' = core
  BY DEF NewNode, Inv, Session, Running
<1>2. PICK p \in ListT : p = list["patch"]
  BY <1>1 DEF Typed, Lists
<1>3. /\ node \in [Nodes -> NodeT] /\ what \in {"sound", "sub", "hs"}
      /\ Whole(node, p) /\ In(node, p) = Of("patch") /\ n \notin Of("patch")
      /\ \A l \in Lists : list[l] \in ListT
      /\ \A l \in Lists : n \notin Of(l)
  BY <1>1, <1>2, FreeIs DEF Typed, Alive, Lists, Of
<1>4. /\ Appended(p, n) \in ListT /\ Whole(node', Appended(p, n))
      /\ In(node', Appended(p, n)) = Of("patch") \cup {n}
      /\ p.nnodes > 0 => p.last \in Of("patch") /\ p.last \in Nodes /\ p.last # n
  BY <1>1, <1>2, <1>3, AppendedIs
<1>5. /\ node' \in [Nodes -> NodeT] /\ node'[n].st = "live" /\ node'[n].does = what
      /\ \A m \in Nodes : m # n =>
            node'[m].st = node[m].st /\ node'[m].does = node[m].does
      /\ \A m \in Nodes : m # n /\ ~(p.nnodes > 0 /\ m = p.last) =>
            node'[m].next = node[m].next
  BY <1>1, <1>2, <1>3, <1>4, LinkedIs
<1>6. /\ list' \in [Lists -> ListT] /\ list'["patch"] = Appended(p, n)
      /\ \A l \in Lists : l # "patch" => list'[l] = list[l]
      /\ "patch" \in Lists
  BY <1>1, <1>2, <1>4 DEF Typed, Lists
<1>7. Of("patch")' = Of("patch") \cup {n} /\ Whole(node', list'["patch"])
  BY <1>4, <1>6 DEF Of
<1>8. \A l \in Lists : l # "patch" => Apart("patch", l)
  BY <1>1, FreshIs
<1>9. ASSUME NEW l \in Lists, l # "patch"
      PROVE  Of(l)' = Of(l) /\ Whole(node', list'[l])
  <2>1. \A m \in In(node, list[l]) : m # Nil => node'[m].next = node[m].next
    <3>1. \A m \in Of(l) : m \in Nodes /\ m # n /\ m \notin Of("patch")
      <4>1. Of(l) \subseteq Nodes
        BY <1>1, ListIs DEF Alive
      <4> QED
        BY <1>3, <1>8, <1>9, <4>1 DEF Apart
    <3> QED
      BY <1>4, <1>5, <3>1 DEF Of
  <2>2. In(node', list[l]) = In(node, list[l]) /\ Whole(node', list[l])
    BY <1>1, <1>3, <1>5, <2>1, InKept DEF Alive
  <2> QED
    BY <1>6, <1>9, <2>2 DEF Of
<1>10. Distinct'
  <2> SUFFICES ASSUME NEW l \in Lists, NEW m \in Lists, l # m
               PROVE  \/ Of(l)' \cap Of(m)' = {}
                      \/ <<l, m>> \in Copies /\ list'[l] = list'[m]
    BY DEF Distinct, Apart
  <2>1. CASE l = "patch"
    BY <1>3, <1>7, <1>8, <1>9, <2>1 DEF Apart
  <2>2. CASE m = "patch"
    BY <1>3, <1>7, <1>8, <1>9, <2>2 DEF Apart
  <2>3. CASE l # "patch" /\ m # "patch"
    <3>1. Of(l)' = Of(l) /\ Of(m)' = Of(m) /\ list'[l] = list[l] /\ list'[m] = list[m]
      BY <1>6, <1>9, <2>3
    <3>2. Apart(l, m) \/ (<<l, m>> \in Copies /\ list[l] = list[m])
      BY <1>1 DEF Distinct
    <3> QED
      BY <3>1, <3>2 DEF Apart
  <2> QED
    BY <2>1, <2>2, <2>3
<1>11. Alive'
  <2>1. ASSUME NEW l \in Lists, NEW m \in Of(l)'  PROVE node'[m].st = "live"
    <3>1. CASE m = n
      BY <1>5, <3>1
    <3>2. CASE m # n
      <4>1. m \in Of(l)
        BY <1>7, <1>9, <3>2
      <4>2. m \in Nodes /\ node[m].st = "live"
        BY <1>1, <4>1, ListIs DEF Alive
      <4> QED
        BY <1>5, <3>2, <4>2
    <3> QED
      BY <3>1, <3>2
  <2>2. ASSUME NEW m \in Nodes, node'[m].st # "free"
        PROVE  node'[m].st = "live" /\ \E l \in Lists : m \in Of(l)'
    <3>1. CASE m = n
      BY <1>5, <1>6, <1>7, <3>1
    <3>2. CASE m # n
      <4>1. node'[m].st = "live" /\ \E l \in Lists : m \in Of(l)
        BY <1>1, <1>5, <2>2, <3>2 DEF Alive
      <4> QED
        BY <1>7, <1>9, <4>1
    <3> QED
      BY <3>1, <3>2
  <2> QED
    BY <1>7, <1>9, <2>1, <2>2 DEF Alive
<1>12. Subs'
  <2>1. \A l \in Held : l \in Lists /\ l # "patch" /\ Of(l)' = Of(l)
    BY <1>9 DEF Held, Lists
  <2>2. ASSUME NEW l \in Held, NEW m \in Of(l)'  PROVE node'[m].does # "sub"
    <3>1. m \in Of(l) /\ m # n /\ node[m].does # "sub"
      BY <1>1, <1>3, <2>1 DEF Subs
    <3>2. m \in Nodes
      BY <1>1, <2>1, <3>1, ListIs DEF Alive
    <3> QED
      BY <1>5, <3>1, <3>2
  <2>3. ASSUME NEW m \in Of("patch")'  PROVE node'[m].does # "sub"
    <3>1. CASE m = n
      BY <1>5, <3>1
    <3>2. CASE m # n
      <4>1. m \in Of("patch") /\ m \in Nodes
        BY <1>1, <1>6, <1>7, <3>2, ListIs DEF Alive
      <4>2. node[m].does # "sub"
        BY <1>1, <1>8, <4>1 DEF Subs, Lists
      <4> QED
        BY <1>5, <3>2, <4>1, <4>2
    <3> QED
      BY <3>1, <3>2
  <2> QED
    BY <2>2, <2>3 DEF Subs
<1>13. Ready' /\ Given' /\ Typed'
  <2>1. hs.write \in Lists /\ hs.write # "patch"
    BY <1>1 DEF Typed, Cables, Lists
  <2> QED
    BY <1>1, <1>5, <1>6, <2>1 DEF Ready, Given, Typed, Cables, Lists
<1>14. "top" \notin objs' => list'["top"].nnodes = 0
  BY <1>1, <1>6 DEF Session, Lists
<1> QED
  BY <1>1, <1>10, <1>11, <1>12, <1>13, <1>14 DEF Inv, Session

(* The patch becomes one node that computes the stash.                      *)
LEMMA StepSubpatcher ==
    ASSUME Inv, NEW n \in Nodes, Subpatcher(n)
    PROVE  Inv'
<1>1. /\ Typed /\ Given /\ Session /\ Distinct /\ Alive /\ Subs /\ Ready
      /\ Running /\ Running' /\ Saved /\ node[n].st = "free" /\ "top" \notin objs
      /\ node' = Linked(Empty, n, "sub") /\ objs' = objs \cup {"top"}
      /\ list' = [list EXCEPT !["patch"] = Appended(Empty, n), !["top"] = Appended(Empty, n)]
      /\ hs' = hs /\ core' = core
  BY DEF Subpatcher, Inv, Session, Running
<1>2. /\ node \in [Nodes -> NodeT] /\ Empty \in ListT /\ Empty.nnodes = 0
      /\ "sub" \in {"sound", "sub", "hs"}
      /\ \A l \in Lists : list[l] \in ListT
      /\ \A l \in Lists : n \notin Of(l)
  BY <1>1, FreeIs DEF Typed, Empty, ListT, Address
<1>3. /\ In(node, Empty) = {} /\ Whole(node, Empty)
      /\ Of("top") = {}
  BY <1>1, <1>2, InIs, ListIs DEF Session, Lists
<1>4. PICK p \in ListT : /\ p = Appended(Empty, n)
                         /\ In(node', p) = {n} /\ Whole(node', p)
  BY <1>1, <1>2, <1>3, AppendedIs
<1>5. /\ node' \in [Nodes -> NodeT] /\ node'[n].st = "live"
      /\ \A m \in Nodes : m # n => /\ node'[m].st = node[m].st
                                   /\ node'[m].does = node[m].does
                                   /\ node'[m].next = node[m].next
  BY <1>1, <1>2, LinkedIs
<1>6. /\ list' \in [Lists -> ListT] /\ list'["patch"] = p /\ list'["top"] = p
      /\ \A l \in Lists : l # "patch" /\ l # "top" => list'[l] = list[l]
      /\ "patch" \in Lists /\ "top" \in Lists /\ "s" \in Lists
  BY <1>1, <1>4 DEF Typed, Lists
<1>7. /\ Of("patch")' = {n} /\ Whole(node', list'["patch"])
      /\ Of("top")' = {n} /\ Whole(node', list'["top"])
  BY <1>4, <1>6 DEF Of
<1>8. ASSUME NEW l \in Lists, l # "patch", l # "top"
      PROVE  Of(l)' = Of(l) /\ Whole(node', list'[l])
  <2>1. \A m \in In(node, list[l]) : m # Nil => node'[m].next = node[m].next
    <3>1. Of(l) \subseteq Nodes
      BY <1>1, ListIs DEF Alive
    <3> QED
      BY <1>2, <1>5, <3>1 DEF Of
  <2>2. In(node', list[l]) = In(node, list[l]) /\ Whole(node', list[l])
    BY <1>1, <1>2, <1>5, <2>1, InKept DEF Alive
  <2> QED
    BY <1>6, <1>8, <2>2 DEF Of
<1>9. Distinct'
  <2> SUFFICES ASSUME NEW l \in Lists, NEW m \in Lists, l # m
               PROVE  \/ Of(l)' \cap Of(m)' = {}
                      \/ <<l, m>> \in Copies /\ list'[l] = list'[m]
    BY DEF Distinct, Apart
  <2>1. CASE l \in {"patch", "top"} /\ m \in {"patch", "top"}
    BY <1>6, <2>1 DEF Copies
  <2>2. CASE l \in {"patch", "top"} /\ m \notin {"patch", "top"}
    BY <1>2, <1>7, <1>8, <2>2
  <2>3. CASE l \notin {"patch", "top"} /\ m \in {"patch", "top"}
    BY <1>2, <1>7, <1>8, <2>3
  <2>4. CASE l \notin {"patch", "top"} /\ m \notin {"patch", "top"}
    <3>1. Of(l)' = Of(l) /\ Of(m)' = Of(m) /\ list'[l] = list[l] /\ list'[m] = list[m]
      BY <1>6, <1>8, <2>4
    <3>2. Apart(l, m) \/ (<<l, m>> \in Copies /\ list[l] = list[m])
      BY <1>1 DEF Distinct
    <3> QED
      BY <3>1, <3>2 DEF Apart
  <2> QED
    BY <2>1, <2>2, <2>3, <2>4
<1>10. Alive'
  <2>1. ASSUME NEW l \in Lists, NEW m \in Of(l)'  PROVE node'[m].st = "live"
    <3>1. CASE m = n
      BY <1>5, <3>1
    <3>2. CASE m # n
      <4>1. m \in Of(l)
        BY <1>7, <1>8, <3>2
      <4>2. m \in Nodes /\ node[m].st = "live"
        BY <1>1, <4>1, ListIs DEF Alive
      <4> QED
        BY <1>5, <3>2, <4>2
    <3> QED
      BY <3>1, <3>2
  <2>2. ASSUME NEW m \in Nodes, node'[m].st # "free"
        PROVE  node'[m].st = "live" /\ \E l \in Lists : m \in Of(l)'
    <3>1. CASE m = n
      BY <1>5, <1>6, <1>7, <3>1
    <3>2. CASE m # n
      <4>1. node'[m].st = "live" /\ \E l \in Lists : m \in Of(l)
        BY <1>1, <1>5, <2>2, <3>2 DEF Alive
      <4>2. m \in Of("patch") => m \in Of("s")
        BY <1>1, <1>3, SavedIs
      <4>3. \E l \in Lists : l # "patch" /\ l # "top" /\ m \in Of(l)
        BY <1>3, <1>6, <4>1, <4>2
      <4> QED
        BY <1>8, <4>1, <4>3
    <3> QED
      BY <3>1, <3>2
  <2> QED
    BY <1>7, <1>8, <2>1, <2>2 DEF Alive
<1>11. Subs'
  <2>1. \A l \in Held : l \in Lists /\ l # "patch" /\ l # "top" /\ Of(l)' = Of(l)
    BY <1>8 DEF Held, Lists
  <2>2. ASSUME NEW l \in Held, NEW m \in Of(l)'  PROVE node'[m].does # "sub"
    <3>1. m \in Of(l) /\ m # n /\ node[m].does # "sub"
      BY <1>1, <1>2, <2>1 DEF Subs
    <3>2. m \in Nodes
      BY <1>1, <2>1, <3>1, ListIs DEF Alive
    <3> QED
      BY <1>5, <3>1, <3>2
  <2>3. ~ (Of("patch")' \cap Of("top")' = {})
    BY <1>7
  <2> QED
    BY <2>2, <2>3 DEF Subs, Apart
<1>12. Ready' /\ Given' /\ Typed'
  <2>1. hs.write \in Lists /\ hs.write # "patch" /\ hs.write # "top"
    BY <1>1 DEF Typed, Cables, Lists
  <2>2. objs' \subseteq Objects
    BY <1>1 DEF Typed, Objects
  <2> QED
    BY <1>1, <1>5, <1>6, <2>1, <2>2 DEF Ready, Given, Typed, Cables, Lists
<1>13. "top" \in objs' /\ ("rt" \in objs' => "hs" \in objs')
  BY <1>1 DEF Session
<1> QED
  BY <1>1, <1>9, <1>10, <1>11, <1>12, <1>13 DEF Inv, Session

------------------------------------------------------------------------------
(* Steps that free the nodes of lists.                                      *)

(* The nodes of the lists that are disposed of go, and nothing else does.   *)
LEMMA DisposedIs ==
    ASSUME Typed, NEW D \in SUBSET Lists, NEW E \in SUBSET Lists, D \subseteq E,
           node' = Disposed(D), list' = Emptied(E)
    PROVE  /\ node' \in [Nodes -> NodeT] /\ list' \in [Lists -> ListT]
           /\ \A n \in Nodes : (\E l \in D : n \in Of(l)) => node'[n].st = "free"
           /\ \A n \in Nodes : ~(\E l \in D : n \in Of(l)) => node'[n] = node[n]
           /\ \A l \in E : list'[l].nnodes = 0 /\ Of(l)' = {} /\ Whole(node', list'[l])
           /\ \A l \in Lists \ E :
                 /\ list'[l] = list[l]
                 /\ (\A d \in D : Apart(l, d)) =>
                       Of(l)' = Of(l) /\ (Whole(node, list[l]) => Whole(node', list'[l]))
<1>1. node \in [Nodes -> NodeT] /\ list \in [Lists -> ListT]
  BY DEF Typed
<1>2. \A n \in Nodes : n \in UNION {Walk(l) : l \in D} <=> \E l \in D : n \in Of(l)
  <2>1. \A l \in D : Walk(l) = Of(l)
    BY WalkIs DEF Of
  <2> QED
    BY <2>1
<1>3. Free \in NodeT /\ Free.st = "free"
  BY DEF Free, NodeT, Address
<1>4. /\ node' = [n \in Nodes |-> node'[n]]
      /\ \A n \in Nodes : (\E l \in D : n \in Of(l)) => node'[n] = Free
      /\ \A n \in Nodes : ~(\E l \in D : n \in Of(l)) => node'[n] = node[n]
  BY <1>2 DEF Disposed
<1>5. node' \in [Nodes -> NodeT]
  BY <1>1, <1>3, <1>4
<1>6. /\ list' = [l \in Lists |-> list'[l]]
      /\ \A l \in Lists \ E : list'[l] = list[l]
      /\ \A l \in E : list'[l] = [list[l] EXCEPT !.nnodes = 0]
  BY DEF Emptied
<1>7. \A l \in E : list'[l] \in ListT /\ list'[l].nnodes = 0
  <2> SUFFICES ASSUME NEW l \in E  PROVE list'[l] \in ListT /\ list'[l].nnodes = 0
    OBVIOUS
  <2>1. PICK L \in ListT : L = list[l]
    BY <1>1
  <2>2. list'[l] = [L EXCEPT !.nnodes = 0]
    BY <1>6, <2>1
  <2>3. [L EXCEPT !.nnodes = 0] \in ListT /\ [L EXCEPT !.nnodes = 0].nnodes = 0
    BY DEF ListT
  <2> QED
    BY <2>2, <2>3
<1>8. list' \in [Lists -> ListT]
  BY <1>1, <1>6, <1>7
<1>9. \A l \in E : Of(l)' = {} /\ Whole(node', list'[l])
  BY <1>5, <1>7, InIs DEF Of
<1>10. ASSUME NEW l \in Lists \ E, \A d \in D : Apart(l, d)
       PROVE  Of(l)' = Of(l) /\ (Whole(node, list[l]) => Whole(node', list'[l]))
  <2>1. \A n \in In(node, list[l]) : n # Nil => node'[n].next = node[n].next
    <3>1. Of(l) \subseteq Address
      BY ListIs
    <3>2. \A n \in Of(l) : ~(\E d \in D : n \in Of(d))
      BY <1>10 DEF Apart
    <3> QED
      BY <1>4, <3>1, <3>2 DEF Of, Address
  <2>2. list[l] \in ListT
    BY <1>1
  <2>3. In(node', list[l]) = In(node, list[l])
        /\ (Whole(node, list[l]) => Whole(node', list[l]))
    BY <1>1, <1>5, <2>1, <2>2, InKept
  <2> QED
    BY <1>6, <2>3 DEF Of
<1> QED
  BY <1>3, <1>4, <1>5, <1>6, <1>7, <1>8, <1>9, <1>10

(* What a block of the hotswapper does to it and to its cables.             *)
LEMMA BlockIs ==
    ASSUME Typed, Ready, HsBlock
    PROVE  /\ Reaps \cup Retires \in SUBSET Cables
           /\ hs' \in [read : Cables, write : Cables, please_swap : BOOLEAN,
                       cfstate : {"none", "standby", "compute", "done"}]
           /\ hs'.read # hs'.write /\ ~hs'.please_swap
           /\ hs'.cfstate \in {"none", "standby"} =>
                 hs'.write \in Reaps \cup Retires \/ list[hs'.write].nnodes = 0
<1>1. /\ hs \in [read : Cables, write : Cables, please_swap : BOOLEAN,
                 cfstate : {"none", "standby", "compute", "done"}]
      /\ hs.read # hs.write
      /\ hs.please_swap => hs.cfstate \in {"none", "standby"}
      /\ ~hs.please_swap /\ hs.cfstate \in {"none", "standby"} => list[hs.write].nnodes = 0
  BY DEF Typed, Ready
<1>2. hs' = Swapped \/ (Swapped.cfstate = "compute" /\ hs' = [Swapped EXCEPT !.cfstate = "done"])
  BY DEF HsBlock
<1>3. Reaps \cup Retires \in SUBSET Cables
  BY <1>1 DEF Reaps, Retires
<1>4. CASE hs.please_swap /\ hs.cfstate = "none"
  <2>1. /\ Retires = {hs.read} /\ Reaps = {}
        /\ Swapped = [read |-> hs.write, write |-> hs.read, please_swap |-> FALSE,
                      cfstate |-> "none"]
    BY <1>1, <1>4 DEF Reaps, Retires, Swapped
  <2>2. hs' = Swapped
    BY <1>2, <2>1
  <2> QED
    BY <1>1, <1>3, <2>1, <2>2
<1>5. CASE hs.please_swap /\ hs.cfstate = "standby"
  <2>1. Swapped = [read |-> hs.write, write |-> hs.read, please_swap |-> FALSE,
                   cfstate |-> "compute"]
    BY <1>1, <1>5 DEF Swapped
  <2>2. \/ hs' = [read |-> hs.write, write |-> hs.read, please_swap |-> FALSE,
                  cfstate |-> "compute"]
        \/ hs' = [read |-> hs.write, write |-> hs.read, please_swap |-> FALSE,
                  cfstate |-> "done"]
    BY <1>2, <2>1
  <2>3. /\ hs.write \in Cables /\ hs.read \in Cables /\ hs.write # hs.read
        /\ FALSE \in BOOLEAN
    BY <1>1
  <2>4. /\ hs'.read = hs.write /\ hs'.write = hs.read /\ hs'.please_swap = FALSE
        /\ hs'.cfstate \in {"compute", "done"}
    BY <2>2
  <2>5. \A c \in {"compute", "done"} :
           [read |-> hs.write, write |-> hs.read, please_swap |-> FALSE, cfstate |-> c]
              \in [read : Cables, write : Cables, please_swap : BOOLEAN,
                   cfstate : {"none", "standby", "compute", "done"}]
    BY <2>3
  <2>6. hs' \in [read : Cables, write : Cables, please_swap : BOOLEAN,
                cfstate : {"none", "standby", "compute", "done"}]
    BY <2>2, <2>5
  <2> QED
    BY <1>3, <2>3, <2>4, <2>6
<1>6. CASE ~hs.please_swap /\ hs.cfstate = "done"
  <2>1. Reaps = {hs.write} /\ Swapped = [hs EXCEPT !.cfstate = "standby"]
    BY <1>6 DEF Reaps, Swapped
  <2>2. hs' = Swapped
    BY <1>1, <1>2, <2>1
  <2> QED
    BY <1>1, <1>3, <1>6, <2>1, <2>2
<1>7. CASE ~hs.please_swap /\ hs.cfstate # "done"
  <2>1. Swapped = hs
    BY <1>7 DEF Swapped
  <2> QED
    BY <1>1, <1>2, <1>3, <1>7, <2>1
<1> QED
  BY <1>1, <1>4, <1>5, <1>6, <1>7

(* A block of the hotswapper.                                               *)
LEMMA StepBlock ==
    ASSUME Inv, Running, Running', HsBlock, objs' = objs, core' = core
    PROVE  Inv'
<1>1. Typed /\ Given /\ Session /\ Distinct /\ Alive /\ Subs /\ Ready
  BY DEF Inv, Session
<1>2. PICK D \in SUBSET Cables : D = Reaps \cup Retires
  BY <1>1, BlockIs
<1>3. /\ hs' \in [read : Cables, write : Cables, please_swap : BOOLEAN,
                  cfstate : {"none", "standby", "compute", "done"}]
      /\ hs'.read # hs'.write /\ ~hs'.please_swap
      /\ hs'.cfstate \in {"none", "standby"} =>
            hs'.write \in D \/ list[hs'.write].nnodes = 0
  BY <1>1, <1>2, BlockIs
<1>4. D \in SUBSET Lists /\ D \subseteq D /\ node' = Disposed(D) /\ list' = Emptied(D)
  BY <1>2 DEF HsBlock, Cables, Lists
<1>5. /\ node' \in [Nodes -> NodeT] /\ list' \in [Lists -> ListT]
      /\ \A n \in Nodes : (\E l \in D : n \in Of(l)) => node'[n].st = "free"
      /\ \A n \in Nodes : ~(\E l \in D : n \in Of(l)) => node'[n] = node[n]
      /\ \A l \in D : list'[l].nnodes = 0 /\ Of(l)' = {} /\ Whole(node', list'[l])
      /\ \A l \in Lists \ D :
            /\ list'[l] = list[l]
            /\ (\A d \in D : Apart(l, d)) =>
                  Of(l)' = Of(l) /\ (Whole(node, list[l]) => Whole(node', list'[l]))
  BY <1>1, <1>4, DisposedIs
<1>6. \A l \in Lists \ D : \A d \in D : Apart(l, d)
  BY <1>1 DEF Distinct, Copies, Cables, Lists
<1>7. \A l \in Lists \ D : /\ list'[l] = list[l] /\ Of(l)' = Of(l)
                           /\ Whole(node', list'[l])
  BY <1>1, <1>5, <1>6 DEF Alive
<1>8. \A l \in Lists \ D : \A n \in Of(l) : n \in Nodes /\ node'[n] = node[n]
  <2> SUFFICES ASSUME NEW l \in Lists \ D, NEW n \in Of(l)
               PROVE  n \in Nodes /\ node'[n] = node[n]
    OBVIOUS
  <2>1. n \in Nodes
    BY <1>1, ListIs DEF Alive
  <2>2. ~(\E d \in D : n \in Of(d))
    BY <1>6 DEF Apart
  <2> QED
    BY <1>5, <2>1, <2>2
<1>9. Distinct'
  <2> SUFFICES ASSUME NEW l \in Lists, NEW m \in Lists, l # m
               PROVE  \/ Of(l)' \cap Of(m)' = {}
                      \/ <<l, m>> \in Copies /\ list'[l] = list'[m]
    BY DEF Distinct, Apart
  <2>1. CASE l \in D \/ m \in D
    BY <1>5, <2>1
  <2>2. CASE l \notin D /\ m \notin D
    <3>1. Of(l)' = Of(l) /\ Of(m)' = Of(m) /\ list'[l] = list[l] /\ list'[m] = list[m]
      BY <1>7, <2>2
    <3>2. Apart(l, m) \/ (<<l, m>> \in Copies /\ list[l] = list[m])
      BY <1>1 DEF Distinct
    <3> QED
      BY <3>1, <3>2 DEF Apart
  <2> QED
    BY <2>1, <2>2
<1>10. Alive'
  <2>1. ASSUME NEW l \in Lists, NEW n \in Of(l)'
        PROVE  node'[n].st = "live"
    <3>1. l \notin D /\ n \in Of(l)
      BY <1>5, <1>7, <2>1
    <3> QED
      BY <1>1, <1>8, <3>1 DEF Alive
  <2>2. ASSUME NEW n \in Nodes, node'[n].st # "free"
        PROVE  node'[n].st = "live" /\ \E l \in Lists : n \in Of(l)'
    <3>1. ~(\E d \in D : n \in Of(d)) /\ node'[n] = node[n]
      BY <1>5, <2>2
    <3>2. node[n].st = "live" /\ \E l \in Lists : n \in Of(l)
      BY <1>1, <2>2, <3>1 DEF Alive
    <3> QED
      BY <1>7, <3>1, <3>2
  <2>3. \A l \in Lists : Whole(node', list'[l])
    BY <1>5, <1>7
  <2> QED
    BY <2>1, <2>2, <2>3 DEF Alive
<1>11. "patch" \in Lists \ D /\ "top" \in Lists \ D /\ "s" \in Lists \ D
  BY DEF Cables, Lists
<1>12. Subs'
  <2>1. ASSUME NEW l \in Held, NEW n \in Of(l)'  PROVE node'[n].does # "sub"
    <3>1. l \in Lists
      BY DEF Held, Lists
    <3>2. l \notin D /\ n \in Of(l)
      BY <1>5, <1>7, <2>1, <3>1
    <3> QED
      BY <1>1, <1>8, <3>1, <3>2 DEF Subs
  <2>2. ASSUME Apart("patch", "top")', NEW n \in Of("patch")'
        PROVE  node'[n].does # "sub"
    <3>1. Of("patch")' = Of("patch") /\ Of("top")' = Of("top")
      BY <1>7, <1>11
    <3>2. Apart("patch", "top") /\ n \in Of("patch")
      BY <2>2, <3>1 DEF Apart
    <3> QED
      BY <1>1, <1>8, <1>11, <3>2 DEF Subs
  <2> QED
    BY <2>1, <2>2 DEF Subs
<1>13. Ready'
  <2>1. hs'.write \in D \/ (hs'.write \in Lists \ D)
    BY <1>3 DEF Cables, Lists
  <2> QED
    BY <1>3, <1>5, <1>7, <2>1 DEF Ready
<1>14. Given' /\ Typed'
  <2>1. \A l \in Lists : list[l].nnodes = 0 => list'[l].nnodes = 0
    BY <1>5, <1>7
  <2>2. Given'
    BY <1>1, <2>1 DEF Given, Cables, Lists
  <2> QED
    BY <1>1, <1>3, <1>5, <2>2 DEF Typed
<1>15. "top" \notin objs' => list'["top"].nnodes = 0
  BY <1>1, <1>7, <1>11 DEF Session
<1> QED
  BY <1>1, <1>9, <1>10, <1>12, <1>13, <1>14, <1>15 DEF Inv, Session

(* The end of the session frees the patch's nodes, and then those of each   *)
(* object.                                                                  *)
LEMMA StepDisposed ==
    ASSUME Inv, ~Running, hs' = hs, NEW D \in SUBSET Lists, NEW E \in SUBSET Lists,
           D \subseteq E, node' = Disposed(D), list' = Emptied(E), core' = "clean",
           objs' \subseteq objs,
           "s" \in objs \ objs' => "s" \in E, "hs" \in objs \ objs' => Cables \subseteq E,
           \/ core = "destroyed" /\ D = {"patch"} /\ E = {"patch"} /\ objs' = objs
           \/ core = "clean" /\ D \subseteq Held /\ E \subseteq D \cup {"top"}
    PROVE  Inv'
<1>1. Typed /\ Given /\ Ending
  BY DEF Inv
<1>2. /\ node' \in [Nodes -> NodeT] /\ list' \in [Lists -> ListT]
      /\ \A n \in Nodes : (\E l \in D : n \in Of(l)) => node'[n].st = "free"
      /\ \A n \in Nodes : ~(\E l \in D : n \in Of(l)) => node'[n] = node[n]
      /\ \A l \in E : list'[l].nnodes = 0 /\ Of(l)' = {}
      /\ \A l \in Lists \ E :
            /\ list'[l] = list[l]
            /\ (\A d \in D : Apart(l, d)) => Of(l)' = Of(l)
  BY <1>1, DisposedIs
<1>3. ASSUME NEW l \in Held, NEW d \in D, l # d  PROVE Apart(l, d)
  BY <1>1, <1>3 DEF Ending, Apart
<1>4. \A l \in Held : l \in Lists /\ (l \in E <=> l \in D)
  BY DEF Held, Lists
<1>5. \A l \in Held : l \notin D =>
         /\ list'[l] = list[l] /\ Of(l)' = Of(l)
         /\ \A n \in Of(l) : n \in Nodes /\ node'[n] = node[n]
  <2> SUFFICES ASSUME NEW l \in Held, l \notin D
               PROVE  /\ list'[l] = list[l] /\ Of(l)' = Of(l)
                      /\ \A n \in Of(l) : n \in Nodes /\ node'[n] = node[n]
    OBVIOUS
  <2>1. l \in Lists \ E /\ \A d \in D : Apart(l, d)
    BY <1>3, <1>4
  <2>2. \A n \in Of(l) : n \in Nodes /\ ~(\E d \in D : n \in Of(d))
    BY <1>1, <2>1 DEF Ending, Apart
  <2> QED
    BY <1>2, <2>1, <2>2
<1>6. \A l, m \in Held : l # m => Of(l)' \cap Of(m)' = {}
  <2> SUFFICES ASSUME NEW l \in Held, NEW m \in Held, l # m
               PROVE  Of(l)' \cap Of(m)' = {}
    OBVIOUS
  <2>1. Apart(l, m)
    BY <1>1 DEF Ending
  <2>2. Of(l)' = {} \/ Of(l)' = Of(l)
    BY <1>2, <1>4, <1>5
  <2>3. Of(m)' = {} \/ Of(m)' = Of(m)
    BY <1>2, <1>4, <1>5
  <2> QED
    BY <2>1, <2>2, <2>3 DEF Apart
<1>7. \A l \in Held : \A n \in Of(l)' : n \in Nodes /\ node'[n].st = "live"
  <2> SUFFICES ASSUME NEW l \in Held, NEW n \in Of(l)'
               PROVE  n \in Nodes /\ node'[n].st = "live"
    OBVIOUS
  <2>1. l \notin D
    BY <1>2, <1>4
  <2> QED
    BY <1>1, <1>5, <2>1 DEF Ending
<1>8. \A n \in Nodes : node'[n].st # "free" => \E l \in Held : n \in Of(l)'
  <2> SUFFICES ASSUME NEW n \in Nodes, node'[n].st # "free"
               PROVE  \E l \in Held : n \in Of(l)'
    OBVIOUS
  <2>1. ~(\E d \in D : n \in Of(d)) /\ node'[n] = node[n]
    BY <1>2
  <2>2. core = "destroyed" /\ n \in Of("patch") => FALSE
    BY <2>1
  <2>3. PICK l \in Held : n \in Of(l)
    BY <1>1, <2>1, <2>2 DEF Ending
  <2>4. l \notin D
    BY <2>1, <2>3
  <2> QED
    BY <1>5, <2>3, <2>4
<1>9. Ending' /\ ~Running'
  <2>1. core' # "destroyed" /\ "rt" \notin objs'
    BY <1>1 DEF Ending
  <2> QED
    BY <1>6, <1>7, <1>8, <2>1 DEF Ending, Apart, Running
<1>10. Given'
  <2>1. \A l \in Held : list[l].nnodes = 0 \/ l \in E => list'[l].nnodes = 0
    BY <1>2, <1>4
  <2> QED
    BY <1>1, <2>1 DEF Given, Held, Cables
<1>11. Typed'
  BY <1>1, <1>2 DEF Typed
<1> QED
  BY <1>9, <1>10, <1>11 DEF Inv

(* The session may end: the nodes of the patch are destroyed.               *)
LEMMA StepDestroy == Inv /\ Destroy => Inv'
<1> SUFFICES ASSUME Inv, Destroy  PROVE Inv'
  OBVIOUS
<1>1. /\ Typed /\ Given /\ Session /\ Distinct /\ Alive /\ MayEnd
      /\ core = "run" /\ core' = "destroyed"
      /\ node' = [n \in Nodes |-> IF n \in Walk("patch")
                                  THEN [node[n] EXCEPT !.st = "destroyed"] ELSE node[n]]
      /\ list' = list /\ hs' = hs /\ objs' = objs
  BY DEF Destroy, Step, Inv, Session, Running
<1>2. "patch" \in Lists /\ "s" \in Lists /\ "top" \in Lists /\ Walk("patch") = Of("patch")
  BY WalkIs DEF Lists, Of
<1>3. /\ node \in [Nodes -> NodeT]
      /\ node' \in [Nodes -> NodeT]
      /\ \A n \in Nodes : node'[n].next = node[n].next
      /\ \A n \in Nodes : n \notin Of("patch") => node'[n] = node[n]
  <2>1. node \in [Nodes -> NodeT]
    BY <1>1 DEF Typed
  <2>2. \A n \in Nodes : /\ [node[n] EXCEPT !.st = "destroyed"] \in NodeT
                         /\ [node[n] EXCEPT !.st = "destroyed"].next = node[n].next
    BY <2>1 DEF NodeT
  <2> QED
    BY <1>1, <1>2, <2>1, <2>2
<1>4. \A l \in Lists : Of(l)' = Of(l) /\ Of(l) \subseteq Nodes
  <2> SUFFICES ASSUME NEW l \in Lists  PROVE Of(l)' = Of(l) /\ Of(l) \subseteq Nodes
    OBVIOUS
  <2>1. list[l] \in ListT /\ In(node, list[l]) \subseteq Nodes
    BY <1>1, ListIs DEF Alive, Of
  <2>2. In(node', list[l]) = In(node, list[l])
    BY <1>3, <2>1, InKept
  <2> QED
    BY <1>1, <2>1, <2>2 DEF Of
<1>5. \A l \in Held : l \in Lists /\ l # "patch"
  BY DEF Held, Lists
<1>6. \A l \in Held : Apart("patch", l)
  <2>1. Apart("patch", "s")
    BY <1>1, <1>2, SharedIs DEF MayEnd
  <2>2. \A c \in Cables : Apart("patch", c)
    BY <1>1 DEF Distinct, Lists, Cables, Copies
  <2> QED
    BY <2>1, <2>2 DEF Held, Cables
<1>7. \A l, m \in Held : l # m => Apart(l, m)
  BY <1>1 DEF Distinct, Held, Lists, Copies
<1>8. \A l \in Held : \A n \in Of(l) : n \in Nodes /\ node'[n].st = "live"
  <2> SUFFICES ASSUME NEW l \in Held, NEW n \in Of(l)
               PROVE  n \in Nodes /\ node'[n].st = "live"
    OBVIOUS
  <2>1. n \in Nodes /\ n \notin Of("patch")
    BY <1>4, <1>5, <1>6 DEF Apart
  <2> QED
    BY <1>1, <1>3, <1>5, <2>1 DEF Alive
<1>9. \A n \in Nodes : node'[n].st # "free" =>
          n \in Of("patch") \/ \E l \in Held : n \in Of(l)
  <2> SUFFICES ASSUME NEW n \in Nodes, node'[n].st # "free", n \notin Of("patch")
               PROVE  \E l \in Held : n \in Of(l)
    OBVIOUS
  <2>1. PICK l \in Lists : n \in Of(l)
    BY <1>1, <1>3 DEF Alive
  <2>2. l # "top"
    <3>1. CASE "top" \in objs
      <4>1. Of("top") = Of("patch")
        BY <1>1, <1>2, <3>1, SharedIs DEF MayEnd, Of
      <4> QED
        BY <2>1, <4>1
    <3>2. CASE "top" \notin objs
      <4>1. Of("top") = {}
        BY <1>1, <1>2, <3>2, ListIs DEF Session
      <4> QED
        BY <2>1, <4>1
    <3> QED
      BY <3>1, <3>2
  <2> QED
    BY <2>1, <2>2 DEF Held, Lists
<1>10. \A l \in Held : Of(l)' = Of(l)
  BY <1>4, <1>5
<1>11. Ending' /\ ~Running'
  BY <1>1, <1>2, <1>4, <1>6, <1>7, <1>8, <1>9, <1>10 DEF Ending, Apart, Running, MayEnd
<1>12. Typed' /\ Given'
  BY <1>1, <1>3 DEF Typed, Given
<1> QED
  BY <1>11, <1>12 DEF Inv

(* Nothing is left when no list has a node and no object is there.          *)
LEMMA NothingIs ==
    ASSUME Inv, core = "clean", objs = {}
    PROVE  \A n \in Nodes : node[n].st = "free"
<1>1. Typed /\ Given /\ Ending
  BY DEF Inv, Running
<1>2. \A l \in Held : Of(l) = {}
  <2>1. \A l \in Held : list[l].nnodes = 0 /\ l \in Lists
    BY <1>1 DEF Given, Held, Cables, Lists
  <2> QED
    BY <1>1, <2>1, ListIs
<1> QED
  BY <1>1, <1>2 DEF Ending

(* The next session.                                                        *)
LEMMA StepRestart == Inv /\ Restart => Inv'
<1> SUFFICES ASSUME Inv, Restart  PROVE Inv'
  OBVIOUS
<1>1. /\ Typed /\ core = "clean" /\ core' = "run" /\ objs = {}
      /\ list' = [l \in Lists |-> Empty] /\ node' = node /\ objs' = objs
      /\ hs' = [hs EXCEPT !.read = "cab0", !.write = "cab1", !.please_swap = FALSE,
                          !.cfstate = "standby"]
  BY DEF Restart, Step, Inv
<1>2. Empty \in ListT /\ Empty.nnodes = 0
  BY DEF Empty, ListT, Address
<1>3. \A l \in Lists : list'[l] = Empty /\ Of(l)' = {} /\ Whole(node', list'[l])
  <2>1. \A l \in Lists : list'[l] = Empty
    BY <1>1
  <2> QED
    BY <1>1, <1>2, <2>1, Copied
<1>4. /\ hs' \in [read : Cables, write : Cables, please_swap : BOOLEAN,
                  cfstate : {"none", "standby", "compute", "done"}]
      /\ hs'.read # hs'.write /\ ~hs'.please_swap
  BY <1>1 DEF Typed, Cables
<1>5. Typed'
  BY <1>1, <1>2, <1>4 DEF Typed
<1>6. Given' /\ ("top" \notin objs' => list'["top"].nnodes = 0)
  BY <1>2, <1>3 DEF Given, Lists, Cables
<1>7. Distinct'
  BY <1>3 DEF Distinct, Apart
<1>8. Alive'
  <2>1. \A n \in Nodes : node'[n].st = "free"
    BY <1>1, NothingIs
  <2> QED
    BY <1>3, <2>1 DEF Alive
<1>9. Subs'
  BY <1>3 DEF Subs, Held, Lists
<1>10. Ready'
  <2>1. hs'.write \in Lists
    BY <1>4 DEF Cables, Lists
  <2> QED
    BY <1>2, <1>3, <1>4, <2>1 DEF Ready
<1> QED
  BY <1>1, <1>5, <1>6, <1>7, <1>8, <1>9, <1>10 DEF Inv, Session, Running

------------------------------------------------------------------------------
(* The invariant holds.                                                     *)

(* It holds of a new session.                                               *)
LEMMA InvInit == Init => Inv
<1> SUFFICES ASSUME Init  PROVE Inv
  OBVIOUS
<1>1. /\ node = [n \in Nodes |-> Free] /\ list = [l \in Lists |-> Empty]
      /\ hs = [read |-> "cab0", write |-> "cab1", please_swap |-> FALSE,
               cfstate |-> "standby"]
      /\ objs = {} /\ core = "run"
  BY DEF Init
<1>2. Empty \in ListT /\ Empty.nnodes = 0 /\ Free \in NodeT /\ Free.st = "free"
  BY DEF Empty, ListT, Address, Free, NodeT
<1>3. Typed
  BY <1>1, <1>2 DEF Typed, Cables, Objects
<1>4. \A l \in Lists : list[l] = Empty /\ Of(l) = {} /\ Whole(node, list[l])
  <2>1. \A l \in Lists : list[l] = Empty
    BY <1>1
  <2> QED
    BY <1>2, <1>3, <2>1, ListIs
<1>5. Distinct /\ Subs
  BY <1>4 DEF Distinct, Apart, Subs, Held, Lists
<1>6. Alive
  BY <1>1, <1>2, <1>4 DEF Alive
<1>7. Given /\ Ready /\ list["top"].nnodes = 0
  BY <1>1, <1>2, <1>4 DEF Given, Ready, Lists, Cables
<1> QED
  BY <1>1, <1>3, <1>5, <1>6, <1>7 DEF Inv, Session, Running

(* Nothing happens.                                                         *)
LEMMA SameInv == Inv /\ vars' = vars => Inv'
<1> SUFFICES ASSUME Inv, vars' = vars  PROVE Inv'
  OBVIOUS
<1>1. node' = node /\ list' = list /\ hs' = hs /\ objs' = objs /\ core' = core
  BY DEF vars
<1>2. Typed' <=> Typed
  BY <1>1 DEF Typed
<1>3. (Given' <=> Given) /\ (Ready' <=> Ready) /\ (Running' <=> Running)
  BY <1>1 DEF Given, Ready, Running
<1>4. (Distinct' <=> Distinct) /\ (Alive' <=> Alive) /\ (Subs' <=> Subs)
  BY <1>1 DEF Distinct, Alive, Subs, Apart, Of
<1>5. Ending' <=> Ending
  BY <1>1 DEF Ending, Apart, Of
<1>6. Session' <=> Session
  BY <1>1, <1>3, <1>4 DEF Session
<1> QED
  BY <1>2, <1>3, <1>5, <1>6 DEF Inv

(* Every step keeps it.                                                     *)
LEMMA InvStep == Inv /\ [Next]_vars => Inv'
<1> SUFFICES ASSUME Inv, [Next]_vars  PROVE Inv'
  OBVIOUS
<1>1. ASSUME NEW o \in Objects, New(o)  PROVE Inv'
  <2>1. /\ Typed /\ Session /\ Running /\ Running' /\ node' = node /\ list' = list
        /\ hs' = hs /\ objs' = objs \cup {o} /\ (o = "rt" => "hs" \in objs)
    BY <1>1 DEF New, Inv, Running
  <2>2. objs' \subseteq Objects /\ objs \ {"rt"} \subseteq objs'
    BY <2>1 DEF Typed
  <2>3. "rt" \in objs' => "hs" \in objs'
    BY <2>1 DEF Session
  <2> QED
    BY <2>1, <2>2, <2>3, StepObjects
<1>2. ASSUME DelClient  PROVE Inv'
  <2>1. /\ Typed /\ Running /\ Running' /\ node' = node /\ list' = list
        /\ hs' = hs /\ objs' = objs \ {"rt"}
    BY <1>2 DEF DelClient, Inv, Running
  <2>2. objs' \subseteq Objects /\ "rt" \notin objs'
    BY <2>1 DEF Typed
  <2> QED
    BY <2>1, <2>2, StepObjects
<1>3. ASSUME Crossfade  PROVE Inv'
  <2>1. /\ Typed /\ Session /\ Running /\ Running' /\ node' = node /\ list' = list
        /\ objs' = objs /\ ~hs.please_swap /\ hs.cfstate \in {"none", "standby"}
        /\ \E c \in {"none", "standby"} : hs' = [hs EXCEPT !.cfstate = c]
    BY <1>3 DEF Crossfade, Inv, Running
  <2>2. objs' \subseteq Objects /\ objs \ {"rt"} \subseteq objs'
    BY <2>1 DEF Typed
  <2>3. "rt" \in objs' => "hs" \in objs'
    BY <2>1 DEF Session
  <2> QED
    BY <2>1, <2>2, <2>3, StepObjects
<1>4. ASSUME PClear  PROVE Inv'
  BY <1>4, StepLoad DEF PClear, Running
<1>5. ASSUME NEW o \in Objects, PLoad(o)  PROVE Inv'
  BY <1>5, StepLoad DEF PLoad, Running
<1>6. ASSUME NEW o \in Objects, Clean(o)  PROVE Inv'
  <2> DEFINE D == Holds(o)
             E == Holds(o) \cup (IF o = "top" THEN {o} ELSE {})
  <2>1. /\ core = "clean" /\ core' = "clean" /\ ~Running /\ hs' = hs
        /\ node' = Disposed(D) /\ list' = Emptied(E) /\ objs' = objs \ {o}
    BY <1>6 DEF Clean, Running
  <2>2. /\ D \in SUBSET Lists /\ E \in SUBSET Lists /\ D \subseteq E
        /\ D \subseteq Held /\ E \subseteq D \cup {"top"}
        /\ (o = "s" => "s" \in E) /\ (o = "hs" => Cables \subseteq E)
    BY DEF Holds, Lists, Held, Cables
  <2> HIDE DEF D, E
  <2>3. /\ objs' \subseteq objs
        /\ ("s" \in objs \ objs' => "s" \in E)
        /\ ("hs" \in objs \ objs' => Cables \subseteq E)
    BY <2>1, <2>2
  <2> QED
    BY <2>1, <2>2, <2>3, StepDisposed
<1>7. ASSUME FreeNodes  PROVE Inv'
  <2>1. /\ core = "destroyed" /\ core' = "clean" /\ ~Running /\ hs' = hs
        /\ node' = Disposed({"patch"}) /\ list' = Emptied({"patch"}) /\ objs' = objs
        /\ {"patch"} \in SUBSET Lists
    BY <1>7 DEF FreeNodes, Step, Running, Lists
  <2> QED
    BY <2>1, StepDisposed
<1>8. ASSUME NEW n \in Nodes, Subpatcher(n)  PROVE Inv'
  BY <1>8, StepSubpatcher
<1>9. ASSUME NEW n \in Nodes, NEW what \in {"sound", "hs"}, NewNode(n, what)
      PROVE  Inv'
  BY <1>9, StepNewNode
<1>10. ASSUME Compute  PROVE Inv'
  <2>1. Running /\ Running' /\ objs' = objs /\ core' = core
    BY <1>10 DEF Compute, Running
  <2>2. CASE HsBlock
    BY <2>1, <2>2, StepBlock
  <2>3. CASE node' = node /\ list' = list /\ hs' = hs
    <3>1. vars' = vars
      BY <2>1, <2>3 DEF vars
    <3> QED
      BY <3>1, SameInv
  <2> QED
    BY <1>10, <2>2, <2>3 DEF Compute
<1>11. ASSUME Callback  PROVE Inv'
  <2>1. Running /\ Running' /\ HsBlock /\ objs' = objs /\ core' = core
    BY <1>11 DEF Callback, Inv, Ending, Running
  <2> QED
    BY <2>1, StepBlock
<1>12. ASSUME vars' = vars  PROVE Inv'
  BY <1>12, SameInv
<1> QED
  BY <1>1, <1>2, <1>3, <1>4, <1>5, <1>6, <1>7, <1>8, <1>9, <1>10, <1>11, <1>12,
     StepPSave, StepPleaseSwap, StepDestroy, StepRestart DEF Next

(* In every session each list has the nodes it counts, all of them          *)
(* allocated; two lists have nodes in common only where psave, subpatcher   *)
(* and pload made one a copy of the other; every allocated node is in a     *)
(* list; and the cable that the next swap writes is empty.                  *)
THEOREM NodeListsSound == Spec => []Inv
<1>1. Init => Inv
  BY InvInit
<1>2. Inv /\ [Next]_vars => Inv'
  BY InvStep
<1> QED
  BY <1>1, <1>2, PTL DEF Spec

------------------------------------------------------------------------------
(* What it says.                                                            *)

(* The nodes a block of the hotswapper computes are those of its cables.    *)
LEMMA HeardIs == Typed => \A n \in Heard : \E c \in Cables : n \in Of(c)
<1> SUFFICES ASSUME Typed, NEW n \in Heard  PROVE \E c \in Cables : n \in Of(c)
  OBVIOUS
<1>1. hs.read \in Cables /\ hs.write \in Cables
  BY DEF Typed
<1>2. Swapped.read \in Cables /\ Swapped.write \in Cables
  BY <1>1 DEF Swapped
<1>3. \E c \in Cables : n \in Walk(c)
  BY <1>2 DEF Heard
<1> QED
  BY <1>3, WalkIs DEF Cables, Lists, Of

(* A node that is allocated is freed by one list, unless it has been saved  *)
(* and is still the patch's, or is top's.                                   *)
LEMMA OwnersAre ==
    ASSUME Typed, Distinct, Alive, NEW n \in Nodes, node[n].st = "live",
           NEW owners, owners = {l \in Owners : n \in Walk(l)}
    PROVE  \/ Cardinality(owners) = 1
           \/ owners = {"patch", "s"} /\ Shared("patch", "s")
           \/ owners = {} /\ n \in Walk("top")
<1>1. \A l \in Lists : n \in Walk(l) <=> n \in Of(l)
  BY WalkIs DEF Of
<1>2. Owners \subseteq Lists /\ "top" \in Lists /\ Lists \subseteq Owners \cup {"top"}
  BY DEF Owners, Lists
<1>3. PICK l \in Lists : n \in Of(l)
  BY DEF Alive
<1>4. CASE owners = {}
  <2>1. l = "top"
    BY <1>1, <1>2, <1>3, <1>4
  <2> QED
    BY <1>1, <1>2, <1>3, <1>4, <2>1
<1>5. CASE owners # {}
  <2>1. PICK k \in owners : TRUE
    BY <1>5
  <2>2. \A m \in owners : m \in Owners /\ m \in Lists /\ n \in Of(m)
    BY <1>1, <1>2
  <2>3. \A i, j \in owners : i # j => <<i, j>> \in Copies /\ list[i] = list[j]
    BY <2>2 DEF Distinct, Apart
  <2>4. CASE owners = {k}
    BY <2>4, FS_Singleton
  <2>5. CASE owners # {k}
    <3>1. PICK m \in owners : m # k
      BY <2>1, <2>5
    <3>2. {k, m} = {"patch", "s"}
      BY <2>2, <2>3, <3>1 DEF Copies, Owners
    <3>3. "patch" \in owners /\ "s" \in owners
      BY <3>1, <3>2
    <3>4. \A i \in owners : i = "patch" \/ i = "s"
      BY <2>2, <2>3, <3>3 DEF Copies, Owners
    <3>5. list["patch"] = list["s"]
      BY <2>3, <3>3
    <3>6. list["patch"].nnodes > 0
      <4>1. "patch" \in Lists /\ Of("patch") # {}
        BY <2>2, <3>3
      <4>2. list["patch"].nnodes \in Nat /\ list["patch"].nnodes # 0
        BY <4>1, ListIs
      <4> QED
        BY <4>2
    <3>7. owners = {"patch", "s"}
      BY <3>3, <3>4
    <3> QED
      BY <3>5, <3>6, <3>7 DEF Shared
  <2> QED
    BY <2>4, <2>5
<1> QED
  BY <1>4, <1>5

(* gf_patch_free_nodes and gf_subpatch_free, between them, free each node   *)
(* once: while a session runs every allocated node is in one of the lists   *)
(* that free, or in two that are one list, or waits in top.                 *)
THEOREM OneOwnerHolds == Spec => []OneOwner
<1>1. ASSUME Inv  PROVE OneOwner
  <2> SUFFICES ASSUME Running, NEW n \in Nodes, node[n].st = "live",
                      NEW owners, owners = {l \in Owners : n \in Walk(l)}
               PROVE  \/ Cardinality(owners) = 1
                      \/ owners = {"patch", "s"} /\ Shared("patch", "s")
                      \/ owners = {} /\ n \in Walk("top")
    BY DEF OneOwner
  <2>1. Typed /\ Distinct /\ Alive
    BY <1>1 DEF Inv, Session
  <2> QED
    BY <2>1, OwnersAre
<1> QED
  BY <1>1, NodeListsSound, PTL

(* The audio thread, or the hsnode of the main thread, computes nodes that  *)
(* are allocated, and the client is gone before sk_core_del starts.         *)
THEOREM RenderSafeHolds == Spec => []RenderSafe
<1>1. ASSUME Inv  PROVE RenderSafe
  <2>1. "rt" \in objs => Running /\ "hs" \in objs
    BY <1>1 DEF Inv, Session, Ending
  <2>2. ASSUME Running, NEW n \in Heard
        PROVE  node[n].st = "live" /\ node[n].does # "sub"
    <3>1. Typed /\ Alive /\ Subs
      BY <1>1, <2>2 DEF Inv, Session
    <3>2. PICK c \in Cables : n \in Of(c)
      BY <2>2, <3>1, HeardIs
    <3> QED
      BY <3>1, <3>2 DEF Alive, Subs, Cables, Lists, Held
  <2> QED
    BY <2>1, <2>2 DEF RenderSafe
<1> QED
  BY <1>1, NodeListsSound, PTL

(* When the dictionary has been cleaned, in whatever order, every node of   *)
(* the session is free.                                                     *)
THEOREM NothingLeftHolds == Spec => []NothingLeft
<1>1. Inv => NothingLeft
  BY NothingIs DEF NothingLeft
<1> QED
  BY <1>1, NodeListsSound, PTL

(* gf_patch_destroy and each object's delete find their nodes allocated,    *)
(* and destroyed by nobody before.                                          *)
THEOREM DestroyedOnceHolds == Spec => []DestroyedOnce
<1>1. ASSUME Inv  PROVE DestroyedOnce
  <2>1. \A l \in Lists : Walk(l) = Of(l)
    BY WalkIs DEF Of
  <2>2. core = "run" => \A n \in Walk("patch") : node[n].st = "live"
    BY <1>1, <2>1 DEF Inv, Running, Session, Alive, Lists
  <2>3. ASSUME core = "clean", NEW o \in objs, NEW l \in Holds(o), NEW n \in Walk(l)
        PROVE  node[n].st = "live"
    <3>1. l \in Held /\ l \in Lists
      BY DEF Holds, Held, Lists
    <3>2. Ending
      BY <1>1, <2>3 DEF Inv, Running
    <3> QED
      BY <2>1, <3>1, <3>2 DEF Ending
  <2> QED
    BY <2>2, <2>3 DEF DestroyedOnce
<1> QED
  BY <1>1, NodeListsSound, PTL

================================================================================
