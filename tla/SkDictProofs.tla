------------------------------ MODULE SkDictProofs ------------------------------
(***************************************************************************)
(* The dictionary is a map from keys to objects, for every set of keys and *)
(* objects and however the keys hash.                                      *)
(***************************************************************************)
EXTENDS SkDict, TLAPS

\* The inductive invariant.
Inv == TypeOK /\ OneEntryPerKey /\ OneFate

USE NoneAssumption, HashAssumption

------------------------------------------------------------------------------
(* Chains.                                                                  *)

(* A chain without one of its entries.                                      *)
LEMMA WithoutChain ==
    ASSUME NEW S, NEW chain \in Seq(S), NEW i \in 1 .. Len(chain)
    PROVE  /\ Without(chain, i) \in Seq(S)
           /\ Len(Without(chain, i)) = Len(chain) - 1
           /\ \A j \in 1 .. Len(chain) - 1 :
                 Without(chain, i)[j] = IF j < i THEN chain[j] ELSE chain[j + 1]
<1> DEFINE w == Without(chain, i)
<1>1. Len(chain) \in Nat /\ Len(chain) - 1 \in Nat
  OBVIOUS
<1>2. \A j \in 1 .. Len(chain) - 1 : w[j] = IF j < i THEN chain[j] ELSE chain[j + 1]
  BY <1>1 DEF Without
<1>3. \A j \in 1 .. Len(chain) - 1 : w[j] \in S
  BY <1>1, <1>2
<1>4. w \in [1 .. Len(chain) - 1 -> S]
  BY <1>2, <1>3 DEF Without
<1>5. w \in Seq(S) /\ Len(w) = Len(chain) - 1
  BY <1>1, <1>4
<1> QED
  BY <1>2, <1>5

(* The head of a chain is the entry at 1.                                   *)
LEMMA TailIsWithout ==
    ASSUME NEW S, NEW chain \in Seq(S), chain # <<>>
    PROVE  1 \in 1 .. Len(chain) /\ Tail(chain) = Without(chain, 1) /\ Head(chain) = chain[1]
<1>1. Len(chain) \in Nat /\ Len(chain) > 0
  OBVIOUS
<1>2. Tail(chain) \in Seq(S) /\ Len(Tail(chain)) = Len(chain) - 1
  OBVIOUS
<1>3. \A j \in 1 .. Len(chain) - 1 : Tail(chain)[j] = chain[j + 1]
  OBVIOUS
<1>4. /\ Without(chain, 1) \in Seq(S)
      /\ Len(Without(chain, 1)) = Len(chain) - 1
      /\ \A j \in 1 .. Len(chain) - 1 : Without(chain, 1)[j] = chain[j + 1]
  BY <1>1, WithoutChain
<1> QED
  BY <1>1, <1>2, <1>3, <1>4

(* A chain with a new entry at its head.                                    *)
LEMMA Consed ==
    ASSUME NEW S, NEW chain \in Seq(S), NEW e \in S
    PROVE  /\ <<e>> \o chain \in Seq(S)
           /\ Len(<<e>> \o chain) = Len(chain) + 1
           /\ (<<e>> \o chain)[1] = e
           /\ \A j \in 1 .. Len(chain) : (<<e>> \o chain)[j + 1] = chain[j]
  OBVIOUS

------------------------------------------------------------------------------
(* With one entry per key, a lookup returns the object of that entry.       *)
LEMMA LookupFinds ==
    ASSUME Inv, NEW k \in Keys, NEW i \in Matches(k)
    PROVE  First(k) = i /\ ObjectOf(k) = Chain(k)[i].ptr
<1>1. Matches(k) = {i}
  BY DEF Inv, OneEntryPerKey
<1>2. i \in Int
  BY DEF Matches
<1>3. First(k) = i
  BY <1>1, <1>2 DEF First
<1> QED
  BY <1>1, <1>3 DEF ObjectOf

(* An entry is matched by its own key.                                      *)
LEMMA EntryMatches ==
    ASSUME Inv, NEW b \in Buckets, NEW i \in 1 .. Len(ent[b])
    PROVE  /\ ent[b][i] \in Entries
           /\ Hash[ent[b][i].key] = b
           /\ i \in Matches(ent[b][i].key)
<1>1. ent[b] \in Seq(Entries)
  BY DEF Inv, TypeOK
<1>2. ent[b][i] \in Entries
  BY <1>1
<1>3. Hash[ent[b][i].key] = b
  BY DEF Inv, TypeOK
<1> QED
  BY <1>2, <1>3 DEF Matches, Chain, Entries

------------------------------------------------------------------------------
(* Unlinking an entry and deleting its object keeps the invariant, takes    *)
(* its key off the map and leaves the other keys alone.                     *)
LEMMA Unlink ==
    ASSUME Inv, NEW b \in Buckets, NEW i \in 1 .. Len(ent[b]),
           NEW key \in Keys, key = ent[b][i].key,
           ent' = [ent EXCEPT ![b] = Without(@, i)],
           deleted' = deleted \cup {ent[b][i].ptr},
           fresh' = fresh, lost' = lost, result' = result, cleaning' \in BOOLEAN
    PROVE  /\ Inv'
           /\ ObjectOf(key)' = None
           /\ \A k \in Keys : k # key => ObjectOf(k)' = ObjectOf(k)
<1>1. /\ ent \in [Buckets -> Seq(Entries)] /\ ent[b] \in Seq(Entries)
      /\ Len(ent[b]) \in Nat /\ ent[b][i] \in Entries
  BY EntryMatches DEF Inv, TypeOK
<1>2. /\ ent'[b] = Without(ent[b], i) /\ ent' \in [Buckets -> Seq(Entries)]
      /\ \A c \in Buckets : c # b => ent'[c] = ent[c]
  BY <1>1, WithoutChain
<1>3. /\ Len(ent'[b]) = Len(ent[b]) - 1
      /\ \A j \in 1 .. Len(ent'[b]) :
            ent'[b][j] = IF j < i THEN ent[b][j] ELSE ent[b][j + 1]
  <2>1. /\ Len(Without(ent[b], i)) = Len(ent[b]) - 1
        /\ \A j \in 1 .. Len(ent[b]) - 1 :
              Without(ent[b], i)[j] = IF j < i THEN ent[b][j] ELSE ent[b][j + 1]
    BY <1>1, WithoutChain
  <2> QED
    BY <1>2, <2>1
<1> DEFINE Old(c, j) == IF c = b /\ j >= i THEN j + 1 ELSE j
<1>4. ASSUME NEW c \in Buckets, NEW j \in 1 .. Len(ent'[c])
      PROVE  /\ Old(c, j) \in 1 .. Len(ent[c]) /\ ent'[c][j] = ent[c][Old(c, j)]
             /\ c = b => Old(c, j) # i
  <2>1. CASE c = b
    BY <1>1, <1>3, <2>1
  <2>2. CASE c # b
    BY <1>2, <2>2
  <2> QED
    BY <2>1, <2>2
<1>5. ASSUME NEW c \in Buckets, NEW j \in 1 .. Len(ent[c]), ~(c = b /\ j = i)
      PROVE  \E h \in 1 .. Len(ent'[c]) : Old(c, h) = j
  <2>1. CASE c = b /\ j > i
    <3>1. j - 1 \in 1 .. Len(ent'[c]) /\ Old(c, j - 1) = j
      BY <1>1, <1>3, <2>1
    <3> QED
      BY <3>1
  <2>2. CASE c = b /\ j < i
    <3>1. j \in 1 .. Len(ent'[c]) /\ Old(c, j) = j
      BY <1>1, <1>3, <2>2
    <3> QED
      BY <3>1
  <2>3. CASE c # b
    BY <1>2, <2>3
  <2> QED
    BY <2>1, <2>2, <2>3, <1>5, <1>1
<1>6. ASSUME NEW c \in Buckets, NEW j \in 1 .. Len(ent'[c]), NEW h \in 1 .. Len(ent'[c]),
             Old(c, j) = Old(c, h)
      PROVE  j = h
  <2>1. j \in Int /\ h \in Int /\ i \in Int
    BY <1>2, <1>1
  <2> QED
    BY <1>6, <2>1
<1>7. TypeOK'
  <2>1. \A c \in Buckets : \A j \in 1 .. Len(ent'[c]) : Hash[ent'[c][j].key] = c
    BY <1>4 DEF Inv, TypeOK
  <2>2. deleted' \subseteq Objects
    BY <1>1 DEF Inv, TypeOK, Entries
  <2> QED
    BY <1>2, <2>1, <2>2 DEF Inv, TypeOK
<1>8. ASSUME NEW k \in Keys, NEW j \in Matches(k)'
      PROVE  Old(Hash[k], j) \in Matches(k) /\ Chain(k)'[j] = Chain(k)[Old(Hash[k], j)]
  <2>1. Hash[k] \in Buckets /\ j \in 1 .. Len(ent'[Hash[k]]) /\ ent'[Hash[k]][j].key = k
    BY DEF Matches, Chain
  <2>2. /\ Old(Hash[k], j) \in 1 .. Len(ent[Hash[k]])
        /\ ent'[Hash[k]][j] = ent[Hash[k]][Old(Hash[k], j)]
    BY <2>1, <1>4
  <2> HIDE DEF Old
  <2> QED
    BY <2>1, <2>2 DEF Matches, Chain
<1>9. OneEntryPerKey'
  <2> SUFFICES ASSUME NEW k \in Keys, NEW j \in Matches(k)', NEW h \in Matches(k)'
               PROVE  j = h
    BY DEF OneEntryPerKey
  <2>1. Old(Hash[k], j) = Old(Hash[k], h)
    BY <1>8 DEF Inv, OneEntryPerKey
  <2>2. Hash[k] \in Buckets /\ j \in 1 .. Len(ent'[Hash[k]]) /\ h \in 1 .. Len(ent'[Hash[k]])
    BY DEF Matches, Chain
  <2> QED
    BY <1>6, <2>1, <2>2
<1>10. \A o \in Objects : Kept(o)' <=> Kept(o) /\ o # ent[b][i].ptr
  <2> SUFFICES ASSUME NEW o \in Objects
               PROVE  Kept(o)' <=> Kept(o) /\ o # ent[b][i].ptr
    OBVIOUS
  <2>1. ASSUME Kept(o)'  PROVE Kept(o) /\ o # ent[b][i].ptr
    <3>0. PICK c \in Buckets : \E j \in 1 .. Len(ent'[c]) : ent'[c][j].ptr = o
      BY <2>1 DEF Kept
    <3>1. PICK j \in 1 .. Len(ent'[c]) : ent'[c][j].ptr = o
      BY <3>0
    <3>2. /\ Old(c, j) \in 1 .. Len(ent[c]) /\ ent[c][Old(c, j)].ptr = o
          /\ c = b => Old(c, j) # i
      <4>1. /\ Old(c, j) \in 1 .. Len(ent[c]) /\ ent'[c][j] = ent[c][Old(c, j)]
            /\ c = b => Old(c, j) # i
        BY <1>4
      <4> HIDE DEF Old
      <4> QED
        BY <3>1, <4>1
    <3>3. o # ent[b][i].ptr
      <4> HIDE DEF Old
      <4>1. ent[c][Old(c, j)].ptr = ent[b][i].ptr => c = b /\ Old(c, j) = i
        BY <3>2 DEF Inv, OneFate
      <4> QED
        BY <3>2, <4>1
    <3> QED
      BY <3>2, <3>3 DEF Kept
  <2>2. ASSUME Kept(o), o # ent[b][i].ptr  PROVE Kept(o)'
    <3>0. PICK c \in Buckets : \E j \in 1 .. Len(ent[c]) : ent[c][j].ptr = o
      BY <2>2 DEF Kept
    <3>1. PICK j \in 1 .. Len(ent[c]) : ent[c][j].ptr = o
      BY <3>0
    <3>2. ~(c = b /\ j = i)
      BY <3>1, <2>2
    <3>3. PICK h \in 1 .. Len(ent'[c]) : Old(c, h) = j
      BY <3>2, <1>5
    <3>4. ent'[c][h].ptr = o
      <4>1. ent'[c][h] = ent[c][Old(c, h)]
        BY <1>4
      <4> QED
        BY <3>1, <3>3, <4>1
    <3> QED
      BY <3>4 DEF Kept
  <2> QED
    BY <2>1, <2>2
<1>11. OneFate'
  <2>1. Kept(ent[b][i].ptr) /\ ent[b][i].ptr \in Objects
    BY <1>1 DEF Kept, Entries
  <2>2. \A o \in Objects :
          /\ o \in fresh' => o \notin lost' /\ o \notin deleted' /\ ~Kept(o)'
          /\ o \in lost' => o \notin deleted' /\ ~Kept(o)'
          /\ o \in deleted' => ~Kept(o)'
          /\ o \in fresh' \/ o \in lost' \/ o \in deleted' \/ Kept(o)'
    BY <1>10, <2>1 DEF Inv, OneFate
  <2>3. ASSUME NEW c \in Buckets, NEW d \in Buckets, NEW j \in 1 .. Len(ent'[c]),
               NEW h \in 1 .. Len(ent'[d]), ent'[c][j].ptr = ent'[d][h].ptr
        PROVE  c = d /\ j = h
    <3>1. /\ Old(c, j) \in 1 .. Len(ent[c]) /\ ent'[c][j] = ent[c][Old(c, j)]
          /\ Old(d, h) \in 1 .. Len(ent[d]) /\ ent'[d][h] = ent[d][Old(d, h)]
      BY <1>4
    <3>2. c = d /\ Old(c, j) = Old(d, h)
      <4> HIDE DEF Old
      <4>1. ent[c][Old(c, j)].ptr = ent[d][Old(d, h)].ptr
        BY <2>3, <3>1
      <4> QED
        BY <3>1, <4>1 DEF Inv, OneFate
    <3> QED
      BY <3>2, <1>6
  <2> QED
    BY <2>2, <2>3 DEF OneFate
<1>12. ObjectOf(key)' = None
  <2>1. ASSUME NEW j \in Matches(key)'  PROVE FALSE
    <3>1. key \in Keys /\ Hash[key] = b /\ i \in Matches(key)
      BY <1>1, EntryMatches DEF Entries
    <3>2. Old(Hash[key], j) \in Matches(key)
      BY <1>8, <2>1, <3>1
    <3>3. j \in 1 .. Len(ent'[b])
      BY <2>1, <3>1 DEF Matches, Chain
    <3>4. Old(b, j) # i
      BY <1>4, <3>3
    <3>5. Old(b, j) = i
      <4> HIDE DEF Old
      <4> QED
        BY <3>1, <3>2 DEF Inv, OneEntryPerKey
    <3> QED
      BY <3>4, <3>5
  <2> QED
    BY <2>1 DEF ObjectOf
<1>13. ASSUME NEW k \in Keys, k # key  PROVE ObjectOf(k)' = ObjectOf(k)
  <2>0. Inv'
    BY <1>7, <1>9, <1>11 DEF Inv
  <2>1. CASE Matches(k) = {}
    <3>1. Matches(k)' = {}
      BY <2>1, <1>8
    <3> QED
      BY <2>1, <3>1 DEF ObjectOf
  <2>2. ASSUME NEW j \in Matches(k)  PROVE ObjectOf(k)' = ObjectOf(k)
    <3>1. Hash[k] \in Buckets /\ j \in 1 .. Len(ent[Hash[k]]) /\ ent[Hash[k]][j].key = k
      BY DEF Matches, Chain
    <3>2. PICK h \in 1 .. Len(ent'[Hash[k]]) : Old(Hash[k], h) = j
      BY <3>1, <1>5, <1>13
    <3>3. ent'[Hash[k]][h] = ent[Hash[k]][j]
      <4>1. ent'[Hash[k]][h] = ent[Hash[k]][Old(Hash[k], h)]
        BY <3>1, <3>2, <1>4, Zenon
      <4> QED
        BY <3>2, <4>1, Zenon
    <3>4. h \in Matches(k)'
      BY <3>1, <3>2, <3>3 DEF Matches, Chain
    <3>5. ObjectOf(k) = Chain(k)[j].ptr
      BY LookupFinds, <2>2
    <3>6. ObjectOf(k)' = Chain(k)'[h].ptr
      <4>0. \A x \in Matches(k)' : x = h
        BY <3>4, <1>9 DEF OneEntryPerKey
      <4>1. Matches(k)' = {h}
        BY <3>4, <4>0
      <4>2. h \in Int
        BY <3>4 DEF Matches
      <4>3. First(k)' = h
        BY <4>1, <4>2 DEF First
      <4> QED
        BY <4>1, <4>3 DEF ObjectOf
    <3> QED
      BY <3>3, <3>5, <3>6 DEF Chain
  <2> QED
    BY <2>1, <2>2
<1> QED
  BY <1>7, <1>9, <1>11, <1>12, <1>13 DEF Inv

------------------------------------------------------------------------------
(* A new entry, for a key that has none and an object not seen before.      *)
LEMMA Link ==
    ASSUME Inv, NEW k \in Keys, NEW o \in fresh, Matches(k) = {},
           ent' = [ent EXCEPT ![Hash[k]] = <<[key |-> k, ptr |-> o]>> \o @],
           fresh' = fresh \ {o}, lost' = lost, deleted' = deleted, result' = result,
           cleaning' = cleaning
    PROVE  /\ Inv'
           /\ ObjectOf(k)' = o
           /\ \A l \in Keys : l # k => ObjectOf(l)' = ObjectOf(l)
<1> DEFINE b == Hash[k]
           e == [key |-> k, ptr |-> o]
<1>1. /\ ent \in [Buckets -> Seq(Entries)] /\ b \in Buckets /\ ent[b] \in Seq(Entries)
      /\ Len(ent[b]) \in Nat /\ o \in Objects /\ e \in Entries
  <2>1. ent \in [Buckets -> Seq(Entries)] /\ o \in Objects /\ b \in Buckets
    BY DEF Inv, TypeOK
  <2>2. ent[b] \in Seq(Entries)
    BY <2>1
  <2>3. e \in Entries
    BY <2>1 DEF Entries
  <2> QED
    BY <2>1, <2>2, <2>3
<1>2. /\ ent'[b] = <<e>> \o ent[b]
      /\ \A c \in Buckets : c # b => ent'[c] = ent[c]
  BY <1>1
<1>3. /\ ent'[b] \in Seq(Entries) /\ Len(ent'[b]) = Len(ent[b]) + 1 /\ ent'[b][1] = e
      /\ \A j \in 1 .. Len(ent[b]) : ent'[b][j + 1] = ent[b][j]
  <2>1. /\ <<e>> \o ent[b] \in Seq(Entries)
        /\ Len(<<e>> \o ent[b]) = Len(ent[b]) + 1
        /\ (<<e>> \o ent[b])[1] = e
        /\ \A j \in 1 .. Len(ent[b]) : (<<e>> \o ent[b])[j + 1] = ent[b][j]
    BY <1>1, Consed
  <2> QED
    BY <1>2, <2>1
<1> DEFINE New(c, j) == c = b /\ j = 1
           Old(c, j) == IF c = b THEN j - 1 ELSE j
<1> HIDE DEF b, e
<1>4. ASSUME NEW c \in Buckets, NEW j \in 1 .. Len(ent'[c]), ~New(c, j)
      PROVE  Old(c, j) \in 1 .. Len(ent[c]) /\ ent'[c][j] = ent[c][Old(c, j)]
  <2>1. CASE c = b
    <3>1. j \in Int /\ j - 1 \in 1 .. Len(ent[b]) /\ (j - 1) + 1 = j
      BY <1>1, <1>3, <1>4, <2>1
    <3> QED
      BY <1>3, <2>1, <3>1
  <2>2. CASE c # b
    BY <1>2, <2>2
  <2> QED
    BY <2>1, <2>2
<1>5. ASSUME NEW c \in Buckets, NEW j \in 1 .. Len(ent[c])
      PROVE  \E h \in 1 .. Len(ent'[c]) : ~New(c, h) /\ Old(c, h) = j
  <2>1. CASE c = b
    <3>1. j \in Int /\ j + 1 \in 1 .. Len(ent'[c]) /\ ~New(c, j + 1) /\ Old(c, j + 1) = j
      BY <1>1, <1>3, <2>1
    <3> QED
      BY <3>1
  <2>2. CASE c # b
    BY <1>2, <2>2
  <2> QED
    BY <2>1, <2>2
<1>6. ASSUME NEW c \in Buckets, NEW j \in 1 .. Len(ent'[c]), NEW h \in 1 .. Len(ent'[c]),
             Old(c, j) = Old(c, h)
      PROVE  j = h
  BY <1>6, <1>1, <1>2, <1>3
<1>7. TypeOK'
  <2>1. ASSUME NEW c \in Buckets, NEW j \in 1 .. Len(ent'[c])
        PROVE  Hash[ent'[c][j].key] = c
    <3>1. CASE New(c, j)
      BY <3>1, <1>3 DEF e, b
    <3>2. CASE ~New(c, j)
      BY <3>2, <1>4 DEF Inv, TypeOK
    <3> QED
      BY <3>1, <3>2
  <2>2. ent' \in [Buckets -> Seq(Entries)]
    BY <1>1, <1>3 DEF b, e
  <2> QED
    BY <2>1, <2>2 DEF Inv, TypeOK
<1>8. ASSUME NEW l \in Keys, NEW j \in Matches(l)'
      PROVE  IF l = k THEN New(b, j)
             ELSE /\ ~New(Hash[l], j)
                  /\ Old(Hash[l], j) \in Matches(l) /\ Chain(l)'[j] = Chain(l)[Old(Hash[l], j)]
  <2>1. Hash[l] \in Buckets /\ j \in 1 .. Len(ent'[Hash[l]]) /\ ent'[Hash[l]][j].key = l
    BY DEF Matches, Chain
  <2>2. CASE New(Hash[l], j)
    <3>1. l = k
      BY <2>1, <2>2, <1>3 DEF e
    <3> QED
      BY <3>1, <2>2 DEF b
  <2>3. CASE ~New(Hash[l], j)
    <3>1. /\ Old(Hash[l], j) \in 1 .. Len(ent[Hash[l]])
          /\ ent'[Hash[l]][j] = ent[Hash[l]][Old(Hash[l], j)]
      BY <2>1, <2>3, <1>4
    <3>2. Old(Hash[l], j) \in Matches(l)
      <4> HIDE DEF Old
      <4> QED
        BY <2>1, <3>1 DEF Matches, Chain
    <3> QED
      BY <2>3, <3>1, <3>2 DEF Chain
  <2> QED
    BY <2>2, <2>3
<1>9. OneEntryPerKey'
  <2> SUFFICES ASSUME NEW l \in Keys, NEW j \in Matches(l)', NEW h \in Matches(l)'
               PROVE  j = h
    BY DEF OneEntryPerKey
  <2>1. CASE l = k
    BY <1>8, <2>1
  <2>2. CASE l # k
    <3>1. Old(Hash[l], j) = Old(Hash[l], h)
      BY <1>8, <2>2 DEF Inv, OneEntryPerKey
    <3>2. Hash[l] \in Buckets /\ j \in 1 .. Len(ent'[Hash[l]]) /\ h \in 1 .. Len(ent'[Hash[l]])
      BY DEF Matches, Chain
    <3> QED
      BY <1>6, <3>1, <3>2
  <2> QED
    BY <2>1, <2>2
<1>10. ASSUME NEW p \in Objects
       PROVE  Kept(p)' <=> Kept(p) \/ p = o
  <2>1. ASSUME Kept(p)'  PROVE Kept(p) \/ p = o
    <3>1. PICK c \in Buckets : \E j \in 1 .. Len(ent'[c]) : ent'[c][j].ptr = p
      BY <2>1 DEF Kept
    <3>2. PICK j \in 1 .. Len(ent'[c]) : ent'[c][j].ptr = p
      BY <3>1
    <3>3. CASE New(c, j)
      BY <3>2, <3>3, <1>3 DEF e
    <3>4. CASE ~New(c, j)
      BY <3>2, <3>4, <1>4 DEF Kept
    <3> QED
      BY <3>3, <3>4
  <2>2. ASSUME Kept(p)  PROVE Kept(p)'
    <3>1. PICK c \in Buckets : \E j \in 1 .. Len(ent[c]) : ent[c][j].ptr = p
      BY <2>2 DEF Kept
    <3>2. PICK j \in 1 .. Len(ent[c]) : ent[c][j].ptr = p
      BY <3>1
    <3>3. PICK h \in 1 .. Len(ent'[c]) : ~New(c, h) /\ Old(c, h) = j
      BY <1>5
    <3>4. ent'[c][h].ptr = p
      <4>1. ent'[c][h] = ent[c][Old(c, h)]
        BY <1>4, <3>3
      <4> QED
        BY <3>2, <3>3, <4>1
    <3> QED
      BY <3>4 DEF Kept
  <2>3. ASSUME p = o  PROVE Kept(p)'
    <3>1. 1 \in 1 .. Len(ent'[b]) /\ ent'[b][1].ptr = o
      BY <1>1, <1>3 DEF e
    <3> QED
      BY <1>1, <2>3, <3>1 DEF Kept
  <2> QED
    BY <2>1, <2>2, <2>3
<1>11. OneFate'
  <2>1. ~Kept(o) /\ o \notin lost /\ o \notin deleted
    BY <1>1 DEF Inv, OneFate
  <2>2. \A p \in Objects :
          /\ p \in fresh' => p \notin lost' /\ p \notin deleted' /\ ~Kept(p)'
          /\ p \in lost' => p \notin deleted' /\ ~Kept(p)'
          /\ p \in deleted' => ~Kept(p)'
          /\ p \in fresh' \/ p \in lost' \/ p \in deleted' \/ Kept(p)'
    BY <1>10, <2>1 DEF Inv, OneFate
  <2>3. ASSUME NEW c \in Buckets, NEW j \in 1 .. Len(ent'[c]), ~New(c, j)
        PROVE  ent'[c][j].ptr # o
    BY <2>1, <2>3, <1>4 DEF Kept
  <2>4. ASSUME NEW c \in Buckets, NEW d \in Buckets, NEW j \in 1 .. Len(ent'[c]),
               NEW h \in 1 .. Len(ent'[d]), ent'[c][j].ptr = ent'[d][h].ptr
        PROVE  c = d /\ j = h
    <3>1. CASE New(c, j) \/ New(d, h)
      <4>1. ent'[b][1].ptr = o
        BY <1>3 DEF e
      <4> QED
        BY <2>3, <2>4, <3>1, <4>1
    <3>2. CASE ~New(c, j) /\ ~New(d, h)
      <4>1. /\ Old(c, j) \in 1 .. Len(ent[c]) /\ ent'[c][j] = ent[c][Old(c, j)]
            /\ Old(d, h) \in 1 .. Len(ent[d]) /\ ent'[d][h] = ent[d][Old(d, h)]
        BY <1>4, <3>2
      <4>2. c = d /\ Old(c, j) = Old(d, h)
        <5> HIDE DEF Old
        <5>1. ent[c][Old(c, j)].ptr = ent[d][Old(d, h)].ptr
          BY <2>4, <4>1
        <5> QED
          BY <4>1, <5>1 DEF Inv, OneFate
      <4> QED
        BY <4>2, <1>6
    <3> QED
      BY <3>1, <3>2
  <2> QED
    BY <2>2, <2>4 DEF OneFate
<1>12. ASSUME NEW l \in Keys, NEW h \in Matches(l)'
       PROVE  ObjectOf(l)' = Chain(l)'[h].ptr
  <2>1. \A x \in Matches(l)' : x = h
    BY <1>9 DEF OneEntryPerKey
  <2>2. Matches(l)' = {h} /\ h \in Int
    BY <2>1 DEF Matches
  <2>3. First(l)' = h
    BY <2>2 DEF First
  <2> QED
    BY <2>2, <2>3 DEF ObjectOf
<1>13. ObjectOf(k)' = o
  <2>1. 1 \in 1 .. Len(ent'[b]) /\ ent'[b][1].key = k /\ ent'[b][1].ptr = o
    BY <1>1, <1>3 DEF e
  <2>2. 1 \in Matches(k)'
    BY <2>1 DEF Matches, Chain, b
  <2> QED
    BY <2>1, <2>2, <1>12 DEF Chain, b
<1>14. ASSUME NEW l \in Keys, l # k  PROVE ObjectOf(l)' = ObjectOf(l)
  <2>1. CASE Matches(l) = {}
    <3>1. Matches(l)' = {}
      BY <2>1, <1>8, <1>14
    <3> QED
      BY <2>1, <3>1 DEF ObjectOf
  <2>2. ASSUME NEW j \in Matches(l)  PROVE ObjectOf(l)' = ObjectOf(l)
    <3>1. Hash[l] \in Buckets /\ j \in 1 .. Len(ent[Hash[l]]) /\ ent[Hash[l]][j].key = l
      BY DEF Matches, Chain
    <3>2. PICK h \in 1 .. Len(ent'[Hash[l]]) : ~New(Hash[l], h) /\ Old(Hash[l], h) = j
      BY <3>1, <1>5
    <3>3. ent'[Hash[l]][h] = ent[Hash[l]][j]
      BY <3>1, <3>2, <1>4
    <3>4. h \in Matches(l)'
      BY <3>1, <3>2, <3>3 DEF Matches, Chain
    <3> QED
      BY <3>3, <3>4, <1>12, <2>2, LookupFinds DEF Chain
  <2> QED
    BY <2>1, <2>2
<1> QED
  BY <1>7, <1>9, <1>11, <1>13, <1>14 DEF Inv

------------------------------------------------------------------------------
(* What the steps do to the chains: nothing, or one of the two above.       *)

(* The steps that leave the chains alone.                                   *)
LEMMA SameChains ==
    ASSUME Inv, UNCHANGED <<ent, deleted>>, TypeOK', OneFate'
    PROVE  Inv' /\ \A k \in Keys : ObjectOf(k)' = ObjectOf(k)
<1>1. \A k \in Keys : Matches(k)' = Matches(k) /\ Chain(k)' = Chain(k)
  BY DEF Matches, Chain
<1>2. OneEntryPerKey'
  BY <1>1 DEF Inv, OneEntryPerKey
<1>3. \A k \in Keys : First(k)' = First(k)
  BY <1>1 DEF First
<1>4. \A k \in Keys : ObjectOf(k)' = ObjectOf(k)
  BY <1>1, <1>3 DEF ObjectOf
<1> QED
  BY <1>2, <1>4 DEF Inv

(* An object refused.                                                       *)
LEMMA Refuse ==
    ASSUME Inv, NEW o \in fresh, fresh' = fresh \ {o}, lost' = lost \cup {o},
           UNCHANGED <<ent, deleted, result, cleaning>>
    PROVE  Inv' /\ \A k \in Keys : ObjectOf(k)' = ObjectOf(k)
<1>1. TypeOK'
  BY DEF Inv, TypeOK
<1>2. \A p \in Objects : Kept(p)' <=> Kept(p)
  BY DEF Kept
<1>3. OneFate'
  BY <1>2 DEF Inv, OneFate, TypeOK
<1> QED
  BY <1>1, <1>3, SameChains

(* A lookup returns what the map has.                                       *)
LEMMA LookupObject ==
    ASSUME Inv, NEW k \in Keys, LookupKey(k)
    PROVE  /\ Inv' /\ result' = ObjectOf(k)
           /\ \A l \in Keys : ObjectOf(l)' = ObjectOf(l)
<1>1. result' = ObjectOf(k) /\ UNCHANGED <<ent, fresh, lost, deleted, cleaning>>
  BY DEF LookupKey, ObjectOf
<1>2. ObjectOf(k) \in Objects \cup {None}
  <2>1. CASE Matches(k) = {}
    BY <2>1 DEF ObjectOf
  <2>2. ASSUME NEW i \in Matches(k)  PROVE ObjectOf(k) \in Objects
    <3>1. ObjectOf(k) = Chain(k)[i].ptr
      BY LookupFinds
    <3>2. Hash[k] \in Buckets /\ i \in 1 .. Len(ent[Hash[k]])
      BY DEF Matches, Chain
    <3>3. ent[Hash[k]][i] \in Entries
      BY <3>2, EntryMatches
    <3> QED
      BY <3>1, <3>3 DEF Chain, Entries
  <2> QED
    BY <2>1, <2>2
<1>3. TypeOK'
  BY <1>1, <1>2 DEF Inv, TypeOK
<1>4. OneFate'
  <2>1. \A p \in Objects : Kept(p)' <=> Kept(p)
    BY <1>1 DEF Kept
  <2> QED
    BY <1>1, <2>1 DEF Inv, OneFate
<1> QED
  BY <1>1, <1>3, <1>4, SameChains

------------------------------------------------------------------------------
(* Chains are empty at first.                                               *)
LEMMA InitInv == Init => Inv
<1> SUFFICES ASSUME Init  PROVE Inv
  OBVIOUS
<1>1. \A b \in Buckets : ent[b] = <<>> /\ Len(ent[b]) = 0
  BY DEF Init
<1>2. TypeOK
  <2>1. ent \in [Buckets -> Seq(Entries)]
    BY DEF Init
  <2>2. \A b \in Buckets : \A i \in 1 .. Len(ent[b]) : Hash[ent[b][i].key] = b
    BY <1>1
  <2>3. fresh = Objects /\ lost = {} /\ deleted = {} /\ result = None /\ cleaning = FALSE
    BY DEF Init
  <2> QED
    BY <2>1, <2>2, <2>3 DEF TypeOK
<1>3. OneEntryPerKey
  BY <1>1 DEF OneEntryPerKey, Matches, Chain
<1>4. OneFate
  BY <1>1 DEF Init, OneFate, Kept
<1> QED
  BY <1>2, <1>3, <1>4 DEF Inv

(* Every step keeps the invariant and is a step of the map, or none.        *)
LEMMA StepOfMap ==
    ASSUME Inv, [Next]_vars
    PROVE  Inv' /\ [Map!Next]_(Map!vars)
<1>1. ASSUME NEW k \in Keys, LookupKey(k)  PROVE Inv' /\ Map!LookupKey(k)
  BY <1>1, LookupObject DEF LookupKey, Map!LookupKey
<1>2. ASSUME NEW k \in Keys, RemoveKey(k)  PROVE Inv' /\ Map!RemoveKey(k)
  <2> DEFINE b == Hash[k]
             i == First(k)
  <2>1. PICK j \in Matches(k) : TRUE
    BY <1>2 DEF RemoveKey
  <2>2. i = j /\ ObjectOf(k) = Chain(k)[j].ptr
    BY <2>1, LookupFinds
  <2>3. b \in Buckets /\ j \in 1 .. Len(ent[b]) /\ k = ent[b][j].key
    BY <2>1 DEF Matches, Chain
  <2>4. /\ ent' = [ent EXCEPT ![b] = Without(@, j)]
        /\ deleted' = deleted \cup {ent[b][j].ptr}
        /\ fresh' = fresh /\ lost' = lost /\ result' = result /\ cleaning' \in BOOLEAN
    BY <1>2, <2>2 DEF RemoveKey, Chain, Inv, TypeOK
  <2>5. /\ Inv' /\ ObjectOf(k)' = None
        /\ \A l \in Keys : l # k => ObjectOf(l)' = ObjectOf(l)
    BY <2>3, <2>4, Unlink
  <2>6. ObjectOf(k) = ent[b][j].ptr /\ ObjectOf(k) # None
    BY <2>2, <2>3, EntryMatches DEF Chain, Entries
  <2> QED
    BY <2>4, <2>5, <2>6 DEF Map!RemoveKey
<1>3. ASSUME NEW k \in Keys, NEW o \in Objects, AppendKey(k, o)
      PROVE  Inv' /\ (Map!AppendKey(k, o) \/ UNCHANGED Map!vars)
  <2>1. CASE Matches(k) # {}
    <3>1. /\ o \in fresh /\ fresh' = fresh \ {o} /\ lost' = lost \cup {o}
          /\ UNCHANGED <<ent, deleted, result, cleaning>>
      BY <1>3, <2>1 DEF AppendKey
    <3> QED
      BY <3>1, Refuse DEF Map!vars
  <2>2. CASE Matches(k) = {}
    <3>1. /\ o \in fresh /\ fresh' = fresh \ {o} /\ UNCHANGED lost
          /\ ent' = [ent EXCEPT ![Hash[k]] = <<[key |-> k, ptr |-> o]>> \o @]
          /\ UNCHANGED <<deleted, result, cleaning>>
      BY <1>3, <2>2 DEF AppendKey
    <3>2. Inv' /\ ObjectOf(k)' = o /\ \A l \in Keys : l # k => ObjectOf(l)' = ObjectOf(l)
      BY <3>1, <2>2, Link
    <3>3. ObjectOf(k) = None /\ o \notin deleted
      BY <2>2, <3>1 DEF ObjectOf, Inv, OneFate
    <3>4. ASSUME NEW l \in Keys  PROVE ObjectOf(l) # o
      <4>1. CASE Matches(l) = {}
        BY <4>1 DEF ObjectOf
      <4>2. ASSUME NEW j \in Matches(l)  PROVE ObjectOf(l) # o
        <5>1. Hash[l] \in Buckets /\ j \in 1 .. Len(ent[Hash[l]])
          BY DEF Matches, Chain
        <5>2. ObjectOf(l) = ent[Hash[l]][j].ptr
          BY <4>2, LookupFinds DEF Chain
        <5>3. ~Kept(o)
          BY <3>1 DEF Inv, OneFate
        <5> QED
          BY <5>1, <5>2, <5>3 DEF Kept
      <4> QED
        BY <4>1, <4>2
    <3> QED
      BY <3>1, <3>2, <3>3, <3>4 DEF Map!AppendKey
  <2> QED
    BY <2>1, <2>2
<1>4. ASSUME NEW b \in Buckets, Clean(b)  PROVE Inv' /\ \E k \in Keys : Map!RemoveKey(k)
  <2>1. ent[b] \in Seq(Entries) /\ ent[b] # <<>> /\ ent \in [Buckets -> Seq(Entries)]
    BY <1>4 DEF Clean, Inv, TypeOK
  <2>2. 1 \in 1 .. Len(ent[b]) /\ Tail(ent[b]) = Without(ent[b], 1) /\ Head(ent[b]) = ent[b][1]
    BY <2>1, TailIsWithout
  <2> DEFINE k == ent[b][1].key
  <2>3. k \in Keys /\ Hash[k] = b /\ 1 \in Matches(k)
    BY <2>2, EntryMatches DEF Entries
  <2>4. /\ ent' = [ent EXCEPT ![b] = Without(@, 1)]
        /\ deleted' = deleted \cup {ent[b][1].ptr}
        /\ fresh' = fresh /\ lost' = lost /\ result' = result /\ cleaning' \in BOOLEAN
    BY <1>4, <2>1, <2>2 DEF Clean
  <2>5. PICK key \in Keys : key = k
    BY <2>3
  <2>6. /\ Inv' /\ ObjectOf(key)' = None
        /\ \A l \in Keys : l # key => ObjectOf(l)' = ObjectOf(l)
    <3> HIDE DEF k
    <3>1. key = ent[b][1].key
      BY <2>5 DEF k
    <3> QED
      BY <2>2, <2>4, <3>1, Unlink
  <2>7. ObjectOf(key) = ent[b][1].ptr /\ ObjectOf(key) # None
    <3>1. ObjectOf(key) = Chain(key)[1].ptr
      BY <2>3, <2>5, LookupFinds
    <3> QED
      BY <2>2, <2>3, <2>5, <3>1, EntryMatches DEF Chain, Entries
  <2>8. Map!RemoveKey(key)
    BY <2>4, <2>6, <2>7 DEF Map!RemoveKey
  <2> QED
    BY <2>6, <2>8
<1>5. ASSUME Restart \/ UNCHANGED vars  PROVE Inv' /\ UNCHANGED Map!vars
  <2>1. UNCHANGED <<ent, fresh, lost, deleted, result>> /\ cleaning' \in BOOLEAN
    BY <1>5 DEF Restart, vars, Inv, TypeOK
  <2>2. TypeOK'
    BY <2>1 DEF Inv, TypeOK
  <2>3. OneFate'
    <3>1. \A p \in Objects : Kept(p)' <=> Kept(p)
      BY <2>1 DEF Kept
    <3> QED
      BY <2>1, <3>1 DEF Inv, OneFate
  <2> QED
    BY <2>1, <2>2, <2>3, SameChains DEF Map!vars
<1> QED
  BY <1>1, <1>2, <1>3, <1>4, <1>5 DEF Next, Map!Next

------------------------------------------------------------------------------
(* The chains keep their form, no key has two entries and no object has two *)
(* fates, whatever the names and their hashes.                              *)
THEOREM DictSound == Spec => []Inv
<1>1. Inv /\ [Next]_vars => Inv'
  BY StepOfMap
<1> QED
  BY InitInv, <1>1, PTL DEF Spec

(* Chains hold entries, and each entry is in the chain of its key.          *)
THEOREM DictTyped == Spec => []TypeOK
<1>1. Inv => TypeOK
  BY DEF Inv
<1> QED
  BY DictSound, <1>1, PTL

(* No key has two entries.                                                  *)
THEOREM EntriesUnique == Spec => []OneEntryPerKey
<1>1. Inv => OneEntryPerKey
  BY DEF Inv
<1> QED
  BY DictSound, <1>1, PTL

(* An object that was accepted is deleted once; none is deleted twice.      *)
THEOREM FatesUnique == Spec => []OneFate
<1>1. Inv => OneFate
  BY DEF Inv
<1> QED
  BY DictSound, <1>1, PTL

(* The chains implement ObjectMap.                                          *)
THEOREM DictIsMap == Spec => ImplementsMap
<1>1. Init => Map!Init
  BY DEF Init, Map!Init, ObjectOf, Matches, Chain
<1>2. Inv /\ [Next]_vars => [Map!Next]_(Map!vars)
  BY StepOfMap
<1> QED
  BY <1>1, <1>2, DictSound, PTL DEF Spec, ImplementsMap, Map!Spec
==============================================================================
